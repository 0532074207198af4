---------------------------- MODULE InvoiceProofs ----------------------------
(***************************************************************************)
(* Theorems about the invoice contract, for every set of ids, SMEs and     *)
(* debtors and every value of the contract's parameters.                   *)
(*                                                                         *)
(* Nineteen handlers touch an invoice, but they do only nine things to it. *)
(* StepCases sorts the steps accordingly, once; every invariant is then    *)
(* preserved kind by kind.                                                 *)
(***************************************************************************)
EXTENDS Invoice, DataLemmas, TLAPS

-----------------------------------------------------------------------------
(* Kinds of steps *)

\* Time passes or a switch is thrown.
Idles ==
    /\ now' = now \/ (now < MaxTime /\ now' = now + 1)
    /\ UNCHANGED <<count, inv, dispute, outstanding, exposure, stamps, active, cleaned,
                   ownerIdx, debtorIdx>>

\* r is the record of a new invoice.
NewRecord(r, s, d, a) ==
    /\ r.status \in {"Pending", "AwaitingVerification"}
    /\ r.owner = s /\ r.debtor = d /\ r.amount = a /\ r.created = now

Creates(s, d, a) ==
    /\ count + 1 \in Ids /\ inv[count + 1].status = "Absent"
    /\ FreshCount(s) < DailyLimit
    /\ NewRecord(inv'[count + 1], s, d, a)
    /\ \A j \in Ids \ {count + 1} : inv'[j] = inv[j]
    /\ count' = count + 1 /\ active' = active + 1
    /\ exposure' = [exposure EXCEPT ![d] = @ + a]
    /\ stamps' = [stamps EXCEPT ![s] = [Fresh(s) EXCEPT ![now] = @ + 1]]
    /\ ownerIdx' = ownerIdx \cup {count + 1} /\ debtorIdx' = debtorIdx \cup {count + 1}
    /\ UNCHANGED <<now, dispute, outstanding, cleaned>>

\* Some entries are removed; their index entries may go or stay.
Removes(gone) ==
    /\ \A i \in gone : inv[i].status \in Terminal /\ inv'[i].status = "Absent"
    /\ \A j \in Ids \ gone : /\ inv'[j] = inv[j]
                             /\ j \in ownerIdx => j \in ownerIdx'
                             /\ j \in debtorIdx => j \in debtorIdx'
    /\ cleaned' = cleaned + Cardinality(gone)
    /\ UNCHANGED <<now, count, dispute, outstanding, exposure, active, stamps>>

\* What every other step leaves alone: it is about one stored invoice, and
\* never changes whose it is, how much it is about and when it was created.
SameDeal(r, q) ==
    q.owner = r.owner /\ q.debtor = r.debtor /\ q.amount = r.amount /\ q.created = r.created

Touches(i) ==
    /\ SameDeal(inv[i], inv'[i])
    /\ \A j \in Ids \ {i} : /\ inv'[j] = inv[j] /\ dispute'[j] = dispute[j]
                            /\ j \in ownerIdx => j \in ownerIdx'
                            /\ j \in debtorIdx => j \in debtorIdx'
    /\ UNCHANGED <<now, count, cleaned, stamps>>

\* Verification, a dispute decided for the SME, an extension, a grace
\* period, a further funding: the invoice stays open and is not funded anew.
Advances(i) ==
    /\ \/ inv[i].status = "AwaitingVerification" /\ inv'[i].status \in {"Verified", "Disputed"}
       \/ inv[i].status = "Disputed" /\ inv'[i].status = "Verified"
       \/ inv[i].status = "Funded" /\ inv'[i].status = "Funded"
    /\ inv'[i].due >= inv[i].due
    /\ UNCHANGED <<dispute, outstanding, exposure, active, ownerIdx, debtorIdx>>

\* An unfunded invoice is cancelled or expires.
Withdraws(i) ==
    /\ inv[i].status \in {"Pending", "AwaitingVerification", "Verified", "Disputed"}
    /\ inv'[i].status \in {"Cancelled", "Expired"}
    /\ inv'[i].due = inv[i].due
    /\ exposure' = exposure \/ DecreaseDebtorExposure(i)
    /\ DecrementActive
    /\ UNCHANGED <<dispute, outstanding>>

\* Repayment, default, cancellation by the pool, a dispute lost by the SME.
Closes(i) ==
    /\ inv[i].status \in {"Funded", "Disputed"}
    /\ inv'[i].status \in {"Paid", "Defaulted", "Cancelled"}
    /\ inv'[i].status = "Defaulted" => now >= inv[i].due
    /\ inv'[i].due = inv[i].due
    /\ CloseFunded(i)
    /\ UNCHANGED <<dispute, ownerIdx>>

Funds(i) ==
    /\ inv[i].status \in {"Pending", "Verified"} /\ inv'[i].status = "Funded"
    /\ inv'[i].due = inv[i].due
    /\ outstanding' = [outstanding EXCEPT ![inv[i].owner] = @ + inv[i].amount]
    /\ UNCHANGED <<dispute, exposure, active, ownerIdx, debtorIdx>>

Raises(i) ==
    /\ inv[i].status = "Defaulted" /\ inv'[i].status = "Disputed"
    /\ inv'[i].due = inv[i].due
    /\ dispute[i] = "None" /\ dispute'[i] = "Pending"
    /\ UNCHANGED <<outstanding, exposure, active, ownerIdx, debtorIdx>>

Resolves(i) ==
    /\ inv[i].status = "Disputed" /\ dispute[i] = "Pending"
    /\ dispute'[i] \in Resolutions
    /\ \/ inv'[i].status = "Funded" /\ inv'[i].due >= now
       \/ inv'[i].status = "Defaulted" /\ inv'[i].due = inv[i].due
    /\ UNCHANGED <<outstanding, exposure, active, ownerIdx, debtorIdx>>

Moves(i) ==
    /\ Touches(i)
    /\ Advances(i) \/ Withdraws(i) \/ Closes(i) \/ Funds(i) \/ Raises(i) \/ Resolves(i)

Step ==
    \/ Idles
    \/ \E s \in SMEs, d \in Debtors, a \in Amounts : Creates(s, d, a)
    \/ \E gone \in SUBSET Ids : Removes(gone)
    \/ \E i \in Ids : Moves(i)

-----------------------------------------------------------------------------
(* Every step is of one of these kinds and keeps the types. *)

LEMMA AmountIsPositive == ASSUME NEW a \in Amounts PROVE a \in Nat /\ a \in Int /\ a > 0
<1>1. a \in Nat \ {0}
    BY InvoiceAssumption
<1> QED
    BY <1>1

LEMMA NoInvoiceType == NoInvoice \in InvoiceRecord /\ NoInvoice.status = "Absent"
<1>1. /\ (CHOOSE s \in SMEs : TRUE) \in SMEs /\ (CHOOSE d \in Debtors : TRUE) \in Debtors
      /\ (CHOOSE a \in Amounts : TRUE) \in Amounts
    BY InvoiceAssumption
<1> DEFINE s0 == CHOOSE s \in SMEs : TRUE
           d0 == CHOOSE d \in Debtors : TRUE
           a0 == CHOOSE a \in Amounts : TRUE
<1> HIDE DEF s0, d0, a0
<1>2. NoInvoice =
    [status |-> "Absent", owner |-> s0, debtor |-> d0, amount |-> a0,
     created |-> 0, original |-> 0, due |-> 0, pending |-> 0,
     grace |-> GlobalGrace, verified |-> FALSE, disputedAt |-> 0, funded |-> 0]
    BY Zenon DEF NoInvoice, s0, d0, a0
<1>3. s0 \in SMEs /\ d0 \in Debtors /\ a0 \in Amounts
    BY <1>1 DEF s0, d0, a0
<1> QED
    BY <1>2, <1>3, InvoiceAssumption DEF InvoiceRecord, Status

\* The slot of i takes the record q.
LEMMA Written ==
    ASSUME inv \in [Ids -> InvoiceRecord], NEW i \in Ids, NEW q \in InvoiceRecord,
           inv' = [inv EXCEPT ![i] = q]
    PROVE  /\ inv' \in [Ids -> InvoiceRecord]
           /\ inv'[i] = q /\ \A j \in Ids \ {i} : inv'[j] = inv[j]
OBVIOUS

\* A handler that writes some fields of a record writes a record.
LEMMA RecordFields ==
    ASSUME NEW r \in InvoiceRecord
    PROVE  /\ r.status \in Status /\ r.owner \in SMEs /\ r.debtor \in Debtors /\ r.amount \in Amounts
           /\ r.created \in Nat /\ r.original \in Nat /\ r.due \in Nat /\ r.pending \in Nat
           /\ r.grace \in Grace /\ r.verified \in BOOLEAN /\ r.disputedAt \in Nat /\ r.funded \in Nat
           /\ \A s \in Status : [r EXCEPT !.status = s] \in InvoiceRecord
           /\ \A s \in Status : [r EXCEPT !.status = s, !.verified = TRUE] \in InvoiceRecord
           /\ \A s \in Status, t \in Nat : [r EXCEPT !.status = s, !.disputedAt = t] \in InvoiceRecord
           /\ \A s \in Status, n \in Nat : [r EXCEPT !.status = s, !.funded = n] \in InvoiceRecord
           /\ \A s \in Status, t \in Nat : [r EXCEPT !.status = s, !.due = t] \in InvoiceRecord
           /\ \A n \in Nat : [r EXCEPT !.funded = n] \in InvoiceRecord
           /\ \A n \in Nat : [r EXCEPT !.pending = n] \in InvoiceRecord
           /\ \A n \in Nat, m \in Nat : [r EXCEPT !.due = n, !.pending = m] \in InvoiceRecord
           /\ \A g \in Grace : [r EXCEPT !.grace = g] \in InvoiceRecord
BY DEF InvoiceRecord

\* What a handler leaves behind that writes the record q for i and whose
\* other writes are plain.
LEMMA OneWrite ==
    ASSUME TypeOK, NEW i \in Ids, NEW q \in InvoiceRecord, SameDeal(inv[i], q),
           inv' = [inv EXCEPT ![i] = q],
           UNCHANGED <<config, count, stamps, cleaned>>,
           dispute' \in [Ids -> Outcome], \A j \in Ids \ {i} : dispute'[j] = dispute[j],
           outstanding' \in [SMEs -> Int], exposure' \in [Debtors -> Int], active' \in Nat,
           ownerIdx' \in {ownerIdx, ownerIdx \ {i}}, debtorIdx' \in {debtorIdx, debtorIdx \ {i}}
    PROVE  TypeOK' /\ Touches(i) /\ inv'[i] = q
<1>1. /\ inv' \in [Ids -> InvoiceRecord]
      /\ inv'[i] = q /\ \A j \in Ids \ {i} : inv'[j] = inv[j]
    BY Written DEF TypeOK
<1>2. TypeOK'
    BY <1>1 DEF TypeOK, config
<1>3. Touches(i)
    BY <1>1 DEF Touches, config
<1> QED
    BY <1>1, <1>2, <1>3

LEMMA CounterTypes ==
    ASSUME TypeOK, NEW i \in Ids
    PROVE  /\ UNCHANGED counters => outstanding' = outstanding /\ exposure' = exposure /\ active' = active
           /\ DecreaseSmeOutstanding(i) => outstanding' \in [SMEs -> Int]
           /\ DecreaseDebtorExposure(i) => exposure' \in [Debtors -> Int]
           /\ DecrementActive => active' \in Nat
           /\ outstanding' = [outstanding EXCEPT ![inv[i].owner] = @ + inv[i].amount]
                 => outstanding' \in [SMEs -> Int]
<1>1. inv[i] \in InvoiceRecord
    BY DEF TypeOK
<1>2. inv[i].owner \in SMEs /\ inv[i].debtor \in Debtors /\ inv[i].amount \in Amounts
    BY <1>1, RecordFields
<1>3. inv[i].amount \in Int
    BY <1>2, AmountIsPositive
<1> QED
    BY <1>2, <1>3 DEF TypeOK, counters, DecreaseSmeOutstanding, DecreaseDebtorExposure, DecrementActive

LEMMA VerificationStep ==
    ASSUME TypeOK, NEW i \in Ids, NEW ok \in BOOLEAN, ApplyVerificationOutcome(i, ok)
    PROVE  TypeOK' /\ Moves(i)
<1> DEFINE r == inv[i]
           q == IF ok THEN [r EXCEPT !.status = "Verified", !.verified = TRUE]
                      ELSE [r EXCEPT !.status = "Disputed", !.disputedAt = now]
<1>0. r \in InvoiceRecord /\ now \in Nat
    BY DEF TypeOK
<1>1. q \in InvoiceRecord
    BY <1>0, RecordFields DEF Status
<1>2. SameDeal(r, q) /\ q.status \in {"Verified", "Disputed"} /\ q.due = r.due /\ q.due >= r.due
    BY <1>0 DEF SameDeal, InvoiceRecord
<1>3. inv' = [inv EXCEPT ![i] = q]
    BY DEF ApplyVerificationOutcome
<1>4. /\ UNCHANGED <<config, count, dispute, counters, stamps, cleaned, indices>>
      /\ r.status = "AwaitingVerification"
    BY DEF ApplyVerificationOutcome
<1> HIDE DEF q
<1>5. TypeOK' /\ Touches(i) /\ inv'[i] = q
    BY <1>1, <1>2, <1>3, <1>4, OneWrite DEF TypeOK, counters, indices
<1>6. Advances(i)
    BY <1>2, <1>4, <1>5 DEF Advances, counters, indices
<1> QED
    BY <1>5, <1>6 DEF Moves

\* The withdrawals share their proof.
LEMMA WithdrawalStep ==
    ASSUME TypeOK, NEW i \in Ids, NEW s \in {"Cancelled", "Expired"}, SetStatus(i, s),
           inv[i].status \in {"Pending", "AwaitingVerification", "Verified", "Disputed"},
           ownerIdx' = ownerIdx \ {i}, debtorIdx' = debtorIdx \ {i},
           exposure' = exposure \/ DecreaseDebtorExposure(i), DecrementActive,
           UNCHANGED <<config, count, dispute, outstanding, stamps, cleaned>>
    PROVE  TypeOK' /\ Moves(i)
<1> DEFINE r == inv[i]
           q == [r EXCEPT !.status = s]
<1>0. r \in InvoiceRecord
    BY DEF TypeOK
<1>1. q \in InvoiceRecord
    BY <1>0, RecordFields DEF Status
<1>2. SameDeal(r, q) /\ q.status = s /\ q.due = r.due
    BY <1>0 DEF SameDeal, InvoiceRecord
<1>3. inv' = [inv EXCEPT ![i] = q]
    BY DEF SetStatus
<1> HIDE DEF q
<1>4. exposure' \in [Debtors -> Int] /\ active' \in Nat
    BY CounterTypes DEF TypeOK
<1>5. TypeOK' /\ Touches(i) /\ inv'[i] = q
    BY <1>1, <1>2, <1>3, <1>4, OneWrite DEF TypeOK
<1>6. Withdraws(i)
    BY <1>2, <1>5 DEF Withdraws
<1> QED
    BY <1>5, <1>6 DEF Moves

LEMMA WithdrawalSteps ==
    ASSUME TypeOK, NEW i \in Ids,
           TimeoutVerification(i) \/ CheckExpiration(i) \/ \E r \in {"owner", "admin"} : CancelInvoice(i, r)
    PROVE  TypeOK' /\ Moves(i)
<1>1. CASE TimeoutVerification(i)
    BY <1>1, WithdrawalStep DEF TimeoutVerification
<1>2. CASE CheckExpiration(i)
    BY <1>2, WithdrawalStep DEF CheckExpiration, Lapsed
<1>3. ASSUME NEW r \in {"owner", "admin"}, CancelInvoice(i, r) PROVE TypeOK' /\ Moves(i)
    BY <1>3, WithdrawalStep DEF CancelInvoice
<1> QED
    BY <1>1, <1>2, <1>3

\* So do the closings.
LEMMA ClosingStep ==
    ASSUME TypeOK, NEW i \in Ids, NEW s \in {"Paid", "Defaulted", "Cancelled"}, SetStatus(i, s),
           inv[i].status \in {"Funded", "Disputed"},
           s = "Defaulted" => now >= inv[i].due,
           CloseFunded(i), ownerIdx' = ownerIdx, debtorIdx' \in {debtorIdx, debtorIdx \ {i}},
           UNCHANGED <<config, count, dispute, stamps, cleaned>>
    PROVE  TypeOK' /\ Moves(i)
<1> DEFINE r == inv[i]
           q == [r EXCEPT !.status = s]
<1>0. r \in InvoiceRecord
    BY DEF TypeOK
<1>1. q \in InvoiceRecord
    BY <1>0, RecordFields DEF Status
<1>2. SameDeal(r, q) /\ q.status = s /\ q.due = r.due
    BY <1>0 DEF SameDeal, InvoiceRecord
<1>3. inv' = [inv EXCEPT ![i] = q]
    BY DEF SetStatus
<1> HIDE DEF q
<1>4. outstanding' \in [SMEs -> Int] /\ exposure' \in [Debtors -> Int] /\ active' \in Nat
    BY CounterTypes DEF CloseFunded
<1>5. TypeOK' /\ Touches(i) /\ inv'[i] = q
    BY <1>1, <1>2, <1>3, <1>4, OneWrite DEF TypeOK
<1>6. Closes(i)
    BY <1>2, <1>5 DEF Closes
<1> QED
    BY <1>5, <1>6 DEF Moves

LEMMA ClosingSteps ==
    ASSUME TypeOK, NEW i \in Ids, MarkPaid(i) \/ MarkDefaulted(i) \/ MarkCancelled(i)
    PROVE  TypeOK' /\ Moves(i)
<1>1. CASE MarkPaid(i)
    BY <1>1, ClosingStep DEF MarkPaid
<1>2. CASE MarkDefaulted(i)
    <2>1. inv[i] \in InvoiceRecord /\ now \in Nat
        BY DEF TypeOK
    <2>2. inv[i].due \in Nat /\ inv[i].grace \in Nat
        BY <2>1, RecordFields, InvoiceAssumption
    <2>3. now >= inv[i].due
        BY <1>2, <2>1, <2>2 DEF MarkDefaulted, DefaultDeadline
    <2> QED
        BY <1>2, <2>3, ClosingStep DEF MarkDefaulted
<1>3. CASE MarkCancelled(i)
    BY <1>3, ClosingStep DEF MarkCancelled, indices
<1> QED
    BY <1>1, <1>2, <1>3

LEMMA DisputeStep ==
    ASSUME TypeOK, NEW i \in Ids, NEW role, NEW o \in Resolutions, ResolveDispute(i, role, o)
    PROVE  TypeOK' /\ Moves(i)
<1> DEFINE r == inv[i]
           q == [r EXCEPT !.status = "Verified", !.verified = TRUE]
<1>1. /\ UNCHANGED <<config, count, dispute, stamps, cleaned, indices>>
      /\ r.status = "Disputed"
    BY DEF ResolveDispute
<1>2. CASE inv' = [inv EXCEPT ![i].status = "Verified", ![i].verified = TRUE] /\ UNCHANGED counters
    <2>0. r \in InvoiceRecord
        BY DEF TypeOK
    <2>1. q \in InvoiceRecord /\ r.due \in Nat
        BY <2>0, RecordFields DEF Status
    <2>2. SameDeal(r, q) /\ q.status = "Verified" /\ q.due = r.due
        BY <2>0 DEF SameDeal, InvoiceRecord
    <2>3. inv' = [inv EXCEPT ![i] = q]
        BY <1>2
    <2> HIDE DEF q
    <2>4. TypeOK' /\ Touches(i) /\ inv'[i] = q
        BY <1>1, <1>2, <2>1, <2>2, <2>3, OneWrite DEF TypeOK, counters, indices
    <2>5. Advances(i)
        BY <1>1, <1>2, <2>1, <2>2, <2>4 DEF Advances, counters, indices
    <2> QED
        BY <2>4, <2>5 DEF Moves
<1>3. CASE SetStatus(i, "Cancelled") /\ CloseFunded(i)
    BY <1>1, <1>3, ClosingStep DEF indices
<1> QED
    BY <1>2, <1>3 DEF ResolveDispute

LEMMA FundingStep ==
    ASSUME TypeOK, NEW i \in Ids, NEW n \in Nat, BecomeFunded(i, n),
           inv[i].status \in {"Pending", "Verified"},
           UNCHANGED <<config, count, dispute, exposure, active, stamps, cleaned, indices>>
    PROVE  TypeOK' /\ Moves(i)
<1> DEFINE r == inv[i]
           q == [r EXCEPT !.status = "Funded", !.funded = n]
<1>0. r \in InvoiceRecord
    BY DEF TypeOK
<1>1. q \in InvoiceRecord
    BY <1>0, RecordFields DEF Status
<1>2. SameDeal(r, q) /\ q.status = "Funded" /\ q.due = r.due
    BY <1>0 DEF SameDeal, InvoiceRecord
<1>3. /\ inv' = [inv EXCEPT ![i] = q]
      /\ outstanding' = [outstanding EXCEPT ![inv[i].owner] = @ + inv[i].amount]
    BY DEF BecomeFunded
<1> HIDE DEF q
<1>4. outstanding' \in [SMEs -> Int]
    BY <1>3, CounterTypes
<1>5. TypeOK' /\ Touches(i) /\ inv'[i] = q
    BY <1>1, <1>2, <1>3, <1>4, OneWrite DEF TypeOK, indices
<1>6. Funds(i)
    BY <1>2, <1>3, <1>5 DEF Funds, indices
<1> QED
    BY <1>5, <1>6 DEF Moves

\* A Funded invoice gets another record, with a due date that is no earlier.
LEMMA FundedStep ==
    ASSUME TypeOK, NEW i \in Ids, NEW q \in InvoiceRecord, SameDeal(inv[i], q), q.due >= inv[i].due,
           inv[i].status = "Funded", q.status = "Funded", inv' = [inv EXCEPT ![i] = q],
           UNCHANGED <<config, count, dispute, counters, stamps, cleaned, indices>>
    PROVE  TypeOK' /\ Moves(i)
<1>1. TypeOK' /\ Touches(i) /\ inv'[i] = q
    BY OneWrite DEF TypeOK, counters, indices
<1>2. Advances(i)
    BY <1>1 DEF Advances, counters, indices
<1> QED
    BY <1>1, <1>2 DEF Moves

LEMMA FundingSteps ==
    ASSUME TypeOK, NEW i \in Ids, MarkFunded(i) \/ \E a \in Amounts : RecordFunding(i, a)
    PROVE  TypeOK' /\ Moves(i)
<1> DEFINE r == inv[i]
<1>0. r \in InvoiceRecord /\ r.funded \in Nat /\ r.due \in Nat /\ r.amount \in Nat
    <2>1. r \in InvoiceRecord
        BY DEF TypeOK
    <2> QED
        BY <2>1, RecordFields, AmountIsPositive
<1>1. CASE MarkFunded(i)
    BY <1>0, <1>1, FundingStep DEF MarkFunded
<1>2. ASSUME NEW a \in Amounts, RecordFunding(i, a) PROVE TypeOK' /\ Moves(i)
    <2> DEFINE q == [r EXCEPT !.funded = r.funded + a]
    <2>1. r.funded + a \in Nat
        BY <1>0, AmountIsPositive
    <2>2. CASE inv[i].status \in {"Pending", "Verified"} /\ BecomeFunded(i, inv[i].funded + a)
        BY <1>2, <2>1, <2>2, FundingStep DEF RecordFunding
    <2>3. CASE inv[i].status = "Funded" /\ inv' = [inv EXCEPT ![i].funded = @ + a] /\ UNCHANGED outstanding
        <3>1. q \in InvoiceRecord
            BY <1>0, <2>1, RecordFields
        <3>2. SameDeal(r, q) /\ q.status = r.status /\ q.due = r.due /\ q.due >= r.due
            BY <1>0 DEF SameDeal, InvoiceRecord
        <3>3. inv' = [inv EXCEPT ![i] = q]
            BY <2>3
        <3>4. UNCHANGED <<config, count, dispute, counters, stamps, cleaned, indices>>
            BY <1>2, <2>3 DEF RecordFunding, counters
        <3> HIDE DEF q
        <3> QED
            BY <2>3, <3>1, <3>2, <3>3, <3>4, FundedStep
    <2> QED
        BY <1>2, <2>2, <2>3 DEF RecordFunding
<1> QED
    BY <1>1, <1>2

LEMMA ExtensionSteps ==
    ASSUME TypeOK, NEW i \in Ids,
           \/ \E k \in DueOffsets : RequestExtension(i, inv[i].due + k)
           \/ ApproveExtension(i)
           \/ \E g \in Grace : SetInvoiceGracePeriod(i, g)
    PROVE  TypeOK' /\ Moves(i)
<1> DEFINE r == inv[i]
<1>0. r \in InvoiceRecord /\ r.pending \in Nat /\ r.due \in Nat
    <2>1. r \in InvoiceRecord
        BY DEF TypeOK
    <2> QED
        BY <2>1, RecordFields
<1>1. ASSUME NEW k \in DueOffsets, RequestExtension(i, inv[i].due + k) PROVE TypeOK' /\ Moves(i)
    <2> DEFINE q == [r EXCEPT !.pending = r.due + k]
    <2>0. r.due + k \in Nat
        BY <1>0, InvoiceAssumption
    <2>1. q \in InvoiceRecord
        BY <1>0, <2>0, RecordFields
    <2>2. SameDeal(r, q) /\ q.status = r.status /\ q.due = r.due /\ q.due >= r.due
        BY <1>0 DEF SameDeal, InvoiceRecord
    <2>3. /\ inv' = [inv EXCEPT ![i] = q] /\ r.status = "Funded"
          /\ UNCHANGED <<config, count, dispute, counters, stamps, cleaned, indices>>
        BY <1>1 DEF RequestExtension, ExtensionAllowed
    <2> HIDE DEF q
    <2> QED
        BY <2>1, <2>2, <2>3, FundedStep
<1>2. CASE ApproveExtension(i)
    <2> DEFINE q == [r EXCEPT !.due = r.pending, !.pending = 0]
    <2>1. q \in InvoiceRecord
        BY <1>0, RecordFields
    <2>2. SameDeal(r, q) /\ q.status = r.status /\ q.due = r.pending
        BY <1>0 DEF SameDeal, InvoiceRecord
    <2>3. /\ inv' = [inv EXCEPT ![i] = q] /\ r.status = "Funded" /\ r.pending > r.due
          /\ UNCHANGED <<config, count, dispute, counters, stamps, cleaned, indices>>
        BY <1>2 DEF ApproveExtension, ExtensionAllowed
    <2> HIDE DEF q
    <2>4. q.due >= r.due
        BY <1>0, <2>2, <2>3
    <2> QED
        BY <2>1, <2>2, <2>3, <2>4, FundedStep
<1>3. ASSUME NEW g \in Grace, SetInvoiceGracePeriod(i, g) PROVE TypeOK' /\ Moves(i)
    <2> DEFINE q == [r EXCEPT !.grace = g]
    <2>1. q \in InvoiceRecord
        BY <1>0, RecordFields
    <2>2. SameDeal(r, q) /\ q.status = r.status /\ q.due = r.due /\ q.due >= r.due
        BY <1>0 DEF SameDeal, InvoiceRecord
    <2>3. /\ inv' = [inv EXCEPT ![i] = q] /\ r.status = "Funded"
          /\ UNCHANGED <<config, count, dispute, counters, stamps, cleaned, indices>>
        BY <1>3 DEF SetInvoiceGracePeriod
    <2> HIDE DEF q
    <2> QED
        BY <2>1, <2>2, <2>3, FundedStep
<1> QED
    BY <1>1, <1>2, <1>3

LEMMA RaiseStep ==
    ASSUME TypeOK, NEW i \in Ids, RaiseDispute(i)
    PROVE  TypeOK' /\ Moves(i)
<1> DEFINE r == inv[i]
           q == [r EXCEPT !.status = "Disputed", !.disputedAt = now]
<1>0. r \in InvoiceRecord /\ now \in Nat
    BY DEF TypeOK
<1>1. q \in InvoiceRecord
    BY <1>0, RecordFields DEF Status
<1>2. SameDeal(r, q) /\ q.status = "Disputed" /\ q.due = r.due
    BY <1>0 DEF SameDeal, InvoiceRecord
<1>3. /\ inv' = [inv EXCEPT ![i] = q] /\ r.status = "Defaulted" /\ dispute[i] = "None"
      /\ dispute' = [dispute EXCEPT ![i] = "Pending"]
      /\ UNCHANGED <<config, count, counters, stamps, cleaned, indices>>
    BY DEF RaiseDispute
<1> HIDE DEF q
<1>4. /\ dispute' \in [Ids -> Outcome] /\ dispute'[i] = "Pending"
      /\ \A j \in Ids \ {i} : dispute'[j] = dispute[j]
    BY <1>3 DEF TypeOK, Outcome
<1>5. TypeOK' /\ Touches(i) /\ inv'[i] = q
    BY <1>1, <1>2, <1>3, <1>4, OneWrite DEF TypeOK, counters, indices
<1>6. Raises(i)
    BY <1>2, <1>3, <1>4, <1>5 DEF Raises, counters, indices
<1> QED
    BY <1>5, <1>6 DEF Moves

LEMMA ResolutionStep ==
    ASSUME TypeOK, NEW i \in Ids, NEW o \in Resolutions, ApplyDisputeResolution(i, o)
    PROVE  TypeOK' /\ Moves(i)
<1> DEFINE r == inv[i]
           q == IF o = "InFavorOfDebtor"
                THEN [r EXCEPT !.status = "Funded", !.due = now + r.grace]
                ELSE [r EXCEPT !.status = "Defaulted"]
<1>0. r \in InvoiceRecord /\ now \in Nat
    BY DEF TypeOK
<1>a. r.grace \in Nat
    BY <1>0, RecordFields, InvoiceAssumption
<1>1. q \in InvoiceRecord
    <2>1. now + r.grace \in Nat /\ "Funded" \in Status /\ "Defaulted" \in Status
        BY <1>0, <1>a DEF Status
    <2>2. /\ [r EXCEPT !.status = "Funded", !.due = now + r.grace] \in InvoiceRecord
          /\ [r EXCEPT !.status = "Defaulted"] \in InvoiceRecord
        BY <1>0, <2>1, RecordFields
    <2> QED
        BY <2>2
<1>2. /\ SameDeal(r, q)
      /\ \/ q.status = "Funded" /\ q.due >= now
         \/ q.status = "Defaulted" /\ q.due = r.due
    BY <1>0, <1>a DEF SameDeal, InvoiceRecord
<1>3. /\ inv' = [inv EXCEPT ![i] = q] /\ r.status = "Disputed" /\ dispute[i] = "Pending"
      /\ dispute' = [dispute EXCEPT ![i] = o]
      /\ UNCHANGED <<config, count, counters, stamps, cleaned, indices>>
    BY DEF ApplyDisputeResolution
<1> HIDE DEF q
<1>4. /\ dispute' \in [Ids -> Outcome] /\ dispute'[i] \in Resolutions
      /\ \A j \in Ids \ {i} : dispute'[j] = dispute[j]
    BY <1>3 DEF TypeOK, Outcome, Resolutions
<1>5. TypeOK' /\ Touches(i) /\ inv'[i] = q
    BY <1>1, <1>2, <1>3, <1>4, OneWrite DEF TypeOK, counters, indices
<1>6. Resolves(i)
    BY <1>2, <1>3, <1>4, <1>5 DEF Resolves, counters, indices
<1> QED
    BY <1>5, <1>6 DEF Moves

LEMMA CleanupStep ==
    ASSUME TypeOK, NEW i \in Ids, CleanupInvoice(i)
    PROVE  TypeOK' /\ Removes({i})
<1>1. /\ inv' = [inv EXCEPT ![i] = NoInvoice] /\ inv[i].status \in Terminal
      /\ ownerIdx' = ownerIdx \ {i} /\ debtorIdx' = debtorIdx \ {i} /\ cleaned' = cleaned + 1
      /\ UNCHANGED <<config, count, dispute, counters, stamps>>
    BY DEF CleanupInvoice
<1>2. NoInvoice \in InvoiceRecord /\ NoInvoice.status = "Absent"
    BY NoInvoiceType
<1>3. /\ inv' \in [Ids -> InvoiceRecord]
      /\ inv'[i].status = "Absent" /\ \A j \in Ids \ {i} : inv'[j] = inv[j]
    <2> DEFINE q == NoInvoice
    <2>1. inv' = [inv EXCEPT ![i] = q] /\ q \in InvoiceRecord /\ q.status = "Absent"
        BY <1>1, <1>2
    <2> HIDE DEF q
    <2> QED
        BY <2>1, Written DEF TypeOK
<1>4. Cardinality({i}) = 1
    BY FS_Singleton
<1>5. TypeOK'
    BY <1>1, <1>3 DEF TypeOK, config, counters
<1>6. Removes({i})
    BY <1>1, <1>3, <1>4 DEF Removes, config, counters
<1> QED
    BY <1>5, <1>6

LEMMA BatchStep ==
    ASSUME TypeOK, NEW batch \in SUBSET Ids, CleanupExpiredStorage(batch)
    PROVE  TypeOK' /\ \E gone \in SUBSET Ids : Removes(gone)
<1> DEFINE gone == {i \in batch : inv[i].status \in Terminal}
<1>1. /\ inv' = [i \in Ids |-> IF i \in gone THEN NoInvoice ELSE inv[i]]
      /\ cleaned' = cleaned + Cardinality(gone)
      /\ UNCHANGED <<config, count, dispute, counters, stamps, indices>>
    BY DEF CleanupExpiredStorage
<1>2. gone \in SUBSET Ids /\ \A i \in gone : inv[i].status \in Terminal
    OBVIOUS
<1> HIDE DEF gone
<1>3. Cardinality(gone) \in Nat
    BY <1>2, FS_Subset, FS_CardinalityType, InvoiceAssumption
<1>4. /\ inv' \in [Ids -> InvoiceRecord]
      /\ \A i \in gone : inv'[i].status = "Absent"
      /\ \A j \in Ids \ gone : inv'[j] = inv[j]
    <2> DEFINE q == NoInvoice
    <2>1. q \in InvoiceRecord /\ q.status = "Absent"
        BY NoInvoiceType
    <2>2. inv' = [i \in Ids |-> IF i \in gone THEN q ELSE inv[i]]
        BY <1>1
    <2> HIDE DEF q
    <2> QED
        BY <1>2, <2>1, <2>2 DEF TypeOK
<1>5. TypeOK'
    BY <1>1, <1>3, <1>4 DEF TypeOK, config, counters, indices
<1>6. Removes(gone)
    BY <1>1, <1>2, <1>4 DEF Removes, config, counters, indices
<1> QED
    BY <1>2, <1>5, <1>6

LEMMA CreateStep ==
    ASSUME TypeOK, NEW s \in SMEs, NEW d \in Debtors, NEW a \in Amounts, NEW k \in DueOffsets,
           CreateInvoice(s, d, a, now + k)
    PROVE  TypeOK' /\ Creates(s, d, a)
<1> DEFINE id == count + 1
           due == now + k
           q == [NoInvoice EXCEPT
                      !.status = IF hasOracle THEN "AwaitingVerification" ELSE "Pending",
                      !.owner = s, !.debtor = d, !.amount = a,
                      !.created = now, !.original = due, !.due = due]
<1>0. now \in Nat /\ due \in Nat /\ a \in Int /\ count \in Nat /\ active \in Nat
    BY InvoiceAssumption DEF TypeOK
<1>1. q \in InvoiceRecord /\ NewRecord(q, s, d, a)
    <2> HIDE DEF due
    <2> QED
        BY <1>0, NoInvoiceType DEF InvoiceRecord, NewRecord, Status
<1>2. /\ id \in Ids /\ inv[id].status = "Absent" /\ FreshCount(s) < DailyLimit
      /\ inv' = [inv EXCEPT ![id] = q] /\ count' = id /\ active' = active + 1
      /\ exposure' = [exposure EXCEPT ![d] = @ + a]
      /\ stamps' = [stamps EXCEPT ![s] = [Fresh(s) EXCEPT ![now] = @ + 1]]
      /\ ownerIdx' = ownerIdx \cup {id} /\ debtorIdx' = debtorIdx \cup {id}
      /\ UNCHANGED <<config, dispute, outstanding, cleaned>>
    BY DEF CreateInvoice
<1> HIDE DEF q, due
<1>3. /\ inv' \in [Ids -> InvoiceRecord]
      /\ inv'[id] = q /\ \A j \in Ids \ {id} : inv'[j] = inv[j]
    BY <1>1, <1>2, Written DEF TypeOK
<1>4. exposure' \in [Debtors -> Int]
    BY <1>0, <1>2 DEF TypeOK
<1>5. TypeOK'
    BY <1>0, <1>2, <1>3, <1>4 DEF TypeOK, config
<1>6. Creates(s, d, a)
    BY <1>1, <1>2, <1>3 DEF Creates, config
<1> QED
    BY <1>5, <1>6

\* Every step of the contract keeps the types and is of one of the nine kinds.
LEMMA StepCases ==
    ASSUME TypeOK, [Next]_vars
    PROVE  TypeOK' /\ Step
<1>1. CASE Tick \/ Pause \/ Unpause \/ SetOracle \/ UNCHANGED vars
    <2>1. Idles
        BY <1>1 DEF Tick, Pause, Unpause, SetOracle, vars, Idles, counters, indices, config
    <2>2. (paused \in BOOLEAN /\ hasOracle \in BOOLEAN)'
        BY <1>1, Zenon DEF TypeOK, Tick, Pause, Unpause, SetOracle, vars
    <2>3. (now \in Nat)'
        BY <2>1 DEF TypeOK, Idles
    <2>4. TypeOK'
        BY <2>1, <2>2, <2>3 DEF TypeOK, Idles
    <2> QED
        BY <2>1, <2>4 DEF Step
<1>2. ASSUME NEW s \in SMEs, NEW d \in Debtors, NEW a \in Amounts, NEW k \in DueOffsets,
             CreateInvoice(s, d, a, now + k)
      PROVE  TypeOK' /\ Step
    BY <1>2, CreateStep DEF Step
<1>3. ASSUME NEW batch \in SUBSET Ids, CleanupExpiredStorage(batch) PROVE TypeOK' /\ Step
    BY <1>3, BatchStep DEF Step
<1>4. ASSUME NEW i \in Ids, NEW ok \in BOOLEAN, ApplyVerificationOutcome(i, ok) PROVE TypeOK' /\ Step
    BY <1>4, VerificationStep DEF Step
<1>5. ASSUME NEW i \in Ids,
             TimeoutVerification(i) \/ CheckExpiration(i) \/ \E r \in {"owner", "admin"} : CancelInvoice(i, r)
      PROVE  TypeOK' /\ Step
    BY <1>5, WithdrawalSteps DEF Step
<1>6. ASSUME NEW i \in Ids, NEW r \in {"oracle", "admin"}, NEW o \in Resolutions, ResolveDispute(i, r, o)
      PROVE  TypeOK' /\ Step
    BY <1>6, DisputeStep DEF Step
<1>7. ASSUME NEW i \in Ids, MarkFunded(i) \/ \E a \in Amounts : RecordFunding(i, a)
      PROVE  TypeOK' /\ Step
    BY <1>7, FundingSteps DEF Step
<1>8. ASSUME NEW i \in Ids, MarkPaid(i) \/ MarkDefaulted(i) \/ MarkCancelled(i)
      PROVE  TypeOK' /\ Step
    BY <1>8, ClosingSteps DEF Step
<1>9. ASSUME NEW i \in Ids,
             \/ \E k \in DueOffsets : RequestExtension(i, inv[i].due + k)
             \/ ApproveExtension(i)
             \/ \E g \in Grace : SetInvoiceGracePeriod(i, g)
      PROVE  TypeOK' /\ Step
    BY <1>9, ExtensionSteps DEF Step
<1>10. ASSUME NEW i \in Ids, RaiseDispute(i) PROVE TypeOK' /\ Step
    BY <1>10, RaiseStep DEF Step
<1>11. ASSUME NEW i \in Ids, NEW o \in Resolutions,
              ResolveDefaultDispute(i, o) \/ ArbitrationResolveDispute(i, o)
       PROVE  TypeOK' /\ Step
    BY <1>11, ResolutionStep DEF Step, ResolveDefaultDispute, ArbitrationResolveDispute
<1>12. ASSUME NEW i \in Ids, CleanupInvoice(i) PROVE TypeOK' /\ Step
    BY <1>12, CleanupStep DEF Step
<1> QED
    BY <1>1, <1>2, <1>3, <1>4, <1>5, <1>6, <1>7, <1>8, <1>9, <1>10, <1>11, <1>12 DEF Next

LEMMA InitTyped == Init => TypeOK
<1> DEFINE q == NoInvoice
<1>1. q \in InvoiceRecord
    BY NoInvoiceType
<1>2. Init => inv = [i \in Ids |-> q]
    BY DEF Init
<1> HIDE DEF q
<1>3. Init => inv \in [Ids -> InvoiceRecord]
    BY <1>1, <1>2
<1> QED
    <2>1. Init => /\ now \in Nat /\ count \in Nat /\ active \in Nat /\ cleaned \in Nat
                  /\ ownerIdx \subseteq Ids /\ debtorIdx \subseteq Ids
                  /\ outstanding \in [SMEs -> Int] /\ exposure \in [Debtors -> Int]
        BY InvoiceAssumption DEF Init
    <2>2. Init => dispute \in [Ids -> Outcome]
        BY DEF Init, Outcome
    <2>3. Init => paused \in BOOLEAN /\ hasOracle \in BOOLEAN
        BY Zenon DEF Init
    <2> QED
        BY <1>3, <2>1, <2>2, <2>3 DEF TypeOK

\* TypeOK holds for every value of the constants: no handler of the contract ever
\* stores a value outside its type, whatever was stored before it.
THEOREM TypeCorrect == Spec => []TypeOK
<1>1. TypeOK /\ [Next]_vars => TypeOK'
    BY StepCases
<1> QED
    BY <1>1, InitTyped, PTL DEF Spec

-----------------------------------------------------------------------------
(* Due dates *)

\* What a handler may rely on: a default, and a dispute about one, is past
\* the due date; an invoice that was never funded has no dispute record, and
\* neither has an id that was not handed out.
DatesOf(r, w, t) ==
    /\ r.status = "Defaulted" => t >= r.due
    /\ r.status = "Disputed" /\ w = "Pending" => t >= r.due
    /\ r.status \in {"AwaitingVerification", "Pending"} => w = "None"

DatesInv ==
    \A i \in Ids : /\ DatesOf(inv[i], dispute[i], now)
                   /\ i > count => inv[i].status = "Absent" /\ dispute[i] = "None"

LEMMA DueTypes ==
    ASSUME TypeOK, NEW i \in Ids
    PROVE  /\ now \in Nat /\ count \in Nat /\ i \in Nat
           /\ inv[i].due \in Nat /\ inv[i].status \in Status /\ dispute[i] \in Outcome
<1>1. inv[i] \in InvoiceRecord /\ now \in Nat /\ count \in Nat /\ dispute[i] \in Outcome
    BY DEF TypeOK
<1>2. i \in Nat
    BY InvoiceAssumption
<1> QED
    BY <1>1, <1>2, RecordFields

LEMMA DatesStep ==
    ASSUME TypeOK, TypeOK', DatesInv, Step
    PROVE  DatesInv'
<1> SUFFICES ASSUME NEW j \in Ids
             PROVE  /\ DatesOf(inv'[j], dispute'[j], now')
                    /\ j > count' => inv'[j].status = "Absent" /\ dispute'[j] = "None"
    BY DEF DatesInv
<1>0. /\ DatesOf(inv[j], dispute[j], now)
      /\ j > count => inv[j].status = "Absent" /\ dispute[j] = "None"
    BY DEF DatesInv
<1>t. now \in Nat /\ count \in Nat /\ j \in Nat /\ inv[j].due \in Nat
    BY DueTypes
<1>1. CASE Idles
    BY <1>0, <1>1, <1>t DEF Idles, DatesOf
<1>2. ASSUME NEW s \in SMEs, NEW d \in Debtors, NEW a \in Amounts, Creates(s, d, a)
      PROVE  /\ DatesOf(inv'[j], dispute'[j], now')
             /\ j > count' => inv'[j].status = "Absent" /\ dispute'[j] = "None"
    <2>1. CASE j = count + 1
        BY <1>0, <1>2, <1>t, <2>1 DEF Creates, NewRecord, DatesOf
    <2>2. CASE j # count + 1
        BY <1>0, <1>2, <1>t, <2>2 DEF Creates, DatesOf
    <2> QED
        BY <2>1, <2>2
<1>3. ASSUME NEW gone \in SUBSET Ids, Removes(gone)
      PROVE  /\ DatesOf(inv'[j], dispute'[j], now')
             /\ j > count' => inv'[j].status = "Absent" /\ dispute'[j] = "None"
    <2>1. CASE j \in gone
        BY <1>0, <1>3, <2>1 DEF Removes, DatesOf
    <2>2. CASE j \notin gone
        BY <1>0, <1>3, <2>2 DEF Removes
    <2> QED
        BY <2>1, <2>2
<1>4. ASSUME NEW i \in Ids, Moves(i)
      PROVE  /\ DatesOf(inv'[j], dispute'[j], now')
             /\ j > count' => inv'[j].status = "Absent" /\ dispute'[j] = "None"
    <2>1. CASE j # i
        BY <1>0, <1>4, <2>1 DEF Moves, Touches
    <2>2. CASE j = i
        <3>0. now' = now /\ count' = count
            BY <1>4 DEF Moves, Touches
        <3>1. CASE Advances(i)
            BY <1>0, <1>t, <2>2, <3>0, <3>1 DEF Advances, DatesOf
        <3>2. CASE Withdraws(i)
            BY <1>0, <1>t, <2>2, <3>0, <3>2 DEF Withdraws, DatesOf
        <3>3. CASE Closes(i)
            BY <1>0, <1>t, <2>2, <3>0, <3>3 DEF Closes, DatesOf
        <3>4. CASE Funds(i)
            BY <1>0, <1>t, <2>2, <3>0, <3>4 DEF Funds, DatesOf
        <3>5. CASE Raises(i)
            BY <1>0, <1>t, <2>2, <3>0, <3>5 DEF Raises, DatesOf
        <3>6. CASE Resolves(i)
            BY <1>0, <1>t, <2>2, <3>0, <3>6 DEF Resolves, DatesOf, Resolutions
        <3> QED
            BY <1>4, <3>1, <3>2, <3>3, <3>4, <3>5, <3>6 DEF Moves
    <2> QED
        BY <2>1, <2>2
<1> QED
    BY <1>1, <1>2, <1>3, <1>4 DEF Step

LEMMA InitDates == Init => DatesInv
BY NoInvoiceType DEF Init, DatesInv, DatesOf

\* DueDateNeverMovesBack, for every grace period, extension limit and dispute
\* window: apply_dispute_resolution writes now + grace without looking at the
\* old date, and that is a later date because a dispute can only be pending on
\* an invoice that defaulted after its due date, which no step changes meanwhile.
THEOREM DueDateMonotone == Spec => DueDateNeverMovesBack
<1> DEFINE Later == \A i \in Ids : (inv[i].status # "Absent" /\ inv'[i].status # "Absent")
                                      => inv'[i].due >= inv[i].due
<1>1. Init => TypeOK /\ DatesInv
    BY InitTyped, InitDates
<1>2. TypeOK /\ DatesInv /\ [Next]_vars => (TypeOK /\ DatesInv)'
    BY StepCases, DatesStep
<1>3. TypeOK /\ DatesInv /\ [Next]_vars => [Later]_vars
    <2> SUFFICES ASSUME TypeOK, DatesInv, [Next]_vars, NEW j \in Ids,
                        inv[j].status # "Absent", inv'[j].status # "Absent"
                 PROVE  inv'[j].due >= inv[j].due
        OBVIOUS
    <2>0. Step
        BY StepCases
    <2>t. now \in Nat /\ inv[j].due \in Nat
        BY DueTypes
    <2>1. CASE Idles
        BY <2>1, <2>t DEF Idles
    <2>2. ASSUME NEW s \in SMEs, NEW d \in Debtors, NEW a \in Amounts, Creates(s, d, a)
          PROVE  inv'[j].due >= inv[j].due
        BY <2>2, <2>t DEF Creates
    <2>3. ASSUME NEW gone \in SUBSET Ids, Removes(gone)
          PROVE  inv'[j].due >= inv[j].due
        BY <2>3, <2>t DEF Removes
    <2>4. ASSUME NEW i \in Ids, Moves(i) PROVE inv'[j].due >= inv[j].due
        <3>1. CASE j # i
            BY <2>4, <2>t, <3>1 DEF Moves, Touches
        <3>2. CASE j = i /\ ~Resolves(i)
            BY <2>4, <2>t, <3>2 DEF Moves, Advances, Withdraws, Closes, Funds, Raises
        <3>3. CASE j = i /\ Resolves(i)
            <4>1. inv'[i].due \in Nat
                BY StepCases, DueTypes DEF TypeOK, InvoiceRecord
            <4>2. now >= inv[i].due
                BY <3>3 DEF Resolves, DatesInv, DatesOf
            <4> QED
                BY <2>t, <3>3, <4>1, <4>2 DEF Resolves
        <3> QED
            BY <3>1, <3>2, <3>3
    <2> QED
        BY <2>0, <2>1, <2>2, <2>3, <2>4 DEF Step
<1>4. Spec => [](TypeOK /\ DatesInv)
    BY <1>1, <1>2, PTL DEF Spec
<1>5. Spec => [][Later]_vars
    BY <1>3, <1>4, PTL DEF Spec
<1> QED
    BY <1>5 DEF DueDateNeverMovesBack

-----------------------------------------------------------------------------
(* Cleanup *)

Stored(v) == {i \in Ids : v[i].status # "Absent"}

LEMMA SubsetsAreFinite ==
    ASSUME NEW S \in SUBSET Ids
    PROVE  IsFiniteSet(S) /\ Cardinality(S) \in Nat
<1>1. IsFiniteSet(S)
    BY FS_Subset, InvoiceAssumption
<1> QED
    BY <1>1, FS_CardinalityType

\* Taking a part out of a set of ids takes its size off.
LEMMA SizeOfRest ==
    ASSUME NEW S \in SUBSET Ids, NEW R \in SUBSET S
    PROVE  Cardinality(S) = Cardinality(S \ R) + Cardinality(R)
<1>1. IsFiniteSet(S) /\ Cardinality(S) \in Nat
    BY SubsetsAreFinite
<1>2. S \cap R = R
    OBVIOUS
<1>3. Cardinality(S \ R) = Cardinality(S) - Cardinality(S \cap R)
    BY <1>1, FS_Difference
<1>4. Cardinality(R) \in Nat
    BY SubsetsAreFinite
<1> QED
    BY <1>1, <1>2, <1>3, <1>4

LEMMA SizeOfMore ==
    ASSUME NEW S \in SUBSET Ids, NEW x, x \notin S
    PROVE  Cardinality(S \cup {x}) = Cardinality(S) + 1
BY FS_AddElement, SubsetsAreFinite

LEMMA StoredStep ==
    ASSUME TypeOK, Step
    PROVE  \/ count' = count /\ cleaned' = cleaned /\ Stored(inv') = Stored(inv)
           \/ /\ count' = count + 1 /\ cleaned' = cleaned
              /\ count + 1 \notin Stored(inv) /\ Stored(inv') = Stored(inv) \cup {count + 1}
           \/ \E gone \in SUBSET Stored(inv) :
                 /\ count' = count /\ cleaned' = cleaned + Cardinality(gone)
                 /\ Stored(inv') = Stored(inv) \ gone
<1>1. CASE Idles
    BY <1>1 DEF Idles
<1>2. ASSUME NEW s \in SMEs, NEW d \in Debtors, NEW a \in Amounts, Creates(s, d, a)
      PROVE  /\ count' = count + 1 /\ cleaned' = cleaned
             /\ count + 1 \notin Stored(inv) /\ Stored(inv') = Stored(inv) \cup {count + 1}
    BY <1>2 DEF Creates, NewRecord, Stored
<1>3. ASSUME NEW gone \in SUBSET Ids, Removes(gone)
      PROVE  /\ gone \in SUBSET Stored(inv)
             /\ count' = count /\ cleaned' = cleaned + Cardinality(gone)
             /\ Stored(inv') = Stored(inv) \ gone
    BY <1>3 DEF Removes, Stored, Terminal
<1>4. ASSUME NEW i \in Ids, Moves(i)
      PROVE  count' = count /\ cleaned' = cleaned /\ Stored(inv') = Stored(inv)
    <2>1. \A j \in Ids \ {i} : inv'[j] = inv[j]
        BY <1>4 DEF Moves, Touches
    <2>2. inv[i].status # "Absent" /\ inv'[i].status # "Absent"
        BY <1>4 DEF Moves, Advances, Withdraws, Closes, Funds, Raises, Resolves
    <2>3. Stored(inv') = Stored(inv)
        BY <2>1, <2>2 DEF Stored
    <2> QED
        BY <1>4, <2>3 DEF Moves, Touches
<1> QED
    BY <1>1, <1>2, <1>3, <1>4 DEF Step

\* CleanupConserved for every number of ids and every order of the two cleanup
\* entry points: an id that was handed out is stored or was counted as cleaned,
\* exactly once.
THEOREM CleanupCorrect == Spec => []CleanupConserved
<1>0. CleanupConserved <=> count = cleaned + Cardinality(Stored(inv))
    BY DEF CleanupConserved, Stored
<1>1. Init => CleanupConserved
    <2>1. Init => Stored(inv) = {}
        BY NoInvoiceType DEF Init, Stored
    <2>2. Init => count = 0 /\ cleaned = 0
        BY DEF Init
    <2>3. Cardinality({}) = 0
        BY FS_EmptySet
    <2> QED
        BY <1>0, <2>1, <2>2, <2>3
<1>2. TypeOK /\ CleanupConserved /\ [Next]_vars => CleanupConserved'
    <2> SUFFICES ASSUME TypeOK, CleanupConserved, [Next]_vars PROVE CleanupConserved'
        OBVIOUS
    <2>1. Step
        BY StepCases
    <2>2. Stored(inv) \in SUBSET Ids /\ count \in Nat /\ cleaned \in Nat
        BY DEF Stored, TypeOK
    <2>3. Cardinality(Stored(inv)) \in Nat
        BY <2>2, SubsetsAreFinite
    <2>4. count' = cleaned' + Cardinality(Stored(inv'))
        <3>1. CASE count' = count /\ cleaned' = cleaned /\ Stored(inv') = Stored(inv)
            BY <1>0, <3>1
        <3>2. CASE /\ count' = count + 1 /\ cleaned' = cleaned
                   /\ count + 1 \notin Stored(inv) /\ Stored(inv') = Stored(inv) \cup {count + 1}
            <4>1. Cardinality(Stored(inv) \cup {count + 1}) = Cardinality(Stored(inv)) + 1
                BY <2>2, <3>2, SizeOfMore
            <4> QED
                BY <1>0, <2>2, <2>3, <3>2, <4>1
        <3>3. ASSUME NEW gone \in SUBSET Stored(inv), count' = count,
                     cleaned' = cleaned + Cardinality(gone), Stored(inv') = Stored(inv) \ gone
              PROVE  count' = cleaned' + Cardinality(Stored(inv'))
            <4>1. Cardinality(Stored(inv)) = Cardinality(Stored(inv) \ gone) + Cardinality(gone)
                BY <2>2, SizeOfRest
            <4>2. Cardinality(gone) \in Nat /\ Cardinality(Stored(inv) \ gone) \in Nat
                BY <2>2, SubsetsAreFinite
            <4> QED
                BY <1>0, <2>2, <2>3, <3>3, <4>1, <4>2
        <3> QED
            BY <2>1, <3>1, <3>2, <3>3, StoredStep
    <2> QED
        BY <2>4 DEF CleanupConserved, Stored
<1> QED
    BY <1>1, <1>2, TypeCorrect, PTL DEF Spec

-----------------------------------------------------------------------------
(* Debt: sums over the invoices *)

FundedBy(v, s) ==
    [i \in Ids |-> IF v[i].status = "Funded" /\ v[i].owner = s THEN v[i].amount ELSE 0]

OpenBy(v, d) ==
    [i \in Ids |-> IF v[i].status \in Open /\ v[i].debtor = d THEN v[i].amount ELSE 0]

LEMMA SumsAreSums ==
    /\ \A s : FundedAmount(s) = SumOf(FundedBy(inv, s))
    /\ \A d : OpenAmount(d) = SumOf(OpenBy(inv, d))
<1>1. \A f : Total(f) = SumOf(f)
    BY Zenon DEF Total, FoldFunction, FoldFunctionOnSet, SumOf, MapThenSumSet
<1>2. /\ \A s : FundedAmount(s) = Total(FundedBy(inv, s))
      /\ \A d : OpenAmount(d) = Total(OpenBy(inv, d))
    BY Zenon DEF FundedAmount, OpenAmount, FundedBy, OpenBy
<1> QED
    BY <1>1, <1>2

LEMMA SumTypes ==
    ASSUME NEW v \in [Ids -> InvoiceRecord]
    PROVE  /\ \A s : FundedBy(v, s) \in [Ids -> Int] /\ SumOf(FundedBy(v, s)) \in Int
           /\ \A d : OpenBy(v, d) \in [Ids -> Int] /\ SumOf(OpenBy(v, d)) \in Int
<1>1. \A i \in Ids : v[i].amount \in Int
    BY RecordFields, AmountIsPositive
<1>2. /\ \A s : FundedBy(v, s) \in [Ids -> Int]
      /\ \A d : OpenBy(v, d) \in [Ids -> Int]
    BY <1>1 DEF FundedBy, OpenBy
<1> QED
    BY <1>2, SumOfType, InvoiceAssumption

\* The records of two states differ in i only: so do the sums.
LEMMA FundedChange ==
    ASSUME NEW v \in [Ids -> InvoiceRecord], NEW w \in [Ids -> InvoiceRecord], NEW i \in Ids, NEW s,
           \A j \in Ids \ {i} : w[j] = v[j]
    PROVE  SumOf(FundedBy(w, s)) = SumOf(FundedBy(v, s)) + FundedBy(w, s)[i] - FundedBy(v, s)[i]
<1> DEFINE f == FundedBy(v, s)
           h == FundedBy(w, s)
<1>1. f \in [Ids -> Int] /\ h \in [Ids -> Int] /\ IsFiniteSet(Ids)
    BY SumTypes, InvoiceAssumption
<1>2. \A j \in Ids \ {i} : h[j] = f[j]
    BY DEF FundedBy
<1> HIDE DEF f, h
<1>3. SumOf(h) = SumOf(f) + h[i] - f[i]
    BY <1>1, <1>2, SumChange
<1> QED
    BY <1>3 DEF f, h

LEMMA OpenChange ==
    ASSUME NEW v \in [Ids -> InvoiceRecord], NEW w \in [Ids -> InvoiceRecord], NEW i \in Ids, NEW d,
           \A j \in Ids \ {i} : w[j] = v[j]
    PROVE  SumOf(OpenBy(w, d)) = SumOf(OpenBy(v, d)) + OpenBy(w, d)[i] - OpenBy(v, d)[i]
<1> DEFINE f == OpenBy(v, d)
           h == OpenBy(w, d)
<1>1. f \in [Ids -> Int] /\ h \in [Ids -> Int] /\ IsFiniteSet(Ids)
    BY SumTypes, InvoiceAssumption
<1>2. \A j \in Ids \ {i} : h[j] = f[j]
    BY DEF OpenBy
<1> HIDE DEF f, h
<1>3. SumOf(h) = SumOf(f) + h[i] - f[i]
    BY <1>1, <1>2, SumChange
<1> QED
    BY <1>3 DEF f, h

\* What a step does to the debt of s and to what is funded of it.
LEMMA DebtStep ==
    ASSUME TypeOK, TypeOK', Step, NEW s \in SMEs,
           outstanding[s] <= SumOf(FundedBy(inv, s))
    PROVE  outstanding'[s] <= SumOf(FundedBy(inv', s))
<1> DEFINE F == SumOf(FundedBy(inv, s))
           G == SumOf(FundedBy(inv', s))
<1>t. F \in Int /\ G \in Int /\ outstanding[s] \in Int
    BY SumTypes DEF TypeOK
<1>1. CASE Idles
    BY <1>1 DEF Idles
<1>2. ASSUME NEW s1 \in SMEs, NEW d \in Debtors, NEW a \in Amounts, Creates(s1, d, a)
      PROVE  outstanding'[s] <= G
    <2>1. FundedBy(inv', s)[count + 1] = 0 /\ FundedBy(inv, s)[count + 1] = 0
        BY <1>2 DEF Creates, NewRecord, FundedBy
    <2>2. G = F + FundedBy(inv', s)[count + 1] - FundedBy(inv, s)[count + 1]
        BY <1>2, FundedChange DEF TypeOK, Creates
    <2>3. outstanding'[s] = outstanding[s]
        BY <1>2 DEF Creates
    <2> HIDE DEF F, G
    <2>4. outstanding[s] <= F
        BY DEF F
    <2> QED
        BY <1>t, <2>1, <2>2, <2>3, <2>4
<1>3. ASSUME NEW gone \in SUBSET Ids, Removes(gone)
      PROVE  outstanding'[s] <= G
    <2>1. FundedBy(inv', s) = FundedBy(inv, s)
        BY <1>3 DEF Removes, FundedBy, Terminal
    <2> QED
        BY <1>3, <2>1 DEF Removes
<1>4. ASSUME NEW i \in Ids, Moves(i) PROVE outstanding'[s] <= G
    <2> DEFINE n == inv[i].amount
               x == FundedBy(inv, s)[i]
               y == FundedBy(inv', s)[i]
    <2>0. inv[i] \in InvoiceRecord /\ inv[i].owner \in SMEs
        BY RecordFields DEF TypeOK
    <2>a. n \in Nat
        BY <2>0, RecordFields, AmountIsPositive
    <2>1. G = F + y - x
        BY <1>4, FundedChange DEF TypeOK, Moves, Touches
    <2>2. /\ x = IF inv[i].status = "Funded" /\ inv[i].owner = s THEN n ELSE 0
          /\ y = IF inv'[i].status = "Funded" /\ inv[i].owner = s THEN n ELSE 0
        BY <1>4 DEF FundedBy, Moves, Touches, SameDeal
    <2> HIDE DEF F, G, x, y
    <2>3. outstanding[s] <= F
        BY DEF F
    <2>4. x \in Nat /\ y \in Nat
        BY <2>2, <2>a
    <2>5. CASE Advances(i) \/ Withdraws(i) \/ Raises(i) \/ Resolves(i)
        <3>1. outstanding' = outstanding /\ y >= x
            <4>1. outstanding' = outstanding
                BY <2>5 DEF Advances, Withdraws, Raises, Resolves
            <4>2. inv[i].status = "Funded" => inv'[i].status = "Funded"
                BY <2>5 DEF Advances, Withdraws, Raises, Resolves
            <4>3. y >= x
                BY <2>2, <2>4, <2>a, <4>2
            <4> QED
                BY <4>1, <4>3
        <3> QED
            BY <1>t, <2>1, <2>3, <2>4, <3>1
    <2>6. CASE Closes(i)
        <3>1. outstanding' = [outstanding EXCEPT ![inv[i].owner] = @ - n]
            BY <2>6 DEF Closes, CloseFunded, DecreaseSmeOutstanding
        <3>2. y = 0 /\ (inv[i].owner = s => x <= n) /\ (inv[i].owner # s => x = 0)
            BY <2>2, <2>6, <2>a DEF Closes
        <3>3. outstanding'[s] = outstanding[s] - (IF inv[i].owner = s THEN n ELSE 0)
            BY <1>t, <2>0, <2>a, <3>1 DEF TypeOK
        <3> QED
            BY <1>t, <2>1, <2>3, <2>4, <2>a, <3>2, <3>3
    <2>7. CASE Funds(i)
        <3>1. outstanding' = [outstanding EXCEPT ![inv[i].owner] = @ + n]
            BY <2>7 DEF Funds
        <3>2. x = 0 /\ y = (IF inv[i].owner = s THEN n ELSE 0)
            BY <2>2, <2>7 DEF Funds
        <3>3. outstanding'[s] = outstanding[s] + (IF inv[i].owner = s THEN n ELSE 0)
            BY <1>t, <2>0, <2>a, <3>1 DEF TypeOK
        <3> QED
            BY <1>t, <2>1, <2>3, <2>4, <2>a, <3>2, <3>3
    <2> QED
        BY <1>4, <2>5, <2>6, <2>7 DEF Moves
<1> QED
    BY <1>1, <1>2, <1>3, <1>4 DEF Step

\* The sums of the empty contract.
LEMMA InitSums ==
    ASSUME Init
    PROVE  /\ \A s : SumOf(FundedBy(inv, s)) = 0
           /\ \A d : SumOf(OpenBy(inv, d)) = 0
<1>1. \A i \in Ids : inv[i].status = "Absent"
    BY NoInvoiceType DEF Init
<1>2. /\ \A s : FundedBy(inv, s) = [i \in Ids |-> 0]
      /\ \A d : OpenBy(inv, d) = [i \in Ids |-> 0]
    BY <1>1 DEF FundedBy, OpenBy, Open
<1>3. SumOf([i \in Ids |-> 0]) = 0
    BY SumOfZero, InvoiceAssumption
<1> QED
    BY <1>2, <1>3

\* OutstandingNeverOverstated for every set of SMEs, amounts and caps: no order
\* of funding, repayment, default, dispute and cancellation leaves an SME with
\* more tracked debt than its Funded invoices amount to.
THEOREM OutstandingCorrect == Spec => []OutstandingNeverOverstated
<1>0. OutstandingNeverOverstated <=> \A s \in SMEs : outstanding[s] <= SumOf(FundedBy(inv, s))
    BY SumsAreSums DEF OutstandingNeverOverstated
<1>1. Init => OutstandingNeverOverstated
    <2> SUFFICES ASSUME Init PROVE \A s \in SMEs : outstanding[s] <= SumOf(FundedBy(inv, s))
        BY <1>0
    <2>1. \A s \in SMEs : outstanding[s] = 0
        BY DEF Init
    <2> QED
        BY <2>1, InitSums
<1>2. TypeOK /\ OutstandingNeverOverstated /\ [Next]_vars => OutstandingNeverOverstated'
    <2> SUFFICES ASSUME TypeOK, OutstandingNeverOverstated, [Next]_vars
                 PROVE  OutstandingNeverOverstated'
        OBVIOUS
    <2>1. TypeOK' /\ Step
        BY StepCases
    <2>2. \A s \in SMEs : outstanding'[s] <= SumOf(FundedBy(inv', s))
        BY <1>0, <2>1, DebtStep
    <2>3. (\A s : FundedAmount(s) = SumOf(FundedBy(inv, s)))'
        BY SumsAreSums, PTL
    <2> QED
        BY <2>2, <2>3 DEF OutstandingNeverOverstated
<1> QED
    BY <1>1, <1>2, TypeCorrect, PTL DEF Spec

-----------------------------------------------------------------------------
(* The registers of open invoices *)

\* The invoices the statistics count: a disputed default is open again, but
\* raise_dispute does not put it back.
IsCounted(r, w) == r.status \in Open /\ ~ (r.status = "Disputed" /\ w = "Pending")

Counted(v, w) == {i \in Ids : IsCounted(v[i], w[i])}

IsListed(i, r, w, owners, debtors) ==
    /\ r.status \in Open \cup {"Defaulted"} => i \in owners
    /\ r.status \in Open /\ w = "None" => i \in debtors

RegisterInv ==
    /\ active <= Cardinality(Counted(inv, dispute))
    /\ \A i \in Ids : IsListed(i, inv[i], dispute[i], ownerIdx, debtorIdx)
    /\ NoDefaultDisputed =>
          /\ active = Cardinality(Counted(inv, dispute))
          /\ \A d \in Debtors : exposure[d] >= SumOf(OpenBy(inv, d))

\* No step takes a dispute record away.
LEMMA DisputesStay ==
    ASSUME TypeOK, Step, NoDefaultDisputed'
    PROVE  NoDefaultDisputed
<1>0. \A j \in Ids : dispute'[j] = "None"
    BY DEF NoDefaultDisputed
<1>1. CASE Idles
    BY <1>0, <1>1 DEF Idles, NoDefaultDisputed
<1>2. ASSUME NEW s \in SMEs, NEW d \in Debtors, NEW a \in Amounts, Creates(s, d, a)
      PROVE  NoDefaultDisputed
    BY <1>0, <1>2 DEF Creates, NoDefaultDisputed
<1>3. ASSUME NEW gone \in SUBSET Ids, Removes(gone) PROVE NoDefaultDisputed
    BY <1>0, <1>3 DEF Removes, NoDefaultDisputed
<1>4. ASSUME NEW i \in Ids, Moves(i) PROVE NoDefaultDisputed
    <2>1. ~Raises(i) /\ ~Resolves(i)
        BY <1>0 DEF Raises, Resolves, Resolutions
    <2>2. dispute' = dispute
        BY <1>4, <2>1 DEF Moves, Advances, Withdraws, Closes, Funds
    <2> QED
        BY <1>0, <2>2 DEF NoDefaultDisputed
<1> QED
    BY <1>1, <1>2, <1>3, <1>4 DEF Step

\* What a step does to the statistics and to the invoices they count.
LEMMA CountedStep ==
    ASSUME TypeOK, DatesInv, Step
    PROVE  LET C == Counted(inv, dispute)
               D == Counted(inv', dispute')
           IN  \/ active' = active /\ C \subseteq D /\ (NoDefaultDisputed' => D = C)
               \/ \E x \in Ids : active' = active + 1 /\ x \notin C /\ D = C \cup {x}
               \/ \E x \in Ids : DecrementActive /\ D = C \ {x} /\ (NoDefaultDisputed => x \in C)
<1> DEFINE C == Counted(inv, dispute)
           D == Counted(inv', dispute')
<1>1. ASSUME Idles PROVE active' = active /\ D = C
    BY <1>1 DEF Idles
<1>2. ASSUME NEW s \in SMEs, NEW d \in Debtors, NEW a \in Amounts, Creates(s, d, a)
      PROVE  /\ count + 1 \in Ids /\ active' = active + 1
             /\ count + 1 \notin C /\ D = C \cup {count + 1}
    BY <1>2 DEF Creates, NewRecord, Counted, IsCounted, Open
<1>3. ASSUME NEW gone \in SUBSET Ids, Removes(gone) PROVE active' = active /\ D = C
    BY <1>3 DEF Removes, Counted, IsCounted, Open, Terminal
<1>4. ASSUME NEW i \in Ids, Moves(i)
      PROVE  \/ active' = active /\ C \subseteq D /\ (NoDefaultDisputed' => D = C)
             \/ DecrementActive /\ D = C \ {i} /\ (NoDefaultDisputed => i \in C)
    <2>0. \A j \in Ids \ {i} : inv'[j] = inv[j] /\ dispute'[j] = dispute[j]
        BY <1>4 DEF Moves, Touches
    <2>1. \A j \in Ids \ {i} : j \in D <=> j \in C
        BY <2>0 DEF Counted
    <2>2. /\ i \in C <=> IsCounted(inv[i], dispute[i])
          /\ i \in D <=> IsCounted(inv'[i], dispute'[i])
        BY DEF Counted
    <2>3. C \subseteq Ids /\ D \subseteq Ids
        BY DEF Counted
    <2>4. NoDefaultDisputed => dispute[i] = "None"
        BY DEF NoDefaultDisputed
    <2>5. CASE Advances(i) \/ Funds(i)
        <3>1. active' = active /\ dispute' = dispute
            BY <2>5 DEF Advances, Funds
        <3>2. IsCounted(inv[i], dispute[i]) => IsCounted(inv'[i], dispute'[i])
            BY <2>5, <3>1 DEF Advances, Funds, IsCounted, Open, DatesInv, DatesOf
        <3>3. dispute[i] = "None" => IsCounted(inv[i], dispute[i])
            BY <2>5 DEF Advances, Funds, IsCounted, Open
        <3>4. NoDefaultDisputed' => NoDefaultDisputed
            BY <3>1 DEF NoDefaultDisputed
        <3> HIDE DEF C, D
        <3> QED
            BY <2>1, <2>2, <2>3, <2>4, <3>1, <3>2, <3>3, <3>4
    <2>6. CASE Withdraws(i) \/ Closes(i)
        <3>1. DecrementActive
            BY <2>6 DEF Withdraws, Closes, CloseFunded
        <3>2. ~IsCounted(inv'[i], dispute'[i])
            BY <2>6 DEF Withdraws, Closes, IsCounted, Open
        <3>3. dispute[i] = "None" => IsCounted(inv[i], dispute[i])
            BY <2>6 DEF Withdraws, Closes, IsCounted, Open
        <3> HIDE DEF C, D
        <3> QED
            BY <2>1, <2>2, <2>3, <2>4, <3>1, <3>2, <3>3
    <2>7. CASE Raises(i) \/ Resolves(i)
        <3>1. active' = active /\ dispute'[i] # "None"
            BY <2>7 DEF Raises, Resolves, Resolutions
        <3>2. ~IsCounted(inv[i], dispute[i])
            BY <2>7 DEF Raises, Resolves, IsCounted, Open
        <3>3. ~NoDefaultDisputed'
            BY <3>1 DEF NoDefaultDisputed
        <3> HIDE DEF C, D
        <3> QED
            BY <2>1, <2>2, <2>3, <3>1, <3>2, <3>3
    <2> QED
        BY <1>4, <2>5, <2>6, <2>7 DEF Moves
<1> HIDE DEF C, D
<1>5. \/ active' = active /\ C \subseteq D /\ (NoDefaultDisputed' => D = C)
      \/ \E x \in Ids : active' = active + 1 /\ x \notin C /\ D = C \cup {x}
      \/ \E x \in Ids : DecrementActive /\ D = C \ {x} /\ (NoDefaultDisputed => x \in C)
    BY <1>1, <1>2, <1>3, <1>4 DEF Step
<1> QED
    BY <1>5 DEF C, D

LEMMA StatisticsStep ==
    ASSUME TypeOK, DatesInv, Step, active <= Cardinality(Counted(inv, dispute)),
           NoDefaultDisputed => active = Cardinality(Counted(inv, dispute))
    PROVE  /\ active' <= Cardinality(Counted(inv', dispute'))
           /\ NoDefaultDisputed' => active' = Cardinality(Counted(inv', dispute'))
<1> DEFINE C == Counted(inv, dispute)
           D == Counted(inv', dispute')
           n == Cardinality(C)
           m == Cardinality(D)
<1>0. C \in SUBSET Ids /\ D \in SUBSET Ids
    BY DEF Counted
<1>1. n \in Nat /\ m \in Nat /\ active \in Nat /\ IsFiniteSet(C) /\ IsFiniteSet(D)
    BY <1>0, SubsetsAreFinite DEF TypeOK
<1>2. NoDefaultDisputed' => NoDefaultDisputed
    BY DisputesStay
<1>3. active <= n /\ (NoDefaultDisputed => active = n)
    OBVIOUS
<1>4. \/ active' = active /\ C \subseteq D /\ (NoDefaultDisputed' => D = C)
      \/ \E x \in Ids : active' = active + 1 /\ x \notin C /\ D = C \cup {x}
      \/ \E x \in Ids : DecrementActive /\ D = C \ {x} /\ (NoDefaultDisputed => x \in C)
    BY CountedStep
<1> HIDE DEF C, D
<1>5. ASSUME active' = active, C \subseteq D, NoDefaultDisputed' => D = C
      PROVE  active' <= m /\ (NoDefaultDisputed' => active' = m)
    <2>1. n <= m
        BY <1>1, <1>5, FS_Subset
    <2>2. NoDefaultDisputed' => m = n
        BY <1>5
    <2> HIDE DEF n, m
    <2> QED
        BY <1>1, <1>2, <1>3, <1>5, <2>1, <2>2
<1>6. ASSUME NEW x \in Ids, active' = active + 1, x \notin C, D = C \cup {x}
      PROVE  active' <= m /\ (NoDefaultDisputed' => active' = m)
    <2>1. m = n + 1
        BY <1>0, <1>6, SizeOfMore
    <2> HIDE DEF n, m
    <2> QED
        BY <1>1, <1>2, <1>3, <1>6, <2>1
<1>7. ASSUME NEW x \in Ids, DecrementActive, D = C \ {x}, NoDefaultDisputed => x \in C
      PROVE  active' <= m /\ (NoDefaultDisputed' => active' = m)
    <2>1. m = IF x \in C THEN n - 1 ELSE n
        BY <1>1, <1>7, FS_RemoveElement
    <2>2. x \in C => n # 0
        BY <1>1, FS_EmptySet
    <2>3. active' = IF active = 0 THEN 0 ELSE active - 1
        BY <1>7 DEF DecrementActive
    <2> HIDE DEF n, m
    <2>4. active' <= m
        BY <1>1, <1>3, <2>1, <2>2, <2>3
    <2>5. ASSUME NoDefaultDisputed' PROVE active' = m
        BY <1>1, <1>2, <1>3, <1>7, <2>1, <2>2, <2>3, <2>5
    <2> QED
        BY <2>4, <2>5
<1> HIDE DEF n, m
<1>8. active' <= m /\ (NoDefaultDisputed' => active' = m)
    BY <1>4, <1>5, <1>6, <1>7, Zenon
<1> QED
    BY <1>8 DEF n, m, C, D

LEMMA ListedStep ==
    ASSUME TypeOK, Step, \A i \in Ids : IsListed(i, inv[i], dispute[i], ownerIdx, debtorIdx), NEW j \in Ids
    PROVE  IsListed(j, inv'[j], dispute'[j], ownerIdx', debtorIdx')
<1>0. IsListed(j, inv[j], dispute[j], ownerIdx, debtorIdx)
    OBVIOUS
<1>1. CASE Idles
    BY <1>0, <1>1 DEF Idles
<1>2. ASSUME NEW s \in SMEs, NEW d \in Debtors, NEW a \in Amounts, Creates(s, d, a)
      PROVE  IsListed(j, inv'[j], dispute'[j], ownerIdx', debtorIdx')
    <2>1. CASE j = count + 1
        BY <1>2, <2>1 DEF Creates, IsListed
    <2>2. CASE j # count + 1
        BY <1>0, <1>2, <2>2 DEF Creates, IsListed
    <2> QED
        BY <2>1, <2>2
<1>3. ASSUME NEW gone \in SUBSET Ids, Removes(gone)
      PROVE  IsListed(j, inv'[j], dispute'[j], ownerIdx', debtorIdx')
    <2>1. CASE j \in gone
        BY <1>3, <2>1 DEF Removes, IsListed, Open
    <2>2. CASE j \notin gone
        BY <1>0, <1>3, <2>2 DEF Removes, IsListed
    <2> QED
        BY <2>1, <2>2
<1>4. ASSUME NEW i \in Ids, Moves(i)
      PROVE  IsListed(j, inv'[j], dispute'[j], ownerIdx', debtorIdx')
    <2>1. CASE j # i
        BY <1>0, <1>4, <2>1 DEF Moves, Touches, IsListed
    <2>2. CASE j = i
        <3>1. CASE Advances(i)
            BY <1>0, <2>2, <3>1 DEF Advances, IsListed, Open
        <3>2. CASE Withdraws(i)
            BY <2>2, <3>2 DEF Withdraws, IsListed, Open
        <3>3. CASE Closes(i)
            BY <1>0, <2>2, <3>3 DEF Closes, IsListed, Open
        <3>4. CASE Funds(i)
            BY <1>0, <2>2, <3>4 DEF Funds, IsListed, Open
        <3>5. CASE Raises(i)
            BY <1>0, <2>2, <3>5 DEF Raises, IsListed, Open
        <3>6. CASE Resolves(i)
            BY <1>0, <2>2, <3>6 DEF Resolves, IsListed, Open, Resolutions
        <3> QED
            BY <1>4, <3>1, <3>2, <3>3, <3>4, <3>5, <3>6 DEF Moves
    <2> QED
        BY <2>1, <2>2
<1> QED
    BY <1>1, <1>2, <1>3, <1>4 DEF Step

\* Until a default is disputed, exposure follows the open invoices.
LEMMA ExposureStep ==
    ASSUME TypeOK, TypeOK', Step, NoDefaultDisputed', NEW d \in Debtors,
           exposure[d] >= SumOf(OpenBy(inv, d))
    PROVE  exposure'[d] >= SumOf(OpenBy(inv', d))
<1> DEFINE F == SumOf(OpenBy(inv, d))
           G == SumOf(OpenBy(inv', d))
<1>t. F \in Int /\ G \in Int /\ exposure[d] \in Int
    BY SumTypes DEF TypeOK
<1>1. CASE Idles
    BY <1>1 DEF Idles
<1>2. ASSUME NEW s \in SMEs, NEW d1 \in Debtors, NEW a \in Amounts, Creates(s, d1, a)
      PROVE  exposure'[d] >= G
    <2> DEFINE n == IF d1 = d THEN a ELSE 0
    <2>0. a \in Nat
        BY AmountIsPositive
    <2>1. OpenBy(inv', d)[count + 1] = n /\ OpenBy(inv, d)[count + 1] = 0
        BY <1>2 DEF Creates, NewRecord, OpenBy, Open
    <2>2. G = F + OpenBy(inv', d)[count + 1] - OpenBy(inv, d)[count + 1]
        BY <1>2, OpenChange DEF TypeOK, Creates
    <2>3. exposure'[d] = exposure[d] + n
        BY <1>2, <1>t, <2>0 DEF Creates, TypeOK
    <2>4. n \in Nat
        BY <2>0
    <2> HIDE DEF F, G, n
    <2>5. exposure[d] >= F
        BY DEF F
    <2> QED
        BY <1>t, <2>1, <2>2, <2>3, <2>4, <2>5
<1>3. ASSUME NEW gone \in SUBSET Ids, Removes(gone)
      PROVE  exposure'[d] >= G
    <2>1. OpenBy(inv', d) = OpenBy(inv, d)
        BY <1>3 DEF Removes, OpenBy, Terminal, Open
    <2> QED
        BY <1>3, <2>1 DEF Removes
<1>4. ASSUME NEW i \in Ids, Moves(i) PROVE exposure'[d] >= G
    <2> DEFINE n == inv[i].amount
               x == OpenBy(inv, d)[i]
               y == OpenBy(inv', d)[i]
    <2>0. inv[i] \in InvoiceRecord /\ inv[i].debtor \in Debtors
        BY RecordFields DEF TypeOK
    <2>a. n \in Nat
        BY <2>0, RecordFields, AmountIsPositive
    <2>1. G = F + y - x
        BY <1>4, OpenChange DEF TypeOK, Moves, Touches
    <2>2. /\ x = IF inv[i].status \in Open /\ inv[i].debtor = d THEN n ELSE 0
          /\ y = IF inv'[i].status \in Open /\ inv[i].debtor = d THEN n ELSE 0
        BY <1>4 DEF OpenBy, Moves, Touches, SameDeal
    <2> HIDE DEF F, G, x, y
    <2>3. exposure[d] >= F
        BY DEF F
    <2>4. x \in Nat /\ y \in Nat
        BY <2>2, <2>a
    <2>b. ~Raises(i) /\ ~Resolves(i)
        BY DEF NoDefaultDisputed, Raises, Resolves, Resolutions
    <2>5. CASE Advances(i) \/ Funds(i)
        <3>1. exposure' = exposure
            BY <2>5 DEF Advances, Funds
        <3>2. inv[i].status \in Open /\ inv'[i].status \in Open
            BY <2>5 DEF Advances, Funds, Open
        <3>3. y = x
            BY <2>2, <3>2
        <3> QED
            BY <1>t, <2>1, <2>3, <2>4, <3>1, <3>3
    <2>6. CASE Withdraws(i) \/ Closes(i)
        <3>1. exposure' = exposure \/ exposure' = [exposure EXCEPT ![inv[i].debtor] = @ - n]
            BY <2>6 DEF Withdraws, Closes, CloseFunded, DecreaseDebtorExposure
        <3>2. inv[i].status \in Open /\ inv'[i].status \notin Open
            BY <2>6 DEF Withdraws, Closes, Open
        <3>3. y = 0 /\ x = IF inv[i].debtor = d THEN n ELSE 0
            BY <2>2, <3>2
        <3>4. exposure'[d] >= exposure[d] - x
            BY <1>t, <2>0, <2>4, <2>a, <3>1, <3>3 DEF TypeOK
        <3>5. exposure'[d] \in Int
            BY DEF TypeOK
        <3> QED
            BY <1>t, <2>1, <2>3, <2>4, <3>3, <3>4, <3>5
    <2> QED
        BY <1>4, <2>5, <2>6, <2>b DEF Moves
<1> QED
    BY <1>1, <1>2, <1>3, <1>4 DEF Step

\* OpenInvoicesRegistered for every set of ids, SMEs and debtors.  The invariant
\* that carries it counts the open invoices without the disputed defaults, and
\* keeps a default in its owner's index: both are what a dispute reopens.
THEOREM RegistersCorrect == Spec => []OpenInvoicesRegistered
<1>1. Init => TypeOK /\ DatesInv /\ RegisterInv
    <2> SUFFICES ASSUME Init PROVE RegisterInv
        BY InitTyped, InitDates
    <2>1. \A i \in Ids : inv[i].status = "Absent"
        BY NoInvoiceType DEF Init
    <2>2. Counted(inv, dispute) = {}
        BY <2>1 DEF Counted, IsCounted, Open
    <2>3. active = 0 /\ Cardinality({}) = 0
        BY FS_EmptySet DEF Init
    <2>4. \A i \in Ids : IsListed(i, inv[i], dispute[i], ownerIdx, debtorIdx)
        BY <2>1 DEF IsListed, Open
    <2>5. \A d \in Debtors : exposure[d] = 0 /\ SumOf(OpenBy(inv, d)) = 0
        BY InitSums DEF Init
    <2> QED
        BY <2>2, <2>3, <2>4, <2>5 DEF RegisterInv
<1>2. TypeOK /\ DatesInv /\ RegisterInv /\ [Next]_vars => (TypeOK /\ DatesInv /\ RegisterInv)'
    <2> SUFFICES ASSUME TypeOK, DatesInv, RegisterInv, [Next]_vars
                 PROVE  (TypeOK /\ DatesInv /\ RegisterInv)'
        OBVIOUS
    <2>1. TypeOK' /\ Step
        BY StepCases
    <2>2. DatesInv'
        BY <2>1, DatesStep
    <2>3. /\ active' <= Cardinality(Counted(inv', dispute'))
          /\ NoDefaultDisputed' => active' = Cardinality(Counted(inv', dispute'))
        BY <2>1, StatisticsStep DEF RegisterInv
    <2>4. \A i \in Ids : IsListed(i, inv'[i], dispute'[i], ownerIdx', debtorIdx')
        BY <2>1, ListedStep DEF RegisterInv
    <2>5. NoDefaultDisputed' => \A d \in Debtors : exposure'[d] >= SumOf(OpenBy(inv', d))
        BY <2>1, ExposureStep, DisputesStay DEF RegisterInv
    <2>6. RegisterInv'
        BY <2>3, <2>4, <2>5 DEF RegisterInv
    <2> QED
        BY <2>1, <2>2, <2>6
<1>3. TypeOK /\ RegisterInv => OpenInvoicesRegistered
    <2> SUFFICES ASSUME TypeOK, RegisterInv PROVE OpenInvoicesRegistered
        OBVIOUS
    <2> DEFINE C == Counted(inv, dispute)
    <2>1. C \in SUBSET OpenIds /\ OpenIds \in SUBSET Ids
        BY DEF Counted, IsCounted, OpenIds
    <2>2. NoDefaultDisputed => C = OpenIds
        BY DEF Counted, IsCounted, OpenIds, NoDefaultDisputed
    <2>3. /\ Cardinality(C) <= Cardinality(OpenIds)
          /\ Cardinality(C) \in Nat /\ Cardinality(OpenIds) \in Nat
        BY <2>1, SubsetsAreFinite, FS_Subset
    <2>4. active \in Nat /\ active <= Cardinality(C) /\ (NoDefaultDisputed => active = Cardinality(C))
        BY DEF TypeOK, RegisterInv
    <2>5. \A i \in OpenIds : i \in ownerIdx /\ (dispute[i] = "None" => i \in debtorIdx)
        BY DEF RegisterInv, IsListed, OpenIds
    <2>6. NoDefaultDisputed => \A d \in Debtors : exposure[d] >= OpenAmount(d)
        BY SumsAreSums DEF RegisterInv
    <2> HIDE DEF C
    <2>7. active <= Cardinality(OpenIds) /\ (NoDefaultDisputed => active = Cardinality(OpenIds))
        BY <2>2, <2>3, <2>4
    <2> QED
        BY <2>5, <2>6, <2>7 DEF OpenInvoicesRegistered
<1> QED
    BY <1>1, <1>2, <1>3, PTL DEF Spec

-----------------------------------------------------------------------------
(* The rate limiter *)

Times == StartTime .. MaxTime

\* The stored invoices of s created after w, and in the window that ends at t.
Since(v, s, w) == {i \in Ids : v[i].status # "Absent" /\ v[i].owner = s /\ v[i].created > w}

Window(v, s, t) == {i \in Ids : /\ v[i].status # "Absent" /\ v[i].owner = s
                                /\ v[i].created \in (t - Day + 1) .. t}

\* The stamps after w.
After(f, w) == [t \in Times |-> IF t > w THEN f[t] ELSE 0]

\* The stamps f after a creation at n.
Stamped(f, n) == [[t \in Times |-> IF t > n - Day THEN f[t] ELSE 0] EXCEPT ![n] = @ + 1]

\* The limiter forgets a creation only when it is a day old, and it never
\* forgets one that is stored and younger.
LimiterInv ==
    /\ now \in Times
    /\ stamps \in [SMEs -> [Times -> Nat]]
    /\ \A s \in SMEs, w \in Int : w >= now - Day =>
          Cardinality(Since(inv, s, w)) <= SumOf(After(stamps[s], w))
    /\ \A s \in SMEs, t \in Times : Cardinality(Window(inv, s, t)) <= DailyLimit

LEMMA TimesFacts ==
    /\ IsFiniteSet(Times) /\ Times \subseteq Nat /\ StartTime \in Times
    /\ Day \in Nat /\ Day > 0 /\ DailyLimit \in Nat /\ MaxTime \in Nat /\ StartTime \in Nat
<1>1. Day \in Nat \ {0} /\ DailyLimit \in Nat /\ MaxTime \in Nat /\ StartTime \in Nat /\ StartTime <= MaxTime
    BY InvoiceAssumption
<1>2. IsFiniteSet(Times)
    BY <1>1, FS_Interval DEF Times
<1> QED
    BY <1>1, <1>2 DEF Times

LEMMA AfterTypes ==
    ASSUME NEW f \in [Times -> Nat], NEW w \in Int
    PROVE  After(f, w) \in [Times -> Nat] /\ After(f, w) \in [Times -> Int] /\ SumOf(After(f, w)) \in Nat
<1> DEFINE g == After(f, w)
<1>1. g \in [Times -> Nat]
    BY DEF After
<1>2. IsFiniteSet(Times)
    BY TimesFacts
<1> HIDE DEF g
<1>3. SumOf(g) \in Nat
    BY <1>1, <1>2, SumOfNat
<1>4. g \in [Times -> Int]
    BY <1>1
<1> QED
    BY <1>1, <1>3, <1>4 DEF g

\* A later start leaves out stamps.
LEMMA LaterIsFewer ==
    ASSUME NEW f \in [Times -> Nat], NEW w \in Int, NEW x \in Int, w <= x
    PROVE  SumOf(After(f, x)) <= SumOf(After(f, w))
<1> DEFINE g == After(f, w)
           h == After(f, x)
<1>1. g \in [Times -> Int] /\ h \in [Times -> Int] /\ IsFiniteSet(Times)
    BY AfterTypes, TimesFacts
<1>2. \A t \in Times : h[t] <= g[t]
    BY TimesFacts DEF After
<1> HIDE DEF g, h
<1>3. SumOf(h) <= SumOf(g)
    BY <1>1, <1>2, SumCompare
<1> QED
    BY <1>3 DEF g, h

\* The new stamp is counted after every w before now, and all that counted stays.
LEMMA StampAdded ==
    ASSUME NEW f \in [Times -> Nat], NEW g \in [Times -> Nat], NEW n \in Times, NEW w \in Int, w >= n - Day,
           g = Stamped(f, n)
    PROVE  SumOf(After(g, w)) = SumOf(After(f, w)) + (IF n > w THEN 1 ELSE 0)
<1> DEFINE a == After(f, w)
           b == After(g, w)
<1>0. n \in Nat /\ Day \in Nat /\ Day > 0
    BY TimesFacts
<1>1. a \in [Times -> Int] /\ b \in [Times -> Int] /\ IsFiniteSet(Times)
    BY AfterTypes, TimesFacts
<1>2. \A t \in Times \ {n} : b[t] = a[t]
    <2> SUFFICES ASSUME NEW t \in Times \ {n} PROVE b[t] = a[t]
        OBVIOUS
    <2>1. t \in Nat
        BY TimesFacts
    <2>2. g[t] = IF t > n - Day THEN f[t] ELSE 0
        BY DEF Stamped
    <2>3. b[t] = (IF t > w THEN g[t] ELSE 0) /\ a[t] = (IF t > w THEN f[t] ELSE 0)
        BY DEF After
    <2>4. t > w => t > n - Day
        BY <1>0, <2>1
    <2> HIDE DEF a, b
    <2> QED
        BY <2>2, <2>3, <2>4
<1>3. g[n] = f[n] + 1 /\ f[n] \in Nat
    BY <1>0 DEF Stamped
<1>4. b[n] = (IF n > w THEN g[n] ELSE 0) /\ a[n] = (IF n > w THEN f[n] ELSE 0)
    BY DEF After
<1> HIDE DEF a, b
<1>5. SumOf(b) = SumOf(a) + b[n] - a[n] /\ SumOf(a) \in Int
    BY <1>1, <1>2, SumChange, SumOfType
<1>6. SumOf(b) = SumOf(a) + (IF n > w THEN 1 ELSE 0)
    BY <1>3, <1>4, <1>5
<1> QED
    BY <1>6 DEF a, b

LEMMA WindowFacts ==
    ASSUME NEW v \in [Ids -> InvoiceRecord], NEW s, NEW t \in Int
    PROVE  /\ Window(v, s, t) \in SUBSET Ids /\ Since(v, s, t) \in SUBSET Ids
           /\ Window(v, s, t) \subseteq Since(v, s, t - Day)
           /\ Cardinality(Window(v, s, t)) \in Nat /\ Cardinality(Since(v, s, t)) \in Nat
           /\ Cardinality(Window(v, s, t)) <= Cardinality(Since(v, s, t - Day))
           /\ Cardinality(Since(v, s, t - Day)) \in Nat
<1>1. Window(v, s, t) \in SUBSET Ids /\ Since(v, s, t) \in SUBSET Ids /\ Since(v, s, t - Day) \in SUBSET Ids
    BY DEF Window, Since
<1>2. Window(v, s, t) \subseteq Since(v, s, t - Day)
    <2>1. \A i \in Ids : v[i].created \in Nat
        BY RecordFields
    <2> QED
        BY <2>1, TimesFacts DEF Window, Since
<1> QED
    BY <1>1, <1>2, SubsetsAreFinite, FS_Subset

\* A step creates an invoice, or stores nothing new and leaves the stamps.
LEMMA NothingNew ==
    ASSUME TypeOK, Step
    PROVE  \/ \E s \in SMEs, d \in Debtors, a \in Amounts : Creates(s, d, a)
           \/ /\ now' = now \/ (now < MaxTime /\ now' = now + 1)
              /\ stamps' = stamps
              /\ \A j \in Ids : inv'[j].status # "Absent" =>
                    /\ inv[j].status # "Absent"
                    /\ inv'[j].owner = inv[j].owner /\ inv'[j].created = inv[j].created
<1>1. CASE Idles
    BY <1>1 DEF Idles
<1>3. ASSUME NEW gone \in SUBSET Ids, Removes(gone)
      PROVE  /\ now' = now /\ stamps' = stamps
             /\ \A j \in Ids : inv'[j].status # "Absent" => inv'[j] = inv[j]
    BY <1>3 DEF Removes
<1>4. ASSUME NEW i \in Ids, Moves(i)
      PROVE  /\ now' = now /\ stamps' = stamps
             /\ \A j \in Ids : inv'[j].status # "Absent" =>
                    /\ inv[j].status # "Absent"
                    /\ inv'[j].owner = inv[j].owner /\ inv'[j].created = inv[j].created
    <2>1. inv[i].status # "Absent"
        BY <1>4 DEF Moves, Advances, Withdraws, Closes, Funds, Raises, Resolves
    <2> QED
        BY <1>4, <2>1 DEF Moves, Touches, SameDeal
<1> QED
    BY <1>1, <1>3, <1>4 DEF Step

LEMMA LimiterStep ==
    ASSUME TypeOK, TypeOK', LimiterInv, Step
    PROVE  LimiterInv'
<1>t. now \in Times /\ now \in Nat /\ Day \in Nat /\ Day > 0 /\ DailyLimit \in Nat
    BY TimesFacts DEF LimiterInv
<1>v. inv \in [Ids -> InvoiceRecord] /\ inv' \in [Ids -> InvoiceRecord]
    BY DEF TypeOK
<1>1. ASSUME now' = now \/ (now < MaxTime /\ now' = now + 1), stamps' = stamps,
             \A j \in Ids : inv'[j].status # "Absent" =>
                    /\ inv[j].status # "Absent"
                    /\ inv'[j].owner = inv[j].owner /\ inv'[j].created = inv[j].created
      PROVE  LimiterInv'
    <2>1. now' \in Times /\ now' \in Nat /\ now <= now'
        BY <1>1, <1>t, TimesFacts DEF Times
    <2>2. ASSUME NEW s \in SMEs, NEW w \in Int, w >= now' - Day
          PROVE  Cardinality(Since(inv', s, w)) <= SumOf(After(stamps'[s], w))
        <3>1. Since(inv', s, w) \subseteq Since(inv, s, w)
            BY <1>1 DEF Since
        <3>2. Cardinality(Since(inv', s, w)) <= Cardinality(Since(inv, s, w))
            <4>1. Since(inv, s, w) \in SUBSET Ids
                BY DEF Since
            <4>2. IsFiniteSet(Since(inv, s, w))
                BY <4>1, SubsetsAreFinite
            <4> QED
                BY <3>1, <4>2, FS_Subset
        <3>3. w >= now - Day
            <4>1. PICK n \in Nat : n = now'
                BY <2>1
            <4>2. now <= n /\ w >= n - Day
                BY <2>1, <2>2, <4>1
            <4> QED
                BY <1>t, <4>2
        <3>4. Cardinality(Since(inv, s, w)) <= SumOf(After(stamps[s], w))
            BY <3>3 DEF LimiterInv
        <3>5. SumOf(After(stamps[s], w)) \in Nat
            BY AfterTypes DEF LimiterInv
        <3>6. Cardinality(Since(inv', s, w)) \in Nat /\ Cardinality(Since(inv, s, w)) \in Nat
            BY <1>v, WindowFacts
        <3> QED
            BY <1>1, <3>2, <3>4, <3>5, <3>6
    <2>3. ASSUME NEW s \in SMEs, NEW t \in Times
          PROVE  Cardinality(Window(inv', s, t)) <= DailyLimit
        <3>0. t \in Int
            BY TimesFacts
        <3>1. Window(inv', s, t) \subseteq Window(inv, s, t)
            BY <1>1 DEF Window
        <3>2. Cardinality(Window(inv', s, t)) <= Cardinality(Window(inv, s, t))
            BY <1>v, <3>0, <3>1, WindowFacts, SubsetsAreFinite, FS_Subset
        <3>3. Cardinality(Window(inv', s, t)) \in Nat /\ Cardinality(Window(inv, s, t)) \in Nat
            BY <1>v, <3>0, WindowFacts
        <3>4. Cardinality(Window(inv, s, t)) <= DailyLimit
            BY DEF LimiterInv
        <3> QED
            BY <1>t, <3>2, <3>3, <3>4
    <2>4. stamps' \in [SMEs -> [Times -> Nat]]
        BY <1>1 DEF LimiterInv
    <2> QED
        BY <2>1, <2>2, <2>3, <2>4 DEF LimiterInv
<1>2. ASSUME NEW s1 \in SMEs, NEW d \in Debtors, NEW a \in Amounts, Creates(s1, d, a)
      PROVE  LimiterInv'
    <2> DEFINE id == count + 1
               f == stamps[s1]
               g == Stamped(f, now)
    <2>f. f \in [Times -> Nat] /\ DOMAIN stamps[s1] = Times
        BY DEF LimiterInv
    <2>g. g \in [Times -> Nat]
        BY <1>t, <2>f DEF Stamped
    <2>1. /\ id \in Ids /\ inv[id].status = "Absent" /\ now' = now
          /\ inv'[id].status # "Absent" /\ inv'[id].owner = s1 /\ inv'[id].created = now
          /\ \A j \in Ids \ {id} : inv'[j] = inv[j]
        BY <1>2 DEF Creates, NewRecord
    <2>2. Fresh(s1) = [t \in Times |-> IF t > now - Day THEN f[t] ELSE 0]
        BY <2>f, Zenon DEF Fresh
    <2>3. stamps' = [stamps EXCEPT ![s1] = g]
        BY <1>2, <2>2 DEF Creates, Stamped
    <2>4. SumOf(After(f, now - Day)) < DailyLimit
        <3>1. Fresh(s1) = After(f, now - Day)
            BY <2>2, Zenon DEF After
        <3>2. FreshCount(s1) = SumOf(Fresh(s1))
            BY Zenon DEF FreshCount, Total, FoldFunction, FoldFunctionOnSet, SumOf, MapThenSumSet
        <3>3. FreshCount(s1) < DailyLimit
            BY <1>2 DEF Creates
        <3> QED
            BY <3>1, <3>2, <3>3
    <2> HIDE DEF g
    <2>5. /\ stamps' \in [SMEs -> [Times -> Nat]] /\ stamps'[s1] = g
          /\ \A s \in SMEs \ {s1} : stamps'[s] = stamps[s]
        BY <2>3, <2>g DEF LimiterInv
    <2>6. ASSUME NEW s \in SMEs, NEW w \in Int, w >= now - Day
          PROVE  Cardinality(Since(inv', s, w)) <= SumOf(After(stamps'[s], w))
        <3>1. Cardinality(Since(inv, s, w)) <= SumOf(After(stamps[s], w))
            BY <2>6 DEF LimiterInv
        <3>2. Cardinality(Since(inv, s, w)) \in Nat /\ Since(inv, s, w) \in SUBSET Ids
            BY <1>v, WindowFacts
        <3>3. SumOf(After(stamps[s], w)) \in Nat
            BY AfterTypes DEF LimiterInv
        <3>4. CASE s # s1
            <4>1. Since(inv', s, w) = Since(inv, s, w)
                BY <2>1, <3>4 DEF Since
            <4> QED
                BY <2>5, <3>1, <3>4, <4>1
        <3>5. CASE s = s1
            <4>1. SumOf(After(g, w)) = SumOf(After(f, w)) + (IF now > w THEN 1 ELSE 0)
                <5>1. g = Stamped(f, now)
                    BY DEF g
                <5> HIDE DEF f
                <5> QED
                    BY <1>t, <2>6, <2>f, <2>g, <5>1, StampAdded
            <4>2. CASE now > w
                <5>1. Since(inv', s, w) = Since(inv, s, w) \cup {id} /\ id \notin Since(inv, s, w)
                    BY <2>1, <3>5, <4>2 DEF Since
                <5>2. Cardinality(Since(inv', s, w)) = Cardinality(Since(inv, s, w)) + 1
                    BY <3>2, <5>1, SizeOfMore
                <5>3. SumOf(After(g, w)) = SumOf(After(f, w)) + 1
                    BY <4>1, <4>2
                <5> QED
                    BY <2>5, <3>1, <3>2, <3>3, <3>5, <5>2, <5>3
            <4>3. CASE ~ (now > w)
                <5>1. Since(inv', s, w) = Since(inv, s, w)
                    BY <2>1, <4>3 DEF Since
                <5>2. SumOf(After(g, w)) = SumOf(After(f, w))
                    BY <3>3, <3>5, <4>1, <4>3
                <5> QED
                    BY <2>5, <3>1, <3>5, <5>1, <5>2
            <4> QED
                BY <4>2, <4>3
        <3> QED
            BY <3>4, <3>5
    <2>7. ASSUME NEW s \in SMEs, NEW t \in Times
          PROVE  Cardinality(Window(inv', s, t)) <= DailyLimit
        <3>0. t \in Int /\ t \in Nat
            BY TimesFacts
        <3>1. Cardinality(Window(inv, s, t)) <= DailyLimit
            BY DEF LimiterInv
        <3>2. CASE s # s1 \/ now \notin (t - Day + 1) .. t
            <4>1. Window(inv', s, t) = Window(inv, s, t)
                BY <2>1, <3>2 DEF Window
            <4> QED
                BY <3>1, <4>1
        <3>3. CASE s = s1 /\ now \in (t - Day + 1) .. t
            <4>1. Window(inv', s, t) = Window(inv, s, t) \cup {id} /\ id \notin Window(inv, s, t)
                BY <2>1, <3>3 DEF Window
            <4>2. Cardinality(Window(inv', s, t)) = Cardinality(Window(inv, s, t)) + 1
                BY <1>v, <3>0, <4>1, SizeOfMore, WindowFacts
            <4>3. t - Day \in Int /\ now - Day \in Int /\ now - Day <= t - Day
                BY <1>t, <3>0, <3>3
            <4>4. Cardinality(Since(inv, s, t - Day)) <= SumOf(After(f, t - Day))
                BY <3>3, <4>3 DEF LimiterInv
            <4>5. SumOf(After(f, t - Day)) <= SumOf(After(f, now - Day))
                BY <2>f, <4>3, LaterIsFewer
            <4>6. /\ Cardinality(Window(inv, s, t)) <= Cardinality(Since(inv, s, t - Day))
                  /\ Cardinality(Window(inv, s, t)) \in Nat /\ Cardinality(Since(inv, s, t - Day)) \in Nat
                BY <1>v, <3>0, WindowFacts
            <4>7. SumOf(After(f, t - Day)) \in Nat /\ SumOf(After(f, now - Day)) \in Nat
                BY <2>f, <4>3, AfterTypes
            <4> QED
                BY <1>t, <2>4, <4>2, <4>4, <4>5, <4>6, <4>7
        <3> QED
            BY <3>2, <3>3
    <2> QED
        BY <1>t, <2>1, <2>5, <2>6, <2>7 DEF LimiterInv
<1> QED
    BY <1>1, <1>2, NothingNew

\* RateLimitHolds for every window length, limit and number of owners: pruning
\* the stamps on creation never loses one that a window still needs.
THEOREM RateLimitCorrect == Spec => []RateLimitHolds
<1>1. Init => TypeOK /\ LimiterInv
    <2> SUFFICES ASSUME Init PROVE LimiterInv
        BY InitTyped
    <2>1. \A i \in Ids : inv[i].status = "Absent"
        BY NoInvoiceType DEF Init
    <2>2. now \in Times /\ stamps \in [SMEs -> [Times -> Nat]]
        BY TimesFacts DEF Init, Times
    <2>3. Cardinality({}) = 0
        BY FS_EmptySet
    <2>4. ASSUME NEW s \in SMEs, NEW w \in Int
          PROVE  Cardinality(Since(inv, s, w)) <= SumOf(After(stamps[s], w))
        <3>1. Since(inv, s, w) = {}
            BY <2>1 DEF Since
        <3>2. SumOf(After(stamps[s], w)) \in Nat
            BY <2>2, AfterTypes
        <3> QED
            BY <2>3, <3>1, <3>2
    <2>5. ASSUME NEW s \in SMEs, NEW t \in Times PROVE Cardinality(Window(inv, s, t)) <= DailyLimit
        <3>1. Window(inv, s, t) = {}
            BY <2>1 DEF Window
        <3> QED
            BY <2>3, <3>1, TimesFacts
    <2> QED
        BY <2>2, <2>4, <2>5 DEF LimiterInv
<1>2. TypeOK /\ LimiterInv /\ [Next]_vars => (TypeOK /\ LimiterInv)'
    BY StepCases, LimiterStep
<1>3. LimiterInv => RateLimitHolds
    BY DEF LimiterInv, RateLimitHolds, Window, Times
<1> QED
    BY <1>1, <1>2, <1>3, PTL DEF Spec

==============================================================================
