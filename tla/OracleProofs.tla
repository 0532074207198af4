----------------------------- MODULE OracleProofs -----------------------------
(***************************************************************************)
(* Theorems about OracleRegistry, for every set of oracles and invoices,   *)
(* every stake, penalty, configuration and tier list.                      *)
(***************************************************************************)
EXTENDS OracleRegistry, DataLemmas, TLAPS

-----------------------------------------------------------------------------
(* The sum of the stakes *)

StakeSum(orc, S) == MapThenSumSet(LAMBDA o : orc[o].stake, S)

LEMMA StakeSumIs ==
    ASSUME NEW orc \in [Oracles -> OracleInfo], NEW S \in SUBSET Oracles
    PROVE  /\ IsFiniteSet(S)
           /\ [o \in S |-> orc[o].stake] \in [S -> Nat]
           /\ StakeSum(orc, S) = SumOf([o \in S |-> orc[o].stake])
<1> DEFINE f == [o \in S |-> orc[o].stake]
           Body(g) == [s \in SUBSET S |-> IF s = {} THEN 0
                       ELSE orc[CHOOSE x \in s : TRUE].stake + g[s \ {CHOOSE x \in s : TRUE}]]
           iter == CHOOSE g : g = Body(g)
<1>1. IsFiniteSet(S)
    BY RegistryAssumption, FS_Subset
<1>2. f \in [S -> Nat] /\ f \in [S -> Int]
    BY DEF OracleInfo
<1>3. StakeSum(orc, S) = iter[S]
    BY Zenon DEF StakeSum, MapThenSumSet, MapThenFoldSet
<1>4. \A s \in SUBSET S : s # {} => f[Pick(s)] = orc[Pick(s)].stake
    BY PickIsIn
<1>5. ASSUME NEW g
      PROVE  SumsUp(g, f, S) <=> g = Body(g)
    <2> HIDE DEF f
    <2>1. [s \in SUBSET S |-> IF s = {} THEN 0 ELSE f[Pick(s)] + g[s \ {Pick(s)}]]
        = [s \in SUBSET S |-> IF s = {} THEN 0 ELSE orc[Pick(s)].stake + g[s \ {Pick(s)}]]
        BY <1>4
    <2> QED
        BY <2>1, Zenon DEF SumsUp, Pick
<1> HIDE DEF f
<1>6. \E g : SumsUp(g, f, S)
    BY <1>1, <1>2, SumExists
<1> HIDE DEF Body
<1>7. SumsUp(iter, f, S)
    <2>1. \E g : g = Body(g)
        BY <1>5, <1>6, Zenon
    <2>2. iter = Body(iter)
        BY <2>1, Zenon
    <2> HIDE DEF iter
    <2> QED
        BY <1>5, <2>2, Zenon
<1> HIDE DEF iter
<1>8. SumOf(f) = iter[S]
    BY <1>1, <1>2, <1>7, SumOfIs
<1> QED
    BY <1>1, <1>2, <1>3, <1>8 DEF f

LEMMA StakeSumType ==
    ASSUME NEW orc \in [Oracles -> OracleInfo], NEW S \in SUBSET Oracles
    PROVE  StakeSum(orc, S) \in Nat
<1> DEFINE f == [o \in S |-> orc[o].stake]
<1>1. IsFiniteSet(S) /\ f \in [S -> Nat] /\ StakeSum(orc, S) = SumOf(f)
    BY StakeSumIs
<1> HIDE DEF f
<1> QED
    BY <1>1, SumOfNat

\* One oracle changes: the sum changes by the change of its stake.
LEMMA StakeSumChange ==
    ASSUME NEW orc \in [Oracles -> OracleInfo], NEW new \in [Oracles -> OracleInfo],
           NEW o \in Oracles, \A p \in Oracles \ {o} : new[p].stake = orc[p].stake
    PROVE  StakeSum(new, Oracles) = StakeSum(orc, Oracles) + new[o].stake - orc[o].stake
<1> DEFINE f == [p \in Oracles |-> orc[p].stake]
           h == [p \in Oracles |-> new[p].stake]
<1>1. IsFiniteSet(Oracles) /\ f \in [Oracles -> Int] /\ h \in [Oracles -> Int]
    <2>1. f \in [Oracles -> Int]
        BY DEF OracleInfo
    <2>2. h \in [Oracles -> Int]
        BY DEF OracleInfo
    <2> QED
        BY <2>1, <2>2, RegistryAssumption
<1>2. StakeSum(orc, Oracles) = SumOf(f) /\ StakeSum(new, Oracles) = SumOf(h)
    BY StakeSumIs
<1>3. /\ \A y \in Oracles \ {o} : h[y] = f[y]
      /\ f[o] = orc[o].stake /\ h[o] = new[o].stake
    OBVIOUS
<1> HIDE DEF f, h
<1> QED
    BY <1>1, <1>2, <1>3, SumChange

LEMMA StakesNow ==
    /\ \A S : StakeOf(S) = StakeSum(oracle, S)
    /\ \A S : StakeOf(S)' = StakeSum(oracle', S)
BY Zenon DEF StakeOf, StakeSum, MapThenSumSet, MapThenFoldSet

-----------------------------------------------------------------------------
(* Types *)

\* A cut by bps of a stake leaves a natural number.
LEMMA CutInRange ==
    ASSUME NEW s \in Nat, NEW b \in 1 .. BPS
    PROVE  LET cut == (s * b) \div BPS IN cut \in Nat /\ cut <= s
<1> DEFINE p == s * b
<1>1. p \in Nat /\ BPS \in Nat \ {0} /\ p <= s * BPS
    <2>1. s \in Nat /\ b \in Nat /\ BPS \in Nat \ {0} /\ b <= BPS
        BY RegistryAssumption
    <2>2. s * BPS - s * b = s * (BPS - b)
        BY <2>1
    <2>3. s * (BPS - b) \in Nat
        BY <2>1
    <2> QED
        BY <2>1, <2>2, <2>3
<1> HIDE DEF p
<1>2. p \div BPS \in Nat /\ p \div BPS <= s
    BY <1>1, Z3
<1> QED
    BY <1>2 DEF p

\* The verdict on a round is one of the three statuses a vote may leave.
LEMMA VerdictStatus ==
    ASSUME NEW r
    PROVE  Verdict(r) \in {"Open", "ConsensusApproved", "ConsensusRejected"}
BY DEF Verdict

\* Changing a field of a record within its type keeps the record's type.
LEMMA RoundStatus ==
    ASSUME NEW r \in VerificationRound, NEW st \in Undecided \cup Decided
    PROVE  [r EXCEPT !.status = st] \in VerificationRound
BY DEF VerificationRound

LEMMA RoundVotes ==
    ASSUME NEW r \in VerificationRound, NEW v \in [Oracles -> {"none", "for", "against"}]
    PROVE  [r EXCEPT !.votes = v] \in VerificationRound
BY DEF VerificationRound

LEMMA RoundWeights ==
    ASSUME NEW r \in VerificationRound, NEW n \in Nat
    PROVE  /\ [r EXCEPT !.weightFor = n] \in VerificationRound
           /\ [r EXCEPT !.weightAgainst = n] \in VerificationRound
BY DEF VerificationRound

LEMMA RoundFallback ==
    ASSUME NEW r \in VerificationRound
    PROVE  [r EXCEPT !.fallback = TRUE] \in VerificationRound
BY DEF VerificationRound

LEMMA NewRoundFields ==
    ASSUME NEW r \in VerificationRound, NEW a \in Nat, NEW b \in Nat, NEW c \in Nat,
           NEW d \in Nat, NEW h \in BOOLEAN
    PROVE  [r EXCEPT !.status = "Open", !.required = a, !.quorum = b, !.snapshot = c,
                     !.deadline = d, !.hashOk = h] \in VerificationRound
BY DEF VerificationRound, Undecided

LEMMA OracleFields ==
    ASSUME NEW l \in OracleInfo, NEW n \in Nat
    PROVE  /\ [l EXCEPT !.stake = n] \in OracleInfo
           /\ [l EXCEPT !.active = FALSE, !.requestedAt = n] \in OracleInfo
BY DEF OracleInfo

\* Counting a vote keeps the type of a round.
LEMMA CountedType ==
    ASSUME NEW r \in VerificationRound, NEW o \in Oracles, NEW approved \in BOOLEAN,
           NEW w \in Nat
    PROVE  Counted(r, o, approved, w) \in VerificationRound
<1> DEFINE vote == IF approved THEN "for" ELSE "against"
           votes == [r.votes EXCEPT ![o] = vote]
           for == IF approved THEN r.weightFor + w ELSE r.weightFor
           against == IF approved THEN r.weightAgainst ELSE r.weightAgainst + w
<1>1. /\ r.votes \in [Oracles -> {"none", "for", "against"}]
      /\ r.weightFor \in Nat /\ r.weightAgainst \in Nat
    BY DEF VerificationRound
<1>2. votes \in [Oracles -> {"none", "for", "against"}] /\ for \in Nat /\ against \in Nat
    BY <1>1
<1>3. Counted(r, o, approved, w) =
          [r EXCEPT !.votes = votes, !.weightFor = for, !.weightAgainst = against]
    BY Zenon DEF Counted
<1> HIDE DEF votes, for, against
<1>4. [r EXCEPT !.votes = votes] \in VerificationRound
    BY <1>2, RoundVotes
<1>5. [[r EXCEPT !.votes = votes] EXCEPT !.weightFor = for] \in VerificationRound
    BY <1>2, <1>4, RoundWeights
<1>6. [[[r EXCEPT !.votes = votes] EXCEPT !.weightFor = for] EXCEPT !.weightAgainst = against]
          \in VerificationRound
    BY <1>2, <1>5, RoundWeights
<1> QED
    BY <1>3, <1>6, Zenon

\* The quorum of an invoice is a positive number.
LEMMA QuorumType ==
    ASSUME TypeOK, NEW i \in Invoices
    PROVE  ResolveQuorumBps(Amount[i]) \in Nat /\ ResolveQuorumBps(Amount[i]) > 0
<1> DEFINE S == {k \in 1 .. Len(tiers) : \A j \in 1 .. k : Amount[i] >= tiers[j].min}
           Tier == [min : Nat, quorum : Nat]
<1>1. config.quorum \in Nat /\ config.quorum > 0
    BY RegistryAssumption DEF TypeOK, ConfigRecord, ValidConfig
<1>2. tiers \in Seq(Tier) /\ Len(tiers) \in Nat
    <2>1. <<>> \in Seq(Tier)
        OBVIOUS
    <2>2. TierLists \subseteq Seq(Tier)
        BY RegistryAssumption
    <2> HIDE DEF Tier
    <2>3. tiers \in Seq(Tier)
        BY <2>1, <2>2 DEF TypeOK
    <2> QED
        BY <2>3
<1>3. IsFiniteSet(1 .. Len(tiers)) /\ Cardinality(1 .. Len(tiers)) = Len(tiers)
    <2>1. /\ IsFiniteSet(1 .. Len(tiers))
          /\ Cardinality(1 .. Len(tiers)) = IF 1 > Len(tiers) THEN 0 ELSE Len(tiers) - 1 + 1
        BY <1>2, FS_Interval
    <2> QED
        BY <1>2, <2>1
<1>4. Cardinality(S) \in Nat /\ Cardinality(S) <= Len(tiers)
    BY <1>3, FS_Subset, FS_CardinalityType
<1> HIDE DEF S
<1>5. ASSUME Cardinality(S) # 0
      PROVE  tiers[Cardinality(S)].quorum \in Nat /\ tiers[Cardinality(S)].quorum > 0
    <2>1. Cardinality(S) \in 1 .. Len(tiers)
        BY <1>4, <1>5
    <2>2. \A k \in 1 .. Len(tiers) : tiers[k] \in Tier
        <3> HIDE DEF Tier
        <3> QED
            BY <1>2
    <2>3. \A k \in 1 .. Len(tiers) : tiers[k].quorum > 0
        <3>1. CASE tiers \in TierLists
            BY <3>1, RegistryAssumption DEF ValidTiers
        <3>2. CASE tiers = <<>>
            BY <3>2
        <3> QED
            BY <3>1, <3>2 DEF TypeOK
    <2> QED
        BY <2>1, <2>2, <2>3
<1> QED
    BY <1>1, <1>5, Zenon DEF ResolveQuorumBps, S

\* The outcome a decision gives to the invoice.
LEMMA FinalizeType ==
    ASSUME TypeOK, NEW i \in Invoices, NEW approved, FinalizeOnInvoice(i, approved)
    PROVE  invoice' \in [Invoices -> Outcome]
<1> DEFINE x == IF approved THEN "Verified" ELSE "Disputed"
<1>1. x \in Outcome
    BY DEF Outcome
<1>2. invoice' = [invoice EXCEPT ![i] = x]
    BY DEF FinalizeOnInvoice
<1> HIDE DEF x
<1> QED
    BY <1>1, <1>2 DEF TypeOK

LEMMA RemoveType ==
    ASSUME TypeOK, NEW i \in Invoices, RemoveOpenRound(i)
    PROVE  openRounds' \in [Invoices -> Nat]
BY DEF TypeOK, RemoveOpenRound

-----------------------------------------------------------------------------
LEMMA TypeInit == Init => TypeOK
<1>1. NoRound \in VerificationRound
    BY DEF NoRound, VerificationRound, Undecided
<1>2. Absent \in OracleInfo
    BY DEF Absent, OracleInfo
<1>3. "Awaiting" \in Outcome
    BY DEF Outcome
<1> QED
    BY <1>1, <1>2, <1>3, 0 \in Nat, 0 \in Int, Zenon DEF Init, TypeOK

LEMMA TypeStep == TypeOK /\ [Next]_vars => TypeOK'
<1> SUFFICES ASSUME TypeOK, [Next]_vars PROVE TypeOK'
    OBVIOUS
<1> USE RegistryAssumption
<1>1. ASSUME NEW o \in Oracles, NEW stake \in Stakes, RegisterOracle(o, stake) PROVE TypeOK'
    BY <1>1 DEF TypeOK, RegisterOracle, OracleInfo, settings
<1>2. ASSUME NEW o \in Oracles, RequestDeregistration(o) PROVE TypeOK'
    <2>1. [oracle[o] EXCEPT !.active = FALSE, !.requestedAt = now] \in OracleInfo
        BY OracleFields DEF TypeOK
    <2>2. oracle' \in [Oracles -> OracleInfo]
        BY <1>2, <2>1, Zenon DEF RequestDeregistration, TypeOK
    <2> QED
        BY <1>2, <2>2, Zenon DEF TypeOK, RequestDeregistration, settings
<1>3. ASSUME NEW o \in Oracles, FinishDeregistration(o) PROVE TypeOK'
    BY <1>3 DEF TypeOK, FinishDeregistration, OracleInfo, Absent, settings
<1>4. ASSUME NEW o \in Oracles, NEW bps \in SlashBps, NEW i \in Invoices,
             SlashOracle(o, bps, i)
      PROVE  TypeOK'
    <2> DEFINE cut == (oracle[o].stake * bps) \div BPS
    <2>1. oracle[o].stake \in Nat /\ bps \in 1 .. BPS
        BY DEF TypeOK, OracleInfo
    <2>2. cut \in Nat /\ cut <= oracle[o].stake
        BY <2>1, CutInRange
    <2>3. /\ oracle' = [oracle EXCEPT ![o].stake = @ - cut]
          /\ \/ balance >= cut /\ balance' = balance - cut /\ unclaimed' = unclaimed
             \/ unclaimed' = unclaimed + cut /\ balance' = balance
          /\ UNCHANGED <<now, paused, settings, round, openRounds, invoice>>
        BY <1>4 DEF SlashOracle
    <2> HIDE DEF cut
    <2>4. oracle' \in [Oracles -> OracleInfo]
        <3>1. oracle[o].stake - cut \in Nat
            BY <2>1, <2>2
        <3>2. [oracle[o] EXCEPT !.stake = oracle[o].stake - cut] \in OracleInfo
            BY <3>1, OracleFields DEF TypeOK
        <3> QED
            BY <2>3, <3>2, Zenon DEF TypeOK
    <2>5. balance' \in Nat /\ unclaimed' \in Int
        BY <2>2, <2>3 DEF TypeOK
    <2> QED
        BY <2>3, <2>4, <2>5 DEF TypeOK, settings
<1>5. ASSUME NEW amount \in 1 .. MaxBalance, WithdrawSlashedFunds(amount) PROVE TypeOK'
    BY <1>5 DEF TypeOK, WithdrawSlashedFunds, settings
<1>6. ASSUME NEW i \in Invoices, NEW hashOk \in BOOLEAN, OpenVerificationRound(i, hashOk)
      PROVE  TypeOK'
    <2>1. StakeOf(Active) \in Nat
        <3>1. StakeOf(Active) = StakeSum(oracle, Active)
            BY StakesNow
        <3> QED
            BY <3>1, StakeSumType DEF TypeOK, Active
    <2> DEFINE new == [NoRound EXCEPT !.status = "Open", !.required = config.required,
                                      !.quorum = ResolveQuorumBps(Amount[i]),
                                      !.snapshot = StakeOf(Active),
                                      !.deadline = now + config.duration, !.hashOk = hashOk]
    <2>2. new \in VerificationRound
        <3>1. NoRound \in VerificationRound
            BY DEF NoRound, VerificationRound, Undecided
        <3>2. config.required \in Nat /\ now + config.duration \in Nat
            BY DEF TypeOK, ConfigRecord
        <3> QED
            BY <2>1, <3>1, <3>2, QuorumType, NewRoundFields
    <2>3. round' = [round EXCEPT ![i] = new]
        BY <1>6 DEF OpenVerificationRound
    <2> HIDE DEF new
    <2>4. round' \in [Invoices -> VerificationRound]
        BY <2>2, <2>3 DEF TypeOK
    <2> QED
        BY <1>6, <2>4 DEF TypeOK, OpenVerificationRound, settings
<1>7. ASSUME NEW o \in Oracles, NEW i \in Invoices, NEW approved \in BOOLEAN,
             SubmitVote(o, i, approved)
      PROVE  TypeOK'
    <2> DEFINE r == Counted(round[i], o, approved, oracle[o].stake)
               v == Verdict(r)
    <2>1. v \in {"Open", "ConsensusApproved", "ConsensusRejected"}
        BY VerdictStatus
    <2>2. round[i] \in VerificationRound /\ oracle[o].stake \in Nat
        BY DEF TypeOK, OracleInfo
    <2>3. [r EXCEPT !.status = v] \in VerificationRound
        <3>1. r \in VerificationRound
            BY <2>2, CountedType
        <3>2. v \in Undecided \cup Decided
            BY <2>1 DEF Undecided, Decided
        <3> QED
            BY <3>1, <3>2, RoundStatus
    <2>4. /\ round' = [round EXCEPT ![i] = [r EXCEPT !.status = v]]
          /\ \/ UNCHANGED <<openRounds, invoice>>
             \/ RemoveOpenRound(i) /\ FinalizeOnInvoice(i, v = "ConsensusApproved")
          /\ UNCHANGED <<now, paused, settings, oracle, balance, unclaimed>>
        BY <1>7 DEF SubmitVote
    <2> HIDE DEF r, v
    <2>5. round' \in [Invoices -> VerificationRound]
        BY <2>3, <2>4 DEF TypeOK
    <2>6. openRounds' \in [Invoices -> Nat] /\ invoice' \in [Invoices -> Outcome]
        BY <2>4, FinalizeType, RemoveType DEF TypeOK
    <2> QED
        BY <2>4, <2>5, <2>6 DEF TypeOK, settings
<1>8. ASSUME NEW i \in Invoices, ExpireRound(i) PROVE TypeOK'
    <2>1. [round[i] EXCEPT !.status = "Expired"] \in VerificationRound
        <3>1. "Expired" \in Undecided \cup Decided /\ round[i] \in VerificationRound
            BY DEF TypeOK, Undecided
        <3> QED
            BY <3>1, RoundStatus
    <2>2. round' \in [Invoices -> VerificationRound]
        BY <1>8, <2>1, Zenon DEF ExpireRound, TypeOK
    <2>3. openRounds' \in [Invoices -> Nat]
        BY <1>8, RemoveType DEF ExpireRound
    <2> QED
        BY <1>8, <2>2, <2>3, Zenon DEF TypeOK, ExpireRound, settings
<1>9. ASSUME NEW i \in Invoices, NEW approved \in BOOLEAN, AdminResolveRound(i, approved)
      PROVE  TypeOK'
    <2> DEFINE st == IF approved THEN "ConsensusApproved" ELSE "ConsensusRejected"
    <2>1. st \in Undecided \cup Decided
        BY DEF Decided
    <2>2. round' = [round EXCEPT ![i] = [round[i] EXCEPT !.status = st, !.fallback = TRUE]]
        BY <1>9, Zenon DEF AdminResolveRound, TypeOK
    <2> HIDE DEF st
    <2>3. [round[i] EXCEPT !.status = st] \in VerificationRound
        BY <2>1, RoundStatus DEF TypeOK
    <2>4. [[round[i] EXCEPT !.status = st] EXCEPT !.fallback = TRUE] \in VerificationRound
        BY <2>3, RoundFallback
    <2>5. round' \in [Invoices -> VerificationRound]
        BY <2>2, <2>4, Zenon DEF TypeOK
    <2>6. invoice' \in [Invoices -> Outcome]
        BY <1>9, FinalizeType DEF AdminResolveRound
    <2> QED
        BY <1>9, <2>5, <2>6, Zenon DEF TypeOK, AdminResolveRound, settings
<1>10. ASSUME NEW i \in Invoices, InvoiceLeaves(i) PROVE TypeOK'
    BY <1>10 DEF TypeOK, InvoiceLeaves, Outcome, settings
<1>11. CASE Pause \/ Unpause \/ Tick
    <2>1. now + 1 \in Nat
        BY DEF TypeOK
    <2> QED
        BY <1>11, <2>1, Zenon DEF TypeOK, Pause, Unpause, Tick, settings
<1>12. ASSUME NEW c \in Configs, SetRegistryConfig(c) PROVE TypeOK'
    BY <1>12 DEF TypeOK, SetRegistryConfig, settings
<1>13. ASSUME NEW set \in BOOLEAN, SetTreasury(set) PROVE TypeOK'
    BY <1>13 DEF TypeOK, SetTreasury, settings
<1>14. ASSUME NEW t \in TierLists, SetQuorumTiers(t) PROVE TypeOK'
    BY <1>14 DEF TypeOK, SetQuorumTiers, settings
<1>15. CASE UNCHANGED vars
    BY <1>15 DEF TypeOK, vars, settings
<1> QED
    BY <1>1, <1>2, <1>3, <1>4, <1>5, <1>6, <1>7, <1>8, <1>9, <1>10, <1>11, <1>12, <1>13,
       <1>14, <1>15 DEF Next

\* Every stored value keeps its type: in particular stakes, weights and the
\* registry's balance never become negative.
THEOREM TypeCorrect == Spec => []TypeOK
BY TypeInit, TypeStep, PTL DEF Spec

-----------------------------------------------------------------------------
(* What the four actions on rounds do to the round they name *)

LEMMA OpenFacts ==
    ASSUME TypeOK, NEW i \in Invoices, NEW hashOk \in BOOLEAN,
           OpenVerificationRound(i, hashOk)
    PROVE  /\ round'[i].status = "Open"
           /\ \A o \in Oracles : round'[i].votes[o] = "none"
           /\ round'[i].deadline = now + config.duration
           /\ \A j \in Invoices \ {i} : round'[j] = round[j]
<1> DEFINE q == ResolveQuorumBps(Amount[i])
           s == StakeOf(Active)
           new == [NoRound EXCEPT !.status = "Open", !.required = config.required,
                                  !.quorum = q, !.snapshot = s,
                                  !.deadline = now + config.duration, !.hashOk = hashOk]
<1>1. round' = [round EXCEPT ![i] = new]
    BY DEF OpenVerificationRound
<1> HIDE DEF q, s
<1>2. /\ new.status = "Open" /\ new.deadline = now + config.duration
      /\ \A o \in Oracles : new.votes[o] = "none"
    BY DEF NoRound
<1> HIDE DEF new
<1>3. round'[i] = new /\ \A j \in Invoices \ {i} : round'[j] = round[j]
    BY <1>1 DEF TypeOK
<1> QED
    BY <1>2, <1>3, Zenon

LEMMA VoteFacts ==
    ASSUME TypeOK, NEW o \in Oracles, NEW i \in Invoices, NEW approved \in BOOLEAN,
           SubmitVote(o, i, approved)
    PROVE  /\ round[i].status = "Open"
           /\ round'[i].deadline = round[i].deadline
           /\ \A p \in Oracles \ {o} : round'[i].votes[p] = round[i].votes[p]
           /\ \A j \in Invoices \ {i} : round'[j] = round[j]
           /\ \/ round'[i].status = "Open" /\ UNCHANGED <<openRounds, invoice>>
              \/ /\ round'[i].status = "ConsensusApproved"
                 /\ RemoveOpenRound(i) /\ FinalizeOnInvoice(i, TRUE)
              \/ /\ round'[i].status = "ConsensusRejected"
                 /\ RemoveOpenRound(i) /\ FinalizeOnInvoice(i, FALSE)
<1> DEFINE r == Counted(round[i], o, approved, oracle[o].stake)
           v == Verdict(r)
           new == [r EXCEPT !.status = v]
<1>1. v \in {"Open", "ConsensusApproved", "ConsensusRejected"}
    BY VerdictStatus
<1>2. round[i] \in VerificationRound /\ oracle[o].stake \in Nat
    BY DEF TypeOK, OracleInfo
<1>3. r \in VerificationRound
    BY <1>2, CountedType
<1>4. /\ r.deadline = round[i].deadline
      /\ \A p \in Oracles \ {o} : r.votes[p] = round[i].votes[p]
    BY <1>2 DEF Counted, VerificationRound
<1>5. /\ round[i].status = "Open"
      /\ round' = [round EXCEPT ![i] = new]
      /\ IF v = "Open"
         THEN UNCHANGED <<openRounds, invoice>>
         ELSE RemoveOpenRound(i) /\ FinalizeOnInvoice(i, v = "ConsensusApproved")
    BY Zenon DEF SubmitVote
<1> HIDE DEF r, v
<1>6. new.status = v /\ new.deadline = r.deadline /\ new.votes = r.votes
    BY <1>3 DEF VerificationRound
<1> HIDE DEF new
<1>7. round'[i] = new /\ \A j \in Invoices \ {i} : round'[j] = round[j]
    BY <1>5 DEF TypeOK
<1>8. \/ v = "Open" /\ UNCHANGED <<openRounds, invoice>>
      \/ v = "ConsensusApproved" /\ RemoveOpenRound(i) /\ FinalizeOnInvoice(i, TRUE)
      \/ v = "ConsensusRejected" /\ RemoveOpenRound(i) /\ FinalizeOnInvoice(i, FALSE)
    BY <1>1, <1>5 DEF FinalizeOnInvoice
<1> QED
    BY <1>4, <1>5, <1>6, <1>7, <1>8, Zenon

LEMMA ExpireFacts ==
    ASSUME TypeOK, NEW i \in Invoices, ExpireRound(i)
    PROVE  /\ round[i].status = "Open"
           /\ round'[i].status = "Expired"
           /\ \A j \in Invoices \ {i} : round'[j] = round[j]
<1> DEFINE new == [round[i] EXCEPT !.status = "Expired"]
<1>1. round[i] \in VerificationRound
    BY DEF TypeOK
<1>2. new.status = "Expired"
    BY <1>1 DEF VerificationRound
<1>3. round[i].status = "Open" /\ round' = [round EXCEPT ![i] = new]
    BY Zenon DEF ExpireRound
<1> HIDE DEF new
<1>4. round'[i] = new /\ \A j \in Invoices \ {i} : round'[j] = round[j]
    BY <1>3 DEF TypeOK
<1> QED
    BY <1>2, <1>3, <1>4, Zenon

LEMMA ResolveFacts ==
    ASSUME TypeOK, NEW i \in Invoices, NEW approved \in BOOLEAN, AdminResolveRound(i, approved)
    PROVE  /\ round[i].status = "Expired"
           /\ \A j \in Invoices \ {i} : round'[j] = round[j]
           /\ \/ round'[i].status = "ConsensusApproved" /\ FinalizeOnInvoice(i, TRUE)
              \/ round'[i].status = "ConsensusRejected" /\ FinalizeOnInvoice(i, FALSE)
<1> DEFINE st == IF approved THEN "ConsensusApproved" ELSE "ConsensusRejected"
           new == [round[i] EXCEPT !.status = st, !.fallback = TRUE]
<1>1. round[i] \in VerificationRound
    BY DEF TypeOK
<1>2. /\ round[i].status = "Expired"
      /\ round' = [round EXCEPT ![i] = new]
      /\ FinalizeOnInvoice(i, approved)
    BY Zenon DEF AdminResolveRound
<1>3. \/ st = "ConsensusApproved" /\ FinalizeOnInvoice(i, TRUE)
      \/ st = "ConsensusRejected" /\ FinalizeOnInvoice(i, FALSE)
    BY <1>2 DEF FinalizeOnInvoice
<1> HIDE DEF st
<1>4. new.status = st
    BY <1>1 DEF VerificationRound
<1> HIDE DEF new
<1>5. round'[i] = new /\ \A j \in Invoices \ {i} : round'[j] = round[j]
    BY <1>2 DEF TypeOK
<1> QED
    BY <1>2, <1>3, <1>4, <1>5, Zenon

\* Every other step leaves the rounds and their list alone.
LEMMA QuietSteps ==
    ASSUME [Next]_vars
    PROVE  \/ UNCHANGED <<round, openRounds, invoice>>
           \/ \E i \in Invoices : InvoiceLeaves(i)
           \/ \E i \in Invoices, hashOk \in BOOLEAN : OpenVerificationRound(i, hashOk)
           \/ \E o \in Oracles, i \in Invoices, approved \in BOOLEAN : SubmitVote(o, i, approved)
           \/ \E i \in Invoices : ExpireRound(i)
           \/ \E i \in Invoices, approved \in BOOLEAN : AdminResolveRound(i, approved)
BY Zenon DEF Next, vars, RegisterOracle, RequestDeregistration, FinishDeregistration, SlashOracle,
    WithdrawSlashedFunds, Pause, Unpause, Tick, SetRegistryConfig, SetTreasury, SetQuorumTiers

-----------------------------------------------------------------------------
(* The list of open rounds *)

LEMMA OpenRoundsStep == TypeOK /\ OpenRoundsExact /\ [Next]_vars => OpenRoundsExact'
<1> SUFFICES ASSUME TypeOK, OpenRoundsExact, [Next]_vars,
                    NEW j \in Invoices
             PROVE  openRounds'[j] = IF round'[j].status = "Open" THEN 1 ELSE 0
    BY DEF OpenRoundsExact
<1>0. openRounds[j] = IF round[j].status = "Open" THEN 1 ELSE 0
    BY DEF OpenRoundsExact
<1>1. CASE UNCHANGED <<round, openRounds, invoice>>
    BY <1>0, <1>1
<1>2. ASSUME NEW i \in Invoices, InvoiceLeaves(i)
      PROVE  openRounds'[j] = IF round'[j].status = "Open" THEN 1 ELSE 0
    BY <1>0, <1>2 DEF InvoiceLeaves
<1>3. ASSUME NEW i \in Invoices, NEW hashOk \in BOOLEAN, OpenVerificationRound(i, hashOk)
      PROVE  openRounds'[j] = IF round'[j].status = "Open" THEN 1 ELSE 0
    <2>1. openRounds' = [openRounds EXCEPT ![i] = openRounds[i] + 1] /\ round[i].status # "Open"
        BY <1>3 DEF OpenVerificationRound
    <2> QED
        BY <1>0, <1>3, <2>1, OpenFacts DEF TypeOK
<1>4. ASSUME NEW o \in Oracles, NEW i \in Invoices, NEW approved \in BOOLEAN,
             SubmitVote(o, i, approved)
      PROVE  openRounds'[j] = IF round'[j].status = "Open" THEN 1 ELSE 0
    <2>1. CASE j # i
        <3>1. round'[j] = round[j]
            BY <1>4, <2>1, VoteFacts
        <3>2. openRounds'[j] = openRounds[j]
            <4>1. openRounds' = openRounds \/ RemoveOpenRound(i)
                BY <1>4, VoteFacts, Zenon
            <4> QED
                BY <2>1, <4>1 DEF TypeOK, RemoveOpenRound
        <3> QED
            BY <1>0, <3>1, <3>2
    <2>2. CASE j = i
        <3>1. openRounds[i] = 1
            BY <1>0, <1>4, <2>2, VoteFacts
        <3>2. RemoveOpenRound(i) => openRounds'[i] = 0
            BY <3>1 DEF TypeOK, RemoveOpenRound
        <3> QED
            BY <1>4, <2>2, <3>1, <3>2, VoteFacts
    <2> QED
        BY <2>1, <2>2
<1>5. ASSUME NEW i \in Invoices, ExpireRound(i)
      PROVE  openRounds'[j] = IF round'[j].status = "Open" THEN 1 ELSE 0
    <2>1. RemoveOpenRound(i)
        BY <1>5 DEF ExpireRound
    <2> QED
        BY <1>0, <1>5, <2>1, ExpireFacts DEF TypeOK, RemoveOpenRound
<1>6. ASSUME NEW i \in Invoices, NEW approved \in BOOLEAN, AdminResolveRound(i, approved)
      PROVE  openRounds'[j] = IF round'[j].status = "Open" THEN 1 ELSE 0
    <2>1. openRounds' = openRounds
        BY <1>6 DEF AdminResolveRound
    <2> QED
        BY <1>0, <1>6, <2>1, ResolveFacts
<1> QED
    BY <1>1, <1>2, <1>3, <1>4, <1>5, <1>6, QuietSteps

\* The list of open rounds is exact: deregister_oracle's scan of it, and
\* remove_open_round, can rely on it.
THEOREM OpenRoundsCorrect == Spec => []OpenRoundsExact
<1>1. Init => OpenRoundsExact
    BY DEF Init, OpenRoundsExact, NoRound
<1> QED
    BY <1>1, OpenRoundsStep, TypeCorrect, PTL DEF Spec

-----------------------------------------------------------------------------
(* Decisions *)

LEMMA DecisionStep ==
    TypeOK /\ DecisionReachesInvoice /\ [Next]_vars => DecisionReachesInvoice'
<1> DEFINE Reached(st, out) == /\ st = "ConsensusApproved" => out = "Verified"
                               /\ st = "ConsensusRejected" => out = "Disputed"
<1> SUFFICES ASSUME TypeOK, DecisionReachesInvoice, [Next]_vars,
                    NEW j \in Invoices
             PROVE  Reached(round'[j].status, invoice'[j])
    BY Zenon DEF DecisionReachesInvoice
<1>0. Reached(round[j].status, invoice[j])
    BY Zenon DEF DecisionReachesInvoice
<1>1. CASE UNCHANGED <<round, openRounds, invoice>>
    BY <1>0, <1>1, Zenon
<1>2. ASSUME NEW i \in Invoices, InvoiceLeaves(i)
      PROVE  Reached(round'[j].status, invoice'[j])
    <2>1. /\ invoice[i] = "Awaiting" /\ round' = round
          /\ invoice' = [invoice EXCEPT ![i] = "Elsewhere"]
        BY <1>2 DEF InvoiceLeaves
    <2> QED
        BY <1>0, <2>1 DEF TypeOK
<1>3. ASSUME NEW i \in Invoices, NEW hashOk \in BOOLEAN, OpenVerificationRound(i, hashOk)
      PROVE  Reached(round'[j].status, invoice'[j])
    <2>1. invoice' = invoice
        BY <1>3 DEF OpenVerificationRound
    <2> QED
        BY <1>0, <1>3, <2>1, OpenFacts
<1>4. ASSUME NEW o \in Oracles, NEW i \in Invoices, NEW approved \in BOOLEAN,
             SubmitVote(o, i, approved)
      PROVE  Reached(round'[j].status, invoice'[j])
    BY <1>0, <1>4, VoteFacts DEF TypeOK, FinalizeOnInvoice
<1>5. ASSUME NEW i \in Invoices, ExpireRound(i)
      PROVE  Reached(round'[j].status, invoice'[j])
    <2>1. invoice' = invoice
        BY <1>5 DEF ExpireRound
    <2> QED
        BY <1>0, <1>5, <2>1, ExpireFacts
<1>6. ASSUME NEW i \in Invoices, NEW approved \in BOOLEAN, AdminResolveRound(i, approved)
      PROVE  Reached(round'[j].status, invoice'[j])
    BY <1>0, <1>6, ResolveFacts DEF TypeOK, FinalizeOnInvoice
<1> QED
    BY <1>1, <1>2, <1>3, <1>4, <1>5, <1>6, QuietSteps

\* The registry's decision and the invoice's fate agree, whatever races them.
THEOREM DecisionsReachInvoices == Spec => []DecisionReachesInvoice
<1>1. Init => DecisionReachesInvoice
    BY DEF Init, DecisionReachesInvoice, NoRound
<1> QED
    BY <1>1, DecisionStep, TypeCorrect, PTL DEF Spec

\* A decided round is never reopened, expired or decided again: its invoice has
\* left AwaitingVerification, and open_verification_round asks for that status.
THEOREM DecisionsAreFinal == Spec => DecisionIsFinal
<1> DEFINE Final == \A i \in Invoices : round[i].status \in Decided => round'[i] = round[i]
<1>1. TypeOK /\ DecisionReachesInvoice /\ [Next]_vars => [Final]_vars
    <2> SUFFICES ASSUME TypeOK, DecisionReachesInvoice, [Next]_vars,
                        NEW j \in Invoices, round[j].status \in Decided
                 PROVE  round'[j] = round[j]
        BY Zenon
    <2>0. invoice[j] # "Awaiting" /\ round[j].status \notin {"Open", "Expired"}
        BY DEF Decided, DecisionReachesInvoice
    <2>1. ASSUME NEW i \in Invoices, NEW hashOk \in BOOLEAN, OpenVerificationRound(i, hashOk)
          PROVE  round'[j] = round[j]
        <3>1. invoice[i] = "Awaiting"
            BY <2>1 DEF OpenVerificationRound
        <3> QED
            BY <2>0, <2>1, <3>1, OpenFacts
    <2>2. ASSUME NEW o \in Oracles, NEW i \in Invoices, NEW approved \in BOOLEAN,
                 SubmitVote(o, i, approved)
          PROVE  round'[j] = round[j]
        BY <2>0, <2>2, VoteFacts
    <2>3. ASSUME NEW i \in Invoices, ExpireRound(i) PROVE round'[j] = round[j]
        BY <2>0, <2>3, ExpireFacts
    <2>4. ASSUME NEW i \in Invoices, NEW approved \in BOOLEAN, AdminResolveRound(i, approved)
          PROVE  round'[j] = round[j]
        BY <2>0, <2>4, ResolveFacts
    <2>5. ASSUME NEW i \in Invoices, InvoiceLeaves(i) PROVE round'[j] = round[j]
        BY <2>5 DEF InvoiceLeaves
    <2> QED
        BY <2>1, <2>2, <2>3, <2>4, <2>5, QuietSteps
<1> QED
    BY <1>1, TypeCorrect, DecisionsReachInvoices, PTL DEF Spec, DecisionIsFinal

-----------------------------------------------------------------------------
(* The registry's tokens *)

\* An operator who is not registered has no stake on record.
NoStakeWithoutOracle == \A o \in Oracles : ~oracle[o].registered => oracle[o].stake = 0

\* How a step may change stakes and tokens: one oracle's stake grows by what
\* comes in, or falls by what is paid or kept.
StakeMoved(o, new, bal, kept) ==
    /\ \A p \in Oracles \ {o} : new[p] = oracle[p]
    /\ ~new[o].registered => new[o].stake = 0
    /\ bal - balance = (new[o].stake - oracle[o].stake) + (kept - unclaimed)

LEMMA RegisterMoves ==
    ASSUME TypeOK, NoStakeWithoutOracle, NEW o \in Oracles, NEW stake \in Stakes,
           RegisterOracle(o, stake)
    PROVE  StakeMoved(o, oracle', balance', unclaimed')
<1>1. oracle[o].stake = 0 /\ stake \in Nat /\ balance \in Nat /\ unclaimed \in Int
    BY RegistryAssumption DEF RegisterOracle, NoStakeWithoutOracle, TypeOK
<1>2. /\ oracle' = [oracle EXCEPT ![o] = [registered |-> TRUE, stake |-> stake,
                                          active |-> TRUE, requestedAt |-> NoTime]]
      /\ balance' = balance + stake /\ unclaimed' = unclaimed
    BY DEF RegisterOracle
<1>3. /\ \A p \in Oracles \ {o} : oracle'[p] = oracle[p]
      /\ oracle'[o].registered /\ oracle'[o].stake = stake
    BY <1>2 DEF TypeOK
<1> QED
    BY <1>1, <1>2, <1>3 DEF StakeMoved

LEMMA RequestMoves ==
    ASSUME TypeOK, NEW o \in Oracles, RequestDeregistration(o)
    PROVE  StakeMoved(o, oracle', balance', unclaimed')
<1> DEFINE new == [oracle[o] EXCEPT !.active = FALSE, !.requestedAt = now]
<1>1. /\ oracle[o].registered /\ balance' = balance /\ unclaimed' = unclaimed
      /\ oracle' = [oracle EXCEPT ![o] = new]
    BY Zenon DEF RequestDeregistration
<1>2. oracle[o] \in OracleInfo /\ oracle[o].stake \in Nat /\ balance \in Nat /\ unclaimed \in Int
    BY DEF TypeOK, OracleInfo
<1>3. new.registered = oracle[o].registered /\ new.stake = oracle[o].stake
    BY <1>2 DEF OracleInfo
<1> HIDE DEF new
<1>4. oracle'[o] = new /\ \A p \in Oracles \ {o} : oracle'[p] = oracle[p]
    BY <1>1 DEF TypeOK
<1>5. balance' - balance = (oracle'[o].stake - oracle[o].stake) + (unclaimed' - unclaimed)
    BY <1>1, <1>2, <1>3, <1>4
<1> QED
    BY <1>1, <1>3, <1>4, <1>5, Zenon DEF StakeMoved

LEMMA FinishMoves ==
    ASSUME TypeOK, NEW o \in Oracles, FinishDeregistration(o)
    PROVE  StakeMoved(o, oracle', balance', unclaimed')
<1>1. oracle[o].stake \in Nat /\ balance \in Nat /\ unclaimed \in Int
    BY DEF TypeOK, OracleInfo
<1>2. /\ oracle' = [oracle EXCEPT ![o] = Absent]
      /\ balance' = balance - oracle[o].stake /\ unclaimed' = unclaimed
    BY DEF FinishDeregistration
<1>3. /\ \A p \in Oracles \ {o} : oracle'[p] = oracle[p]
      /\ oracle'[o].stake = 0
    BY <1>2 DEF TypeOK, Absent
<1> QED
    BY <1>1, <1>2, <1>3 DEF StakeMoved

LEMMA SlashMoves ==
    ASSUME TypeOK, NEW o \in Oracles, NEW bps \in SlashBps, NEW i \in Invoices,
           SlashOracle(o, bps, i)
    PROVE  StakeMoved(o, oracle', balance', unclaimed')
<1> DEFINE cut == (oracle[o].stake * bps) \div BPS
           new == [oracle[o] EXCEPT !.stake = oracle[o].stake - cut]
<1>1. /\ oracle[o] \in OracleInfo /\ oracle[o].stake \in Nat /\ bps \in 1 .. BPS
      /\ balance \in Nat /\ unclaimed \in Int
    BY RegistryAssumption DEF TypeOK, OracleInfo
<1>2. cut \in Nat
    BY <1>1, CutInRange
<1>3. oracle[o].registered /\ oracle' = [oracle EXCEPT ![o] = new]
    BY Zenon DEF SlashOracle
<1>4. \/ balance' = balance - cut /\ unclaimed' = unclaimed
      \/ unclaimed' = unclaimed + cut /\ balance' = balance
    BY Zenon DEF SlashOracle
<1> HIDE DEF cut
<1>5. new.registered = oracle[o].registered /\ new.stake = oracle[o].stake - cut
    BY <1>1 DEF OracleInfo
<1> HIDE DEF new
<1>6. oracle'[o] = new /\ \A p \in Oracles \ {o} : oracle'[p] = oracle[p]
    BY <1>3 DEF TypeOK
<1>7. balance' - balance = (oracle'[o].stake - oracle[o].stake) + (unclaimed' - unclaimed)
    BY <1>1, <1>2, <1>4, <1>5, <1>6
<1> QED
    BY <1>3, <1>5, <1>6, <1>7, Zenon DEF StakeMoved

LEMMA TokenSteps ==
    ASSUME TypeOK, NoStakeWithoutOracle, [Next]_vars
    PROVE  \/ UNCHANGED <<oracle, balance, unclaimed>>
           \/ \E amount \in 1 .. MaxBalance : WithdrawSlashedFunds(amount)
           \/ \E o \in Oracles : StakeMoved(o, oracle', balance', unclaimed')
<1>1. \/ \E o \in Oracles, stake \in Stakes : RegisterOracle(o, stake)
      \/ \E o \in Oracles : RequestDeregistration(o) \/ FinishDeregistration(o)
      \/ \E o \in Oracles, bps \in SlashBps, i \in Invoices : SlashOracle(o, bps, i)
      \/ \E amount \in 1 .. MaxBalance : WithdrawSlashedFunds(amount)
      \/ UNCHANGED <<oracle, balance, unclaimed>>
    BY Zenon DEF Next, vars, Pause, Unpause, Tick, SetRegistryConfig, SetTreasury,
        SetQuorumTiers, InvoiceLeaves, OpenVerificationRound, SubmitVote, ExpireRound,
        AdminResolveRound
<1> QED
    BY <1>1, RegisterMoves, RequestMoves, FinishMoves, SlashMoves, Zenon

LEMMA StakeStep ==
    TypeOK /\ TypeOK' /\ NoStakeWithoutOracle /\ StakeAccounted /\ [Next]_vars
        => (NoStakeWithoutOracle /\ StakeAccounted)'
<1> SUFFICES ASSUME TypeOK, TypeOK', NoStakeWithoutOracle, StakeAccounted, [Next]_vars
             PROVE  (NoStakeWithoutOracle /\ StakeAccounted)'
    OBVIOUS
<1> DEFINE sum == StakeSum(oracle, Oracles)
           sum2 == StakeSum(oracle', Oracles)
<1>1. balance = sum + unclaimed
    BY StakesNow, Zenon DEF StakeAccounted
<1>2. /\ oracle \in [Oracles -> OracleInfo] /\ oracle' \in [Oracles -> OracleInfo]
      /\ balance \in Nat /\ unclaimed \in Int /\ balance' \in Nat /\ unclaimed' \in Int
    BY DEF TypeOK
<1>3. sum \in Nat /\ sum2 \in Nat
    BY <1>2, StakeSumType
<1>4. SUFFICES /\ NoStakeWithoutOracle'
               /\ balance' = sum2 + unclaimed'
    BY StakesNow, Zenon DEF StakeAccounted
<1>5. ASSUME oracle' = oracle, NEW d \in Int, balance' = balance + d, unclaimed' = unclaimed + d
      PROVE  NoStakeWithoutOracle' /\ balance' = sum2 + unclaimed'
    <2>1. sum2 = sum
        BY <1>5
    <2> HIDE DEF sum, sum2
    <2>2. balance' = sum2 + unclaimed'
        BY <1>1, <1>2, <1>3, <1>5, <2>1
    <2>3. NoStakeWithoutOracle'
        BY <1>5, Zenon DEF NoStakeWithoutOracle
    <2> QED
        BY <2>2, <2>3
<1>6. ASSUME NEW o \in Oracles, StakeMoved(o, oracle', balance', unclaimed')
      PROVE  NoStakeWithoutOracle' /\ balance' = sum2 + unclaimed'
    <2>1. sum2 = sum + oracle'[o].stake - oracle[o].stake
        <3>1. \A p \in Oracles \ {o} : oracle'[p].stake = oracle[p].stake
            BY <1>6 DEF StakeMoved
        <3> QED
            BY <1>2, <3>1, StakeSumChange
    <2>2. oracle[o].stake \in Nat /\ oracle'[o].stake \in Nat
        BY <1>2 DEF OracleInfo
    <2> HIDE DEF sum, sum2
    <2>3. balance' = sum2 + unclaimed'
        BY <1>1, <1>2, <1>3, <1>6, <2>1, <2>2 DEF StakeMoved
    <2>4. NoStakeWithoutOracle'
        BY <1>6 DEF StakeMoved, NoStakeWithoutOracle
    <2> QED
        BY <2>3, <2>4
<1>7. ASSUME NEW amount \in 1 .. MaxBalance, WithdrawSlashedFunds(amount)
      PROVE  NoStakeWithoutOracle' /\ balance' = sum2 + unclaimed'
    <2>1. amount \in Nat
        BY RegistryAssumption
    <2>2. oracle' = oracle /\ balance' = balance + (-amount) /\ unclaimed' = unclaimed + (-amount)
        BY <1>2, <1>7, <2>1 DEF WithdrawSlashedFunds
    <2> QED
        BY <1>5, <2>1, <2>2
<1>8. CASE UNCHANGED <<oracle, balance, unclaimed>>
    <2>1. oracle' = oracle /\ balance' = balance + 0 /\ unclaimed' = unclaimed + 0
        BY <1>2, <1>8
    <2> QED
        BY <1>5, <2>1
<1> QED
    BY <1>6, <1>7, <1>8, TokenSteps

\* The tokens the registry holds are the stakes on record and the slashed
\* tokens it kept, for any number of oracles and any stakes and penalties.  A
\* stake is returned whole, and what a penalty takes off it is what is kept.
THEOREM StakesAccounted == Spec => []StakeAccounted
<1>1. Init => NoStakeWithoutOracle /\ StakeAccounted
    <2> SUFFICES ASSUME Init PROVE NoStakeWithoutOracle /\ StakeAccounted
        OBVIOUS
    <2> DEFINE f == [o \in Oracles |-> oracle[o].stake]
    <2>1. \A o \in Oracles : oracle[o].stake = 0
        BY DEF Init, Absent
    <2>2. f = [o \in Oracles |-> 0] /\ IsFiniteSet(Oracles)
        BY <2>1, RegistryAssumption
    <2>3. oracle \in [Oracles -> OracleInfo]
        BY TypeInit DEF TypeOK
    <2>4. StakeSum(oracle, Oracles) = SumOf(f)
        BY <2>3, StakeSumIs
    <2> HIDE DEF f
    <2>5. SumOf(f) = 0
        BY <2>2, SumOfZero
    <2>6. StakeOf(Oracles) = 0
        BY <2>4, <2>5, StakesNow
    <2> QED
        BY <2>1, <2>6 DEF Init, NoStakeWithoutOracle, StakeAccounted
<1> QED
    BY <1>1, StakeStep, TypeCorrect, PTL DEF Spec

-----------------------------------------------------------------------------
(* What stands behind an approval *)

\* A round's weight for approval comes from votes, and without the admin it is
\* approved at its threshold only.
Supported(r) ==
    /\ r.status # "Absent" => r.quorum > 0
    /\ r.weightFor > 0 => \E o \in Oracles : r.votes[o] = "for"
    /\ r.status = "ConsensusApproved" /\ ~r.fallback => r.weightFor >= Threshold(r)

RoundsSupported == \A i \in Invoices : Supported(round[i])

LEMMA ThresholdPositive ==
    ASSUME NEW r \in VerificationRound, r.snapshot > 0, r.quorum > 0
    PROVE  Threshold(r) >= 1 /\ Threshold(r) \in Int
<1> DEFINE p == r.snapshot * r.quorum
<1>1. r.snapshot \in Nat /\ r.quorum \in Nat /\ BPS \in Nat \ {0}
    BY RegistryAssumption DEF VerificationRound
<1>2. p \in Nat /\ p > 0
    BY <1>1
<1>3. Threshold(r) = (p + BPS - 1) \div BPS
    BY DEF Threshold
<1> HIDE DEF p
<1>4. (p + BPS - 1) \div BPS >= 1 /\ (p + BPS - 1) \div BPS \in Int
    BY <1>1, <1>2, Z3
<1> QED
    BY <1>3, <1>4

LEMMA OpenSupported ==
    ASSUME TypeOK, NEW i \in Invoices, NEW hashOk \in BOOLEAN, OpenVerificationRound(i, hashOk)
    PROVE  Supported(round'[i])
<1> DEFINE q == ResolveQuorumBps(Amount[i])
           s == StakeOf(Active)
           new == [NoRound EXCEPT !.status = "Open", !.required = config.required,
                                  !.quorum = q, !.snapshot = s,
                                  !.deadline = now + config.duration, !.hashOk = hashOk]
<1>1. round' = [round EXCEPT ![i] = new]
    BY DEF OpenVerificationRound
<1>2. q > 0
    BY QuorumType
<1> HIDE DEF q, s
<1>3. new.status = "Open" /\ new.quorum = q /\ new.weightFor = 0
    BY DEF NoRound
<1> HIDE DEF new
<1>4. round'[i] = new
    BY <1>1 DEF TypeOK
<1>5. Supported(new)
    BY <1>2, <1>3 DEF Supported
<1> QED
    BY <1>4, <1>5, Zenon

LEMMA VoteSupported ==
    ASSUME TypeOK, NEW o \in Oracles, NEW i \in Invoices, NEW approved \in BOOLEAN,
           SubmitVote(o, i, approved), Supported(round[i])
    PROVE  Supported(round'[i])
<1> DEFINE r == Counted(round[i], o, approved, oracle[o].stake)
           v == Verdict(r)
           new == [r EXCEPT !.status = v]
<1>1. round[i].status = "Open" /\ round' = [round EXCEPT ![i] = new]
    BY Zenon DEF SubmitVote
<1>2. round[i] \in VerificationRound /\ oracle[o].stake \in Nat
    BY DEF TypeOK, OracleInfo
<1>3. r \in VerificationRound
    BY <1>2, CountedType
<1>4. /\ r.quorum = round[i].quorum
      /\ r.weightFor = IF approved THEN round[i].weightFor + oracle[o].stake
                                   ELSE round[i].weightFor
      /\ r.votes = [round[i].votes EXCEPT ![o] = IF approved THEN "for" ELSE "against"]
    BY <1>2 DEF Counted, VerificationRound
<1>5. round[i].votes[o] = "none"
    BY Zenon DEF SubmitVote
<1>6. r.weightFor > 0 => \E p \in Oracles : r.votes[p] = "for"
    <2>1. round[i].votes \in [Oracles -> {"none", "for", "against"}]
        BY <1>2 DEF VerificationRound
    <2>2. CASE approved
        <3>1. r.votes[o] = "for"
            BY <1>4, <2>1, <2>2
        <3> QED
            BY <3>1
    <2>3. CASE ~approved
        <3>1. r.weightFor = round[i].weightFor
            BY <1>4, <2>3
        <3>2. \A p \in Oracles : round[i].votes[p] = "for" => r.votes[p] = "for"
            BY <1>4, <1>5, <2>1, <2>3
        <3> QED
            BY <3>1, <3>2 DEF Supported
    <2> QED
        BY <2>2, <2>3
<1>7. v = "ConsensusApproved" => r.weightFor >= Threshold(r)
    BY DEF Verdict
<1> HIDE DEF r, v
<1>8. /\ new.status = v /\ new.quorum = r.quorum /\ new.snapshot = r.snapshot
      /\ new.weightFor = r.weightFor /\ new.votes = r.votes
    BY <1>3 DEF VerificationRound
<1> HIDE DEF new
<1>9. round'[i] = new
    BY <1>1 DEF TypeOK
<1>10. new.quorum > 0
    BY <1>1, <1>4, <1>8 DEF Supported
<1>11. Threshold(new) = Threshold(r)
    BY <1>8 DEF Threshold
<1>12. Supported(new)
    BY <1>6, <1>7, <1>8, <1>10, <1>11, Zenon DEF Supported
<1> QED
    BY <1>9, <1>12, Zenon

LEMMA ClosedSupported ==
    ASSUME NEW r \in VerificationRound, r.status # "Absent", Supported(r),
           NEW st \in {"Expired", "ConsensusApproved", "ConsensusRejected"}
    PROVE  /\ Supported([r EXCEPT !.status = "Expired"])
           /\ Supported([r EXCEPT !.status = st, !.fallback = TRUE])
<1> DEFINE a == [r EXCEPT !.status = "Expired"]
           b == [r EXCEPT !.status = st, !.fallback = TRUE]
<1>1. /\ a.status = "Expired" /\ a.quorum = r.quorum /\ a.weightFor = r.weightFor
      /\ a.votes = r.votes
    BY DEF VerificationRound
<1>2. /\ b.fallback /\ b.quorum = r.quorum /\ b.weightFor = r.weightFor
      /\ b.votes = r.votes
    BY DEF VerificationRound
<1> HIDE DEF a, b
<1>3. Supported(a)
    BY <1>1 DEF Supported
<1>4. Supported(b)
    BY <1>2, Zenon DEF Supported
<1> QED
    BY <1>3, <1>4 DEF a, b

LEMMA SupportStep == TypeOK /\ RoundsSupported /\ [Next]_vars => RoundsSupported'
<1> SUFFICES ASSUME TypeOK, RoundsSupported, [Next]_vars, NEW j \in Invoices
             PROVE  Supported(round'[j])
    BY Zenon DEF RoundsSupported, Supported, Threshold
<1>0. Supported(round[j]) /\ round[j] \in VerificationRound
    BY DEF RoundsSupported, TypeOK
<1>1. CASE UNCHANGED <<round, openRounds, invoice>>
    BY <1>0, <1>1, Zenon
<1>2. ASSUME NEW i \in Invoices, InvoiceLeaves(i) PROVE Supported(round'[j])
    <2>1. round' = round
        BY <1>2 DEF InvoiceLeaves
    <2> QED
        BY <1>0, <2>1, Zenon
<1>3. ASSUME NEW i \in Invoices, NEW hashOk \in BOOLEAN, OpenVerificationRound(i, hashOk)
      PROVE  Supported(round'[j])
    BY <1>0, <1>3, OpenFacts, OpenSupported, Zenon
<1>4. ASSUME NEW o \in Oracles, NEW i \in Invoices, NEW approved \in BOOLEAN,
             SubmitVote(o, i, approved)
      PROVE  Supported(round'[j])
    <2>1. CASE i = j
        BY <1>0, <1>4, <2>1, VoteSupported, Zenon
    <2>2. CASE i # j
        BY <1>0, <1>4, <2>2, VoteFacts, Zenon
    <2> QED
        BY <2>1, <2>2
<1>5. ASSUME NEW i \in Invoices, ExpireRound(i) PROVE Supported(round'[j])
    <2>1. CASE i = j
        <3>1. /\ round[j].status = "Open"
              /\ round' = [round EXCEPT ![j] = [round[j] EXCEPT !.status = "Expired"]]
            BY <1>5, <2>1, Zenon DEF ExpireRound
        <3>2. round'[j] = [round[j] EXCEPT !.status = "Expired"]
            BY <3>1, Zenon DEF TypeOK
        <3> QED
            BY <1>0, <3>1, <3>2, ClosedSupported
    <2>2. CASE i # j
        BY <1>0, <1>5, <2>2, ExpireFacts, Zenon
    <2> QED
        BY <2>1, <2>2
<1>6. ASSUME NEW i \in Invoices, NEW approved \in BOOLEAN, AdminResolveRound(i, approved)
      PROVE  Supported(round'[j])
    <2>1. CASE i = j
        <3> DEFINE st == IF approved THEN "ConsensusApproved" ELSE "ConsensusRejected"
        <3>1. /\ round[j].status = "Expired"
              /\ round' = [round EXCEPT ![j] = [round[j] EXCEPT !.status = st, !.fallback = TRUE]]
            BY <1>6, <2>1, Zenon DEF AdminResolveRound
        <3>2. st \in {"Expired", "ConsensusApproved", "ConsensusRejected"}
            OBVIOUS
        <3> HIDE DEF st
        <3>3. round'[j] = [round[j] EXCEPT !.status = st, !.fallback = TRUE]
            BY <3>1, Zenon DEF TypeOK
        <3> QED
            BY <1>0, <3>1, <3>2, <3>3, ClosedSupported
    <2>2. CASE i # j
        BY <1>0, <1>6, <2>2, ResolveFacts, Zenon
    <2> QED
        BY <2>1, <2>2
<1> QED
    BY <1>1, <1>2, <1>3, <1>4, <1>5, <1>6, QuietSteps, Zenon

\* Votes never approve an invoice that nobody voted for, whatever was slashed,
\* registered or reconfigured since the round opened: a quorum is positive, so
\* a snapshot with stake in it makes a positive threshold, and only votes for
\* approval add to the weight that must reach it.
THEOREM ApprovalsHaveSupport == Spec => []ApprovalHasSupport
<1>1. Init => RoundsSupported
    BY DEF Init, RoundsSupported, Supported, NoRound
<1>2. TypeOK /\ RoundsSupported => ApprovalHasSupport
    <2> SUFFICES ASSUME TypeOK, RoundsSupported, NEW i \in Invoices,
                        round[i].status = "ConsensusApproved", ~round[i].fallback,
                        round[i].snapshot > 0
                 PROVE  \E o \in Oracles : round[i].votes[o] = "for"
        BY DEF ApprovalHasSupport
    <2>1. Supported(round[i]) /\ round[i] \in VerificationRound
        BY DEF RoundsSupported, TypeOK
    <2>2. round[i].quorum > 0 /\ round[i].weightFor >= Threshold(round[i])
        BY <2>1, Zenon DEF Supported
    <2>3. Threshold(round[i]) >= 1 /\ Threshold(round[i]) \in Int
        BY <2>1, <2>2, ThresholdPositive, Zenon
    <2>4. round[i].weightFor \in Nat
        BY <2>1 DEF VerificationRound
    <2>5. round[i].weightFor > 0
        BY <2>2, <2>3, <2>4
    <2> QED
        BY <2>1, <2>5 DEF Supported
<1> QED
    BY <1>1, <1>2, SupportStep, TypeCorrect, PTL DEF Spec

-----------------------------------------------------------------------------
(* Voters and their stakes *)

LEMMA OracleSteps ==
    ASSUME TypeOK, [Next]_vars
    PROVE  \/ UNCHANGED <<now, oracle>>
           \/ now' = now + 1 /\ UNCHANGED <<oracle, round>>
           \/ /\ UNCHANGED <<now, round>>
              /\ \E o \in Oracles :
                    /\ \A p \in Oracles \ {o} : oracle'[p] = oracle[p]
                    /\ \/ oracle'[o].registered /\ oracle'[o].requestedAt = NoTime
                       \/ oracle'[o].registered /\ oracle'[o].requestedAt = now
                       \/ /\ oracle'[o].requestedAt = NoTime
                          /\ oracle[o].requestedAt # NoTime
                          /\ now >= oracle[o].requestedAt + config.cooldown
                       \/ /\ oracle'[o].registered = oracle[o].registered
                          /\ oracle'[o].requestedAt = oracle[o].requestedAt
<1> DEFINE Changed(o) ==
              /\ \A p \in Oracles \ {o} : oracle'[p] = oracle[p]
              /\ \/ oracle'[o].registered /\ oracle'[o].requestedAt = NoTime
                 \/ oracle'[o].registered /\ oracle'[o].requestedAt = now
                 \/ /\ oracle'[o].requestedAt = NoTime
                    /\ oracle[o].requestedAt # NoTime
                    /\ now >= oracle[o].requestedAt + config.cooldown
                 \/ /\ oracle'[o].registered = oracle[o].registered
                    /\ oracle'[o].requestedAt = oracle[o].requestedAt
<1>1. ASSUME NEW o \in Oracles, NEW stake \in Stakes, RegisterOracle(o, stake)
      PROVE  UNCHANGED <<now, round>> /\ Changed(o)
    BY <1>1 DEF RegisterOracle, TypeOK
<1>2. ASSUME NEW o \in Oracles, RequestDeregistration(o)
      PROVE  UNCHANGED <<now, round>> /\ Changed(o)
    <2> DEFINE new == [oracle[o] EXCEPT !.active = FALSE, !.requestedAt = now]
    <2>1. /\ oracle[o].registered /\ UNCHANGED <<now, round>>
          /\ oracle' = [oracle EXCEPT ![o] = new]
        BY <1>2, Zenon DEF RequestDeregistration
    <2>2. oracle[o] \in OracleInfo
        BY DEF TypeOK
    <2>3. new.registered = oracle[o].registered /\ new.requestedAt = now
        BY <2>2 DEF OracleInfo
    <2> HIDE DEF new
    <2>4. oracle'[o] = new /\ \A p \in Oracles \ {o} : oracle'[p] = oracle[p]
        BY <2>1 DEF TypeOK
    <2> QED
        BY <2>1, <2>3, <2>4, Zenon
<1>3. ASSUME NEW o \in Oracles, FinishDeregistration(o)
      PROVE  UNCHANGED <<now, round>> /\ Changed(o)
    BY <1>3 DEF FinishDeregistration, Absent, TypeOK
<1>4. ASSUME NEW o \in Oracles, NEW bps \in SlashBps, NEW i \in Invoices,
             SlashOracle(o, bps, i)
      PROVE  UNCHANGED <<now, round>> /\ Changed(o)
    <2> DEFINE left == oracle[o].stake - (oracle[o].stake * bps) \div BPS
               new == [oracle[o] EXCEPT !.stake = left]
    <2>1. UNCHANGED <<now, round>> /\ oracle' = [oracle EXCEPT ![o] = new]
        BY <1>4, Zenon DEF SlashOracle
    <2>2. oracle[o] \in OracleInfo
        BY DEF TypeOK
    <2> HIDE DEF left
    <2>3. new.registered = oracle[o].registered /\ new.requestedAt = oracle[o].requestedAt
        BY <2>2 DEF OracleInfo
    <2> HIDE DEF new
    <2>4. oracle'[o] = new /\ \A p \in Oracles \ {o} : oracle'[p] = oracle[p]
        BY <2>1 DEF TypeOK
    <2> QED
        BY <2>1, <2>3, <2>4, Zenon
<1>6. \/ Tick
      \/ \E o \in Oracles, stake \in Stakes : RegisterOracle(o, stake)
      \/ \E o \in Oracles : RequestDeregistration(o) \/ FinishDeregistration(o)
      \/ \E o \in Oracles, bps \in SlashBps, i \in Invoices : SlashOracle(o, bps, i)
      \/ UNCHANGED <<now, oracle>>
    BY Zenon DEF Next, vars, WithdrawSlashedFunds, Pause, Unpause, SetRegistryConfig,
        SetTreasury, SetQuorumTiers, InvoiceLeaves, OpenVerificationRound, SubmitVote,
        ExpireRound, AdminResolveRound
<1> HIDE DEF Changed
<1>7. \/ UNCHANGED <<now, oracle>>
      \/ now' = now + 1 /\ UNCHANGED <<oracle, round>>
      \/ UNCHANGED <<now, round>> /\ \E o \in Oracles : Changed(o)
    <2> DEFINE Goal == \/ UNCHANGED <<now, oracle>>
                       \/ now' = now + 1 /\ UNCHANGED <<oracle, round>>
                       \/ UNCHANGED <<now, round>> /\ \E o \in Oracles : Changed(o)
    <2>1. ASSUME NEW o \in Oracles, UNCHANGED <<now, round>> /\ Changed(o) PROVE Goal
        BY <2>1, Zenon
    <2>2. CASE Tick \/ UNCHANGED <<now, oracle>>
        BY <2>2 DEF Tick
    <2>3. CASE \E o \in Oracles, stake \in Stakes : RegisterOracle(o, stake)
        BY <1>1, <2>1, <2>3, Zenon
    <2>4. CASE \E o \in Oracles : RequestDeregistration(o) \/ FinishDeregistration(o)
        BY <1>2, <1>3, <2>1, <2>4, Zenon
    <2>5. CASE \E o \in Oracles, bps \in SlashBps, i \in Invoices : SlashOracle(o, bps, i)
        BY <1>4, <2>1, <2>5, Zenon
    <2> QED
        BY <1>6, <2>2, <2>3, <2>4, <2>5, Zenon
<1> QED
    BY <1>7, Zenon DEF Changed

\* Time only helps.
LEMMA HeldLater ==
    ASSUME NEW d \in Nat, NEW t \in Nat, NEW o \in OracleInfo
    PROVE  /\ EndsWithinCooldown(d, t) => EndsWithinCooldown(d, t + 1)
           /\ VoterHeld(d, t, o) => VoterHeld(d, t + 1, o)
<1>1. \A c \in Configs : c.cooldown \in Nat
    BY RegistryAssumption DEF ConfigRecord
<1>2. t + 1 <= d => t <= d
    OBVIOUS
<1>3. EndsWithinCooldown(d, t) => EndsWithinCooldown(d, t + 1)
    BY <1>1 DEF EndsWithinCooldown
<1> QED
    BY <1>2, <1>3, Zenon DEF VoterHeld

LEMMA VotersStep ==
    ASSUME CooldownOutlastsRounds
    PROVE  TypeOK /\ VotersCoolDown /\ [Next]_vars => VotersCoolDown'
<1> SUFFICES ASSUME TypeOK, VotersCoolDown, [Next]_vars,
                    NEW j \in Invoices, round'[j].status = "Open"
             PROVE  /\ EndsWithinCooldown(round'[j].deadline, now')
                    /\ \A p \in Oracles : round'[j].votes[p] # "none" =>
                          VoterHeld(round'[j].deadline, now', oracle'[p])
    BY Zenon DEF VotersCoolDown, EndsWithinCooldown, VoterHeld
<1>a. /\ now \in Nat /\ round[j].deadline \in Nat
      /\ config \in Configs /\ \A c \in Configs : c.cooldown \in Nat /\ c.duration \in Nat
      /\ \A p \in Oracles : oracle[p] \in OracleInfo
    BY RegistryAssumption DEF TypeOK, VerificationRound, ConfigRecord
<1>b. ASSUME round[j].status = "Open"
      PROVE  /\ EndsWithinCooldown(round[j].deadline, now)
             /\ \A p \in Oracles : round[j].votes[p] # "none" =>
                   VoterHeld(round[j].deadline, now, oracle[p])
    BY <1>b, Zenon DEF VotersCoolDown
<1>1. CASE now' = now + 1 /\ UNCHANGED <<oracle, round>>
    <2> DEFINE d == round[j].deadline
    <2>1. round[j].status = "Open" /\ now' = now + 1 /\ oracle' = oracle /\ round' = round
        BY <1>1
    <2>2. EndsWithinCooldown(d, now + 1)
        <3>1. EndsWithinCooldown(d, now)
            BY <1>b, <2>1, Zenon
        <3> QED
            BY <1>a, <3>1 DEF EndsWithinCooldown
    <2>3. ASSUME NEW p \in Oracles, round[j].votes[p] # "none"
          PROVE  VoterHeld(d, now + 1, oracle[p])
        BY <1>a, <1>b, <2>1, <2>3, HeldLater, Zenon
    <2> QED
        BY <2>1, <2>2, <2>3, Zenon
<1>2. ASSUME UNCHANGED <<now, round>>, NEW o \in Oracles,
             \A p \in Oracles \ {o} : oracle'[p] = oracle[p],
             \/ oracle'[o].registered /\ oracle'[o].requestedAt = NoTime
             \/ oracle'[o].registered /\ oracle'[o].requestedAt = now
             \/ /\ oracle'[o].requestedAt = NoTime
                /\ oracle[o].requestedAt # NoTime
                /\ now >= oracle[o].requestedAt + config.cooldown
             \/ /\ oracle'[o].registered = oracle[o].registered
                /\ oracle'[o].requestedAt = oracle[o].requestedAt
      PROVE  /\ EndsWithinCooldown(round'[j].deadline, now')
             /\ \A p \in Oracles : round'[j].votes[p] # "none" =>
                   VoterHeld(round'[j].deadline, now', oracle'[p])
    <2> DEFINE d == round[j].deadline
    <2>1. round' = round /\ now' = now /\ round[j].status = "Open"
        BY <1>2
    <2>2. ASSUME round[j].votes[o] # "none" PROVE VoterHeld(d, now, oracle'[o])
        <3>1. VoterHeld(d, now, oracle[o]) /\ EndsWithinCooldown(d, now)
            BY <1>b, <2>1, <2>2
        <3>2. CASE oracle'[o].registered /\ oracle'[o].requestedAt = NoTime
            BY <3>2 DEF VoterHeld
        <3>3. CASE oracle'[o].registered /\ oracle'[o].requestedAt = now
            BY <3>1, <3>3 DEF VoterHeld
        <3>4. CASE /\ oracle'[o].requestedAt = NoTime
                   /\ oracle[o].requestedAt # NoTime
                   /\ now >= oracle[o].requestedAt + config.cooldown
            <4>1. oracle[o].requestedAt \in Nat
                BY <1>a, <3>4 DEF OracleInfo
            <4>2. d < oracle[o].requestedAt + config.cooldown
                BY <1>a, <3>1, <3>4 DEF VoterHeld, EndsWithinCooldown
            <4>3. ~(now <= d)
                BY <1>a, <3>4, <4>1, <4>2
            <4> QED
                BY <3>4, <4>3 DEF VoterHeld
        <3>5. CASE /\ oracle'[o].registered = oracle[o].registered
                   /\ oracle'[o].requestedAt = oracle[o].requestedAt
            BY <3>1, <3>5, Zenon DEF VoterHeld
        <3> QED
            BY <1>2, <3>2, <3>3, <3>4, <3>5
    <2>3. ASSUME NEW p \in Oracles, round[j].votes[p] # "none"
          PROVE  VoterHeld(d, now, oracle'[p])
        BY <1>2, <1>b, <2>1, <2>2, <2>3, Zenon
    <2> QED
        BY <1>b, <2>1, <2>3, Zenon
<1>3. CASE UNCHANGED <<now, oracle>>
    <2>1. CASE round'[j] = round[j]
        BY <1>3, <1>b, <2>1, Zenon
    <2>2. ASSUME NEW i \in Invoices, NEW hashOk \in BOOLEAN, OpenVerificationRound(i, hashOk),
                 round'[j] # round[j]
          PROVE  /\ EndsWithinCooldown(round'[j].deadline, now')
                 /\ \A p \in Oracles : round'[j].votes[p] = "none"
        <3>1. i = j
            BY <2>2, OpenFacts
        <3>2. /\ round'[j].deadline = now + config.duration
              /\ \A p \in Oracles : round'[j].votes[p] = "none"
            BY <2>2, <3>1, OpenFacts
        <3>3. \A c \in Configs : now + config.duration < now + c.cooldown
            BY <1>a DEF CooldownOutlastsRounds
        <3> QED
            BY <1>3, <3>2, <3>3 DEF EndsWithinCooldown
    <2>3. ASSUME NEW o \in Oracles, NEW i \in Invoices, NEW approved \in BOOLEAN,
                 SubmitVote(o, i, approved), round'[j] # round[j]
          PROVE  /\ EndsWithinCooldown(round'[j].deadline, now')
                 /\ \A p \in Oracles : round'[j].votes[p] # "none" =>
                       VoterHeld(round'[j].deadline, now', oracle'[p])
        <3>0. i = j
            BY <2>3, VoteFacts, Zenon
        <3>1. /\ round[j].status = "Open" /\ round'[j].deadline = round[j].deadline
              /\ \A p \in Oracles \ {o} : round'[j].votes[p] = round[j].votes[p]
            BY <2>3, <3>0, VoteFacts, Zenon
        <3>2. oracle[o].registered /\ oracle[o].requestedAt = NoTime
            BY <2>3 DEF SubmitVote, MayVote
        <3>3. VoterHeld(round[j].deadline, now, oracle[o])
            BY <3>2 DEF VoterHeld
        <3> QED
            BY <1>3, <1>b, <3>1, <3>3, Zenon
    <2>4. ASSUME NEW i \in Invoices, ExpireRound(i) PROVE round'[j] = round[j]
        BY <2>4, ExpireFacts
    <2>5. ASSUME NEW i \in Invoices, NEW approved \in BOOLEAN, AdminResolveRound(i, approved)
          PROVE  round'[j] = round[j]
        BY <2>5, ResolveFacts
    <2>6. ASSUME NEW i \in Invoices, InvoiceLeaves(i) PROVE round'[j] = round[j]
        BY <2>6 DEF InvoiceLeaves
    <2>7. CASE UNCHANGED <<round, openRounds, invoice>>
        BY <2>1, <2>7
    <2> QED
        BY <2>1, <2>2, <2>3, <2>4, <2>5, <2>6, <2>7, QuietSteps, Zenon
<1> QED
    BY <1>1, <1>2, <1>3, OracleSteps, Zenon

\* While a round takes votes its voters are registered, if every cooldown the
\* registry may be configured with outlasts every round duration.
THEOREM VotersRegistered ==
    ASSUME CooldownOutlastsRounds
    PROVE  Spec => []VotersStayRegistered
<1>1. Init => VotersCoolDown
    BY DEF Init, VotersCoolDown, NoRound
<1>2. VotersCoolDown => VotersStayRegistered
    BY Zenon DEF VotersCoolDown, VotersStayRegistered, Voters, VoterHeld
<1> QED
    BY <1>1, <1>2, VotersStep, TypeCorrect, PTL DEF Spec

=============================================================================
