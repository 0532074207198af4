---------------------------- MODULE OracleRegistry ----------------------------
(***************************************************************************)
(* The oracle registry (contracts/oracle_registry/src/lib.rs): oracles     *)
(* stake tokens, vote with their stake in one verification round per       *)
(* invoice, and the registry reports a decision to the invoice contract.   *)
(*                                                                         *)
(* Of the invoice contract there is only what the registry asks of it: how *)
(* an invoice left AwaitingVerification, if it has.  No handler of module  *)
(* Invoice leads back to that status.                                      *)
(***************************************************************************)
EXTENDS Integers, FiniteSets, FiniteSetsExt, Sequences

CONSTANTS
    Oracles,        \* operators
    Invoices,       \* ids of invoices
    Amount,         \* the amount of each invoice
    Stakes,         \* stakes an operator may bring
    SlashBps,       \* penalties the admin may choose
    Configs,        \* values set_registry_config may store
    TierLists,      \* values set_quorum_tiers may store
    BPS,            \* 10_000
    MaxBalance,     \* bound of the model on the registry's tokens
    MaxTaken,       \* bound of the model on what the admin withdraws beyond slashed tokens
    MaxTime         \* bound of the model on time

\* What set_registry_config and set_quorum_tiers accept.
ValidConfig(c) ==
    /\ c.minStake > 0 /\ c.required > 0
    /\ c.quorum > 0 /\ c.quorum <= BPS
    /\ c.duration > 0

ValidTiers(t) ==
    /\ \A k \in 1 .. Len(t) : t[k].min >= 0 /\ t[k].quorum > 0 /\ t[k].quorum <= BPS
    /\ \A k \in 2 .. Len(t) : t[k].min > t[k - 1].min

ConfigRecord ==
    [minStake : Nat, required : Nat, quorum : Nat, duration : Nat, cooldown : Nat]

ASSUME RegistryAssumption ==
    /\ IsFiniteSet(Oracles)
    /\ Amount \in [Invoices -> Nat]
    /\ Stakes \subseteq Nat
    /\ BPS \in Nat \ {0}
    /\ SlashBps \subseteq 1 .. BPS
    /\ Configs \subseteq ConfigRecord /\ \A c \in Configs : ValidConfig(c)
    /\ TierLists \subseteq Seq([min : Nat, quorum : Nat]) /\ \A t \in TierLists : ValidTiers(t)
    /\ MaxBalance \in Nat /\ MaxTaken \in Nat /\ MaxTime \in Nat

VARIABLES
    now,         \* env.ledger().timestamp()
    paused,      \* DataKey::Paused
    config,      \* DataKey::Config, without the treasury
    treasury,    \* config.treasury is set
    tiers,       \* DataKey::QuorumTiers
    oracle,      \* DataKey::Oracle
    round,       \* DataKey::Round
    openRounds,  \* DataKey::OpenRounds: how often the list holds an id
    balance,     \* the registry's stake tokens
    unclaimed,   \* history: slashed tokens kept, less tokens withdrawn by the admin
    invoice      \* how the invoice left AwaitingVerification

settings == <<config, treasury, tiers>>
vars == <<now, paused, settings, oracle, round, openRounds, balance, unclaimed, invoice>>

-----------------------------------------------------------------------------
NoTime == -1
Absent == [registered |-> FALSE, stake |-> 0, active |-> FALSE, requestedAt |-> NoTime]

OracleInfo ==
    [registered : BOOLEAN, stake : Nat, active : BOOLEAN, requestedAt : Nat \cup {NoTime}]

Undecided == {"Absent", "Open", "Expired"}
Decided == {"ConsensusApproved", "ConsensusRejected"}

\* fallback is history: the admin decided.  hashOk: the opener gave the hash
\* that the invoice stores.
VerificationRound ==
    [status : Undecided \cup Decided, required : Nat, quorum : Nat, snapshot : Nat,
     votes : [Oracles -> {"none", "for", "against"}], weightFor : Nat, weightAgainst : Nat,
     deadline : Nat, hashOk : BOOLEAN, fallback : BOOLEAN]

NoRound ==
    [status |-> "Absent", required |-> 0, quorum |-> 0, snapshot |-> 0,
     votes |-> [o \in Oracles |-> "none"], weightFor |-> 0, weightAgainst |-> 0,
     deadline |-> 0, hashOk |-> FALSE, fallback |-> FALSE]

\* Verified and Disputed by the registry, Elsewhere without it.
Outcome == {"Awaiting", "Verified", "Disputed", "Elsewhere"}

Init ==
    /\ now = 0
    /\ paused = FALSE
    /\ config \in Configs
    /\ treasury = FALSE
    /\ tiers = <<>>
    /\ oracle = [o \in Oracles |-> Absent]
    /\ round = [i \in Invoices |-> NoRound]
    /\ openRounds = [i \in Invoices |-> 0]
    /\ balance = 0
    /\ unclaimed = 0
    /\ invoice = [i \in Invoices |-> "Awaiting"]

-----------------------------------------------------------------------------
(* Oracles and their stakes *)

StakeOf(S) == MapThenSumSet(LAMBDA o : oracle[o].stake, S)

RegisterOracle(o, stake) ==
    /\ ~paused
    /\ stake >= config.minStake
    /\ ~oracle[o].registered
    /\ balance + stake <= MaxBalance
    /\ balance' = balance + stake
    /\ oracle' = [oracle EXCEPT ![o] = [registered |-> TRUE, stake |-> stake,
                                        active |-> TRUE, requestedAt |-> NoTime]]
    /\ UNCHANGED <<now, paused, settings, round, openRounds, unclaimed, invoice>>

\* A vote is owed in every listed round that is open.
OwesVote(o, i) == /\ openRounds[i] > 0
                  /\ round[i].status = "Open"
                  /\ round[i].votes[o] = "none"

\* The first call of deregister_oracle.
RequestDeregistration(o) ==
    /\ ~paused
    /\ oracle[o].registered
    /\ oracle[o].requestedAt = NoTime
    /\ oracle[o].active
    /\ \A i \in Invoices : ~OwesVote(o, i)
    /\ oracle' = [oracle EXCEPT ![o].active = FALSE, ![o].requestedAt = now]
    /\ UNCHANGED <<now, paused, settings, round, openRounds, balance, unclaimed, invoice>>

\* Mutant: the cooldown may have a moment to go.
FinishDeregistrationEarly(o) ==
    /\ ~paused
    /\ oracle[o].registered
    /\ oracle[o].requestedAt # NoTime
    /\ now + 1 >= oracle[o].requestedAt + config.cooldown
    /\ balance >= oracle[o].stake
    /\ balance' = balance - oracle[o].stake
    /\ oracle' = [oracle EXCEPT ![o] = Absent]
    /\ UNCHANGED <<now, paused, settings, round, openRounds, unclaimed, invoice>>

\* The second call of deregister_oracle.
FinishDeregistration(o) ==
    /\ ~paused
    /\ oracle[o].registered
    /\ oracle[o].requestedAt # NoTime
    /\ now >= oracle[o].requestedAt + config.cooldown
    /\ balance >= oracle[o].stake
    /\ balance' = balance - oracle[o].stake
    /\ oracle' = [oracle EXCEPT ![o] = Absent]
    /\ UNCHANGED <<now, paused, settings, round, openRounds, unclaimed, invoice>>

\* Mutant: the remaining stake and the cut are rounded separately.
SlashOracleRoundedTwice(o, bps, i) ==
    LET cut == (oracle[o].stake * bps) \div BPS IN
    /\ ~paused
    /\ round[i].status # "Absent"
    /\ oracle[o].registered
    /\ oracle' = [oracle EXCEPT ![o].stake = (@ * (BPS - bps)) \div BPS]
    /\ IF treasury THEN /\ balance >= cut
                        /\ balance' = balance - cut
                        /\ UNCHANGED unclaimed
                   ELSE /\ unclaimed' = unclaimed + cut
                        /\ UNCHANGED balance
    /\ UNCHANGED <<now, paused, settings, round, openRounds, invoice>>

\* slash_oracle and slash_oracle_via_ac, citing the round of invoice i.
SlashOracle(o, bps, i) ==
    LET cut == (oracle[o].stake * bps) \div BPS IN
    /\ ~paused
    /\ round[i].status # "Absent"
    /\ oracle[o].registered
    /\ oracle' = [oracle EXCEPT ![o].stake = @ - cut]
    /\ IF treasury THEN /\ balance >= cut
                        /\ balance' = balance - cut
                        /\ UNCHANGED unclaimed
                   ELSE /\ unclaimed' = unclaimed + cut
                        /\ UNCHANGED balance
    /\ UNCHANGED <<now, paused, settings, round, openRounds, invoice>>

\* Mutant: no balance stands behind the payment.
WithdrawSlashedFundsUnchecked(amount) ==
    /\ ~paused
    /\ ~treasury
    /\ amount > 0
    /\ unclaimed - amount >= -MaxTaken
    /\ balance' = balance - amount
    /\ unclaimed' = unclaimed - amount
    /\ UNCHANGED <<now, paused, settings, oracle, round, openRounds, invoice>>

\* The amount is the caller's; only the token transfer bounds it.
WithdrawSlashedFunds(amount) ==
    /\ ~paused
    /\ ~treasury
    /\ amount > 0 /\ balance >= amount
    /\ unclaimed - amount >= -MaxTaken
    /\ balance' = balance - amount
    /\ unclaimed' = unclaimed - amount
    /\ UNCHANGED <<now, paused, settings, oracle, round, openRounds, invoice>>

-----------------------------------------------------------------------------
(* Rounds *)

Active == {o \in Oracles : oracle[o].registered /\ oracle[o].active}

\* The pass over the tiers stops before the first one the amount does not
\* clear; the last one passed counts.
ResolveQuorumBps(amount) ==
    LET passed == Cardinality({k \in 1 .. Len(tiers) :
                                  \A j \in 1 .. k : amount >= tiers[j].min})
    IN  IF passed = 0 THEN config.quorum ELSE tiers[passed].quorum

\* Mutant: a round may be opened whatever became of the invoice.
OpenVerificationRoundAnytime(i, hashOk) ==
    /\ ~paused
    /\ round[i].status # "Open"
    /\ Active # {}
    /\ now + config.duration < MaxTime
    /\ round' = [round EXCEPT ![i] =
          [NoRound EXCEPT !.status = "Open", !.required = config.required,
                          !.quorum = ResolveQuorumBps(Amount[i]),
                          !.snapshot = StakeOf(Active),
                          !.deadline = now + config.duration, !.hashOk = hashOk]]
    /\ openRounds' = [openRounds EXCEPT ![i] = @ + 1]
    /\ UNCHANGED <<now, paused, settings, oracle, balance, unclaimed, invoice>>

\* The snapshot counts every active oracle, also one whose stake has been
\* slashed below the minimum.  The bound on time lets the round expire.
OpenVerificationRound(i, hashOk) ==
    /\ ~paused
    /\ round[i].status # "Open"
    /\ invoice[i] = "Awaiting"
    /\ Active # {}
    /\ now + config.duration < MaxTime
    /\ round' = [round EXCEPT ![i] =
          [NoRound EXCEPT !.status = "Open", !.required = config.required,
                          !.quorum = ResolveQuorumBps(Amount[i]),
                          !.snapshot = StakeOf(Active),
                          !.deadline = now + config.duration, !.hashOk = hashOk]]
    /\ openRounds' = [openRounds EXCEPT ![i] = @ + 1]
    /\ UNCHANGED <<now, paused, settings, oracle, balance, unclaimed, invoice>>

\* remove_open_round: the first occurrence, if there is one.
RemoveOpenRound(i) == openRounds' = [openRounds EXCEPT ![i] = IF @ > 0 THEN @ - 1 ELSE 0]

\* Mutant: the result of the call is ignored.
FinalizeOnInvoiceIgnored(i, approved) ==
    invoice' = IF invoice[i] = "Awaiting" /\ round[i].hashOk
               THEN [invoice EXCEPT ![i] = IF approved THEN "Verified" ELSE "Disputed"]
               ELSE invoice

\* consensus_verify; an error there is an error here and undoes the call.  So do its
\* refusals while the invoice contract is paused or names no or another registry: a
\* call that does nothing.
FinalizeOnInvoice(i, approved) ==
    /\ invoice[i] = "Awaiting"
    /\ round[i].hashOk
    /\ invoice' = [invoice EXCEPT ![i] = IF approved THEN "Verified" ELSE "Disputed"]

Voters(r) == {o \in Oracles : r.votes[o] # "none"}
Threshold(r) == (r.snapshot * r.quorum + BPS - 1) \div BPS

\* Mutant: a vote against adds to both weights.
CountedTwice(r, o, approved, weight) ==
    [r EXCEPT !.votes = [@ EXCEPT ![o] = IF approved THEN "for" ELSE "against"],
              !.weightFor = @ + weight,
              !.weightAgainst = IF approved THEN @ ELSE @ + weight]
Counted(r, o, approved, weight) ==
    [r EXCEPT !.votes = [@ EXCEPT ![o] = IF approved THEN "for" ELSE "against"],
              !.weightFor = IF approved THEN @ + weight ELSE @,
              !.weightAgainst = IF approved THEN @ ELSE @ + weight]

\* Approval is looked at first.
Verdict(r) ==
    CASE Cardinality(Voters(r)) < r.required -> "Open"
      [] r.weightFor >= Threshold(r) -> "ConsensusApproved"
      [] r.weightAgainst >= Threshold(r) -> "ConsensusRejected"
      [] OTHER -> "Open"

MayVote(o) ==
    /\ oracle[o].registered /\ oracle[o].active
    /\ oracle[o].requestedAt = NoTime
    /\ oracle[o].stake >= config.minStake

\* Mutant: a finished round stays on the list of open rounds.
SubmitVoteStillListed(o, i, approved) ==
    LET r == Counted(round[i], o, approved, oracle[o].stake)
        verdict == Verdict(r)
    IN  /\ ~paused
        /\ MayVote(o)
        /\ round[i].status = "Open"
        /\ now <= round[i].deadline
        /\ round[i].votes[o] = "none"
        /\ round' = [round EXCEPT ![i] = [r EXCEPT !.status = verdict]]
        /\ IF verdict = "Open" THEN UNCHANGED invoice
           ELSE FinalizeOnInvoice(i, verdict = "ConsensusApproved")
        /\ UNCHANGED <<now, paused, settings, oracle, openRounds, balance, unclaimed>>

\* The vote that completes the quorum ends the round.
SubmitVote(o, i, approved) ==
    LET r == Counted(round[i], o, approved, oracle[o].stake)
        verdict == Verdict(r)
    IN  /\ ~paused
        /\ MayVote(o)
        /\ round[i].status = "Open"
        /\ now <= round[i].deadline
        /\ round[i].votes[o] = "none"
        /\ round' = [round EXCEPT ![i] = [r EXCEPT !.status = verdict]]
        /\ IF verdict = "Open"
           THEN UNCHANGED <<openRounds, invoice>>
           ELSE RemoveOpenRound(i) /\ FinalizeOnInvoice(i, verdict = "ConsensusApproved")
        /\ UNCHANGED <<now, paused, settings, oracle, balance, unclaimed>>

ExpireRound(i) ==
    /\ ~paused
    /\ round[i].status = "Open"
    /\ now > round[i].deadline
    /\ round' = [round EXCEPT ![i].status = "Expired"]
    /\ RemoveOpenRound(i)
    /\ UNCHANGED <<now, paused, settings, oracle, balance, unclaimed, invoice>>

\* Mutant: only a round that nobody has expired yet can be decided.
AdminResolveOpenRound(i, approved) ==
    /\ round[i].status = "Open" /\ now > round[i].deadline
    /\ round' = [round EXCEPT ![i].status = IF approved THEN "ConsensusApproved"
                                                        ELSE "ConsensusRejected",
                              ![i].fallback = TRUE]
    /\ FinalizeOnInvoice(i, approved)
    /\ UNCHANGED <<now, paused, settings, oracle, openRounds, balance, unclaimed>>

\* admin_resolve_round and its _via_ac form, which work while paused.
AdminResolveRound(i, approved) ==
    /\ round[i].status = "Expired" /\ now > round[i].deadline
    /\ round' = [round EXCEPT ![i].status = IF approved THEN "ConsensusApproved"
                                                        ELSE "ConsensusRejected",
                              ![i].fallback = TRUE]
    /\ FinalizeOnInvoice(i, approved)
    /\ UNCHANGED <<now, paused, settings, oracle, openRounds, balance, unclaimed>>

-----------------------------------------------------------------------------
(* Settings and surroundings *)

Pause ==
    /\ ~paused
    /\ paused' = TRUE
    /\ UNCHANGED <<now, settings, oracle, round, openRounds, balance, unclaimed, invoice>>

Unpause ==
    /\ paused
    /\ paused' = FALSE
    /\ UNCHANGED <<now, settings, oracle, round, openRounds, balance, unclaimed, invoice>>

SetRegistryConfig(c) ==
    /\ ValidConfig(c)
    /\ config' = c
    /\ UNCHANGED <<now, paused, treasury, tiers, oracle, round, openRounds, balance,
                   unclaimed, invoice>>

SetTreasury(set) ==
    /\ treasury' = set
    /\ UNCHANGED <<now, paused, config, tiers, oracle, round, openRounds, balance,
                   unclaimed, invoice>>

SetQuorumTiers(t) ==
    /\ ValidTiers(t)
    /\ tiers' = t
    /\ UNCHANGED <<now, paused, config, treasury, oracle, round, openRounds, balance,
                   unclaimed, invoice>>

Tick ==
    /\ now < MaxTime
    /\ now' = now + 1
    /\ UNCHANGED <<paused, settings, oracle, round, openRounds, balance, unclaimed, invoice>>

\* The invoice contract decides without the registry: verify_invoice,
\* timeout_verification or cancel_invoice.
InvoiceLeaves(i) ==
    /\ invoice[i] = "Awaiting"
    /\ invoice' = [invoice EXCEPT ![i] = "Elsewhere"]
    /\ UNCHANGED <<now, paused, settings, oracle, round, openRounds, balance, unclaimed>>

Next ==
    \/ Pause \/ Unpause \/ Tick
    \/ \E c \in Configs : SetRegistryConfig(c)
    \/ \E set \in BOOLEAN : SetTreasury(set)
    \/ \E t \in TierLists : SetQuorumTiers(t)
    \/ \E amount \in 1 .. MaxBalance : WithdrawSlashedFunds(amount)
    \/ \E o \in Oracles :
          \/ \E stake \in Stakes : RegisterOracle(o, stake)
          \/ RequestDeregistration(o) \/ FinishDeregistration(o)
          \/ \E bps \in SlashBps, i \in Invoices : SlashOracle(o, bps, i)
          \/ \E i \in Invoices, approved \in BOOLEAN : SubmitVote(o, i, approved)
    \/ \E i \in Invoices :
          \/ \E hashOk \in BOOLEAN : OpenVerificationRound(i, hashOk)
          \/ ExpireRound(i) \/ InvoiceLeaves(i)
          \/ \E approved \in BOOLEAN : AdminResolveRound(i, approved)

Spec == Init /\ [][Next]_vars

\* Time passes, the registry does not stay paused, somebody expires a round
\* that can be expired as often as it can, and the admin resolves one that
\* expired.
Fairness ==
    /\ WF_vars(Tick) /\ WF_vars(Unpause)
    /\ \A i \in Invoices : SF_vars(ExpireRound(i))
    /\ \A i \in Invoices : SF_vars(\E approved \in BOOLEAN : AdminResolveRound(i, approved))

LiveSpec == Spec /\ Fairness

-----------------------------------------------------------------------------
(* Properties *)

\* What the defaults guarantee (rounds of three days, a cooldown of seven) and
\* set_registry_config does not check.
CooldownOutlastsRounds == \A c, d \in Configs : c.cooldown > d.duration

\* Every stored value has its type.
TypeOK ==
    /\ now \in Nat /\ paused \in BOOLEAN
    /\ config \in Configs /\ treasury \in BOOLEAN /\ tiers \in TierLists \cup {<<>>}
    /\ oracle \in [Oracles -> OracleInfo]
    /\ round \in [Invoices -> VerificationRound]
    /\ openRounds \in [Invoices -> Nat]
    /\ balance \in Nat /\ unclaimed \in Int
    /\ invoice \in [Invoices -> Outcome]

\* The registry holds every stake on record and the slashed tokens it kept,
\* less what withdraw_slashed_funds took: registration, deregistration and
\* slashing move no other token.
StakeAccounted == balance = StakeOf(Oracles) + unclaimed

\* OpenRounds lists a round once while it is open and not otherwise, so
\* deregister_oracle, which only looks at listed rounds, misses none.
OpenRoundsExact ==
    \A i \in Invoices : openRounds[i] = IF round[i].status = "Open" THEN 1 ELSE 0

\* While a round takes votes, whoever has voted in it is still registered, so
\* that the vote can be scrutinised and the stake behind it slashed, and the
\* same tokens cannot vote again from another address (deregister_oracle).
VotersStayRegistered ==
    \A i \in Invoices :
        (round[i].status = "Open" /\ now <= round[i].deadline) =>
            \A o \in Voters(round[i]) : oracle[o].registered

\* Why: a round with deadline d ends within any cooldown that starts at t, and
\* a voter is registered until then, or has a cooldown to go.
EndsWithinCooldown(d, t) == \A c \in Configs : d < t + c.cooldown

VoterHeld(d, t, o) ==
    /\ t <= d => o.registered
    /\ o.requestedAt # NoTime => EndsWithinCooldown(d, o.requestedAt)

VotersCoolDown ==
    \A i \in Invoices : round[i].status = "Open" =>
        /\ EndsWithinCooldown(round[i].deadline, now)
        /\ \A o \in Oracles : round[i].votes[o] # "none" =>
              VoterHeld(round[i].deadline, now, oracle[o])

\* A decision of the registry is the way the invoice left AwaitingVerification,
\* however the invoice contract's own oracle, timeout and cancellation race it.
DecisionReachesInvoice ==
    \A i \in Invoices :
        /\ round[i].status = "ConsensusApproved" => invoice[i] = "Verified"
        /\ round[i].status = "ConsensusRejected" => invoice[i] = "Disputed"

\* A decided round is never reopened or changed.
DecisionIsFinal ==
    [][\A i \in Invoices : round[i].status \in Decided => round'[i] = round[i]]_vars

\* A round opened with the invoice's hash does not keep the invoice waiting:
\* it is decided, by votes or by the admin after it expired, unless the
\* invoice leaves by itself or somebody reopens the round with another hash.
NeverBricked ==
    \A i \in Invoices :
        (round[i].status = "Open" /\ round[i].hashOk)
            ~> (invoice[i] # "Awaiting" \/ ~round[i].hashOk)

\* A round with stake in its snapshot that its votes approved has a vote for
\* approval, whatever was slashed or registered since it opened: "once weighted
\* approval/rejection crosses quorum_bps of the round's stake snapshot".  (Where
\* every oracle had been slashed to zero before, the threshold is zero.)
ApprovalHasSupport ==
    \A i \in Invoices :
        /\ round[i].status = "ConsensusApproved" /\ ~round[i].fallback
        /\ round[i].snapshot > 0
        => \E o \in Oracles : round[i].votes[o] = "for"

=============================================================================
