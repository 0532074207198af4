---------------------------- MODULE ClientProofs ----------------------------
(***************************************************************************)
(* Theorems about the client side: the juror's salt, the query cache, the  *)
(* submission of a transaction and the proposal form, each for every value *)
(* of its constants.                                                       *)
(***************************************************************************)
EXTENDS JurorVoting, ClientCache, Transaction, RolesForm, FiniteSetTheorems, TLAPS

-----------------------------------------------------------------------------
(* The juror: the stored salt opens the commitment *)

VoteTxs == [kind : {"none", "commit", "reveal", "stake"},
            at : {"idle", "build", "sign", "wait", "applied", "refused", "stake", "load"},
            salt : Nat, load : Nat]
VotesKnown == [committed : BOOLEAN, revealed : BOOLEAN]

JurorTypeOK ==
    /\ votesSent \subseteq [kind : {"none", "commit", "reveal", "stake"}, salt : Nat]
    /\ voteTx \in VoteTxs
    /\ salts \in Nat /\ saltLocal \in Nat /\ saltSession \in Nat
    /\ loadsBegun \in Nat /\ lastShown \in Nat
    /\ voteLoads \subseteq [n : Nat, at : {"sent", "read"}, saw : VotesKnown]
    /\ \A l \in voteLoads : l.n <= loadsBegun
    /\ voteShown \in [vote : VotesKnown, phase : {"commit", "reveal", "closed"}]
    /\ votePhase \in {"commit", "reveal", "closed"}
JurorFlags ==
    /\ loading \in BOOLEAN /\ notDeployed \in BOOLEAN /\ unseen \in BOOLEAN
    /\ overtaken \in BOOLEAN /\ unkept \in BOOLEAN /\ revealed \in BOOLEAN

\* The handler at work on a commitment holds the salt that is stored.
CommitHoldsSalt ==
    voteTx.kind = "commit" => voteTx.salt = Stored(saltLocal, saltSession) \/ unkept

\* Unless the end of a commitment was not seen, the only commitment on its way is
\* the one its handler waits for.
CommitAwaited ==
    ~unseen => \A tx \in votesSent : tx.kind = "commit" =>
        voteTx.at = "wait" /\ voteTx.kind = "commit" /\ voteTx.salt = tx.salt

\* A load that will show the vote as it was before the commitment.
Stale(l) == l.at = "read" /\ ~l.saw.committed

\* While the contract has a commitment the page does not offer another: its handler has
\* not ended, and the loads that are stale are older than the one it awaits; or the page
\* is gone, or loads again and nothing stale is on its way; or it shows the commitment,
\* and what is stale is older than what it shows.
CommitKnown ==
    ~unseen /\ ~overtaken /\ commitment # 0 =>
        \/ voteTx.kind = "commit" /\ voteTx.at = "applied"
        \/ /\ voteTx.kind = "commit" /\ voteTx.at = "load"
           /\ \A l \in voteLoads : Stale(l) => l.n < voteTx.load
        \/ notDeployed
        \/ loading /\ \A l \in voteLoads : ~Stale(l)
        \/ voteShown.vote.committed /\ \A l \in voteLoads : Stale(l) => l.n < lastShown

JurorInv ==
    /\ JurorTypeOK /\ JurorFlags
    /\ CommitHoldsSalt /\ CommitAwaited /\ CommitKnown /\ CommitmentStaysRevealable

LEMMA LedgerTakesVoteKeeps ==
    ASSUME JurorInv, NEW tx \in votesSent, LedgerTakesVote(tx)
    PROVE  JurorInv'
<1>1. /\ votesSent' = votesSent \ {tx}
      /\ UNCHANGED <<votePhase, storeVars, loadVars, voteShown, unseen>>
    BY DEF LedgerTakesVote
<1>2. tx \in [kind : {"none", "commit", "reveal", "stake"}, salt : Nat]
    BY DEF JurorInv, JurorTypeOK
<1>3. PICK how \in {"applied", "refused"} :
          /\ voteTx' = Fate(tx, how)
          /\ how = "applied" => Accepted(tx)
          /\ commitment' = IF how = "applied" /\ tx.kind = "commit" THEN tx.salt ELSE commitment
    BY DEF LedgerTakesVote
<1>4. /\ voteTx' \in VoteTxs
      /\ voteTx'.kind = voteTx.kind /\ voteTx'.salt = voteTx.salt /\ voteTx'.load = voteTx.load
      /\ voteTx'.at = IF voteTx.at = "wait" /\ voteTx.kind = tx.kind /\ voteTx.salt = tx.salt
                      THEN how ELSE voteTx.at
    BY <1>3 DEF Fate, JurorInv, JurorTypeOK, VoteTxs
<1>5. JurorTypeOK'
    BY <1>1, <1>4 DEF JurorInv, JurorTypeOK, storeVars, loadVars
<1>6. JurorFlags'
    BY <1>1, Zenon DEF JurorInv, JurorFlags, storeVars, loadVars, LedgerTakesVote
<1>7. CommitHoldsSalt'
    BY <1>1, <1>4 DEF JurorInv, CommitHoldsSalt, storeVars, Stored
<1>8. CommitAwaited'
    <2> SUFFICES ASSUME ~unseen, NEW u \in votesSent, u # tx, u.kind = "commit"
                 PROVE  voteTx'.at = "wait" /\ voteTx'.kind = "commit" /\ voteTx'.salt = u.salt
        BY <1>1 DEF CommitAwaited
    <2>1. voteTx.at = "wait" /\ voteTx.kind = "commit" /\ voteTx.salt = u.salt
        BY DEF JurorInv, CommitAwaited
    <2>2. ~(tx.kind = "commit" /\ tx.salt = u.salt)
        BY <1>2 DEF JurorInv, JurorTypeOK
    <2> QED
        BY <1>4, <2>1, <2>2
<1>9. CASE how = "applied" /\ tx.kind = "commit"
    <2>1. commitment = 0 /\ commitment' = tx.salt
        BY <1>3, <1>9 DEF Accepted, CommitVoteAccepted
    <2>2. ~unseen => voteTx.at = "wait" /\ voteTx.kind = "commit" /\ voteTx.salt = tx.salt
        BY <1>9 DEF JurorInv, CommitAwaited
    <2>3. CommitKnown'
        BY <1>1, <1>4, <1>9, <2>2 DEF CommitKnown
    <2>4. CommitmentStaysRevealable'
        BY <1>1, <2>1, <2>2
        DEF CommitmentStaysRevealable, JurorInv, CommitHoldsSalt, storeVars, loadVars, Stored
    <2> QED
        BY <1>5, <1>6, <1>7, <1>8, <2>3, <2>4 DEF JurorInv
<1>10. CASE ~(how = "applied" /\ tx.kind = "commit")
    <2>1. commitment' = commitment
        BY <1>3, <1>10
    <2>2. CommitKnown' /\ CommitmentStaysRevealable'
        BY <1>1, <1>4, <2>1
        DEF CommitKnown, CommitmentStaysRevealable, JurorInv, storeVars, loadVars, Stored, Stale
    <2> QED
        BY <1>5, <1>6, <1>7, <1>8, <2>2 DEF JurorInv
<1> QED
    BY <1>9, <1>10

\* A step that touches neither the stores, the contract's commitment, what is sent nor
\* the kind, stage and salt of the handler at work.
JurorAside ==
    /\ UNCHANGED <<storeVars, commitment, votesSent, unseen>>
    /\ UNCHANGED <<voteTx.kind, voteTx.at, voteTx.salt>>

LEMMA AsideKeeps ==
    ASSUME JurorInv, JurorAside, overtaken => overtaken'
    PROVE  CommitHoldsSalt' /\ CommitAwaited' /\ CommitmentStaysRevealable'
BY DEF JurorInv, JurorAside, storeVars, CommitHoldsSalt, CommitAwaited,
       CommitmentStaysRevealable, Stored

\* Drawing the page again changes nothing but the phase it was drawn in.
LEMMA RenderedKeepsVote ==
    ASSUME JurorTypeOK
    PROVE  /\ Rendered \in [vote : VotesKnown, phase : {"commit", "reveal", "closed"}]
           /\ Rendered.vote = voteShown.vote
BY DEF JurorTypeOK, Rendered

\* A load that begins is newer than all others, and not stale.
LEMMA NewLoadIsFresh ==
    ASSUME JurorTypeOK
    PROVE  /\ NewLoad \in [n : Nat, at : {"sent", "read"}, saw : VotesKnown]
           /\ NewLoad.n = loadsBegun + 1 /\ ~Stale(NewLoad)
BY DEF JurorTypeOK, NewLoad, NoVote, VotesKnown, Stale

LEMMA ReconnectKeeps ==
    ASSUME JurorInv, WalletReconnects
    PROVE  JurorInv'
<1>1. /\ loadsBegun' = loadsBegun + 1 /\ voteLoads' = voteLoads \cup {NewLoad}
      /\ loading' = TRUE /\ voteShown' = Rendered
      /\ UNCHANGED <<notDeployed, lastShown, overtaken, contractVars, storeVars, voteTx, votesSent,
                     unseen>>
    BY DEF WalletReconnects, LoadBegins
<1>2. JurorTypeOK'
    BY <1>1, RenderedKeepsVote, NewLoadIsFresh DEF JurorInv, JurorTypeOK, contractVars, storeVars
<1>3. JurorFlags'
    BY <1>1, Zenon DEF JurorInv, JurorFlags, contractVars, storeVars
<1>4. CommitHoldsSalt' /\ CommitAwaited' /\ CommitmentStaysRevealable'
    BY <1>1, AsideKeeps DEF JurorAside, contractVars, storeVars
<1>5. CommitKnown'
    BY <1>1, RenderedKeepsVote, NewLoadIsFresh DEF JurorInv, CommitKnown, contractVars, Stale
<1> QED
    BY <1>2, <1>3, <1>4, <1>5 DEF JurorInv

\* What a load reads while the contract has a commitment is not stale.
LEMMA VoteReadKeeps ==
    ASSUME JurorInv, NEW l \in voteLoads, VoteRead(l)
    PROVE  JurorInv'
<1> DEFINE r == [l EXCEPT !.at = "read", !.saw = AsKnown]
<1>1. /\ voteLoads' = (voteLoads \ {l}) \cup {r}
      /\ UNCHANGED <<contractVars, storeVars, loading, notDeployed, loadsBegun, lastShown, overtaken,
                     voteShown, voteTx, votesSent, unseen>>
    BY DEF VoteRead
<1>2. l \in [n : Nat, at : {"sent", "read"}, saw : VotesKnown] /\ l.n <= loadsBegun
    BY DEF JurorInv, JurorTypeOK
<1>3. AsKnown \in VotesKnown /\ (AsKnown.committed <=> commitment # 0)
    BY DEF JurorInv, JurorFlags, AsKnown, VotesKnown
<1>4. /\ r \in [n : Nat, at : {"sent", "read"}, saw : VotesKnown]
      /\ r.n = l.n /\ r.saw = AsKnown
    BY <1>2, <1>3
<1> HIDE DEF r
<1>5. JurorTypeOK'
    BY <1>1, <1>2, <1>4 DEF JurorInv, JurorTypeOK, contractVars, storeVars
<1>6. JurorFlags'
    BY <1>1, Zenon DEF JurorInv, JurorFlags, contractVars, storeVars
<1>7. CommitHoldsSalt' /\ CommitAwaited' /\ CommitmentStaysRevealable'
    BY <1>1, AsideKeeps DEF JurorAside, contractVars, storeVars
<1>8. CommitKnown'
    BY <1>1, <1>3, <1>4 DEF JurorInv, CommitKnown, contractVars, Stale
<1> QED
    BY <1>5, <1>6, <1>7, <1>8 DEF JurorInv

\* The answer of a load is shown: a stale one after a newer one is overtaken, and the
\* handler's own is not stale.
LEMMA LoadVotesKeeps ==
    ASSUME JurorInv, NEW l \in voteLoads, LoadVotes(l)
    PROVE  JurorInv'
<1>1. /\ l.at = "read" /\ voteLoads' = voteLoads \ {l} /\ loading' = FALSE
      /\ voteShown' = [vote |-> l.saw, phase |-> votePhase] /\ voteTx' = AfterLoad(l)
      /\ lastShown' = IF l.n > lastShown THEN l.n ELSE lastShown
      /\ UNCHANGED <<contractVars, storeVars, notDeployed, loadsBegun, votesSent, unseen>>
    BY DEF LoadVotes
<1>2. overtaken' <=> overtaken \/ l.n < lastShown
    BY Zenon DEF LoadVotes
<1>3. l \in [n : Nat, at : {"sent", "read"}, saw : VotesKnown] /\ l.n <= loadsBegun
    BY DEF JurorInv, JurorTypeOK
<1>4. /\ voteTx' \in VoteTxs
      /\ voteTx' = voteTx \/ (voteTx'.kind = "none" /\ voteTx.at = "load" /\ voteTx.load = l.n)
    BY <1>1 DEF AfterLoad, JurorInv, JurorTypeOK, NoVoteTx, VoteTxs
<1>5. voteShown' \in [vote : VotesKnown, phase : {"commit", "reveal", "closed"}]
      /\ voteShown'.vote = l.saw
    BY <1>1, <1>3 DEF JurorInv, JurorTypeOK
<1>6. JurorTypeOK'
    BY <1>1, <1>3, <1>4, <1>5 DEF JurorInv, JurorTypeOK, contractVars, storeVars
<1>7. JurorFlags'
    BY <1>1, Zenon DEF JurorInv, JurorFlags, contractVars, storeVars, LoadVotes
<1>8. CommitHoldsSalt' /\ CommitAwaited' /\ CommitmentStaysRevealable'
    BY <1>1, <1>2, <1>4 DEF JurorInv, storeVars, contractVars, CommitHoldsSalt, CommitAwaited,
       CommitmentStaysRevealable, Stored
<1>9. CommitKnown'
    <2> SUFFICES ASSUME ~unseen, ~overtaken', commitment # 0, ~notDeployed
                 PROVE  CommitKnown'
        BY <1>1 DEF CommitKnown, contractVars
    <2>1. ~overtaken /\ ~(l.n < lastShown) /\ lastShown' = l.n
        BY <1>1, <1>2, <1>3 DEF JurorInv, JurorTypeOK
    <2>2. CASE voteTx.kind = "commit" /\ voteTx.at = "applied"
        BY <1>4, <2>2 DEF CommitKnown
    <2>3. CASE /\ voteTx.kind = "commit" /\ voteTx.at = "load"
               /\ \A s \in voteLoads : Stale(s) => s.n < voteTx.load
        <3>1. CASE voteTx.load = l.n
            <4>1. ~Stale(l) /\ \A s \in voteLoads : Stale(s) => s.n < l.n
                BY <1>3, <2>3, <3>1
            <4>2. voteShown'.vote.committed
                BY <1>1, <1>5, <4>1 DEF Stale
            <4> QED
                BY <1>1, <2>1, <4>1, <4>2 DEF CommitKnown, Stale
        <3>2. CASE voteTx.load # l.n
            BY <1>1, <1>4, <2>3, <3>2 DEF CommitKnown, Stale
        <3> QED
            BY <3>1, <3>2
    <2>4. CASE loading /\ \A s \in voteLoads : ~Stale(s)
        BY <1>1, <1>5, <2>4 DEF CommitKnown, Stale
    <2>5. CASE voteShown.vote.committed /\ \A s \in voteLoads : Stale(s) => s.n < lastShown
        <3>1. ~Stale(l)
            BY <2>1, <2>5
        <3>2. \A s \in voteLoads : Stale(s) => s.n < l.n
            BY <1>3, <2>1, <2>5 DEF JurorInv, JurorTypeOK
        <3> QED
            BY <1>1, <1>5, <2>1, <3>1, <3>2 DEF CommitKnown, Stale
    <2> QED
        BY <2>1, <2>2, <2>3, <2>4, <2>5 DEF JurorInv, CommitKnown
<1> QED
    BY <1>6, <1>7, <1>8, <1>9 DEF JurorInv

LEMMA LoadVotesFailsKeeps ==
    ASSUME JurorInv, NEW l \in voteLoads, LoadVotesFails(l)
    PROVE  JurorInv'
<1>1. /\ voteLoads' = voteLoads \ {l} /\ loading' = FALSE /\ notDeployed' = TRUE
      /\ voteShown' = Rendered /\ voteTx' = AfterLoad(l)
      /\ UNCHANGED <<contractVars, storeVars, loadsBegun, lastShown, overtaken, votesSent, unseen>>
    BY DEF LoadVotesFails
<1>2. /\ voteTx' \in VoteTxs
      /\ voteTx' = voteTx \/ (voteTx'.kind = "none" /\ voteTx.at = "load")
    BY <1>1 DEF AfterLoad, JurorInv, JurorTypeOK, NoVoteTx, VoteTxs
<1>3. JurorTypeOK'
    BY <1>1, <1>2, RenderedKeepsVote DEF JurorInv, JurorTypeOK, contractVars, storeVars
<1>4. JurorFlags'
    BY <1>1, Zenon DEF JurorInv, JurorFlags, contractVars, storeVars
<1>5. CommitHoldsSalt' /\ CommitAwaited' /\ CommitmentStaysRevealable'
    BY <1>1, <1>2 DEF JurorInv, storeVars, contractVars, CommitHoldsSalt, CommitAwaited,
       CommitmentStaysRevealable, Stored
<1>6. CommitKnown'
    BY <1>1 DEF CommitKnown
<1> QED
    BY <1>3, <1>4, <1>5, <1>6 DEF JurorInv

\* A commitment is offered only where the contract has none, or one of the exceptions
\* has happened already.
LEMMA HandleCommitKeeps ==
    ASSUME JurorInv, NEW lt \in BOOLEAN, NEW st \in BOOLEAN, HandleCommit(lt, st)
    PROVE  JurorInv'
<1>1. /\ ~loading /\ ~notDeployed /\ ~voteShown.vote.committed /\ voteTx = NoVoteTx
      /\ salts' = salts + 1
      /\ saltLocal' = IF lt THEN salts + 1 ELSE saltLocal
      /\ saltSession' = IF st THEN salts + 1 ELSE saltSession
      /\ voteTx' = [kind |-> "commit", at |-> "build", salt |-> salts + 1, load |-> 0]
      /\ voteShown' = Rendered
      /\ UNCHANGED <<contractVars, loadVars, votesSent, unseen>>
    BY DEF HandleCommit, CasesShown, CommitOffered
<1>2. unkept' <=> unkept \/ Stored(saltLocal', saltSession') # salts + 1
    BY Zenon DEF HandleCommit
<1>3. voteTx.at = "idle" /\ voteTx.kind = "none"
    BY <1>1 DEF NoVoteTx
<1>4. ~unseen /\ ~overtaken => commitment = 0
    BY <1>1, <1>3 DEF JurorInv, CommitKnown
<1>5. ~unseen => \A tx \in votesSent : tx.kind # "commit"
    BY <1>3 DEF JurorInv, CommitAwaited
<1>6. voteTx' \in VoteTxs /\ voteTx'.salt = salts + 1
    BY <1>1 DEF VoteTxs, JurorInv, JurorTypeOK
<1>7. JurorTypeOK'
    BY <1>1, <1>6, RenderedKeepsVote DEF JurorInv, JurorTypeOK, contractVars, loadVars
<1>8. JurorFlags'
    BY <1>1, Zenon DEF JurorInv, JurorFlags, contractVars, loadVars, HandleCommit
<1>9. CommitHoldsSalt'
    BY <1>2, <1>6 DEF CommitHoldsSalt
<1>10. CommitAwaited'
    BY <1>1, <1>5 DEF CommitAwaited
<1>11. CommitKnown' /\ CommitmentStaysRevealable'
    BY <1>1, <1>4 DEF CommitKnown, CommitmentStaysRevealable, contractVars, loadVars
<1> QED
    BY <1>7, <1>8, <1>9, <1>10, <1>11 DEF JurorInv

\* The other steps of a handler that leave the loads alone.
LEMMA HandlerStepKeeps ==
    ASSUME JurorInv,
           \/ HandleReveal \/ HandleStake \/ BuildVote \/ SendVote \/ ChooseSide
    PROVE  JurorInv'
<1>1. /\ UNCHANGED <<contractVars, storeVars, loadVars, unseen>>
      /\ voteShown' = voteShown \/ voteShown' = Rendered
    BY DEF HandleReveal, HandleStake, BuildVote, SendVote, ChooseSide
<1>2. /\ voteShown' \in [vote : VotesKnown, phase : {"commit", "reveal", "closed"}]
      /\ voteShown'.vote = voteShown.vote
    BY <1>1, RenderedKeepsVote DEF JurorInv, JurorTypeOK
<1>3. Stored(saltLocal, saltSession) \in Nat
    BY DEF JurorInv, JurorTypeOK, Stored
<1>4. /\ voteTx' \in VoteTxs
      /\ voteTx'.kind = "commit" => voteTx.kind = "commit" /\ voteTx'.salt = voteTx.salt
      /\ voteTx.kind = "commit" /\ voteTx.at \in {"wait", "applied", "load"} => voteTx' = voteTx
    <2>1. CASE HandleReveal
        BY <2>1, <1>3 DEF HandleReveal, NoVoteTx, VoteTxs
    <2>2. CASE HandleStake
        BY <2>2 DEF HandleStake, NoVoteTx, VoteTxs
    <2>3. CASE BuildVote
        BY <2>3 DEF BuildVote, VoteTxs, JurorInv, JurorTypeOK
    <2>4. CASE SendVote
        BY <2>4 DEF SendVote, VoteTxs, JurorInv, JurorTypeOK
    <2>5. CASE ChooseSide
        BY <2>5 DEF ChooseSide, JurorInv, JurorTypeOK
    <2> QED
        BY <2>1, <2>2, <2>3, <2>4, <2>5
<1>5. /\ votesSent' \subseteq [kind : {"none", "commit", "reveal", "stake"}, salt : Nat]
      /\ CommitAwaited'
    <2>1. CASE SendVote
        <3>1. /\ voteTx'.at = "wait" /\ voteTx'.kind = voteTx.kind /\ voteTx'.salt = voteTx.salt
              /\ voteTx.at = "sign" /\ voteTx.kind \in {"none", "commit", "reveal", "stake"}
              /\ voteTx.salt \in Nat
            BY <2>1 DEF SendVote, VoteTxs, JurorInv, JurorTypeOK
        <3>2. votesSent' = votesSent \cup {[kind |-> voteTx.kind, salt |-> voteTx.salt]}
            BY <2>1 DEF SendVote
        <3> QED
            BY <1>1, <3>1, <3>2 DEF JurorInv, JurorTypeOK, CommitAwaited
    <2>2. CASE ~SendVote
        <3>1. votesSent' = votesSent
            BY <2>2 DEF HandleReveal, HandleStake, BuildVote, ChooseSide
        <3> QED
            BY <1>1, <1>4, <3>1 DEF JurorInv, JurorTypeOK, CommitAwaited
    <2> QED
        BY <2>1, <2>2
<1>6. JurorTypeOK'
    BY <1>1, <1>2, <1>4, <1>5 DEF JurorInv, JurorTypeOK, contractVars, storeVars, loadVars
<1>7. JurorFlags'
    BY <1>1, Zenon DEF JurorInv, JurorFlags, contractVars, storeVars, loadVars
<1>8. CommitHoldsSalt' /\ CommitmentStaysRevealable'
    BY <1>1, <1>4 DEF JurorInv, contractVars, storeVars, loadVars, CommitHoldsSalt,
       CommitmentStaysRevealable, Stored
<1>9. CommitKnown'
    BY <1>1, <1>2, <1>4 DEF JurorInv, CommitKnown, contractVars, loadVars, Stale
<1> QED
    BY <1>5, <1>6, <1>7, <1>8, <1>9 DEF JurorInv

\* An end the page does not see is remembered.
LEMMA VoteThrowsKeeps ==
    ASSUME JurorInv, VoteThrows
    PROVE  JurorInv'
<1>1. /\ voteTx.at # "load" /\ voteTx' = NoVoteTx /\ voteShown' = Rendered
      /\ UNCHANGED <<contractVars, storeVars, loadVars, votesSent>>
    BY DEF VoteThrows
<1>2. ~unseen' => ~unseen /\ ~(voteTx.at \in {"wait", "applied"} /\ voteTx.kind = "commit")
    BY Zenon DEF VoteThrows
<1>3. voteTx' \in VoteTxs /\ voteTx'.kind = "none"
    BY <1>1 DEF NoVoteTx, VoteTxs
<1>4. JurorTypeOK'
    BY <1>1, <1>3, RenderedKeepsVote
    DEF JurorInv, JurorTypeOK, contractVars, storeVars, loadVars
<1>5. JurorFlags'
    BY <1>1, Zenon DEF JurorInv, JurorFlags, contractVars, storeVars, loadVars, VoteThrows
<1>6. CommitHoldsSalt' /\ CommitAwaited' /\ CommitmentStaysRevealable'
    BY <1>1, <1>2, <1>3 DEF JurorInv, contractVars, storeVars, loadVars, CommitHoldsSalt,
       CommitAwaited, CommitmentStaysRevealable, Stored
<1>7. CommitKnown'
    BY <1>1, <1>2, RenderedKeepsVote
    DEF JurorInv, CommitKnown, contractVars, loadVars, Stale
<1> QED
    BY <1>4, <1>5, <1>6, <1>7 DEF JurorInv

\* The load a handler awaits is the newest.
LEMMA VoteAppliedKeeps ==
    ASSUME JurorInv, VoteApplied
    PROVE  JurorInv'
<1>1. /\ voteTx.at \in {"applied", "stake"}
      /\ loadsBegun' = loadsBegun + 1 /\ voteLoads' = voteLoads \cup {NewLoad}
      /\ loading' = TRUE /\ voteShown' = Rendered
      /\ voteTx' = [voteTx EXCEPT !.at = "load", !.load = loadsBegun + 1]
      /\ UNCHANGED <<notDeployed, lastShown, overtaken, contractVars, storeVars, votesSent, unseen>>
    BY DEF VoteApplied, LoadBegins
<1>2. /\ voteTx' \in VoteTxs /\ voteTx'.kind = voteTx.kind /\ voteTx'.salt = voteTx.salt
      /\ voteTx'.at = "load" /\ voteTx'.load = loadsBegun + 1
    <2>1. voteTx \in VoteTxs /\ loadsBegun + 1 \in Nat
        BY DEF JurorInv, JurorTypeOK
    <2> QED
        BY <1>1, <2>1 DEF VoteTxs
<1>3. JurorTypeOK'
    BY <1>1, <1>2, RenderedKeepsVote, NewLoadIsFresh
    DEF JurorInv, JurorTypeOK, contractVars, storeVars
<1>4. JurorFlags'
    BY <1>1, Zenon DEF JurorInv, JurorFlags, contractVars, storeVars
<1>5. CommitHoldsSalt' /\ CommitAwaited' /\ CommitmentStaysRevealable'
    BY <1>1, <1>2 DEF JurorInv, contractVars, storeVars, CommitHoldsSalt,
       CommitAwaited, CommitmentStaysRevealable, Stored
<1>6. \A l \in voteLoads' : Stale(l) => l \in voteLoads /\ l.n < loadsBegun + 1
    BY <1>1, NewLoadIsFresh DEF JurorInv, JurorTypeOK
<1>7. CommitKnown'
    BY <1>1, <1>2, <1>6, RenderedKeepsVote DEF JurorInv, CommitKnown, contractVars, Stale
<1> QED
    BY <1>3, <1>4, <1>5, <1>7 DEF JurorInv

\* A new visit starts with one load, begun after whatever the contract has taken.
LEMMA VisitAgainKeeps ==
    ASSUME JurorInv, NEW how, VisitAgain(how)
    PROVE  JurorInv'
<1> DEFINE left == [kind |-> voteTx.kind, salt |-> voteTx.salt]
<1>1. /\ loadsBegun' = loadsBegun + 1 /\ voteLoads' = {NewLoad}
      /\ loading' = TRUE /\ notDeployed' = FALSE
      /\ voteShown' = [vote |-> NoVote, phase |-> votePhase] /\ voteTx' = NoVoteTx
      /\ votesSent' = votesSent \cup {tx \in {left} : GoesOn(how)}
      /\ saltSession' = IF how = "new tab" THEN 0 ELSE saltSession
      /\ UNCHANGED <<contractVars, saltLocal, salts, lastShown, overtaken>>
    BY DEF VisitAgain
<1>2. ~unseen' => /\ ~unseen
                  /\ voteTx.kind = "commit" => voteTx.at # "wait" /\ ~GoesOn(how)
    BY Zenon DEF VisitAgain
<1>3. ~unkept' => ~unkept /\ Stored(saltLocal, saltSession') = Stored(saltLocal, saltSession)
    BY Zenon DEF VisitAgain
<1>4. /\ voteTx' \in VoteTxs /\ voteTx'.kind = "none"
      /\ voteShown' \in [vote : VotesKnown, phase : {"commit", "reveal", "closed"}]
    BY <1>1 DEF NoVoteTx, VoteTxs, NoVote, VotesKnown, JurorInv, JurorTypeOK
<1>5. left \in [kind : {"none", "commit", "reveal", "stake"}, salt : Nat] /\ left.kind = voteTx.kind
    BY DEF JurorInv, JurorTypeOK, VoteTxs
<1> HIDE DEF left
<1>6. JurorTypeOK'
    <2>1. votesSent' \subseteq [kind : {"none", "commit", "reveal", "stake"}, salt : Nat]
        BY <1>1, <1>5 DEF JurorInv, JurorTypeOK
    <2>2. saltLocal' \in Nat /\ saltSession' \in Nat /\ salts' \in Nat
        BY <1>1 DEF JurorInv, JurorTypeOK
    <2>3. /\ loadsBegun' \in Nat /\ lastShown' \in Nat
          /\ voteLoads' \subseteq [n : Nat, at : {"sent", "read"}, saw : VotesKnown]
          /\ \A l \in voteLoads' : l.n <= loadsBegun'
        <3>1. /\ NewLoad \in [n : Nat, at : {"sent", "read"}, saw : VotesKnown]
              /\ NewLoad.n = loadsBegun + 1
            BY NewLoadIsFresh DEF JurorInv
        <3>2. loadsBegun' = loadsBegun + 1 /\ lastShown' = lastShown /\ voteLoads' = {NewLoad}
            BY <1>1
        <3> QED
            BY <3>1, <3>2 DEF JurorInv, JurorTypeOK
    <2> QED
        BY <1>1, <1>4, <2>1, <2>2, <2>3 DEF JurorInv, JurorTypeOK, contractVars
<1>7. JurorFlags'
    BY <1>1, Zenon DEF JurorInv, JurorFlags, contractVars, VisitAgain
<1>8. CommitHoldsSalt' /\ CommitmentStaysRevealable'
    BY <1>1, <1>2, <1>3, <1>4 DEF JurorInv, contractVars, CommitHoldsSalt,
       CommitmentStaysRevealable
<1>9. CommitAwaited'
    BY <1>1, <1>2, <1>5 DEF JurorInv, CommitAwaited
<1>10. CommitKnown'
    BY <1>1, NewLoadIsFresh DEF JurorInv, CommitKnown, Stale
<1> QED
    BY <1>6, <1>7, <1>8, <1>9, <1>10 DEF JurorInv

LEMMA JurorStep ==
    ASSUME JurorInv, [JurorNext]_jurorVars
    PROVE  JurorInv'
<1>1. CASE \E tx \in votesSent : LedgerTakesVote(tx)
    BY <1>1, LedgerTakesVoteKeeps
<1>2. CASE DeadlinePasses \/ UNCHANGED jurorVars
    <2>1. /\ UNCHANGED <<commitment, revealed, storeVars, loadVars, voteShown, voteTx, votesSent,
                         unseen>>
          /\ votePhase' \in {"commit", "reveal", "closed"}
        BY <1>2 DEF DeadlinePasses, jurorVars, contractVars, JurorInv, JurorTypeOK
    <2>2. JurorTypeOK' /\ CommitHoldsSalt' /\ CommitAwaited' /\ CommitKnown'
          /\ CommitmentStaysRevealable'
        BY <2>1 DEF storeVars, loadVars, JurorInv, JurorTypeOK, CommitHoldsSalt, CommitAwaited,
                CommitKnown, CommitmentStaysRevealable, Stored, Stale
    <2>3. JurorFlags'
        BY <2>1, Zenon DEF JurorInv, JurorFlags, storeVars, loadVars
    <2> QED
        BY <2>2, <2>3 DEF JurorInv
<1>3. CASE WalletReconnects
    BY <1>3, ReconnectKeeps
<1>4. CASE \E l \in voteLoads : VoteRead(l) \/ LoadVotes(l) \/ LoadVotesFails(l)
    BY <1>4, VoteReadKeeps, LoadVotesKeeps, LoadVotesFailsKeeps
<1>5. CASE \E lt, st \in BOOLEAN : HandleCommit(lt, st)
    BY <1>5, HandleCommitKeeps
<1>6. CASE ChooseSide \/ HandleReveal \/ HandleStake \/ BuildVote \/ SendVote
    BY <1>6, HandlerStepKeeps
<1>7. CASE VoteThrows
    BY <1>7, VoteThrowsKeeps
<1>8. CASE VoteApplied
    BY <1>8, VoteAppliedKeeps
<1>9. CASE \E how \in {"navigate", "reload", "new tab"} : VisitAgain(how)
    BY <1>9, VisitAgainKeeps
<1> QED
    BY <1>1, <1>2, <1>3, <1>4, <1>5, <1>6, <1>7, <1>8, <1>9 DEF JurorNext

\* The jurors page (frontend/app/arbitration/jurors/page.tsx): however many loads, stake
\* handlers, reconnections, visits, lost answers and steps of the ledger come between the
\* awaits of its handlers, it finds the salt that opens the commitment in the contract,
\* unless the end of a commitment was not seen, an answer was shown after a newer one, or
\* the browser did not keep a salt.
THEOREM CommitmentRevealable == JurorSpec => []CommitmentStaysRevealable
<1>1. JurorInit => JurorInv
    <2> SUFFICES ASSUME JurorInit PROVE JurorInv
        OBVIOUS
    <2>1. JurorFlags
        BY Zenon DEF JurorInit, JurorFlags
    <2>2. voteTx \in VoteTxs /\ voteTx.kind = "none"
        BY DEF JurorInit, NoVoteTx, VoteTxs
    <2>3. JurorTypeOK
        BY <2>2 DEF JurorInit, JurorTypeOK, NoVote, VotesKnown
    <2>4. commitment = 0 /\ votesSent = {}
        BY DEF JurorInit
    <2> QED
        BY <2>1, <2>2, <2>3, <2>4 DEF JurorInv, CommitHoldsSalt, CommitAwaited,
                CommitKnown, CommitmentStaysRevealable
<1>2. JurorInv => CommitmentStaysRevealable
    BY DEF JurorInv
<1> QED
    BY <1>1, <1>2, JurorStep, PTL DEF JurorSpec

-----------------------------------------------------------------------------
(* The cache: the page shows the user's own write *)

CacheTypeOK ==
    /\ onChain \in Nat /\ cached \in Nat /\ ownVersion \in Nat /\ ownVersion <= onChain
    /\ fetch \in [at : {"idle", "sent", "read"}, version : Nat]
    /\ fetch.at = "sent" => fetch = Sent
    /\ write \in [kind : {"none"} \cup DOMAIN ChangedBy,
                  at : {"idle", "submitted", "applied", "succeeded", "failed"}]

\* Once a write has succeeded, a fetch in flight reads after it, and an entry at rest
\* has its answer or its failure.
FetchAfterWrite ==
    write.at = "succeeded" /\ <<write.kind, watched>> \in SeenAtOnce =>
        /\ fetch.at = "idle" => fetchFailed \/ cached >= ownVersion
        /\ fetch.at = "read" => fetch.version >= ownVersion

CacheInv == CacheTypeOK /\ FetchAfterWrite

LEMMA IdleAndSent ==
    /\ Idle \in [at : {"idle", "sent", "read"}, version : Nat] /\ Idle.at = "idle"
    /\ Sent \in [at : {"idle", "sent", "read"}, version : Nat] /\ Sent.at = "sent"
BY DEF Idle, Sent

LEMMA CacheStep ==
    ASSUME CacheInv, [CacheNext]_cacheVars
    PROVE  CacheInv'
<1>1. CASE Revalidate \/ DedupingEnds \/ ForeignChange \/ UNCHANGED cacheVars
    BY <1>1, IdleAndSent DEF Revalidate, DedupingEnds, ForeignChange, cacheVars, CacheInv,
                CacheTypeOK, FetchAfterWrite
<1>2. CASE FetchReads
    <2>1. fetch' = [at |-> "read", version |-> onChain] /\ UNCHANGED <<watched, onChain, cached,
                write, ownVersion, fetchFailed>>
        BY <1>2 DEF FetchReads
    <2>2. /\ fetch' \in [at : {"idle", "sent", "read"}, version : Nat]
          /\ fetch'.at = "read" /\ fetch'.version = onChain
        BY <2>1 DEF CacheInv, CacheTypeOK
    <2> QED
        BY <2>1, <2>2 DEF CacheInv, CacheTypeOK, FetchAfterWrite
<1>3. CASE FetchFails
    BY <1>3, IdleAndSent DEF FetchFails, CacheInv, CacheTypeOK, FetchAfterWrite
<1>4. CASE \E v \in 1 .. MaxVersion : FetchAnswers(v)
    <2>1. PICK v \in 1 .. MaxVersion : FetchAnswers(v)
        BY <1>4
    <2>2. v \in Nat /\ v >= fetch.version /\ fetch.at = "read" /\ cached' = v /\ fetch' = Idle
        BY <2>1, CacheAssumption DEF FetchAnswers, CacheInv, CacheTypeOK
    <2>3. UNCHANGED <<watched, onChain, write, ownVersion>>
        BY <2>1 DEF FetchAnswers
    <2> QED
        BY <2>2, <2>3, IdleAndSent DEF CacheInv, CacheTypeOK, FetchAfterWrite
<1>5. CASE \E kind \in DOMAIN ChangedBy : Trigger(kind)
    <2>1. PICK kind \in DOMAIN ChangedBy : Trigger(kind)
        BY <1>5
    <2>2. /\ write' \in [kind : {"none"} \cup DOMAIN ChangedBy,
                  at : {"idle", "submitted", "applied", "succeeded", "failed"}]
          /\ write'.at = "submitted"
        BY <2>1 DEF Trigger
    <2> QED
        BY <2>1, <2>2 DEF Trigger, CacheInv, CacheTypeOK, FetchAfterWrite
<1>6. CASE WriteApplied
    BY <1>6 DEF WriteApplied, CacheInv, CacheTypeOK, FetchAfterWrite
<1>7. CASE WriteFails
    BY <1>7 DEF WriteFails, CacheInv, CacheTypeOK, FetchAfterWrite
<1>8. CASE WriteSucceeds
    <2>1. /\ write' \in [kind : {"none"} \cup DOMAIN ChangedBy,
                  at : {"idle", "submitted", "applied", "succeeded", "failed"}]
          /\ write'.kind = write.kind
          /\ UNCHANGED <<watched, onChain, cached, ownVersion, fetchFailed>>
        BY <1>8 DEF WriteSucceeds, CacheInv, CacheTypeOK
    <2>2. ASSUME <<write.kind, watched>> \in SeenAtOnce
          PROVE  watched \in OnSuccess(write.kind)
        BY <2>2 DEF SeenAtOnce, OnSuccess, ReferralOnSuccess, DepositOnSuccess, SetYieldOnSuccess
    <2>3. <<write.kind, watched>> \in SeenAtOnce => fetch' = Sent
        BY <1>8, <2>2 DEF WriteSucceeds, Mutate
    <2>4. fetch' = Sent \/ fetch' = fetch
        BY <1>8 DEF WriteSucceeds, Mutate
    <2> QED
        BY <2>1, <2>3, <2>4, IdleAndSent DEF CacheInv, CacheTypeOK, FetchAfterWrite
<1>9. CASE \E event \in EventTypes : EventArrives(event)
    <2>1. /\ fetch' = Sent \/ fetch' = fetch
          /\ UNCHANGED <<watched, onChain, cached, write, ownVersion, fetchFailed>>
        BY <1>9 DEF EventArrives, Mutate
    <2> QED
        BY <2>1, IdleAndSent DEF CacheInv, CacheTypeOK, FetchAfterWrite
<1> QED
    BY <1>1, <1>2, <1>3, <1>4, <1>5, <1>6, <1>7, <1>8, <1>9 DEF CacheNext

\* The onSuccess of the mutation hooks (frontend/lib/cache.ts): after a deposit, a yield
\* change or a referral has succeeded, an entry it changed is not left at an older
\* version by a fetch that was in flight, nor by those of timers and events.
THEOREM OwnWriteShown == CacheSpec => []OwnWriteSeen
<1>1. CacheInit => CacheInv
    BY IdleAndSent DEF CacheInit, CacheInv, CacheTypeOK, FetchAfterWrite, NoWrite
<1>2. CacheInv => OwnWriteSeen
    BY IdleAndSent DEF CacheInv, CacheTypeOK, FetchAfterWrite, OwnWriteSeen
<1> QED
    BY <1>1, <1>2, CacheStep, PTL DEF CacheSpec

-----------------------------------------------------------------------------
(* A submission: why the user may read `failed' of what succeeded *)

Used == {a \in AttemptIds : attempts[a].at # "unused"}

\* Attempts are launched one after the other.
LaunchedInOrder ==
    /\ DOMAIN attempts = AttemptIds
    /\ \A a \in AttemptIds : "at" \in DOMAIN attempts[a]
    /\ \E n \in Nat : Used = 1 .. n

\* What can be said while nothing has been sent again: the attempt that has not yet
\* been answered finds no transaction on the ledger, and `failed' is the end of it.
FirstAttempt ==
    Launched <= 1 =>
        /\ Launched = 0 => ledgerTx \in {"absent", "expired"} /\ reported = "none"
        /\ \A a \in AttemptIds :
              attempts[a].at = "sending" => ledgerTx \in {"absent", "expired"}
        /\ reported = "failed" =>
              \/ ledgerTx \in {"failed", "expired"}
              \/ \E a \in AttemptIds : attempts[a].at = "gave up"

TxInv == LaunchedInOrder /\ FirstAttempt

LEMMA OneOfOne ==
    ASSUME NEW n \in Nat, n <= 1, NEW k \in 1 .. n
    PROVE  n = 1 /\ k = 1 /\ 1 .. n = {k}
OBVIOUS

LEMMA LaunchedCounts ==
    ASSUME NEW n \in Nat, Used = 1 .. n
    PROVE  Launched = n
<1>1. Launched = Cardinality(1 .. n)
    BY DEF Launched, Used
<1>2. Cardinality(1 .. n) = IF 1 > n THEN 0 ELSE n - 1 + 1
    BY FS_Interval
<1> QED
    BY <1>1, <1>2

\* A step of an attempt that was launched, and what it may report.
AttemptMoved(a) ==
    /\ attempts[a].at \in {"sending", "polling"}
    /\ DOMAIN attempts' = AttemptIds /\ \A b \in AttemptIds \ {a} : attempts'[b] = attempts[b]
    /\ "at" \in DOMAIN attempts'[a]
    /\ attempts'[a].at \in {"sending", "polling", "over", "gave up"}
    /\ attempts'[a].at = "sending" => attempts[a].at = "sending"
ReportJustified(a) ==
    /\ \/ ledgerTx' = ledgerTx
       \/ /\ ledgerTx = "absent" /\ attempts[a].at = "sending" /\ attempts'[a].at # "sending"
          /\ reported' # "failed" \/ reported' = reported
    /\ \/ reported' = reported \/ reported' # "failed" \/ attempts'[a].at = "gave up"
       \/ ledgerTx' = "failed"
       \/ attempts[a].at = "sending" /\ ledgerTx' = ledgerTx /\ ledgerTx # "absent"

LEMMA AttemptMoves ==
    ASSUME TxInv, NEW a \in AttemptIds, AttemptMoved(a), ReportJustified(a)
    PROVE  TxInv'
<1>1. Used' = Used /\ a \in Used
    BY DEF Used, AttemptMoved
<1>2. PICK n \in Nat : Used = 1 .. n
    BY DEF TxInv, LaunchedInOrder
<1>3. Launched = n
    BY <1>2, LaunchedCounts
<1>4. Launched' = Launched
    BY <1>1 DEF Launched, Used
<1>5. \A b \in AttemptIds : "at" \in DOMAIN attempts'[b]
    BY DEF TxInv, LaunchedInOrder, AttemptMoved
<1>6. LaunchedInOrder'
    BY <1>1, <1>2, <1>5 DEF LaunchedInOrder, AttemptMoved
<1>7. FirstAttempt'
    <2> SUFFICES ASSUME n <= 1 PROVE FirstAttempt'
        BY <1>3, <1>4 DEF FirstAttempt
    <2>1. n = 1 /\ a = 1
        BY <1>1, <1>2, OneOfOne
    <2>2. \A b \in AttemptIds \ {a} : attempts[b].at = "unused"
        <3>1. 1 .. n = {a}
            BY <1>1, <1>2, OneOfOne
        <3> QED
            BY <1>2, <3>1 DEF Used
    <2>3. /\ attempts[a].at = "sending" => ledgerTx \in {"absent", "expired"}
          /\ reported = "failed" => ledgerTx \in {"failed", "expired"}
        <3>1. Launched <= 1
            BY <1>3
        <3>2. attempts[a].at # "gave up"
            BY DEF AttemptMoved
        <3>3. \A b \in AttemptIds : attempts[b].at # "gave up"
            BY <2>2, <3>2
        <3> QED
            BY <3>1, <3>3 DEF TxInv, FirstAttempt
    <2>4. \A b \in AttemptIds : attempts'[b].at = "sending" => ledgerTx' \in {"absent", "expired"}
        BY <2>2, <2>3 DEF AttemptMoved, ReportJustified
    <2>5. reported' = "failed" =>
              \/ ledgerTx' \in {"failed", "expired"}
              \/ \E b \in AttemptIds : attempts'[b].at = "gave up"
        BY <2>3 DEF AttemptMoved, ReportJustified
    <2>6. Launched' # 0
        <3>1. 1 # 0
            OBVIOUS
        <3>2. Launched' = 1
            BY <1>3, <1>4, <2>1, Zenon
        <3> QED
            BY <3>1, <3>2, Zenon
    <2> QED
        BY <2>4, <2>5, <2>6 DEF FirstAttempt
<1> QED
    BY <1>6, <1>7 DEF TxInv

LEMMA AttemptKeeps ==
    ASSUME TxInv, NEW a \in AttemptIds, Attempt(a)
    PROVE  TxInv'
<1>1. DOMAIN attempts = AttemptIds /\ "at" \in DOMAIN attempts[a]
    BY DEF TxInv, LaunchedInOrder
<1>2. ASSUME NEW how \in {"over", "gave up"}, End(a, how)
      PROVE  /\ DOMAIN attempts' = AttemptIds
             /\ \A b \in AttemptIds \ {a} : attempts'[b] = attempts[b]
             /\ "at" \in DOMAIN attempts'[a] /\ attempts'[a].at = how
    BY <1>1, <1>2 DEF End, Unused
<1>3. ASSUME NEW state \in {"polling"}, MoveTo(a, state)
      PROVE  /\ DOMAIN attempts' = AttemptIds
             /\ \A b \in AttemptIds \ {a} : attempts'[b] = attempts[b]
             /\ "at" \in DOMAIN attempts'[a] /\ attempts'[a].at = state
    BY <1>1, <1>3 DEF MoveTo
<1>4. CASE \E answer \in {"PENDING", "DUPLICATE", "ERROR"} : SendAnswered(a, answer)
    <2>1. PICK answer \in {"PENDING", "DUPLICATE", "ERROR"} : SendAnswered(a, answer)
        BY <1>4
    <2>2. CASE answer = "ERROR"
        <3>1. /\ attempts[a].at = "sending" /\ ledgerTx' = ledgerTx /\ ledgerTx # "absent"
              /\ End(a, "over")
            BY <2>1, <2>2 DEF SendAnswered, SendAnswers
        <3> QED
            BY <1>2, <3>1, AttemptMoves DEF AttemptMoved, ReportJustified
    <2>3. CASE answer # "ERROR"
        <3>1. /\ attempts[a].at = "sending" /\ MoveTo(a, "polling") /\ reported' = "pending"
              /\ ledgerTx' = IF ledgerTx = "absent" THEN "queued" ELSE ledgerTx
            BY <2>1, <2>3 DEF SendAnswered
        <3> QED
            BY <1>3, <3>1, AttemptMoves DEF AttemptMoved, ReportJustified
    <2> QED
        BY <2>2, <2>3
<1>5. CASE SendPutOff(a)
    <2>1. CASE side = "frontend"
        <3>1. /\ attempts[a].at = "sending" /\ ledgerTx' = ledgerTx
              /\ MoveTo(a, "polling") /\ reported' = "pending"
            BY <1>5, <2>1 DEF SendPutOff
        <3> QED
            BY <1>3, <3>1, AttemptMoves DEF AttemptMoved, ReportJustified
    <2>2. CASE side # "frontend"
        <3>1. /\ attempts[a].at = "sending" /\ ledgerTx' = ledgerTx
              /\ End(a, "over") /\ reported' = reported
            BY <1>5, <2>2 DEF SendPutOff
        <3> QED
            BY <1>2, <3>1, AttemptMoves DEF AttemptMoved, ReportJustified
    <2> QED
        BY <2>1, <2>2
<1>6. CASE PollSettled(a)
    <2>1. /\ attempts[a].at = "polling" /\ End(a, "over") /\ ledgerTx' = ledgerTx
          /\ reported' # "failed" \/ ledgerTx = "failed"
        BY <1>6 DEF PollSettled
    <2> QED
        BY <1>2, <2>1, AttemptMoves DEF AttemptMoved, ReportJustified
<1>7. CASE PollAgain(a)
    <2>1. /\ attempts[a].at = "polling" /\ ledgerTx' = ledgerTx
          /\ attempts' = [attempts EXCEPT ![a].polls = @ + 1]
          /\ reported' = "pending" \/ reported' = reported
        BY <1>7 DEF PollAgain
    <2>2. /\ DOMAIN attempts' = AttemptIds
          /\ \A b \in AttemptIds \ {a} : attempts'[b] = attempts[b]
          /\ "at" \in DOMAIN attempts'[a] /\ attempts'[a].at = "polling"
        BY <1>1, <2>1
    <2> QED
        BY <2>1, <2>2, AttemptMoves DEF AttemptMoved, ReportJustified
<1>8. CASE PollExhausted(a)
    <2>1. attempts[a].at = "polling" /\ End(a, "gave up") /\ ledgerTx' = ledgerTx
        BY <1>8 DEF PollExhausted
    <2> QED
        BY <1>2, <2>1, AttemptMoves DEF AttemptMoved, ReportJustified
<1>9. CASE RaceLost(a)
    <2>1. /\ attempts[a].at \in {"sending", "polling"} /\ UNCHANGED <<ledgerTx, reported>>
          /\ attempts' = [attempts EXCEPT ![a].raced = TRUE, ![a].conn = 0]
        BY <1>9 DEF RaceLost
    <2>2. /\ DOMAIN attempts' = AttemptIds
          /\ \A b \in AttemptIds \ {a} : attempts'[b] = attempts[b]
          /\ "at" \in DOMAIN attempts'[a] /\ attempts'[a].at = attempts[a].at
        BY <1>1, <2>1
    <2> QED
        BY <2>1, <2>2, AttemptMoves DEF AttemptMoved, ReportJustified
<1>10. CASE \E arrived, marks \in BOOLEAN : RequestLost(a, arrived, marks)
    <2>1. /\ attempts[a].at \in {"sending", "polling"} /\ End(a, "over") /\ reported' = reported
          /\ \/ ledgerTx' = ledgerTx
             \/ ledgerTx = "absent" /\ attempts[a].at = "sending"
        BY <1>10 DEF RequestLost
    <2> QED
        BY <1>2, <2>1, AttemptMoves DEF AttemptMoved, ReportJustified
<1> QED
    BY <1>4, <1>5, <1>6, <1>7, <1>8, <1>9, <1>10 DEF Attempt

LEMMA LaunchKeeps ==
    ASSUME TxInv, NEW k, Launch(k), UNCHANGED <<ledgerTx, reported>>
    PROVE  TxInv'
<1>1. PICK n \in Nat : Used = 1 .. n
    BY DEF TxInv, LaunchedInOrder
<1>2. Launched = n
    BY <1>1, LaunchedCounts
<1> DEFINE r == [at |-> "sending", raced |-> FALSE, polls |-> 0, conn |-> GetConnection]
<1>3. /\ attempts' = [attempts EXCEPT ![n + 1] = r]
      /\ "at" \in DOMAIN r /\ r.at = "sending"
    BY <1>2 DEF Launch
<1> HIDE DEF r
<1>4. DOMAIN attempts' = AttemptIds /\ \A b \in AttemptIds : "at" \in DOMAIN attempts'[b]
    BY <1>3 DEF TxInv, LaunchedInOrder
<1>5. CASE n + 1 \in AttemptIds
    <2>1. Used' = 1 .. n + 1
        <3>1. \A b \in AttemptIds : attempts'[b] = IF b = n + 1 THEN r ELSE attempts[b]
            BY <1>3 DEF TxInv, LaunchedInOrder
        <3>2. Used' = Used \cup {n + 1}
            BY <1>3, <1>5, <3>1 DEF Used
        <3> QED
            BY <1>1, <3>2
    <2>2. Launched' = n + 1
        <3>1. Launched' = Cardinality(1 .. n + 1)
            BY <2>1 DEF Launched, Used
        <3>2. Cardinality(1 .. n + 1) = IF 1 > n + 1 THEN 0 ELSE (n + 1) - 1 + 1
            BY FS_Interval
        <3> QED
            BY <3>1, <3>2
    <2>3. ASSUME n = 0 PROVE FirstAttempt'
        <3>1. ledgerTx \in {"absent", "expired"} /\ reported = "none"
            BY <1>2, <2>3 DEF FirstAttempt, TxInv
        <3>2. Launched' # 0
            <4>1. n + 1 # 0
                OBVIOUS
            <4> QED
                BY <2>2, <4>1, Zenon
        <3>3. ledgerTx' \in {"absent", "expired"} /\ reported' # "failed"
            BY <3>1
        <3> QED
            BY <3>2, <3>3 DEF FirstAttempt
    <2>4. ASSUME n # 0 PROVE FirstAttempt'
        <3>1. ~(Launched' <= 1)
            <4>1. ~(n + 1 <= 1)
                BY <2>4
            <4> QED
                BY <2>2, <4>1, Zenon
        <3> QED
            BY <3>1 DEF FirstAttempt
    <2>5. LaunchedInOrder'
        BY <1>4, <2>1 DEF LaunchedInOrder
    <2> QED
        BY <2>3, <2>4, <2>5 DEF TxInv
<1>6. CASE n + 1 \notin AttemptIds
    <2>1. \A b \in AttemptIds : attempts'[b] = attempts[b]
        BY <1>3, <1>6 DEF TxInv, LaunchedInOrder
    <2>2. Used' = Used
        BY <2>1 DEF Used
    <2>3. Launched' = Launched
        BY <2>2 DEF Launched, Used
    <2>4. FirstAttempt'
        BY <2>1, <2>3 DEF FirstAttempt, TxInv
    <2> QED
        BY <1>1, <1>4, <2>2, <2>4 DEF TxInv, LaunchedInOrder
<1> QED
    BY <1>5, <1>6

LEMMA SameAttempts ==
    ASSUME TxInv, DOMAIN attempts' = AttemptIds,
           \A b \in AttemptIds : "at" \in DOMAIN attempts'[b] /\ attempts'[b].at = attempts[b].at,
           reported' = reported,
           ledgerTx' = ledgerTx \/ ledgerTx = "queued" \/ (ledgerTx = "absent" /\ ledgerTx' = "expired")
    PROVE  TxInv'
<1>1. Used' = Used
    BY DEF Used
<1>2. Launched' = Launched
    BY <1>1 DEF Launched, Used
<1>3. LaunchedInOrder'
    BY <1>1 DEF TxInv, LaunchedInOrder
<1>4. FirstAttempt'
    BY <1>2 DEF FirstAttempt, TxInv
<1> QED
    BY <1>3, <1>4 DEF TxInv

LEMMA TxStep ==
    ASSUME TxInv, [TxNext]_txVars
    PROVE  TxInv'
<1>0. DOMAIN attempts = AttemptIds /\ \A b \in AttemptIds : "at" \in DOMAIN attempts[b]
    BY DEF TxInv, LaunchedInOrder
<1>1. CASE SubmitTx \/ TaskStarts \/ RetryAttempt
    <2>1. CASE UNCHANGED <<attempts, ledgerTx, reported>>
        BY <1>0, <2>1, SameAttempts
    <2>2. CASE ~UNCHANGED <<attempts, ledgerTx, reported>>
        BY <1>1, <2>2, LaunchKeeps DEF SubmitTx, TaskStarts, RetryAttempt
    <2> QED
        BY <2>1, <2>2
<1>2. CASE \E a \in AttemptIds : Attempt(a)
    BY <1>2, AttemptKeeps
<1>3. CASE \E fate \in {"success", "failed", "expired"} : Apply(fate)
    <2>1. /\ attempts' = attempts /\ reported' = reported
          /\ ledgerTx = "queued" \/ (ledgerTx = "absent" /\ ledgerTx' = "expired")
        BY <1>3 DEF Apply
    <2> QED
        BY <1>0, <2>1, SameAttempts
<1>4. CASE \E c \in Conn, recycle \in BOOLEAN : PerformHealthCheck(c, recycle)
    <2>1. PICK c \in Conn, recycle \in BOOLEAN : PerformHealthCheck(c, recycle)
        BY <1>4
    <2>2. UNCHANGED <<ledgerTx, reported>>
        BY <2>1 DEF PerformHealthCheck
    <2>3. CASE recycle
        <3>1. attempts' = [a \in AttemptIds |->
                             IF attempts[a].conn = c THEN [attempts[a] EXCEPT !.conn = 0]
                             ELSE attempts[a]]
            BY <2>1, <2>3 DEF PerformHealthCheck
        <3>2. /\ DOMAIN attempts' = AttemptIds
              /\ \A b \in AttemptIds : "at" \in DOMAIN attempts'[b] /\ attempts'[b].at = attempts[b].at
            BY <1>0, <3>1
        <3> QED
            BY <2>2, <3>2, SameAttempts
    <2>4. CASE ~recycle
        <3>1. attempts' = attempts
            BY <2>1, <2>4 DEF PerformHealthCheck
        <3> QED
            BY <1>0, <2>2, <3>1, SameAttempts
    <2> QED
        BY <2>3, <2>4
<1>5. CASE ReadStarts \/ ReadSettles \/ QueueSpins \/ UNCHANGED txVars
    <2>1. UNCHANGED <<attempts, ledgerTx, reported>>
        BY <1>5 DEF ReadStarts, ReadSettles, QueueSpins, txVars
    <2> QED
        BY <1>0, <2>1, SameAttempts
<1> QED
    BY <1>1, <1>2, <1>3, <1>4, <1>5 DEF TxNext

\* submitTx of the frontend and of the SDK: a user reads `failed' of a transaction that
\* is in a ledger only after it was sent again or a polling loop gave up, whatever
\* requests are lost, raced and answered late.
THEOREM FalseFailureHasCause == TxSpec => []FalseFailureExplained
<1>1. TxInit => TxInv
    <2> SUFFICES ASSUME TxInit PROVE TxInv
        OBVIOUS
    <2>1. /\ attempts = [a \in AttemptIds |-> Unused] /\ ledgerTx = "absent" /\ reported = "none"
          /\ Unused.at = "unused" /\ "at" \in DOMAIN Unused
        BY DEF TxInit, Unused
    <2>2. Used = 1 .. 0
        BY <2>1 DEF Used
    <2>3. LaunchedInOrder
        BY <2>1, <2>2 DEF LaunchedInOrder
    <2>4. FirstAttempt
        BY <2>1 DEF FirstAttempt
    <2> QED
        BY <2>3, <2>4 DEF TxInv
<1>2. TxInv => FalseFailureExplained
    <2> SUFFICES ASSUME TxInv, reported = "failed", ledgerTx = "success", ~(Launched > 1)
                 PROVE  \E a \in AttemptIds : attempts[a].at = "gave up"
        BY DEF FalseFailureExplained
    <2>1. PICK n \in Nat : Used = 1 .. n
        BY DEF TxInv, LaunchedInOrder
    <2>2. Launched = n
        BY <2>1, LaunchedCounts
    <2>3. Launched <= 1
        BY <2>2
    <2> QED
        BY <2>3 DEF TxInv, FirstAttempt
<1> QED
    BY <1>1, <1>2, TxStep, PTL DEF TxSpec

-----------------------------------------------------------------------------
(* The proposal form: what is sent is what the page shows *)

\* The conversion fits the control whose value it gets.
Agree(conversion, control) ==
    <<conversion, control>> \in
        {<<"isTrue", "switch">>, <<"str", "role">>, <<"str", "text">>, <<"num", "number">>,
         <<"big", "number">>, <<"num", "choice">>, <<"parse", "address">>,
         <<"parseOrClear", "optional">>}

\* A payload takes each input of the form once.
Matches(payload, inputs) ==
    /\ Len(payload) \in Nat /\ DOMAIN payload = 1 .. Len(payload)
    /\ \A n \in 1 .. Len(payload) : \E control : <<payload[n][1], control>> \in inputs
    /\ \A f \in inputs : \E n \in 1 .. Len(payload) :
          payload[n][1] = f[1] /\ Agree(payload[n][2], f[2]) /\ f = <<f[1], f[2]>>
    /\ \A m, n \in 1 .. Len(payload) : payload[m][1] = payload[n][1] => m = n
    /\ \A f, g \in inputs : f[1] = g[1] => f = g

LEMMA FirstPayload ==
    ASSUME NEW a, Len(PoolToSignerPayload(a)) \in {1, 2, 3, 4}
    PROVE  PayloadOf(a) = PoolToSignerPayload(a)
<1>1. PoolToSignerPayload(a) # <<>>
    OBVIOUS
<1> QED
    BY <1>1 DEF PayloadOf

LEMMA FormTable ==
    ASSUME NEW a \in Actions
    PROVE  Matches(PayloadOf(a), ActionFields(a))
<1>1. CASE a \in {"SetPaused", "SetKycRequired"}
    <2>1. PoolToSignerPayload(a) = <<<<"value", "isTrue">>>>
        BY <1>1 DEF PoolToSignerPayload
    <2>2. PayloadOf(a) = <<<<"value", "isTrue">>>>
        BY <2>1, FirstPayload
    <2>3. ActionFields(a) = {<<"value", "switch">>}
        BY <1>1 DEF ActionFields, PoolFields, InvoiceAndScoreFields, SignerAndRegistryFields,
           RoundAndScreenerFields, SwitchActions, BpsActions, ScreenerActions, SecondsActions
    <2> QED
        BY <2>2, <2>3 DEF Matches, Agree
<1>2. CASE a \in {"SetYield", "SetMaxUtilization"}
    <2>1. PoolToSignerPayload(a) = <<<<"bps", "num">>>>
        BY <1>2 DEF PoolToSignerPayload
    <2>2. PayloadOf(a) = <<<<"bps", "num">>>>
        BY <2>1, FirstPayload
    <2>3. ActionFields(a) = {<<"bps", "number">>}
        BY <1>2 DEF ActionFields, PoolFields, InvoiceAndScoreFields, SignerAndRegistryFields,
           RoundAndScreenerFields, SwitchActions, BpsActions, ScreenerActions, SecondsActions
    <2> QED
        BY <2>2, <2>3 DEF Matches, Agree
<1>3. CASE a \in {"SetTreasury", "SetOracleContract", "SetOracle", "AddKeeper"}
    <2>1. PoolToSignerPayload(a) = <<<<"address", "parse">>>>
        BY <1>3 DEF PoolToSignerPayload
    <2>2. PayloadOf(a) = <<<<"address", "parse">>>>
        BY <2>1, FirstPayload
    <2>3. ActionFields(a) = {<<"address", "address">>}
        BY <1>3 DEF ActionFields, PoolFields, InvoiceAndScoreFields, SignerAndRegistryFields,
           RoundAndScreenerFields, SwitchActions, BpsActions, ScreenerActions, SecondsActions
    <2> QED
        BY <2>2, <2>3 DEF Matches, Agree
<1>4. CASE a \in {"WithdrawRevenue"}
    <2>1. PoolToSignerPayload(a) = <<<<"token", "parse">>, <<"amount", "big">>>>
        BY <1>4 DEF PoolToSignerPayload
    <2>2. PayloadOf(a) = <<<<"token", "parse">>, <<"amount", "big">>>>
        BY <2>1, FirstPayload
    <2>3. ActionFields(a) = {<<"token", "address">>, <<"amount", "number">>}
        BY <1>4 DEF ActionFields, PoolFields, InvoiceAndScoreFields, SignerAndRegistryFields,
           RoundAndScreenerFields, SwitchActions, BpsActions, ScreenerActions, SecondsActions
    <2> QED
        BY <2>2, <2>3 DEF Matches, Agree
<1>5. CASE a \in {"SetInvestorKyc"}
    <2>1. PoolToSignerPayload(a) = <<<<"investor", "parse">>, <<"approved", "isTrue">>>>
        BY <1>5 DEF PoolToSignerPayload
    <2>2. PayloadOf(a) = <<<<"investor", "parse">>, <<"approved", "isTrue">>>>
        BY <2>1, FirstPayload
    <2>3. ActionFields(a) = {<<"investor", "address">>, <<"approved", "switch">>}
        BY <1>5 DEF ActionFields, PoolFields, InvoiceAndScoreFields, SignerAndRegistryFields,
           RoundAndScreenerFields, SwitchActions, BpsActions, ScreenerActions, SecondsActions
    <2> QED
        BY <2>2, <2>3 DEF Matches, Agree
<1>6. CASE a \in {"RegisterDebtor"}
    <2>1. PoolToSignerPayload(a) = <<<<"debtorId", "str">>, <<"debtorName", "str">>,
            <<"maxExposure", "big">>>>
        BY <1>6 DEF PoolToSignerPayload
    <2>2. PayloadOf(a) = <<<<"debtorId", "str">>, <<"debtorName", "str">>, <<"maxExposure",
            "big">>>>
        BY <2>1, FirstPayload
    <2>3. ActionFields(a) = {<<"debtorId", "text">>, <<"debtorName", "text">>, <<"maxExposure",
            "number">>}
        BY <1>6 DEF ActionFields, PoolFields, InvoiceAndScoreFields, SignerAndRegistryFields,
           RoundAndScreenerFields, SwitchActions, BpsActions, ScreenerActions, SecondsActions
    <2> QED
        BY <2>2, <2>3 DEF Matches, Agree
<1>7. CASE a \in {"DeactivateDebtor"}
    <2>1. PoolToSignerPayload(a) = <<<<"debtorId", "str">>>>
        BY <1>7 DEF PoolToSignerPayload
    <2>2. PayloadOf(a) = <<<<"debtorId", "str">>>>
        BY <2>1, FirstPayload
    <2>3. ActionFields(a) = {<<"debtorId", "text">>}
        BY <1>7 DEF ActionFields, PoolFields, InvoiceAndScoreFields, SignerAndRegistryFields,
           RoundAndScreenerFields, SwitchActions, BpsActions, ScreenerActions, SecondsActions
    <2> QED
        BY <2>2, <2>3 DEF Matches, Agree
<1>8. CASE a \in {"SetLateThreshold"}
    <2>1. PoolToSignerPayload(a) = <<<<"days", "big">>>>
        BY <1>8 DEF PoolToSignerPayload
    <2>2. PayloadOf(a) = <<<<"days", "big">>>>
        BY <2>1, FirstPayload
    <2>3. ActionFields(a) = {<<"days", "number">>}
        BY <1>8 DEF ActionFields, PoolFields, InvoiceAndScoreFields, SignerAndRegistryFields,
           RoundAndScreenerFields, SwitchActions, BpsActions, ScreenerActions, SecondsActions
    <2> QED
        BY <2>2, <2>3 DEF Matches, Agree
<1>9. CASE a \in {"SetScoreThresholds"}
    <2>1. PoolToSignerPayload(a) = <<<<"excellent", "num">>, <<"veryGood", "num">>, <<"good",
            "num">>, <<"fair", "num">>>>
        BY <1>9 DEF PoolToSignerPayload
    <2>2. PayloadOf(a) = <<<<"excellent", "num">>, <<"veryGood", "num">>, <<"good", "num">>,
            <<"fair", "num">>>>
        BY <2>1, FirstPayload
    <2>3. ActionFields(a) = {<<"excellent", "number">>, <<"veryGood", "number">>, <<"good",
            "number">>, <<"fair", "number">>}
        BY <1>9 DEF ActionFields, PoolFields, InvoiceAndScoreFields, SignerAndRegistryFields,
           RoundAndScreenerFields, SwitchActions, BpsActions, ScreenerActions, SecondsActions
    <2> QED
        BY <2>2, <2>3 DEF Matches, Agree
<1>10. CASE a \in {"RegisterAttestor"}
    <2>1. PoolToSignerPayload(a) = <<<<"address", "parse">>, <<"attestorType", "num">>,
            <<"weightBps", "num">>>>
        BY <1>10 DEF PoolToSignerPayload
    <2>2. PayloadOf(a) = <<<<"address", "parse">>, <<"attestorType", "num">>, <<"weightBps",
            "num">>>>
        BY <2>1, FirstPayload
    <2>3. ActionFields(a) = {<<"address", "address">>, <<"attestorType", "choice">>,
            <<"weightBps", "number">>}
        BY <1>10 DEF ActionFields, PoolFields, InvoiceAndScoreFields, SignerAndRegistryFields,
           RoundAndScreenerFields, SwitchActions, BpsActions, ScreenerActions, SecondsActions
    <2> QED
        BY <2>2, <2>3 DEF Matches, Agree
<1>11. CASE a \in {"AddSigner", "RemoveSigner"}
    <2>1. PoolToSignerPayload(a) = <<<<"role", "str">>, <<"address", "parse">>>>
        BY <1>11 DEF PoolToSignerPayload
    <2>2. PayloadOf(a) = <<<<"role", "str">>, <<"address", "parse">>>>
        BY <2>1, FirstPayload
    <2>3. ActionFields(a) = {<<"role", "role">>, <<"address", "address">>}
        BY <1>11 DEF ActionFields, PoolFields, InvoiceAndScoreFields, SignerAndRegistryFields,
           RoundAndScreenerFields, SwitchActions, BpsActions, ScreenerActions, SecondsActions
    <2> QED
        BY <2>2, <2>3 DEF Matches, Agree
<1>12. CASE a \in {"SetThreshold"}
    <2>1. PoolToSignerPayload(a) = <<<<"role", "str">>, <<"threshold", "num">>>>
        BY <1>12 DEF PoolToSignerPayload
    <2>2. PayloadOf(a) = <<<<"role", "str">>, <<"threshold", "num">>>>
        BY <2>1, FirstPayload
    <2>3. ActionFields(a) = {<<"role", "role">>, <<"threshold", "number">>}
        BY <1>12 DEF ActionFields, PoolFields, InvoiceAndScoreFields, SignerAndRegistryFields,
           RoundAndScreenerFields, SwitchActions, BpsActions, ScreenerActions, SecondsActions
    <2> QED
        BY <2>2, <2>3 DEF Matches, Agree
<1>13. CASE a \in {"SetOracleRegistryInvoiceContract", "SetReferralPool",
             "SetInvoiceAccessControl", "SetCreditScoreAccessControl",
             "SetOracleRegistryAccessControl", "SetComplianceAccessControl",
             "SetGovernanceAccessControl", "SetReferralAccessControl"}
    <2>1. PayloadOf(a) = <<<<"address", "parse">>>>
        BY <1>13 DEF PayloadOf, PoolToSignerPayload, RegistryPayload, AddressActions, SwitchActions,
           ScreenerActions, SecondsActions, BpsActions
    <2>2. ActionFields(a) = {<<"address", "address">>}
        BY <1>13 DEF ActionFields, PoolFields, InvoiceAndScoreFields, SignerAndRegistryFields,
           RoundAndScreenerFields, SwitchActions, BpsActions, ScreenerActions, SecondsActions
    <2> QED
        BY <2>1, <2>2 DEF Matches, Agree
<1>14. CASE a \in {"SetOracleRegistryTreasury"}
    <2>1. PayloadOf(a) = <<<<"treasury", "parseOrClear">>>>
        BY <1>14 DEF PayloadOf, PoolToSignerPayload, RegistryPayload, AddressActions, SwitchActions,
           ScreenerActions, SecondsActions, BpsActions
    <2>2. ActionFields(a) = {<<"treasury", "optional">>}
        BY <1>14 DEF ActionFields, PoolFields, InvoiceAndScoreFields, SignerAndRegistryFields,
           RoundAndScreenerFields, SwitchActions, BpsActions, ScreenerActions, SecondsActions
    <2> QED
        BY <2>1, <2>2 DEF Matches, Agree
<1>15. CASE a \in {"SetOracleRegistryConfig"}
    <2>1. PayloadOf(a) = <<<<"minStake", "big">>, <<"requiredVotes", "num">>, <<"quorumBps",
            "num">>, <<"roundDurationSecs", "big">>, <<"deregisterCooldownSecs", "big">>>>
        BY <1>15 DEF PayloadOf, PoolToSignerPayload, RegistryPayload, AddressActions, SwitchActions,
           ScreenerActions, SecondsActions, BpsActions
    <2>2. ActionFields(a) = {<<"minStake", "number">>, <<"requiredVotes", "number">>,
            <<"quorumBps", "number">>, <<"roundDurationSecs", "number">>,
            <<"deregisterCooldownSecs", "number">>}
        BY <1>15 DEF ActionFields, PoolFields, InvoiceAndScoreFields, SignerAndRegistryFields,
           RoundAndScreenerFields, SwitchActions, BpsActions, ScreenerActions, SecondsActions
    <2> QED
        BY <2>1, <2>2 DEF Matches, Agree
<1>16. CASE a \in {"SetOracleRegistryPaused", "SetCompliancePaused", "SetReferralPaused"}
    <2>1. PayloadOf(a) = <<<<"value", "isTrue">>>>
        BY <1>16 DEF PayloadOf, PoolToSignerPayload, RegistryPayload, AddressActions, SwitchActions,
           ScreenerActions, SecondsActions, BpsActions
    <2>2. ActionFields(a) = {<<"value", "switch">>}
        BY <1>16 DEF ActionFields, PoolFields, InvoiceAndScoreFields, SignerAndRegistryFields,
           RoundAndScreenerFields, SwitchActions, BpsActions, ScreenerActions, SecondsActions
    <2> QED
        BY <2>1, <2>2 DEF Matches, Agree
<1>17. CASE a \in {"SlashOracle"}
    <2>1. PayloadOf(a) = <<<<"operator", "parse">>, <<"bps", "num">>, <<"roundId", "big">>,
            <<"evidence", "str">>>>
        BY <1>17 DEF PayloadOf, PoolToSignerPayload, RegistryPayload, AddressActions, SwitchActions,
           ScreenerActions, SecondsActions, BpsActions
    <2>2. ActionFields(a) = {<<"operator", "address">>, <<"bps", "number">>, <<"roundId",
            "number">>, <<"evidence", "text">>}
        BY <1>17 DEF ActionFields, PoolFields, InvoiceAndScoreFields, SignerAndRegistryFields,
           RoundAndScreenerFields, SwitchActions, BpsActions, ScreenerActions, SecondsActions
    <2> QED
        BY <2>1, <2>2 DEF Matches, Agree
<1>18. CASE a \in {"AdminResolveRound"}
    <2>1. PayloadOf(a) = <<<<"invoiceId", "big">>, <<"approved", "isTrue">>, <<"reason",
            "str">>>>
        BY <1>18 DEF PayloadOf, PoolToSignerPayload, RegistryPayload, AddressActions, SwitchActions,
           ScreenerActions, SecondsActions, BpsActions
    <2>2. ActionFields(a) = {<<"invoiceId", "number">>, <<"approved", "switch">>, <<"reason",
            "text">>}
        BY <1>18 DEF ActionFields, PoolFields, InvoiceAndScoreFields, SignerAndRegistryFields,
           RoundAndScreenerFields, SwitchActions, BpsActions, ScreenerActions, SecondsActions
    <2> QED
        BY <2>1, <2>2 DEF Matches, Agree
<1>19. CASE a \in {"RegisterScreener", "ConfirmScreenerRegistration", "DeregisterScreener"}
    <2>1. PayloadOf(a) = <<<<"screener", "parse">>>>
        BY <1>19 DEF PayloadOf, PoolToSignerPayload, RegistryPayload, AddressActions, SwitchActions,
           ScreenerActions, SecondsActions, BpsActions
    <2>2. ActionFields(a) = {<<"screener", "address">>}
        BY <1>19 DEF ActionFields, PoolFields, InvoiceAndScoreFields, SignerAndRegistryFields,
           RoundAndScreenerFields, SwitchActions, BpsActions, ScreenerActions, SecondsActions
    <2> QED
        BY <2>1, <2>2 DEF Matches, Agree
<1>20. CASE a \in {"SetRescreeningInterval", "SetScreenerTimelock"}
    <2>1. PayloadOf(a) = <<<<"secs", "big">>>>
        BY <1>20 DEF PayloadOf, PoolToSignerPayload, RegistryPayload, AddressActions, SwitchActions,
           ScreenerActions, SecondsActions, BpsActions
    <2>2. ActionFields(a) = {<<"secs", "number">>}
        BY <1>20 DEF ActionFields, PoolFields, InvoiceAndScoreFields, SignerAndRegistryFields,
           RoundAndScreenerFields, SwitchActions, BpsActions, ScreenerActions, SecondsActions
    <2> QED
        BY <2>1, <2>2 DEF Matches, Agree
<1>21. CASE a \in {"UpdateGovernanceConfig"}
    <2>1. PayloadOf(a) = <<<<"quorumBps", "num">>, <<"passBps", "num">>, <<"executionDelaySecs",
            "num">>>>
        BY <1>21 DEF PayloadOf, PoolToSignerPayload, RegistryPayload, AddressActions, SwitchActions,
           ScreenerActions, SecondsActions, BpsActions
    <2>2. ActionFields(a) = {<<"quorumBps", "number">>, <<"passBps", "number">>,
            <<"executionDelaySecs", "number">>}
        BY <1>21 DEF ActionFields, PoolFields, InvoiceAndScoreFields, SignerAndRegistryFields,
           RoundAndScreenerFields, SwitchActions, BpsActions, ScreenerActions, SecondsActions
    <2> QED
        BY <2>1, <2>2 DEF Matches, Agree
<1>22. CASE a \in {"SetCategoryQuorum"}
    <2>1. PayloadOf(a) = <<<<"category", "num">>, <<"quorumBps", "num">>>>
        BY <1>22 DEF PayloadOf, PoolToSignerPayload, RegistryPayload, AddressActions, SwitchActions,
           ScreenerActions, SecondsActions, BpsActions
    <2>2. ActionFields(a) = {<<"category", "choice">>, <<"quorumBps", "number">>}
        BY <1>22 DEF ActionFields, PoolFields, InvoiceAndScoreFields, SignerAndRegistryFields,
           RoundAndScreenerFields, SwitchActions, BpsActions, ScreenerActions, SecondsActions
    <2> QED
        BY <2>1, <2>2 DEF Matches, Agree
<1>23. CASE a \in {"SetBorrowRewardBps", "SetDepositRewardBps"}
    <2>1. PayloadOf(a) = <<<<"bps", "num">>>>
        BY <1>23 DEF PayloadOf, PoolToSignerPayload, RegistryPayload, AddressActions, SwitchActions,
           ScreenerActions, SecondsActions, BpsActions
    <2>2. ActionFields(a) = {<<"bps", "number">>}
        BY <1>23 DEF ActionFields, PoolFields, InvoiceAndScoreFields, SignerAndRegistryFields,
           RoundAndScreenerFields, SwitchActions, BpsActions, ScreenerActions, SecondsActions
    <2> QED
        BY <2>1, <2>2 DEF Matches, Agree
<1>24. a \in {"SetPaused", "SetKycRequired", "SetYield", "SetMaxUtilization", "SetTreasury",
              "SetOracleContract", "SetOracle", "AddKeeper", "WithdrawRevenue",
              "SetInvestorKyc", "RegisterDebtor", "DeactivateDebtor", "SetLateThreshold",
              "SetScoreThresholds", "RegisterAttestor", "AddSigner", "RemoveSigner",
              "SetThreshold", "SetOracleRegistryInvoiceContract", "SetReferralPool",
              "SetInvoiceAccessControl", "SetCreditScoreAccessControl",
              "SetOracleRegistryAccessControl", "SetComplianceAccessControl",
              "SetGovernanceAccessControl", "SetReferralAccessControl",
              "SetOracleRegistryTreasury", "SetOracleRegistryConfig", "SetOracleRegistryPaused",
              "SetCompliancePaused", "SetReferralPaused", "SlashOracle", "AdminResolveRound",
              "RegisterScreener", "ConfirmScreenerRegistration", "DeregisterScreener",
              "SetRescreeningInterval", "SetScreenerTimelock", "UpdateGovernanceConfig",
              "SetCategoryQuorum", "SetBorrowRewardBps", "SetDepositRewardBps"}
    BY DEF Actions, Targets, Offers, ActionsByTarget
<1> QED
    BY <1>1, <1>2, <1>3, <1>4, <1>5, <1>6, <1>7, <1>8, <1>9, <1>10, <1>11, <1>12, <1>13, <1>14,
       <1>15, <1>16, <1>17, <1>18, <1>19, <1>20, <1>21, <1>22, <1>23, <1>24

\* What is made of an input is what its control shows, but for untouched selections.
LEMMA SentIsShown ==
    ASSUME NEW conversion, NEW control, Agree(conversion, control),
           NEW v \in Entries(control) \cup {Untouched}, Converted(conversion, v) # "throws"
    PROVE  \/ control \in {"switch", "role"} /\ v = Untouched
           \/ Converted(conversion, v) = Stands(control, Showing(control, v))
<1> USE FormAssumption DEF Marks, Untouched
<1>1. CASE control = "switch"
    <2>1. conversion = "isTrue" /\ v \in {"true", "false", Untouched}
        BY <1>1 DEF Agree, Entries
    <2> QED
        BY <1>1, <2>1 DEF Converted, Stands, Showing, Str
<1>2. CASE control = "role"
    <2>1. conversion = "str" /\ v \in {"SuperAdmin", "RiskManager", Untouched}
        BY <1>2 DEF Agree, Entries
    <2> QED
        BY <1>2, <2>1 DEF Converted, Stands, Showing, Str
<1>3. CASE control = "choice"
    <2>1. conversion = "num" /\ v \in {"0", "1", Untouched}
        BY <1>3 DEF Agree, Entries
    <2> QED
        BY <1>3, <2>1 DEF Converted, Stands, Showing, Str
<1>4. Str(v) \in Texts \cup Marks /\ Str("blank") = "blank"
    <2>1. v \in Texts \cup Marks
        BY DEF Entries, Agree
    <2> QED
        BY <2>1 DEF Str
<1>5. ASSUME control \in {"text", "number", "address", "optional"}
      PROVE  Str(Showing(control, v)) = Str(v)
    BY <1>5, <1>4 DEF Showing, Str
<1>6. CASE control = "text"
    <2>1. conversion = "str"
        BY <1>6 DEF Agree
    <2> QED
        BY <1>5, <1>6, <2>1 DEF Converted, Stands
<1>7. CASE control = "number"
    <2>1. conversion \in {"num", "big"}
        BY <1>7 DEF Agree
    <2> QED
        BY <1>5, <1>7, <2>1 DEF Converted, Stands
<1>8. CASE control = "address"
    <2>1. conversion = "parse"
        BY <1>8 DEF Agree
    <2> QED
        BY <1>5, <1>8, <2>1 DEF Converted, Stands
<1>9. CASE control = "optional"
    <2>1. conversion = "parseOrClear"
        BY <1>9 DEF Agree
    <2> QED
        BY <1>5, <1>9, <2>1 DEF Converted, Stands
<1>10. control \in {"switch", "role", "choice", "text", "number", "address", "optional"}
    BY DEF Agree
<1> QED
    BY <1>1, <1>2, <1>3, <1>6, <1>7, <1>8, <1>9, <1>10

\* A payload has as many values as the form has inputs.
LEMMA AsManyAsInputs ==
    ASSUME NEW payload, NEW inputs, Matches(payload, inputs),
           NEW show, \A f \in inputs : show[f].key = f[1]
    PROVE  Cardinality({show[f] : f \in inputs}) = Len(payload)
<1> DEFINE S == 1 .. Len(payload)
           T == {show[f] : f \in inputs}
           G == [n \in S |-> show[CHOOSE f \in inputs : f[1] = payload[n][1]]]
<1>1. Len(payload) \in Nat
    BY DEF Matches
<1>2. ASSUME NEW n \in S
      PROVE  G[n] \in T /\ G[n].key = payload[n][1]
    <2> DEFINE f == CHOOSE g \in inputs : g[1] = payload[n][1]
    <2>1. \E g \in inputs : g[1] = payload[n][1]
        <3>1. PICK control : <<payload[n][1], control>> \in inputs
            BY DEF Matches
        <3>2. <<payload[n][1], control>>[1] = payload[n][1]
            OBVIOUS
        <3> QED
            BY <3>1, <3>2
    <2>2. f \in inputs /\ f[1] = payload[n][1]
        BY <2>1
    <2>3. G[n] = show[f]
        OBVIOUS
    <2> QED
        BY <2>2, <2>3
<1>3. G \in [S -> T]
    BY <1>2
<1>4. ASSUME NEW m \in S, NEW n \in S, G[m] = G[n]
      PROVE  m = n
    <2> HIDE DEF G
    <2>1. G[m].key = payload[m][1] /\ G[n].key = payload[n][1]
        BY <1>2
    <2>2. payload[m][1] = payload[n][1]
        BY <1>4, <2>1
    <2> QED
        BY <2>2 DEF Matches
<1>5. ASSUME NEW t \in T
      PROVE  \E n \in S : G[n] = t
    <2>1. PICK f \in inputs : t = show[f]
        OBVIOUS
    <2>2. PICK n \in S : payload[n][1] = f[1]
        BY DEF Matches
    <2>3. \A g \in inputs : g[1] = payload[n][1] => g = f
        BY <2>2 DEF Matches
    <2>4. (CHOOSE g \in inputs : g[1] = payload[n][1]) = f
        BY <2>2, <2>3
    <2> QED
        BY <2>1, <2>4
<1> HIDE DEF S, T, G
<1>6. G \in Bijection(S, T)
    BY <1>3, <1>4, <1>5 DEF Bijection, Injection, Surjection, IsInjective
<1>7. ExistsBijection(S, T)
    BY <1>6 DEF ExistsBijection
<1> QED
    BY <1>1, <1>7, FS_CountingElements DEF S, T

\* The form holds entries of the inputs of its action, and the action is one of the
\* target's.
FieldsFit ==
    /\ \A k \in DOMAIN fields : \E f \in ActionFields(action) : f[1] = k
    /\ \A f \in ActionFields(action) :
          f[1] \in DOMAIN fields => fields[f[1]] \in Entries(f[2])

FormInv ==
    target \in Targets /\ action \in Offers(target) /\ FieldsFit /\ FormSendsWhatItShows

LEMMA HandleProposeSends ==
    ASSUME FormInv, HandlePropose
    PROVE  FormSendsWhatItShows'
<1> DEFINE payload == PayloadOf(action)
           inputs == ActionFields(action)
           sent == [n \in DOMAIN payload |->
                      [key |-> payload[n][1],
                       value |-> Converted(payload[n][2], FieldOr(payload[n][1]))]]
           show == [f \in inputs |->
                      [key |-> f[1], control |-> f[2], touched |-> f[1] \in DOMAIN fields,
                       value |-> Showing(f[2], FieldOr(f[1]))]]
           shown == {show[f] : f \in inputs}
<1>1. Matches(payload, inputs)
    <2>1. action \in Actions
        BY DEF FormInv, Actions
    <2> QED
        BY <2>1, FormTable
<1>2. proposal' = [target |-> target, action |-> action, values |-> sent, shown |-> shown]
    BY DEF HandlePropose
<1>3. \A n \in DOMAIN payload : Converted(payload[n][2], FieldOr(payload[n][1])) # "throws"
    BY DEF HandlePropose
<1>4. ASSUME NEW f \in inputs
      PROVE  \/ f[2] \in {"switch", "role"} /\ f[1] \notin DOMAIN fields
             \/ \E n \in DOMAIN payload :
                   sent[n] = [key |-> f[1], value |-> Stands(f[2], Showing(f[2], FieldOr(f[1])))]
    <2>1. PICK n \in DOMAIN payload : payload[n][1] = f[1] /\ Agree(payload[n][2], f[2])
        BY <1>1 DEF Matches
    <2>2. FieldOr(f[1]) \in Entries(f[2]) \cup {Untouched}
        BY DEF FormInv, FieldsFit, FieldOr
    <2>3. CASE Converted(payload[n][2], FieldOr(f[1])) = Stands(f[2], Showing(f[2], FieldOr(f[1])))
        BY <2>1, <2>3
    <2>4. CASE f[2] \in {"switch", "role"} /\ FieldOr(f[1]) = Untouched
        <3>1. Untouched \notin Entries(f[2])
            BY <2>4 DEF Untouched, Entries
        <3>2. f[1] \notin DOMAIN fields
            BY <2>4, <3>1 DEF FormInv, FieldsFit, FieldOr
        <3> QED
            BY <2>4, <3>2
    <2>5. Converted(payload[n][2], FieldOr(f[1])) # "throws"
        BY <1>3, <2>1
    <2> QED
        BY <2>1, <2>2, <2>3, <2>4, <2>5, SentIsShown
<1>5. Cardinality(shown) = Len(payload)
    <2>1. \A f \in inputs : show[f].key = f[1]
        OBVIOUS
    <2> HIDE DEF show, payload, inputs
    <2> QED
        BY <1>1, <2>1, AsManyAsInputs
<1>6. DOMAIN sent = DOMAIN payload /\ Len(sent) = Len(payload)
    <2>1. DOMAIN payload = 1 .. Len(payload) /\ Len(payload) \in Nat
        BY <1>1 DEF Matches
    <2> HIDE DEF payload
    <2> QED
        BY <2>1
<1>7. ASSUME NEW g \in shown
      PROVE  \/ g.control \in {"switch", "role"} /\ ~g.touched
             \/ \E n \in DOMAIN sent :
                   sent[n] = [key |-> g.key, value |-> Stands(g.control, g.value)]
    <2>1. PICK f \in inputs : g = show[f]
        BY <1>7
    <2>2. /\ g.key = f[1] /\ g.control = f[2] /\ g.touched = (f[1] \in DOMAIN fields)
          /\ g.value = Showing(f[2], FieldOr(f[1]))
        BY <2>1
    <2> HIDE DEF show, shown, sent, payload, inputs
    <2> QED
        BY <1>4, <1>6, <2>2
<1>8. action \in Offers(target)
    BY DEF FormInv
<1> HIDE DEF shown, sent, payload, inputs
<1>9. /\ proposal'.action = action /\ proposal'.target = target
      /\ proposal'.values = sent /\ proposal'.shown = shown
    BY <1>2
<1> QED
    BY <1>5, <1>6, <1>7, <1>8, <1>9 DEF FormSendsWhatItShows

LEMMA NothingToSend ==
    ASSUME proposal' \in {NoProposal, Underway}
    PROVE  FormSendsWhatItShows'
BY DEF FormSendsWhatItShows, NoProposal, Underway

LEMMA UntouchedFits ==
    ASSUME fields' = NoFields
    PROVE  FieldsFit'
<1>1. DOMAIN fields' = {}
    BY DEF NoFields
<1> QED
    BY <1>1 DEF FieldsFit

LEMMA FormKeeps ==
    ASSUME FormInv, [FormNext]_formVars
    PROVE  FormInv'
<1>1. ASSUME NEW t \in Targets, SelectTarget(t)
      PROVE  FormInv'
    <2>1. target' \in Targets /\ action' \in Offers(target')
        <3>1. 1 \in DOMAIN ActionsByTarget[t]
            BY DEF Targets, ActionsByTarget
        <3> QED
            BY <1>1, <3>1 DEF SelectTarget, Offers
    <2>2. FieldsFit'
        BY <1>1, UntouchedFits DEF SelectTarget
    <2>3. FormSendsWhatItShows'
        BY <1>1, NothingToSend DEF SelectTarget, UnderProposal
    <2> QED
        BY <2>1, <2>2, <2>3 DEF FormInv
<1>2. ASSUME NEW a \in Actions, SelectAction(a)
      PROVE  FormInv'
    <2>1. target' \in Targets /\ action' \in Offers(target')
        BY <1>2 DEF SelectAction, FormInv
    <2>2. FieldsFit'
        BY <1>2, UntouchedFits DEF SelectAction
    <2>3. FormSendsWhatItShows'
        BY <1>2, NothingToSend DEF SelectAction, UnderProposal
    <2> QED
        BY <2>1, <2>2, <2>3 DEF FormInv
<1>3. ASSUME NEW f \in ActionFields(action), NEW entry \in Entries(f[2]),
             EditField(f[1], entry)
      PROVE  FormInv'
    <2>1. target' \in Targets /\ action' \in Offers(target')
        BY <1>3 DEF EditField, FormInv
    <2>2. FieldsFit'
        <3>1. /\ action' = action
              /\ fields' = [k \in DOMAIN fields \cup {f[1]} |->
                              IF k = f[1] THEN entry ELSE fields[k]]
            BY <1>3 DEF EditField
        <3>2. \A k \in DOMAIN fields' : \E g \in ActionFields(action) : g[1] = k
            BY <3>1 DEF FormInv, FieldsFit
        <3>3. \A g \in ActionFields(action) : g[1] = f[1] => g = f
            BY FormTable DEF FormInv, Actions, Matches
        <3>4. ASSUME NEW g \in ActionFields(action), g[1] \in DOMAIN fields'
              PROVE  fields'[g[1]] \in Entries(g[2])
            BY <3>1, <3>3, <3>4 DEF FormInv, FieldsFit
        <3> QED
            BY <3>1, <3>2, <3>4 DEF FieldsFit
    <2>3. FormSendsWhatItShows'
        BY <1>3, NothingToSend DEF EditField, UnderProposal
    <2> QED
        BY <2>1, <2>2, <2>3 DEF FormInv
<1>4. CASE HandlePropose
    <2>1. target' \in Targets /\ action' \in Offers(target') /\ FieldsFit'
        BY <1>4 DEF HandlePropose, FormInv, FieldsFit
    <2> QED
        BY <1>4, <2>1, HandleProposeSends DEF FormInv
<1>5. ASSUME NEW submitted \in BOOLEAN, ProposeEnds(submitted)
      PROVE  FormInv'
    <2>1. target' \in Targets /\ action' \in Offers(target')
        BY <1>5 DEF ProposeEnds, FormInv
    <2>2. FieldsFit'
        <3>1. CASE fields' = NoFields
            BY <3>1, UntouchedFits
        <3>2. CASE fields' = fields
            BY <1>5, <3>2 DEF ProposeEnds, FormInv, FieldsFit
        <3> QED
            BY <1>5, <3>1, <3>2 DEF ProposeEnds
    <2>3. FormSendsWhatItShows'
        BY <1>5, NothingToSend DEF ProposeEnds
    <2> QED
        BY <2>1, <2>2, <2>3 DEF FormInv
<1>6. CASE UNCHANGED formVars
    BY <1>6 DEF formVars, FormInv, FieldsFit, FormSendsWhatItShows
<1> QED
    BY <1>1, <1>2, <1>3, <1>4, <1>5, <1>6 DEF FormNext

\* Whatever the texts a user may type, a proposal is for an action of its target and
\* carries for every input what the page shows there, but for the true/false and role
\* selections the user has not touched.
THEOREM FormSends == FormSpec => []FormSendsWhatItShows
<1>1. FormInit => FormInv
    <2> SUFFICES ASSUME FormInit PROVE FormInv
        OBVIOUS
    <2>1. target \in Targets /\ action \in Offers(target)
        BY DEF FormInit, Targets, Offers, ActionsByTarget
    <2>2. FieldsFit
        <3>1. DOMAIN fields = {}
            BY DEF FormInit, NoFields
        <3> QED
            BY <3>1 DEF FieldsFit
    <2>3. FormSendsWhatItShows
        BY DEF FormInit, FormSendsWhatItShows
    <2> QED
        BY <2>1, <2>2, <2>3 DEF FormInv
<1>2. FormInv /\ [FormNext]_formVars => FormInv'
    BY FormKeeps
<1>3. FormInv => FormSendsWhatItShows
    BY DEF FormInv
<1> QED
    BY <1>1, <1>2, <1>3, PTL DEF FormSpec
=============================================================================
