---------------------------- MODULE JurorVoting -----------------------------
(***************************************************************************)
(* One juror, one case, one tab: the commit-reveal vote of the jurors page *)
(* against the arbitration contract.  The page draws a salt and writes it  *)
(* over the stored one before it builds, signs and sends the commitment;   *)
(* only the salt of the commitment the contract took opens it later.  Both *)
(* stores of the browser may refuse a salt in silence, and loads cross: the *)
(* mount, a wallet that connects again and every handler start one, and    *)
(* whichever answers last is shown.  A number stands for a salt together   *)
(* with the vote it hides.                                                 *)
(***************************************************************************)
EXTENDS Naturals, FiniteSets

CONSTANTS MaxSalts,  \* bound: salts drawn in one behaviour
          MaxLoads   \* bound: loads begun in one behaviour

ASSUME JurorAssumption == MaxSalts \in Nat /\ MaxLoads \in Nat

VARIABLES
    votePhase,    \* of the case: "commit", "reveal", "closed"
    commitment,   \* the committed salt in the contract, 0 if none
    revealed,     \* the contract has the revealed vote
    saltLocal,    \* the salt in localStorage, 0 if none
    saltSession,  \* the salt in sessionStorage, 0 if none
    salts,        \* salts drawn so far
    loading,      \* the page's flag, cleared by any load that ends
    notDeployed,  \* a load has failed; nothing sets it back
    loadsBegun,   \* loads begun so far, over all visits
    voteLoads,    \* loads of this visit that have not ended
    voteShown,    \* what the page shows of the vote, and the phase it was drawn in
    voteTx,       \* the handler at work (txLoading) and how far it is
    votesSent,    \* transactions the ledger has not taken yet
    unseen,       \* history: a commitment was on its way and its end not seen
    lastShown,    \* history: the newest load whose answer was shown
    overtaken,    \* history: an answer was shown after that of a newer load
    unkept        \* history: a salt could not be read back

contractVars == <<votePhase, commitment, revealed>>
storeVars == <<saltLocal, saltSession, salts, unkept>>
loadVars == <<loading, notDeployed, loadsBegun, voteLoads, lastShown, overtaken>>
jurorVars == <<contractVars, storeVars, loadVars, voteShown, voteTx, votesSent, unseen>>

NoVoteTx == [kind |-> "none", at |-> "idle", salt |-> 0, load |-> 0]
NoVote == [committed |-> FALSE, revealed |-> FALSE]
AsKnown == [committed |-> commitment # 0, revealed |-> revealed]

\* getStoredSalt: what handleReveal will find.
Stored(inLocal, inSession) == IF inLocal # 0 THEN inLocal ELSE inSession

NewLoad == [n |-> loadsBegun + 1, at |-> "sent", saw |-> NoVote]

JurorInit ==
    /\ votePhase = "commit" /\ commitment = 0 /\ revealed = FALSE
    /\ saltLocal = 0 /\ saltSession = 0 /\ salts = 0
    /\ loading = TRUE /\ notDeployed = FALSE
    /\ loadsBegun = 1 /\ voteLoads = {[n |-> 1, at |-> "sent", saw |-> NoVote]}
    /\ voteShown = [vote |-> NoVote, phase |-> "commit"]
    /\ voteTx = NoVoteTx /\ votesSent = {}
    /\ unseen = FALSE /\ lastShown = 0 /\ overtaken = FALSE /\ unkept = FALSE

-----------------------------------------------------------------------------
(* The contract *)

CommitVoteAccepted == votePhase = "commit" /\ commitment = 0
RevealVoteAccepted(salt) ==
    votePhase = "reveal" /\ commitment # 0 /\ ~revealed /\ salt = commitment
Accepted(tx) ==
    IF tx.kind = "commit" THEN CommitVoteAccepted ELSE RevealVoteAccepted(tx.salt)

Fate(tx, how) == IF voteTx.at = "wait" /\ voteTx.kind = tx.kind /\ voteTx.salt = tx.salt
                 THEN [voteTx EXCEPT !.at = how] ELSE voteTx

LedgerTakesVote(tx) ==
    /\ votesSent' = votesSent \ {tx}
    /\ IF Accepted(tx)
       THEN /\ commitment' = IF tx.kind = "commit" THEN tx.salt ELSE commitment
            /\ revealed' = (revealed \/ tx.kind = "reveal")
            /\ voteTx' = Fate(tx, "applied")
       ELSE UNCHANGED <<commitment, revealed>> /\ voteTx' = Fate(tx, "refused")
    /\ UNCHANGED <<votePhase, storeVars, loadVars, voteShown, unseen>>

DeadlinePasses ==
    /\ votePhase \in {"commit", "reveal"}
    /\ votePhase' = IF votePhase = "commit" THEN "reveal" ELSE "closed"
    /\ UNCHANGED <<commitment, revealed, storeVars, loadVars, voteShown, voteTx, votesSent, unseen>>

-----------------------------------------------------------------------------
(* The page's loads *)

\* A rendering compares the deadlines with the clock of that moment.
Rendered == [voteShown EXCEPT !.phase = votePhase]

LoadBegins ==
    /\ loadsBegun < MaxLoads
    /\ loadsBegun' = loadsBegun + 1 /\ voteLoads' = voteLoads \cup {NewLoad}
    /\ loading' = TRUE
    /\ UNCHANGED <<notDeployed, lastShown, overtaken>>

\* The wallet is disconnected and connects again: the effect on its address loads.
WalletReconnects ==
    /\ LoadBegins /\ voteShown' = Rendered
    /\ UNCHANGED <<contractVars, storeVars, voteTx, votesSent, unseen>>

\* The node answers get_vote, the last of the load's three rounds of requests.
VoteRead(l) ==
    /\ l.at = "sent"
    /\ voteLoads' = (voteLoads \ {l}) \cup {[l EXCEPT !.at = "read", !.saw = AsKnown]}
    /\ UNCHANGED <<contractVars, storeVars, loading, notDeployed, loadsBegun, lastShown, overtaken,
                   voteShown, voteTx, votesSent, unseen>>

\* A handler ends, and txLoading is cleared, with the load it awaits.
AfterLoad(l) == IF voteTx.at = "load" /\ voteTx.load = l.n THEN NoVoteTx ELSE voteTx

\* setVotes and the finally: nothing asks whether a newer load was begun or shown.
LoadVotes(l) ==
    /\ l.at = "read"
    /\ voteLoads' = voteLoads \ {l} /\ loading' = FALSE
    /\ voteShown' = [vote |-> l.saw, phase |-> votePhase]
    /\ voteTx' = AfterLoad(l)
    /\ lastShown' = IF l.n > lastShown THEN l.n ELSE lastShown
    /\ overtaken' = (overtaken \/ l.n < lastShown)
    /\ UNCHANGED <<contractVars, storeVars, notDeployed, loadsBegun, votesSent, unseen>>
LoadVotesFails(l) ==
    /\ l.at = "sent"
    /\ voteLoads' = voteLoads \ {l} /\ loading' = FALSE /\ notDeployed' = TRUE
    /\ voteShown' = Rendered /\ voteTx' = AfterLoad(l)
    /\ UNCHANGED <<contractVars, storeVars, loadsBegun, lastShown, overtaken, votesSent, unseen>>

-----------------------------------------------------------------------------
(* The page's handlers *)

\* The cases are drawn while no load has set `loading`, unless the page is gone.
CasesShown == ~loading /\ ~notDeployed
ChooseSide ==
    /\ CasesShown /\ voteShown # Rendered
    /\ voteShown' = Rendered
    /\ UNCHANGED <<contractVars, storeVars, loadVars, voteTx, votesSent, unseen>>

CommitAlways == voteShown.phase = "commit"      \* mutant: the button ignores hasCommitted
CommitOffered == voteShown.phase = "commit" /\ ~voteShown.vote.committed

\* saveStoredSalt swallows the refusal of either store.
HandleCommit(localTakes, sessionTakes) ==
    /\ CasesShown /\ voteTx = NoVoteTx /\ CommitOffered
    /\ salts < MaxSalts
    /\ salts' = salts + 1
    /\ saltLocal' = IF localTakes THEN salts + 1 ELSE saltLocal
    /\ saltSession' = IF sessionTakes THEN salts + 1 ELSE saltSession
    /\ unkept' = (unkept \/ Stored(saltLocal', saltSession') # salts + 1)
    /\ voteTx' = [kind |-> "commit", at |-> "build", salt |-> salts + 1, load |-> 0]
    /\ voteShown' = Rendered
    /\ UNCHANGED <<contractVars, loadVars, votesSent, unseen>>

HandleReveal ==
    /\ CasesShown /\ voteTx = NoVoteTx
    /\ voteShown.phase = "reveal" /\ voteShown.vote.committed /\ ~voteShown.vote.revealed
    /\ Stored(saltLocal, saltSession) # 0
    /\ voteTx' = [kind |-> "reveal", at |-> "build", salt |-> Stored(saltLocal, saltSession),
                  load |-> 0]
    /\ voteShown' = Rendered
    /\ UNCHANGED <<contractVars, storeVars, loadVars, votesSent, unseen>>

\* handleRegister, handleDeregister: their buttons stay while a load is under way.
HandleStake ==
    /\ loading \/ ~notDeployed
    /\ voteTx = NoVoteTx
    /\ voteTx' = [kind |-> "stake", at |-> "stake", salt |-> 0, load |-> 0]
    /\ voteShown' = Rendered
    /\ UNCHANGED <<contractVars, storeVars, loadVars, votesSent, unseen>>

\* The simulation must pass; then the wallet signs and submitTx sends.
BuildVote ==
    /\ voteTx.at = "build" /\ Accepted(voteTx)
    /\ voteTx' = [voteTx EXCEPT !.at = "sign"]
    /\ UNCHANGED <<contractVars, storeVars, loadVars, voteShown, votesSent, unseen>>
SendVote ==
    /\ voteTx.at = "sign"
    /\ voteTx' = [voteTx EXCEPT !.at = "wait"]
    /\ votesSent' = votesSent \cup {[kind |-> voteTx.kind, salt |-> voteTx.salt]}
    /\ UNCHANGED <<contractVars, storeVars, loadVars, voteShown, unseen>>

\* The simulation or the wallet refuses, the ledger refused, or the wait for the
\* ledger ends unanswered, before or after it took the vote: a toast, no load.
VoteThrows ==
    /\ voteTx.at \notin {"idle", "load"}
    /\ voteTx' = NoVoteTx /\ voteShown' = Rendered
    /\ unseen' = (unseen \/ (voteTx.at \in {"wait", "applied"} /\ voteTx.kind = "commit"))
    /\ UNCHANGED <<contractVars, storeVars, loadVars, votesSent>>
\* The handler awaits its load, and the buttons with it.
VoteApplied ==
    /\ voteTx.at \in {"applied", "stake"}
    /\ LoadBegins
    /\ voteTx' = [voteTx EXCEPT !.at = "load", !.load = loadsBegun + 1]
    /\ voteShown' = Rendered
    /\ UNCHANGED <<contractVars, storeVars, votesSent, unseen>>

\* The juror leaves the page and comes back: within the app, where the handler at work
\* goes on and may send its transaction at any later time; by a reload, which ends the
\* handler; or in a new tab, which has no session storage of the old one.
GoesOn(how) == how = "navigate" /\ voteTx.at \in {"build", "sign"}
VisitAgain(how) ==
    /\ loadsBegun < MaxLoads
    /\ loadsBegun' = loadsBegun + 1 /\ voteLoads' = {NewLoad}
    /\ loading' = TRUE /\ notDeployed' = FALSE
    /\ voteShown' = [vote |-> NoVote, phase |-> votePhase]
    /\ voteTx' = NoVoteTx
    /\ votesSent' = votesSent \cup
                    {tx \in {[kind |-> voteTx.kind, salt |-> voteTx.salt]} : GoesOn(how)}
    /\ unseen' = (unseen \/ (voteTx.kind = "commit" /\ (voteTx.at = "wait" \/ GoesOn(how))))
    /\ saltSession' = IF how = "new tab" THEN 0 ELSE saltSession
    /\ unkept' = (unkept \/ Stored(saltLocal, saltSession') # Stored(saltLocal, saltSession))
    /\ UNCHANGED <<contractVars, saltLocal, salts, lastShown, overtaken>>

JurorNext ==
    \/ \E tx \in votesSent : LedgerTakesVote(tx)
    \/ DeadlinePasses \/ WalletReconnects
    \/ \E l \in voteLoads : VoteRead(l) \/ LoadVotes(l) \/ LoadVotesFails(l)
    \/ \E localTakes, sessionTakes \in BOOLEAN : HandleCommit(localTakes, sessionTakes)
    \/ ChooseSide \/ HandleReveal \/ HandleStake
    \/ BuildVote \/ SendVote \/ VoteThrows \/ VoteApplied
    \/ \E how \in {"navigate", "reload", "new tab"} : VisitAgain(how)

JurorSpec == JurorInit /\ [][JurorNext]_jurorVars

-----------------------------------------------------------------------------
(* Properties *)

\* The page finds the salt that opens the commitment in the contract, unless one of
\* three things happened: a commitment was on its way and the page did not see its
\* end, so that the next one replaced the good salt; an answer shown after a newer one
\* offered a commitment again; or the browser did not keep a salt.
CommitmentStaysRevealable ==
    commitment # 0 /\ Stored(saltLocal, saltSession) # commitment =>
        unseen \/ overtaken \/ unkept
=============================================================================
