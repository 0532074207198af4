------------------------------ MODULE EventLog ------------------------------
(***************************************************************************)
(* What the indexer promises of its events table, whatever fails and       *)
(* whoever writes: a row says what some chain really held, the first row   *)
(* of an id stays as it was written, and rows disappear only from some     *)
(* ledger on, and only if that ledger was replaced.                        *)
(***************************************************************************)
EXTENDS Naturals

VARIABLES
    everOnChain,   \* every event any chain ever held: [ledger, index, version]
    log            \* the rows

logVars == <<everOnChain, log>>

IdOf(e) == <<e.ledger, e.index>>
Replaced(l) ==
    \E d, e \in everOnChain : d.ledger = l /\ e.ledger = l /\ d.version # e.version

LogInit == everOnChain = {} /\ log = {}

\* Ledgers close or are replaced.
ChainGoesOn ==
    /\ everOnChain \subseteq everOnChain'
    /\ UNCHANGED log

Append ==
    /\ log \subseteq log'
    /\ log' \subseteq everOnChain
    /\ \A e \in log' \ log : \A d \in log : IdOf(d) # IdOf(e)
    /\ UNCHANGED everOnChain

Retract ==
    /\ \E r \in everOnChain :
         Replaced(r.ledger) /\ log' = {e \in log : e.ledger < r.ledger}
    /\ UNCHANGED everOnChain

LogNext == ChainGoesOn \/ Append \/ Retract
LogSpec == LogInit /\ [][LogNext]_logVars
=============================================================================
