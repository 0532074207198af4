------------------------------ MODULE MCClient ------------------------------
(***************************************************************************)
(* The client side, checked in one run: a contract call, a submission, the *)
(* query cache, a page with its handlers, the proposal form and the        *)
(* juror's page.  They share no state in the source but the chain, so a    *)
(* behaviour follows one of them, picked at the start.                     *)
(***************************************************************************)
EXTENDS ClientCalls, Transaction, ClientCache, PageActions, RolesForm, JurorVoting

MCTrimmed == [t \in {"a", " a", " "} |-> IF t = " " THEN "blank" ELSE "a"]

VARIABLE followed   \* the component this behaviour is about

clientVars == <<followed, callVars, txVars, cacheVars, pageVars, formVars, jurorVars>>

Parts == {"call", "submission", "cache", "page", "form", "juror"}

\* The choices of the components that stand still are made once.
ClientsInit ==
    /\ followed \in Parts
    /\ ClientInit /\ TxInit /\ CacheInit /\ PageInit /\ FormInit /\ JurorInit
    /\ followed # "submission" => side = "frontend"
    /\ followed # "cache" => watched = CHOOSE k \in Keys : TRUE
    /\ followed # "page" => shown = CHOOSE p \in Pages : TRUE

ClientsNext ==
    \/ /\ followed = "call" /\ ClientNext
       /\ UNCHANGED <<followed, txVars, cacheVars, pageVars, formVars, jurorVars>>
    \/ /\ followed = "submission" /\ TxNext
       /\ UNCHANGED <<followed, callVars, cacheVars, pageVars, formVars, jurorVars>>
    \/ /\ followed = "cache" /\ CacheNext
       /\ UNCHANGED <<followed, callVars, txVars, pageVars, formVars, jurorVars>>
    \/ /\ followed = "page" /\ PageNext
       /\ UNCHANGED <<followed, callVars, txVars, cacheVars, formVars, jurorVars>>
    \/ /\ followed = "form" /\ FormNext
       /\ UNCHANGED <<followed, callVars, txVars, cacheVars, pageVars, jurorVars>>
    \/ /\ followed = "juror" /\ JurorNext
       /\ UNCHANGED <<followed, callVars, txVars, cacheVars, pageVars, formVars>>

ClientsSpec == ClientsInit /\ [][ClientsNext]_clientVars /\ TxFairness
=============================================================================
