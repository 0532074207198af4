----------------------------- MODULE MCServices -----------------------------
(***************************************************************************)
(* The processes that follow the chain from outside, checked in one run:   *)
(* the indexer and its API, the oracle service, the compliance service,    *)
(* and the frontend's monitor, event poller and event stream.  They share  *)
(* no state, so a behaviour follows one of them, picked at the start, and  *)
(* the others stay where they began.                                       *)
(***************************************************************************)
EXTENDS Indexer, ReadModels, OracleService, ComplianceService, Monitoring,
        EventPolling, EventStream

VARIABLE followed   \* the component this behaviour is about

servicesVars == <<followed, indexerVars, readVars, oracleNodeVars, complianceVars,
                  monitorVars, pollVars, streamVars>>

Services == {"indexer", "api", "oracle", "compliance", "monitor", "poller", "stream"}

\* The choices of the components that stand still are made once.
ServicesInit ==
    /\ followed \in Services
    /\ IndexerInit /\ ReadInit /\ OracleNodeInit /\ ComplianceInit
    /\ MonitorInit /\ PollInit /\ StreamInit
    /\ followed # "api" => family = "round"
    /\ followed # "oracle" => mode = "legacy" /\ invoiceTopic = NewTopic
    /\ followed # "compliance" => ~listed

ServicesNext ==
    \/ /\ followed = "indexer" /\ IndexerNext
       /\ UNCHANGED <<followed, readVars, oracleNodeVars, complianceVars, monitorVars,
                      pollVars, streamVars>>
    \/ /\ followed = "api" /\ ReadNext
       /\ UNCHANGED <<followed, indexerVars, oracleNodeVars, complianceVars, monitorVars,
                      pollVars, streamVars>>
    \/ /\ followed = "oracle" /\ OracleNodeNext
       /\ UNCHANGED <<followed, indexerVars, readVars, complianceVars, monitorVars,
                      pollVars, streamVars>>
    \/ /\ followed = "compliance" /\ ComplianceNext
       /\ UNCHANGED <<followed, indexerVars, readVars, oracleNodeVars, monitorVars,
                      pollVars, streamVars>>
    \/ /\ followed = "monitor" /\ MonitorNext
       /\ UNCHANGED <<followed, indexerVars, readVars, oracleNodeVars, complianceVars,
                      pollVars, streamVars>>
    \/ /\ followed = "poller" /\ PollNext
       /\ UNCHANGED <<followed, indexerVars, readVars, oracleNodeVars, complianceVars,
                      monitorVars, streamVars>>
    \/ /\ followed = "stream" /\ StreamNext
       /\ UNCHANGED <<followed, indexerVars, readVars, oracleNodeVars, complianceVars,
                      monitorVars, pollVars>>

ServicesSpec == ServicesInit /\ [][ServicesNext]_servicesVars
=============================================================================
