-------------------------- MODULE MCOracleRegistry --------------------------
(***************************************************************************)
(* Small instances of OracleRegistry.  A round takes one unit of time and  *)
(* the cooldown two, as the defaults of three and seven days.              *)
(***************************************************************************)
EXTENDS OracleRegistry, TLC

MCAmount == [i \in Invoices |-> 2]
MCConfig == [minStake |-> 2, required |-> 2, quorum |-> 6600, duration |-> 1, cooldown |-> 2]
MCConfigs == {MCConfig}
MCSingle == {[MCConfig EXCEPT !.minStake = 1, !.required = 1]}
MCTierLists == {<<[min |-> 1, quorum |-> 5000], [min |-> 2, quorum |-> 10000]>>}
MCOne == {1}
MCTwo == {2}
MCHalf == {5000}
MCNone == {}
MCSymmetry == Permutations(Oracles)
=============================================================================
