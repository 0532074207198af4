----------------------------- MODULE MCSettlement -----------------------------
(***************************************************************************)
(* process_withdrawal_queue on every small queue: three investors who have *)
(* each queued a part of their shares at some time, whatever the NAV has   *)
(* become since, served as often as there is liquidity.                    *)
(***************************************************************************)
EXTENDS PoolShares

CONSTANTS Shares, Kept, Values   \* shares queued and kept back; NAVs

\* The queue in which the requests of asked arrive in the order of time.
QueueOf(asked) ==
    LET order == SetToSortSeq(DOMAIN asked, LAMBDA i, j : asked[i].at < asked[j].at)
    IN  [k \in DOMAIN order |-> [who |-> order[k], shares |-> asked[order[k]].shares,
                                 at |-> asked[order[k]].at, id |-> k]]

SettlementInit ==
    /\ now = MaxTime
    /\ paused = FALSE
    /\ \E asked \in [Investors -> [shares : Shares, at : 0 .. MaxTime]], kept \in Kept :
          /\ queue = QueueOf(asked)
          /\ bal = [i \in Investors |-> asked[i].shares + kept]
          /\ available = [i \in Investors |-> kept]
    /\ supply = Total(bal)
    /\ poolValue \in Values
    /\ deployed \in 0 .. poolValue
    /\ cash = poolValue - deployed
    /\ counter = Cardinality(Investors)

SettlementSpec ==
    SettlementInit
    /\ [][DrainWithdrawalQueue]_<<now, paused, cash, poolValue, deployed, shareVars>>

MCDepositAmounts == {1}
MCShares == 1 .. 3
MCKept == {0, 1}
MCValues == 2 .. 6
=============================================================================
