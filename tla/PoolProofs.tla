------------------------------ MODULE PoolProofs ------------------------------
(***************************************************************************)
(* Theorems about the pool contract, for any number of investors and       *)
(* invoices, any amounts and any configuration: the settlement of the      *)
(* withdrawal queue, the types and the queue's books, the order of the     *)
(* queue, the share price and the fairness of a settlement, the balance of *)
(* the ledger, the cover of the deployed capital and the custody of funds. *)
(***************************************************************************)
EXTENDS Pool, SequenceTheorems, DataLemmas, TLAPS

-----------------------------------------------------------------------------
(* The loops of process_withdrawal_queue, step by step *)

\* The pass over the queue that serves a cohort: what it has done up to a place
\* follows from what it had done up to the place before.
LEMMA CohortLoop ==
    ASSUME NEW acc, NEW q, Len(q) \in Nat, NEW cohort, NEW budget, NEW pv, NEW total
    PROVE  \E f : /\ f[0] = acc
                  /\ \A k \in 1 .. Len(q) : f[k] =
                        IF k \in cohort
                        THEN SettleRequest(f[k - 1], q[k], budget - acc.paid,
                                           SharesAt(q, cohort), pv, total)
                        ELSE f[k - 1]
                  /\ SettleCohort(acc, q, cohort, budget, pv, total) = f[Len(q)]
<1> DEFINE n == Len(q)
           St(a, k) == IF k \in cohort
                       THEN SettleRequest(a, q[k], budget - acc.paid,
                                          SharesAt(q, cohort), pv, total)
                       ELSE a
           All(f) == [k \in 0 .. n |-> IF k = 0 THEN acc ELSE St(f[k - 1], k)]
           loop == CHOOSE f : f = All(f)
           UpTo(f, m) == f[0] = acc /\ \A k \in 1 .. m : f[k] = St(f[k - 1], k)
           Q == {m \in Nat : \E f : UpTo(f, m)}
<1>1. SettleCohort(acc, q, cohort, budget, pv, total) = loop[n]
    BY Zenon DEF SettleCohort
<1> HIDE DEF St
<1>2. 0 \in Q
    <2>1. UpTo([k \in {0} |-> acc], 0)
        OBVIOUS
    <2> QED
        BY <2>1
<1>3. ASSUME NEW m \in Q PROVE m + 1 \in Q
    <2>1. PICK f : UpTo(f, m)
        OBVIOUS
    <2> DEFINE g == [k \in 0 .. m + 1 |-> IF k <= m THEN f[k] ELSE St(f[m], m + 1)]
    <2>2. m \in Nat /\ g[0] = acc /\ g[m + 1] = St(f[m], m + 1) /\ g[m] = f[m]
        BY <2>1
    <2>3. ASSUME NEW k \in 1 .. m + 1 PROVE g[k] = St(g[k - 1], k)
        <3>1. CASE k = m + 1
            <4>1. k - 1 = m
                BY <2>2, <3>1
            <4> HIDE DEF g
            <4> QED
                BY <2>2, <3>1, <4>1
        <3>2. CASE k # m + 1
            <4>1. k \in 1 .. m /\ k - 1 \in 0 .. m
                BY <2>2, <3>2
            <4>2. g[k] = f[k] /\ g[k - 1] = f[k - 1]
                BY <2>2, <4>1
            <4>3. f[k] = St(f[k - 1], k)
                BY <2>1, <4>1
            <4> HIDE DEF g
            <4> QED
                BY <4>2, <4>3
        <3> QED
            BY <3>1, <3>2
    <2> HIDE DEF g
    <2>4. UpTo(g, m + 1)
        BY <2>2, <2>3
    <2> QED
        BY <2>2, <2>4
<1>4. n \in Q
    <2> HIDE DEF Q
    <2>1. Q \in SUBSET Nat
        BY DEF Q
    <2> QED
        BY <1>2, <1>3, <2>1, CountingUp
<1>5. PICK f : UpTo(f, n)
    BY <1>4
<1> DEFINE g == [k \in 0 .. n |-> f[k]]
<1>6. g = All(g)
    <2>1. \A k \in 0 .. n : g[k] = All(g)[k]
        BY <1>5
    <2> QED
        BY <2>1
<1>7. loop = All(loop)
    <2> HIDE DEF All
    <2> QED
        BY <1>6, Zenon
<1>8. loop[0] = acc /\ \A k \in 1 .. n : loop[k] = St(loop[k - 1], k)
    <2> HIDE DEF loop
    <2> QED
        BY <1>7
<1> HIDE DEF loop
<1> QED
    BY <1>1, <1>8 DEF St

\* The pass that puts the others back.
PutBackAt(w, q, served, k) == IF k \in served THEN w ELSE Append(w, q[k])

LEMMA PutBackLoop ==
    ASSUME NEW rest, NEW q, Len(q) \in Nat, NEW served
    PROVE  \E f : /\ f[0] = rest
                  /\ \A k \in 1 .. Len(q) : f[k] = PutBackAt(f[k - 1], q, served, k)
                  /\ PutBack(rest, q, served) = f[Len(q)]
<1> DEFINE n == Len(q)
           St(a, k) == IF k \in served THEN a ELSE Append(a, q[k])
           All(f) == [k \in 0 .. n |-> IF k = 0 THEN rest ELSE St(f[k - 1], k)]
           loop == CHOOSE f : f = All(f)
           UpTo(f, m) == f[0] = rest /\ \A k \in 1 .. m : f[k] = St(f[k - 1], k)
           Q == {m \in Nat : \E f : UpTo(f, m)}
<1>1. PutBack(rest, q, served) = loop[n]
    BY Zenon DEF PutBack
<1> HIDE DEF St
<1>2. 0 \in Q
    <2>1. UpTo([k \in {0} |-> rest], 0)
        OBVIOUS
    <2> QED
        BY <2>1
<1>3. ASSUME NEW m \in Q PROVE m + 1 \in Q
    <2>1. PICK f : UpTo(f, m)
        OBVIOUS
    <2> DEFINE g == [k \in 0 .. m + 1 |-> IF k <= m THEN f[k] ELSE St(f[m], m + 1)]
    <2>2. m \in Nat /\ g[0] = rest /\ g[m + 1] = St(f[m], m + 1) /\ g[m] = f[m]
        BY <2>1
    <2>3. ASSUME NEW k \in 1 .. m + 1 PROVE g[k] = St(g[k - 1], k)
        <3>1. CASE k = m + 1
            <4>1. k - 1 = m
                BY <2>2, <3>1
            <4> HIDE DEF g
            <4> QED
                BY <2>2, <3>1, <4>1
        <3>2. CASE k # m + 1
            <4>1. k \in 1 .. m /\ k - 1 \in 0 .. m
                BY <2>2, <3>2
            <4>2. g[k] = f[k] /\ g[k - 1] = f[k - 1]
                BY <2>2, <4>1
            <4>3. f[k] = St(f[k - 1], k)
                BY <2>1, <4>1
            <4> HIDE DEF g
            <4> QED
                BY <4>2, <4>3
        <3> QED
            BY <3>1, <3>2
    <2> HIDE DEF g
    <2>4. UpTo(g, m + 1)
        BY <2>2, <2>3
    <2> QED
        BY <2>2, <2>4
<1>4. n \in Q
    <2> HIDE DEF Q
    <2>1. Q \in SUBSET Nat
        BY DEF Q
    <2> QED
        BY <1>2, <1>3, <2>1, CountingUp
<1>5. PICK f : UpTo(f, n)
    BY <1>4
<1> DEFINE g == [k \in 0 .. n |-> f[k]]
<1>6. g = All(g)
    <2>1. \A k \in 0 .. n : g[k] = All(g)[k]
        BY <1>5
    <2> QED
        BY <2>1
<1>7. loop = All(loop)
    <2> HIDE DEF All
    <2> QED
        BY <1>6, Zenon
<1>8. loop[0] = rest /\ \A k \in 1 .. n : loop[k] = St(loop[k - 1], k)
    <2> HIDE DEF loop
    <2> QED
        BY <1>7
<1> HIDE DEF loop
<1> QED
    BY <1>1, <1>8 DEF St, PutBackAt

\* The cohorts, one after the other.
LEMMA CohortsLoop ==
    ASSUME now \in Nat, NEW q, NEW budget, NEW b, NEW total, NEW pv, NEW c
    PROVE  \E f : /\ f[0] = SettlementStart(b, c)
                  /\ \A t \in 1 .. now + 1 : f[t] =
                        SettleCohort(f[t - 1], q, Cohort(q, t - 1), budget, pv, total)
                  /\ SettleCohorts(q, budget, b, total, pv, c) = f[now + 1]
<1> DEFINE n == now + 1
           St(a, k) == SettleCohort(a, q, Cohort(q, k - 1), budget, pv, total)
           All(f) == [k \in 0 .. n |-> IF k = 0 THEN SettlementStart(b, c) ELSE St(f[k - 1], k)]
           loop == CHOOSE f : f = All(f)
           UpTo(f, m) == f[0] = SettlementStart(b, c) /\ \A k \in 1 .. m : f[k] = St(f[k - 1], k)
           Q == {m \in Nat : \E f : UpTo(f, m)}
<1>1. SettleCohorts(q, budget, b, total, pv, c) = loop[n]
    BY Zenon DEF SettleCohorts
<1> HIDE DEF St
<1>2. 0 \in Q
    <2>1. UpTo([k \in {0} |-> SettlementStart(b, c)], 0)
        OBVIOUS
    <2> QED
        BY <2>1
<1>3. ASSUME NEW m \in Q PROVE m + 1 \in Q
    <2>1. PICK f : UpTo(f, m)
        OBVIOUS
    <2> DEFINE g == [k \in 0 .. m + 1 |-> IF k <= m THEN f[k] ELSE St(f[m], m + 1)]
    <2>2. m \in Nat /\ g[0] = SettlementStart(b, c) /\ g[m + 1] = St(f[m], m + 1) /\ g[m] = f[m]
        BY <2>1
    <2>3. ASSUME NEW k \in 1 .. m + 1 PROVE g[k] = St(g[k - 1], k)
        <3>1. CASE k = m + 1
            <4>1. k - 1 = m
                BY <2>2, <3>1
            <4> HIDE DEF g
            <4> QED
                BY <2>2, <3>1, <4>1
        <3>2. CASE k # m + 1
            <4>1. k \in 1 .. m /\ k - 1 \in 0 .. m
                BY <2>2, <3>2
            <4>2. g[k] = f[k] /\ g[k - 1] = f[k - 1]
                BY <2>2, <4>1
            <4>3. f[k] = St(f[k - 1], k)
                BY <2>1, <4>1
            <4> HIDE DEF g
            <4> QED
                BY <4>2, <4>3
        <3> QED
            BY <3>1, <3>2
    <2> HIDE DEF g
    <2>4. UpTo(g, m + 1)
        BY <2>2, <2>3
    <2> QED
        BY <2>2, <2>4
<1>4. n \in Q
    <2> HIDE DEF Q
    <2>1. Q \in SUBSET Nat
        BY DEF Q
    <2> QED
        BY <1>2, <1>3, <2>1, CountingUp
<1>5. PICK f : UpTo(f, n)
    BY <1>4
<1> DEFINE g == [k \in 0 .. n |-> f[k]]
<1>6. g = All(g)
    <2>1. \A k \in 0 .. n : g[k] = All(g)[k]
        BY <1>5
    <2> QED
        BY <2>1
<1>7. loop = All(loop)
    <2> HIDE DEF All
    <2> QED
        BY <1>6, Zenon
<1>8. loop[0] = SettlementStart(b, c) /\ \A k \in 1 .. n : loop[k] = St(loop[k - 1], k)
    <2> HIDE DEF loop
    <2> QED
        BY <1>7
<1> HIDE DEF loop
<1> QED
    BY <1>1, <1>8 DEF St

-----------------------------------------------------------------------------
(* One request *)

\* What a settlement has done so far.  Balances may be negative as long as
\* nothing is said of ok.
Progress ==
    [ok : BOOLEAN, cash : Int, paid : Nat, burned : Nat, bal : [Investors -> Int],
     payouts : [Investors -> Nat], queue : Seq(Request)]

\* What a request r is paid out of left, as one of a cohort of s shares.
PaidOf(r, left, s, pv, total) ==
    LET pay == Smaller((left * r.shares) \div s, WithdrawalAmount(r.shares, pv, total))
    IN  IF pay <= 0 THEN 0 ELSE pay

\* z is a after r has been paid pay for burn of its shares.
Served1(a, z, r, pay, burn) ==
    /\ z.paid = a.paid + pay
    /\ z.burned = a.burned + burn
    /\ z.bal = [a.bal EXCEPT ![r.who] = @ - burn]
    /\ z.payouts = [a.payouts EXCEPT ![r.who] = @ + pay]
    /\ z.queue = IF burn = r.shares THEN a.queue
                 ELSE Append(a.queue, [r EXCEPT !.shares = @ - burn])
    /\ z.ok => /\ a.ok
               /\ a.bal[r.who] >= 0 => a.bal[r.who] - burn >= 0
               /\ burn = 0 => pay = 0

LEMMA WorthIsInt ==
    ASSUME NEW n \in Nat, NEW pv \in Int, NEW total \in Nat \ {0}
    PROVE  WithdrawalAmount(n, pv, total) \in Int
<1>1. n * pv \in Int /\ n * (-pv) \in Int
    OBVIOUS
<1>2. (n * pv) \div total \in Int /\ (n * (-pv)) \div total \in Int
    BY <1>1
<1> QED
    BY <1>2 DEF WithdrawalAmount

LEMMA AddAt ==
    ASSUME NEW S, NEW x \in S, NEW n \in Nat, NEW m \in Int
    PROVE  /\ \A f \in [S -> Nat] : [f EXCEPT ![x] = @ + n] \in [S -> Nat]
           /\ \A f \in [S -> Int] : [f EXCEPT ![x] = @ - m] \in [S -> Int]
           /\ \A f \in [S -> Nat] : [f EXCEPT ![x] = @ + 0] = f
           /\ \A f \in [S -> Int] : [f EXCEPT ![x] = @ - 0] = f
<1>1. ASSUME NEW f \in [S -> Nat] PROVE [f EXCEPT ![x] = @ + n] \in [S -> Nat]
    OBVIOUS
<1>2. ASSUME NEW f \in [S -> Int] PROVE [f EXCEPT ![x] = @ - m] \in [S -> Int]
    OBVIOUS
<1>3. ASSUME NEW f \in [S -> Nat] PROVE [f EXCEPT ![x] = @ + 0] = f
    <2>1. f[x] + 0 = f[x]
        OBVIOUS
    <2> QED
        BY <2>1
<1>4. ASSUME NEW f \in [S -> Int] PROVE [f EXCEPT ![x] = @ - 0] = f
    <2>1. f[x] - 0 = f[x]
        OBVIOUS
    <2> QED
        BY <2>1
<1> QED
    BY <1>1, <1>2, <1>3, <1>4

LEMMA NothingServed ==
    ASSUME NEW a \in Progress, NEW z, NEW r \in Request,
           z.ok = a.ok, z.paid = a.paid, z.burned = a.burned, z.bal = a.bal,
           z.payouts = a.payouts, z.queue = Append(a.queue, r)
    PROVE  Served1(a, z, r, 0, 0)
<1>1. r.shares \in Nat \ {0} /\ r.who \in Investors
    BY DEF Request
<1>2. /\ a.paid \in Nat /\ a.burned \in Nat
      /\ a.bal \in [Investors -> Int] /\ a.payouts \in [Investors -> Nat]
    BY DEF Progress
<1>3. [r EXCEPT !.shares = @ - 0] = r
    BY <1>1 DEF Request
<1>4. /\ [a.bal EXCEPT ![r.who] = @ - 0] = a.bal
      /\ [a.payouts EXCEPT ![r.who] = @ + 0] = a.payouts
    BY <1>1, <1>2, AddAt
<1>5. /\ a.paid + 0 = a.paid /\ a.burned + 0 = a.burned /\ r.shares # 0
      /\ a.bal[r.who] >= 0 => a.bal[r.who] - 0 >= 0
    BY <1>1, <1>2
<1> QED
    BY <1>3, <1>4, <1>5 DEF Served1

LEMMA SettleRequestFacts ==
    ASSUME NEW a \in Progress, NEW r \in Request, NEW left \in Nat, NEW s \in Nat \ {0},
           NEW pv \in Int, NEW total \in Nat \ {0}
    PROVE  LET z == SettleRequest(a, r, left, s, pv, total)
               pay == PaidOf(r, left, s, pv, total)
           IN  /\ pay \in Nat /\ s * pay <= left * r.shares
               /\ z \in Progress
               /\ \E burn \in 0 .. r.shares : Served1(a, z, r, pay, burn)
<1> DEFINE share == (left * r.shares) \div s
           worth == WithdrawalAmount(r.shares, pv, total)
           least == Smaller(share, worth)
           brn == IF least = worth THEN r.shares ELSE (least * r.shares) \div worth
           z == SettleRequest(a, r, left, s, pv, total)
           pay == PaidOf(r, left, s, pv, total)
           o == a.ok /\ brn > 0 /\ a.bal[r.who] >= brn /\ a.cash >= least
           c == a.cash - least
           p == a.paid + least
           y == [a.payouts EXCEPT ![r.who] = @ + least]
           u == a.burned + brn
           l == [a.bal EXCEPT ![r.who] = @ - brn]
           q == IF brn = r.shares THEN a.queue
                ELSE Append(a.queue, [r EXCEPT !.shares = @ - brn])
<1>1. r.shares \in Nat \ {0} /\ r.who \in Investors /\ r.at \in Nat /\ r.id \in Nat
    BY DEF Request
<1>2. left * r.shares \in Nat
    BY <1>1, ProductInNat
<1>3. share \in Nat /\ s * share <= left * r.shares
    BY <1>2, QuotientBounds
<1>4. worth \in Int
    BY <1>1, WorthIsInt
<1>5. /\ a.ok \in BOOLEAN /\ a.cash \in Int /\ a.paid \in Nat /\ a.burned \in Nat
      /\ a.bal \in [Investors -> Int] /\ a.payouts \in [Investors -> Nat]
      /\ a.queue \in Seq(Request)
    BY DEF Progress
<1>6. z = IF least <= 0 THEN [a EXCEPT !.queue = Append(@, r)]
          ELSE [a EXCEPT !.ok = o, !.cash = c, !.paid = p, !.payouts = y, !.burned = u,
                         !.bal = l, !.queue = q]
    BY DEF SettleRequest
<1>7. pay = IF least <= 0 THEN 0 ELSE least
    BY DEF PaidOf
<1>8. CASE least <= 0
    <2>1. z = [a EXCEPT !.queue = Append(@, r)] /\ pay = 0
        BY <1>6, <1>7, <1>8
    <2>2. z \in Progress
        <3>1. Append(a.queue, r) \in Seq(Request)
            BY <1>5
        <3> HIDE DEF z
        <3> QED
            BY <2>1, <3>1 DEF Progress
    <2>3. /\ z.paid = a.paid /\ z.burned = a.burned /\ z.bal = a.bal
          /\ z.payouts = a.payouts /\ z.ok = a.ok /\ z.queue = Append(a.queue, r)
        <3> HIDE DEF z
        <3> QED
            BY <2>1 DEF Progress
    <2> HIDE DEF z, pay
    <2>6. Served1(a, z, r, pay, 0)
        BY <2>1, <2>3, NothingServed
    <2>7. pay \in Nat /\ s * pay <= left * r.shares
        BY <1>2, <2>1
    <2>8. 0 \in 0 .. r.shares
        BY <1>1
    <2> QED
        BY <2>2, <2>6, <2>7, <2>8 DEF z, pay
<1>9. CASE ~(least <= 0)
    <2>1. least \in Nat \ {0} /\ least <= share /\ least <= worth /\ worth \in Nat
        BY <1>3, <1>4, <1>9 DEF Smaller
    <2>2. brn \in 0 .. r.shares
        <3>1. CASE least = worth
            BY <1>1, <3>1
        <3>2. CASE least # worth
            <4> HIDE DEF least, worth, share
            <4>1. (least * r.shares) \div worth \in 0 .. r.shares - 1
                BY <1>1, <2>1, <3>2, PartOf
            <4>2. brn = (least * r.shares) \div worth
                BY <3>2
            <4> HIDE DEF brn
            <4> QED
                BY <1>1, <4>1, <4>2
        <3> QED
            BY <3>1, <3>2
    <2>3. s * least <= left * r.shares
        <3> HIDE DEF least, share
        <3>1. s * (share - least) \in Nat
            <4>1. share - least \in Nat
                BY <1>3, <2>1
            <4> QED
                BY <4>1, ProductInNat
        <3>2. s * (share - least) = s * share - s * least
            BY <1>3, <2>1
        <3>3. s * share \in Int /\ s * least \in Int
            BY <1>3, <2>1
        <3> QED
            BY <1>2, <1>3, <3>1, <3>2, <3>3
    <2> HIDE DEF least, brn, share, worth
    <2>4. pay = least
        BY <1>7, <1>9
    <2> HIDE DEF z, pay
    <2>6. z = [a EXCEPT !.ok = o, !.cash = c, !.paid = p, !.payouts = y, !.burned = u,
                       !.bal = l, !.queue = q]
        BY <1>6, <1>9
    <2>7. q \in Seq(Request)
        <3>1. CASE brn = r.shares
            BY <1>5, <3>1
        <3>2. CASE brn # r.shares
            <4>1. r.shares - brn \in Nat \ {0}
                BY <1>1, <2>2, <3>2
            <4>2. [r EXCEPT !.shares = @ - brn] \in Request
                BY <4>1 DEF Request
            <4> QED
                BY <1>5, <3>2, <4>2
        <3> QED
            BY <3>1, <3>2
    <2>8. y \in [Investors -> Nat] /\ l \in [Investors -> Int]
        <3>1. least \in Nat /\ brn \in Int
            BY <1>1, <2>1, <2>2
        <3> QED
            BY <1>1, <1>5, <3>1, AddAt
    <2>9. c \in Int /\ p \in Nat /\ u \in Nat /\ o \in BOOLEAN
        <3>1. a.cash \in Int /\ a.paid \in Nat /\ a.burned \in Nat /\ least \in Nat /\ brn \in Nat
            BY <1>1, <1>5, <2>1, <2>2
        <3>2. o \in BOOLEAN
            OBVIOUS
        <3> QED
            BY <3>1, <3>2
    <2>11. o => brn > 0 /\ a.bal[r.who] >= brn /\ a.ok
        OBVIOUS
    <2> HIDE DEF o, c, p, y, u, l, q
    <2>12. z \in Progress
        BY <2>6, <2>7, <2>8, <2>9 DEF Progress
    <2>13. z.ok = o /\ z.paid = p /\ z.payouts = y /\ z.burned = u /\ z.bal = l /\ z.queue = q
        BY <2>6, <2>7, <2>8, <2>9 DEF Progress
    <2>10. Served1(a, z, r, pay, brn)
        <3>1. a.bal[r.who] \in Int /\ brn \in Nat
            BY <1>1, <1>5, <2>2
        <3>2. z.ok => brn > 0 /\ a.bal[r.who] >= brn /\ a.ok
            BY <2>11, <2>13, Zenon
        <3>3. z.ok => a.bal[r.who] - brn >= 0 /\ brn # 0
            BY <3>1, <3>2
        <3>4. z.paid = a.paid + pay /\ z.burned = a.burned + brn
            BY <2>4, <2>13 DEF p, u
        <3>5. z.bal = [a.bal EXCEPT ![r.who] = @ - brn]
            BY <2>13, Zenon DEF l
        <3>6. z.payouts = [a.payouts EXCEPT ![r.who] = @ + pay]
            BY <2>4, <2>13, Zenon DEF y
        <3>7. z.queue = IF brn = r.shares THEN a.queue
                        ELSE Append(a.queue, [r EXCEPT !.shares = @ - brn])
            BY <2>13, Zenon DEF q
        <3> QED
            BY <3>2, <3>3, <3>4, <3>5, <3>6, <3>7, Zenon DEF Served1
    <2> QED
        BY <2>1, <2>2, <2>3, <2>4, <2>10, <2>12 DEF z, pay
<1> QED
    BY <1>8, <1>9

-----------------------------------------------------------------------------
(* What a settlement has done when it has treated some of the places *)

\* The order of a queue: of arrival, one request per investor.
InOrder(q) ==
    \A k, m \in 1 .. Len(q) : k < m =>
        q[k].id < q[m].id /\ q[k].at <= q[m].at /\ q[k].who # q[m].who

\* What is left of the request at place j, seen from the balances.
Rest(a, b, q, j) == q[j].shares - (b[q[j].who] - a.bal[q[j].who])

\* Burned shares and payments are what the balances and the payouts say.
BooksAgree(a, b) == a.burned = Total(b) - Total(a.bal) /\ a.paid = Total(a.payouts)

\* Who has no request at one of the places P has lost and got nothing.
OthersKept(a, b, q, P) ==
    \A i \in Investors : (\A j \in P : q[j].who # i) => a.bal[i] = b[i] /\ a.payouts[i] = 0

RestBounded(a, b, q, P) ==
    \A j \in P : Rest(a, b, q, j) \in 0 .. q[j].shares

\* The new queue holds what is left of the requests at the places P...
RestQueued(a, b, q, P) ==
    /\ \A n \in 1 .. Len(a.queue) : \E j \in P :
          Rest(a, b, q, j) > 0 /\ a.queue[n] = [q[j] EXCEPT !.shares = Rest(a, b, q, j)]
    /\ \A j \in P : Rest(a, b, q, j) > 0 =>
          \E n \in 1 .. Len(a.queue) : a.queue[n] = [q[j] EXCEPT !.shares = Rest(a, b, q, j)]

\* ... in the order of arrival.
IdsRise(q) == \A k, m \in 1 .. Len(q) : k < m => q[k].id < q[m].id

\* If nothing has failed, no balance is overdrawn and nobody is paid for nothing.
OkMeans(a, b) ==
    a.ok => \A i \in Investors : a.bal[i] >= 0 /\ (a.bal[i] = b[i] => a.payouts[i] = 0)

Settled(a, b, q, P) ==
    /\ a \in Progress
    /\ BooksAgree(a, b)
    /\ OthersKept(a, b, q, P)
    /\ RestBounded(a, b, q, P)
    /\ RestQueued(a, b, q, P)
    /\ IdsRise(a.queue)
    /\ OkMeans(a, b)

LEMMA TotalIsSum == \A f : Total(f) = SumOf(f)
BY DEF Total, SumOf

\* The total of an investor's ledger when one entry changes.
LEMMA TotalChange ==
    ASSUME NEW f \in [Investors -> Int], NEW h \in [Investors -> Int], NEW i \in Investors,
           \A y \in Investors \ {i} : h[y] = f[y]
    PROVE  Total(f) \in Int /\ Total(h) \in Int /\ Total(h) = Total(f) + h[i] - f[i]
<1>1. SumOf(f) \in Int /\ SumOf(h) \in Int
    BY SumOfType, SharesAssumption
<1>2. SumOf(h) = SumOf(f) + h[i] - f[i]
    BY SumChange, SharesAssumption
<1> QED
    BY <1>1, <1>2, TotalIsSum

LEMMA TotalType ==
    ASSUME NEW f \in [Investors -> Int]
    PROVE  Total(f) \in Int
BY SumOfType, SharesAssumption, TotalIsSum

LEMMA ProgressFields ==
    ASSUME NEW a \in Progress
    PROVE  /\ a.ok \in BOOLEAN /\ a.cash \in Int /\ a.paid \in Nat /\ a.burned \in Nat
           /\ a.bal \in [Investors -> Int] /\ a.payouts \in [Investors -> Nat]
           /\ a.queue \in Seq(Request)
BY DEF Progress

LEMMA RequestFields ==
    ASSUME NEW r \in Request
    PROVE  r.shares \in Nat \ {0} /\ r.who \in Investors /\ r.at \in Nat /\ r.id \in Nat
BY DEF Request

\* The request at one more place is served.
LEMMA SettledStep ==
    ASSUME NEW q \in Seq(Request), InOrder(q), NEW b \in [Investors -> Int],
           NEW P \in SUBSET (1 .. Len(q)), NEW a, Settled(a, b, q, P),
           NEW j \in 1 .. Len(q), \A m \in P : m < j,
           NEW z \in Progress, NEW pay \in Nat, NEW burn \in 0 .. q[j].shares,
           Served1(a, z, q[j], pay, burn)
    PROVE  Settled(z, b, q, P \cup {j})
<1> DEFINE w == q[j].who
           N == P \cup {j}
<1>1. Len(q) \in Nat /\ \A m \in 1 .. Len(q) : q[m] \in Request
    BY ElementOfSeq, LenProperties
<1>2. \A m \in 1 .. Len(q) : /\ q[m].shares \in Nat \ {0} /\ q[m].who \in Investors
                              /\ q[m].at \in Nat /\ q[m].id \in Nat
    BY <1>1, RequestFields
<1>3. w \in Investors /\ q[j].shares \in Nat \ {0} /\ burn \in Nat /\ burn <= q[j].shares
    BY <1>2
<1>4. a \in Progress
    BY DEF Settled
<1>5. /\ a.paid \in Nat /\ a.burned \in Nat
      /\ a.bal \in [Investors -> Int] /\ a.payouts \in [Investors -> Nat]
      /\ a.queue \in Seq(Request)
    BY <1>4, ProgressFields
<1>6. /\ z.paid = a.paid + pay
      /\ z.burned = a.burned + burn
      /\ z.bal = [a.bal EXCEPT ![w] = @ - burn]
      /\ z.payouts = [a.payouts EXCEPT ![w] = @ + pay]
      /\ z.queue = IF burn = q[j].shares THEN a.queue
                   ELSE Append(a.queue, [q[j] EXCEPT !.shares = @ - burn])
      /\ z.ok => /\ a.ok
                 /\ a.bal[w] >= 0 => a.bal[w] - burn >= 0
                 /\ burn = 0 => pay = 0
    BY DEF Served1
<1>7. \A m \in P : q[m].who # w /\ q[m].id < q[j].id /\ q[m] \in Request /\ m \in 1 .. Len(q)
    BY <1>1 DEF InOrder
<1>8. a.bal[w] = b[w] /\ a.payouts[w] = 0
    BY <1>3, <1>7 DEF Settled, OthersKept
<1>9. /\ z.bal \in [Investors -> Int] /\ z.payouts \in [Investors -> Nat]
      /\ z.bal[w] = b[w] - burn /\ z.payouts[w] = pay
      /\ \A i \in Investors \ {w} : z.bal[i] = a.bal[i] /\ z.payouts[i] = a.payouts[i]
    <2>1. z.bal \in [Investors -> Int] /\ z.payouts \in [Investors -> Nat]
        BY ProgressFields
    <2>2. z.bal[w] = a.bal[w] - burn /\ z.payouts[w] = a.payouts[w] + pay
        BY <1>3, <1>5, <1>6
    <2>3. ASSUME NEW i \in Investors \ {w} PROVE z.bal[i] = a.bal[i] /\ z.payouts[i] = a.payouts[i]
        BY <1>3, <1>5, <1>6
    <2> QED
        BY <1>8, <2>1, <2>2, <2>3
<1> HIDE DEF w
<1>10. BooksAgree(z, b)
    <2>0. /\ \A i \in Investors \ {w} : z.bal[i] = a.bal[i]
          /\ \A i \in Investors \ {w} : z.payouts[i] = a.payouts[i]
        BY <1>9
    <2>2. /\ a.bal \in [Investors -> Int] /\ a.payouts \in [Investors -> Int]
          /\ z.bal \in [Investors -> Int] /\ z.payouts \in [Investors -> Int]
        BY <1>5, <1>9
    <2>3. Total(a.bal) \in Int /\ Total(z.bal) = Total(a.bal) + z.bal[w] - a.bal[w]
        BY <1>3, <2>0, <2>2, TotalChange
    <2>4. /\ Total(a.payouts) \in Int
          /\ Total(z.payouts) = Total(a.payouts) + z.payouts[w] - a.payouts[w]
        BY <1>3, <2>0, <2>2, TotalChange
    <2>5. Total(b) \in Int
        BY TotalType
    <2>6. a.burned = Total(b) - Total(a.bal) /\ a.paid = Total(a.payouts)
        BY DEF Settled, BooksAgree
    <2>7. b[w] \in Int /\ a.bal[w] = b[w] /\ a.payouts[w] = 0
        BY <1>3, <1>8
    <2>8. z.burned = Total(b) - Total(z.bal)
        BY <1>3, <1>6, <1>9, <2>3, <2>5, <2>6, <2>7
    <2>9. z.paid = Total(z.payouts)
        BY <1>6, <1>9, <2>4, <2>6, <2>7
    <2> QED
        BY <2>8, <2>9 DEF BooksAgree
<1>11. OthersKept(z, b, q, N)
    <2> SUFFICES ASSUME NEW i \in Investors, \A m \in N : q[m].who # i
                 PROVE  z.bal[i] = b[i] /\ z.payouts[i] = 0
        BY DEF OthersKept
    <2>1. i # w /\ \A m \in P : q[m].who # i
        BY DEF w
    <2> QED
        BY <1>9, <2>1 DEF Settled, OthersKept
<1>12. \A m \in P : Rest(z, b, q, m) = Rest(a, b, q, m)
    BY <1>2, <1>7, <1>9 DEF Rest
<1>13. Rest(z, b, q, j) = q[j].shares - burn
    <2>1. b[w] \in Int
        BY <1>3
    <2> QED
        BY <1>3, <1>9, <2>1 DEF Rest, w
<1>14. RestBounded(z, b, q, N)
    <2>1. \A m \in P : Rest(z, b, q, m) \in 0 .. q[m].shares
        BY <1>12 DEF Settled, RestBounded
    <2>2. Rest(z, b, q, j) \in 0 .. q[j].shares
        BY <1>3, <1>13
    <2> QED
        BY <2>1, <2>2 DEF RestBounded
<1>15. /\ \A n \in 1 .. Len(a.queue) : \E m \in P :
              Rest(z, b, q, m) > 0 /\ a.queue[n] = [q[m] EXCEPT !.shares = Rest(z, b, q, m)]
       /\ \A m \in P : Rest(z, b, q, m) > 0 =>
              \E n \in 1 .. Len(a.queue) : a.queue[n] = [q[m] EXCEPT !.shares = Rest(z, b, q, m)]
    BY <1>12 DEF Settled, RestQueued
<1>16. Len(a.queue) \in Nat /\ IdsRise(a.queue)
    BY <1>5, LenProperties DEF Settled
<1>17. OkMeans(z, b)
    <2> SUFFICES ASSUME z.ok, NEW i \in Investors
                 PROVE  z.bal[i] >= 0 /\ (z.bal[i] = b[i] => z.payouts[i] = 0)
        BY DEF OkMeans
    <2>1. a.bal[i] >= 0 /\ (a.bal[i] = b[i] => a.payouts[i] = 0)
        BY <1>6 DEF Settled, OkMeans
    <2>2. CASE i # w
        BY <1>9, <2>1, <2>2
    <2>3. CASE i = w
        <3>1. b[w] \in Int /\ b[w] >= 0
            BY <1>3, <1>8, <2>1, <2>3
        <3>2. b[w] - burn >= 0 /\ (burn = 0 => pay = 0)
            BY <1>6, <1>8, <3>1
        <3>3. z.bal[w] = b[w] => burn = 0
            BY <1>3, <1>9, <3>1
        <3> QED
            BY <1>9, <2>3, <3>2, <3>3
    <2> QED
        BY <2>2, <2>3
<1>18. CASE burn = q[j].shares
    <2>1. z.queue = a.queue /\ Rest(z, b, q, j) = 0
        BY <1>3, <1>6, <1>13, <1>18
    <2>2. RestQueued(z, b, q, N)
        BY <1>15, <2>1 DEF RestQueued
    <2> QED
        BY <1>10, <1>11, <1>14, <1>16, <1>17, <2>1, <2>2 DEF Settled
<1>19. CASE burn # q[j].shares
    <2> DEFINE new == [q[j] EXCEPT !.shares = Rest(z, b, q, j)]
               len == Len(a.queue)
    <2>1. Rest(z, b, q, j) > 0 /\ Rest(z, b, q, j) \in Nat \ {0}
        BY <1>3, <1>13, <1>19
    <2>2. new \in Request /\ new.id = q[j].id
        <3>1. q[j] \in Request
            BY <1>1
        <3> QED
            BY <2>1, <3>1 DEF Request
    <2>3. z.queue = Append(a.queue, new)
        BY <1>6, <1>13, <1>19
    <2> HIDE DEF new
    <2>4. /\ Len(z.queue) = len + 1 /\ z.queue[len + 1] = new
          /\ \A n \in 1 .. len : z.queue[n] = a.queue[n]
        BY <1>5, <2>2, <2>3, AppendProperties
    <2>5. RestQueued(z, b, q, N)
        <3>1. ASSUME NEW n \in 1 .. Len(z.queue)
              PROVE  \E m \in N : Rest(z, b, q, m) > 0
                         /\ z.queue[n] = [q[m] EXCEPT !.shares = Rest(z, b, q, m)]
            <4>1. CASE n = len + 1
                BY <2>1, <2>4, <4>1 DEF new
            <4>2. CASE n # len + 1
                <5>1. n \in 1 .. len
                    BY <1>16, <2>4, <4>2
                <5> QED
                    BY <1>15, <2>4, <5>1
            <4> QED
                BY <4>1, <4>2
        <3>2. ASSUME NEW m \in N, Rest(z, b, q, m) > 0
              PROVE  \E n \in 1 .. Len(z.queue) :
                         z.queue[n] = [q[m] EXCEPT !.shares = Rest(z, b, q, m)]
            <4>0. 1 .. len \subseteq 1 .. Len(z.queue) /\ len + 1 \in 1 .. Len(z.queue)
                BY <1>16, <2>4
            <4>1. CASE m = j
                BY <2>4, <4>0, <4>1 DEF new
            <4>2. CASE m # j
                <5>1. PICK n \in 1 .. len : a.queue[n] = [q[m] EXCEPT !.shares = Rest(z, b, q, m)]
                    BY <1>15, <3>2, <4>2
                <5> QED
                    BY <2>4, <4>0, <5>1
            <4> QED
                BY <4>1, <4>2
        <3> QED
            BY <3>1, <3>2 DEF RestQueued
    <2>6. IdsRise(z.queue)
        <3>1. \A n \in 1 .. len : a.queue[n].id < q[j].id
            <4> SUFFICES ASSUME NEW n \in 1 .. len PROVE a.queue[n].id < q[j].id
                OBVIOUS
            <4>1. PICK m \in P : a.queue[n] = [q[m] EXCEPT !.shares = Rest(z, b, q, m)]
                BY <1>15
            <4>2. a.queue[n].id = q[m].id
                BY <1>7, <4>1 DEF Request
            <4> QED
                BY <1>7, <4>2
        <3> SUFFICES ASSUME NEW k \in 1 .. Len(z.queue), NEW m \in 1 .. Len(z.queue), k < m
                     PROVE  z.queue[k].id < z.queue[m].id
            BY DEF IdsRise
        <3>2. k \in 1 .. len
            BY <1>16, <2>4
        <3>3. CASE m = len + 1
            BY <2>2, <2>4, <3>1, <3>2, <3>3
        <3>4. CASE m # len + 1
            <4>1. m \in 1 .. len
                BY <1>16, <2>4, <3>4
            <4> QED
                BY <1>16, <2>4, <3>2, <4>1 DEF IdsRise
        <3> QED
            BY <3>3, <3>4
    <2> QED
        BY <1>10, <1>11, <1>14, <1>17, <2>5, <2>6 DEF Settled
<1> QED
    BY <1>18, <1>19

LEMMA PlacesFinite ==
    ASSUME NEW q \in Seq(Request), NEW C \in SUBSET (1 .. Len(q))
    PROVE  IsFiniteSet(C) /\ Cardinality(C) \in Nat
<1>1. Len(q) \in Nat
    BY LenProperties
<1>2. IsFiniteSet(1 .. Len(q))
    BY <1>1, FS_Interval
<1> QED
    BY <1>2, FS_Subset, FS_CardinalityType

\* The shares at some places, place by place.
LEMMA SharesAddUp ==
    ASSUME NEW q \in Seq(Request), NEW C \in SUBSET (1 .. Len(q))
    PROVE  \E g : /\ g[{}] = 0 /\ g[C] = SharesAt(q, C)
                  /\ \A s \in SUBSET C : g[s] \in Nat
                  /\ \A s \in SUBSET C : \A x \in s : g[s] = q[x].shares + g[s \ {x}]
<1> DEFINE f == [k \in C |-> q[k].shares]
<1>1. \A k \in C : q[k].shares \in Nat \ {0}
    BY ElementOfSeq, RequestFields
<1>2. IsFiniteSet(C)
    BY PlacesFinite
<1>3. f \in [C -> Int]
    BY <1>1
<1>4. SharesAt(q, C) = SumOf(f)
    BY TotalIsSum DEF SharesAt
<1>5. \A k \in C : f[k] = q[k].shares
    OBVIOUS
<1> HIDE DEF f
<1>6. PICK g : AddsUp(g, f, C) /\ SumOf(f) = g[C]
    BY <1>2, <1>3, SumAddsUp
<1>7. /\ g[{}] = 0
      /\ \A s \in SUBSET C : g[s] \in Int
      /\ \A s \in SUBSET C : \A x \in s : g[s] = f[x] + g[s \ {x}]
    BY <1>6 DEF AddsUp
<1>8. \A s \in SUBSET C : \A x \in s : g[s] = q[x].shares + g[s \ {x}]
    BY <1>5, <1>7
<1> DEFINE Q == {s \in SUBSET C : g[s] \in Nat}
<1>9. ASSUME NEW s \in SUBSET C, \A x \in s : s \ {x} \in Q PROVE s \in Q
    <2>1. CASE s = {}
        BY <1>7, <2>1
    <2>2. CASE s # {}
        <3>1. PICK x \in s : TRUE
            BY <2>2
        <3>2. g[s \ {x}] \in Nat /\ q[x].shares \in Nat
            BY <1>1, <1>9, <3>1
        <3>3. g[s] = q[x].shares + g[s \ {x}]
            BY <1>8, <3>1
        <3>4. g[s] \in Nat
            BY <3>2, <3>3
        <3> QED
            BY <3>4
    <2> QED
        BY <2>1, <2>2
<1>10. SUBSET C \subseteq Q
    <2>1. \A s \in SUBSET C : (\A y \in s : s \ {y} \in Q) => s \in Q
        BY <1>9, Zenon
    <2> HIDE DEF Q
    <2> QED
        BY <1>2, <2>1, SubsetInduction
<1>11. \A s \in SUBSET C : g[s] \in Nat
    BY <1>10
<1>12. g[C] = SharesAt(q, C) /\ g[{}] = 0
    BY <1>4, <1>6, <1>7
<1> QED
    BY <1>8, <1>11, <1>12, Zenon

\* A cohort has shares.
LEMMA CohortHasShares ==
    ASSUME NEW q \in Seq(Request), NEW C \in SUBSET (1 .. Len(q)), NEW k \in C
    PROVE  SharesAt(q, C) \in Nat \ {0}
<1>1. PICK g : /\ g[{}] = 0 /\ g[C] = SharesAt(q, C)
               /\ \A s \in SUBSET C : g[s] \in Nat
               /\ \A s \in SUBSET C : \A x \in s : g[s] = q[x].shares + g[s \ {x}]
    BY SharesAddUp
<1>2. q[k].shares \in Nat \ {0}
    BY ElementOfSeq, RequestFields
<1>3. g[C] \in Nat /\ g[C \ {k}] \in Nat /\ g[C] = q[k].shares + g[C \ {k}]
    BY <1>1
<1> QED
    BY <1>1, <1>2, <1>3

\* z is a after the cohort C has been served: everyone has got his part, all of
\* them not more than there was, and if everyone's rounded part is what he got,
\* less than one unit per request has stayed behind.
CohortServed(a, z, q, C, budget, pv, total) ==
    LET left == budget - a.paid
        s == SharesAt(q, C)
    IN  /\ a.paid <= z.paid /\ z.paid <= budget
        /\ \A j \in C : z.payouts[q[j].who] = PaidOf(q[j], left, s, pv, total)
        /\ \A i \in Investors : (\A j \in C : q[j].who # i) => z.payouts[i] = a.payouts[i]
        /\ (/\ C # {}
            /\ \A j \in C : PaidOf(q[j], left, s, pv, total) = (left * q[j].shares) \div s)
             => budget - z.paid < Cardinality(C)

LEMMA CohortFacts ==
    ASSUME NEW q \in Seq(Request), InOrder(q), NEW b \in [Investors -> Int],
           NEW P \in SUBSET (1 .. Len(q)), NEW C \in SUBSET (1 .. Len(q)),
           \A m \in P, k \in C : m < k,
           NEW acc, Settled(acc, b, q, P),
           NEW budget \in Nat, acc.paid <= budget,
           NEW pv \in Int, NEW total \in Nat \ {0}
    PROVE  LET z == SettleCohort(acc, q, C, budget, pv, total)
           IN  Settled(z, b, q, P \cup C) /\ CohortServed(acc, z, q, C, budget, pv, total)
<1> DEFINE left == budget - acc.paid
           s == SharesAt(q, C)
           z == SettleCohort(acc, q, C, budget, pv, total)
           n == Len(q)
           Pay(j) == PaidOf(q[j], left, s, pv, total)
           U(k) == {m \in C : m <= k}
<1>1. n \in Nat /\ \A k \in 1 .. n : q[k] \in Request
    BY LenProperties, ElementOfSeq
<1>2. PICK f : /\ f[0] = acc
               /\ \A k \in 1 .. n : f[k] =
                     IF k \in C
                     THEN SettleRequest(f[k - 1], q[k], left, s, pv, total)
                     ELSE f[k - 1]
               /\ z = f[n]
    BY <1>1, CohortLoop
<1>3. PICK g : /\ g[{}] = 0 /\ g[C] = s
               /\ \A u \in SUBSET C : g[u] \in Nat
               /\ \A u \in SUBSET C : \A x \in u : g[u] = q[x].shares + g[u \ {x}]
    BY SharesAddUp
<1>4. acc \in Progress /\ acc.paid \in Nat /\ left \in Nat
    <2>1. acc \in Progress
        BY DEF Settled
    <2>2. acc.paid \in Nat
        BY <2>1, ProgressFields
    <2> QED
        BY <2>1, <2>2
<1>5. \A k \in C : s \in Nat \ {0} /\ q[k].shares \in Nat \ {0} /\ q[k].who \in Investors
    BY <1>1, CohortHasShares, RequestFields
<1>6. \A k \in C : \A m \in C : m # k => q[m].who # q[k].who
    BY <1>1 DEF InOrder
<1> DEFINE Short == \A j \in C : Pay(j) = (left * q[j].shares) \div s
           Inv(k) == /\ Settled(f[k], b, q, P \cup U(k))
                     /\ acc.paid <= f[k].paid
                     /\ s * (f[k].paid - acc.paid) <= left * g[U(k)]
                     /\ Short => left * g[U(k)] <= s * (f[k].paid - acc.paid)
                                                    + (s - 1) * Cardinality(U(k))
                     /\ \A j \in U(k) : f[k].payouts[q[j].who] = Pay(j)
                     /\ \A i \in Investors :
                           (\A j \in U(k) : q[j].who # i) => f[k].payouts[i] = acc.payouts[i]
           Q == {k \in Nat : k <= n => Inv(k)}
<1>7. s \in Nat
    BY <1>3
<1> HIDE DEF left, s, z, Pay
<1>8. 0 \in Q
    <2>1. U(0) = {} /\ P \cup U(0) = P
        <3>1. \A m \in C : m \in 1 .. n /\ ~(m <= 0)
            BY <1>1
        <3>2. U(0) = {}
            BY <3>1
        <3> QED
            BY <3>2
    <2>2. Cardinality(U(0)) = 0 /\ g[U(0)] = 0
        BY <1>3, <2>1, FS_EmptySet
    <2>3. f[0].paid - acc.paid = 0 /\ acc.paid <= f[0].paid
        BY <1>2, <1>4
    <2> HIDE DEF U
    <2>4. s * (f[0].paid - acc.paid) = 0 /\ left * g[U(0)] = 0 /\ (s - 1) * Cardinality(U(0)) = 0
        BY <1>4, <1>7, <2>2, <2>3
    <2>5. /\ s * (f[0].paid - acc.paid) <= left * g[U(0)]
          /\ left * g[U(0)] <= s * (f[0].paid - acc.paid) + (s - 1) * Cardinality(U(0))
        BY <2>4
    <2>6. Settled(f[0], b, q, P \cup U(0))
        BY <1>2, <2>1, Zenon
    <2>7. /\ \A j \in U(0) : f[0].payouts[q[j].who] = Pay(j)
          /\ \A i \in Investors : f[0].payouts[i] = acc.payouts[i]
        BY <1>2, <2>1, Zenon
    <2>8. Inv(0)
        BY <2>3, <2>5, <2>6, <2>7, Zenon
    <2> QED
        BY <2>8
<1>9. ASSUME NEW k \in Q PROVE k + 1 \in Q
    <2> SUFFICES ASSUME k + 1 <= n PROVE Inv(k + 1)
        OBVIOUS
    <2>1. k \in Nat /\ k + 1 \in 1 .. n /\ (k + 1) - 1 = k /\ Inv(k)
        BY <1>1
    <2> DEFINE j == k + 1
               V == U(k)
    <2>2. f[k] \in Progress /\ f[k].paid \in Nat /\ f[k].payouts \in [Investors -> Nat]
        <3>1. f[k] \in Progress
            BY <2>1 DEF Settled
        <3> QED
            BY <3>1, ProgressFields
    <2>3. CASE j \notin C
        <3>1. f[j] = f[k]
            BY <1>2, <2>1, <2>3
        <3>2. U(j) = U(k)
            <4>1. \A m \in C : m \in Nat /\ m # j
                BY <1>1, <2>3
            <4>2. \A m \in C : m <= j <=> m <= k
                BY <2>1, <4>1
            <4> HIDE DEF j
            <4> QED
                BY <4>2
        <3> HIDE DEF U
        <3> QED
            BY <2>1, <3>1, <3>2
    <2>4. CASE j \in C
        <3>1. f[j] = SettleRequest(f[k], q[j], left, s, pv, total)
            BY <1>2, <2>1, <2>4
        <3>2. /\ s \in Nat \ {0} /\ q[j] \in Request /\ q[j].shares \in Nat \ {0}
              /\ q[j].who \in Investors
            BY <1>1, <1>5, <2>4
        <3>3. /\ Pay(j) \in Nat /\ s * Pay(j) <= left * q[j].shares
              /\ f[j] \in Progress
              /\ \E burn \in 0 .. q[j].shares : Served1(f[k], f[j], q[j], Pay(j), burn)
            <4>1. /\ PaidOf(q[j], left, s, pv, total) \in Nat
                  /\ s * PaidOf(q[j], left, s, pv, total) <= left * q[j].shares
                  /\ SettleRequest(f[k], q[j], left, s, pv, total) \in Progress
                  /\ \E burn \in 0 .. q[j].shares :
                        Served1(f[k], SettleRequest(f[k], q[j], left, s, pv, total), q[j],
                                PaidOf(q[j], left, s, pv, total), burn)
                BY <1>4, <2>2, <3>2, SettleRequestFacts, Zenon
            <4> QED
                BY <3>1, <4>1, Zenon DEF Pay
        <3>4. PICK burn \in 0 .. q[j].shares : Served1(f[k], f[j], q[j], Pay(j), burn)
            BY <3>3
        <3>5. U(j) = V \cup {j} /\ j \notin V /\ U(j) \ {j} = V /\ U(j) \in SUBSET C /\ V \in SUBSET C
            <4>1. \A m \in C : m \in Nat
                BY <1>1
            <4>2. \A m \in C : m <= j <=> m <= k \/ m = j
                BY <2>1, <4>1
            <4>3. ~(j <= k)
                BY <2>1
            <4> QED
                BY <2>4, <4>2, <4>3
        <3>6. \A m \in P \cup V : m < j
            BY <1>1, <2>1, <2>4
        <3>7. P \cup U(j) = (P \cup V) \cup {j} /\ P \cup V \in SUBSET (1 .. n)
            BY <3>5
        <3>8. j \in 1 .. n /\ Settled(f[k], b, q, P \cup V)
            BY <2>1
        <3> HIDE DEF U, j, V
        <3>9. Settled(f[j], b, q, P \cup U(j))
            <4>1. Settled(f[j], b, q, (P \cup V) \cup {j})
                BY <3>3, <3>4, <3>6, <3>7, <3>8, SettledStep, Zenon
            <4> QED
                BY <3>7, <4>1
        <3>10. /\ f[j].paid = f[k].paid + Pay(j)
               /\ f[j].payouts = [f[k].payouts EXCEPT ![q[j].who] = @ + Pay(j)]
            BY <3>4 DEF Served1
        <3>11. /\ s * (f[k].paid - acc.paid) <= left * g[V]
               /\ Short => left * g[V] <= s * (f[k].paid - acc.paid) + (s - 1) * Cardinality(V)
               /\ acc.paid <= f[k].paid
            BY <2>1 DEF V
        <3>12. g[U(j)] = q[j].shares + g[V] /\ g[V] \in Nat
            BY <1>3, <3>5
        <3>13. Cardinality(U(j)) = Cardinality(V) + 1 /\ Cardinality(V) \in Nat
            <4>1. IsFiniteSet(V) /\ Cardinality(V) \in Nat
                <5>1. V \in SUBSET (1 .. Len(q))
                    BY <3>5
                <5> QED
                    BY <5>1, PlacesFinite
            <4> QED
                BY <3>5, <4>1, FS_AddElement
        <3> DEFINE d == f[k].paid - acc.paid
                   p == Pay(j)
                   x == q[j].shares
                   G == g[V]
                   c == Cardinality(V)
        <3>14. d \in Nat /\ p \in Nat /\ x \in Nat \ {0} /\ G \in Nat /\ c \in Nat
               /\ f[j].paid - acc.paid = d + p
            <4>1. d \in Nat
                BY <1>4, <2>2, <3>11
            <4>2. p \in Nat /\ x \in Nat \ {0} /\ G \in Nat /\ c \in Nat
                BY <3>2, <3>3, <3>12, <3>13
            <4>3. f[j].paid = f[k].paid + p
                BY <3>10
            <4> HIDE DEF p
            <4>4. f[j].paid - acc.paid = d + p
                BY <1>4, <2>2, <4>2, <4>3
            <4> QED
                BY <4>1, <4>2, <4>4
        <3>15. s * d <= left * G /\ s * p <= left * x
            BY <3>3, <3>11
        <3>16. Short => left * G <= s * d + (s - 1) * c
            BY <3>11
        <3>17. p = (left * x) \div s => left * x <= s * p + (s - 1)
            <4>1. left * x \in Nat
                BY <1>4, <3>14, ProductInNat
            <4>2. left * x < s * ((left * x) \div s) + s
                BY <3>2, <4>1, QuotientBounds
            <4> HIDE DEF p, x
            <4> SUFFICES ASSUME p = (left * x) \div s PROVE left * x <= s * p + (s - 1)
                OBVIOUS
            <4>3. left * x < s * p + s /\ s * p \in Nat
                BY <3>2, <3>14, <4>2, ProductInNat
            <4> QED
                BY <3>2, <4>1, <4>3
        <3>18. Short => p = (left * x) \div s
            BY <2>4 DEF j
        <3> HIDE DEF d, p, x, G, c, Short
        <3>19. /\ s * (d + p) = s * d + s * p
               /\ left * (x + G) = left * x + left * G
               /\ (s - 1) * (c + 1) = (s - 1) * c + (s - 1)
            <4>1. s * (d + p) = s * d + s * p
                BY <1>7, <3>14
            <4>2. left * (x + G) = left * x + left * G
                BY <1>4, <3>14
            <4>3. s - 1 \in Nat
                BY <3>2
            <4>4. (s - 1) * (c + 1) = (s - 1) * c + (s - 1)
                BY <3>14, <4>3
            <4> QED
                BY <4>1, <4>2, <4>4
        <3>20. /\ s * d \in Nat /\ s * p \in Nat /\ left * x \in Nat /\ left * G \in Nat
               /\ (s - 1) * c \in Nat /\ s - 1 \in Nat
            <4>1. s - 1 \in Nat
                BY <3>2
            <4> QED
                BY <1>4, <1>7, <3>14, <4>1, ProductInNat
        <3>21. s * (d + p) <= left * (x + G)
            BY <3>15, <3>19, <3>20
        <3>22. Short => left * (x + G) <= s * (d + p) + (s - 1) * (c + 1)
            BY <3>16, <3>17, <3>18, <3>19, <3>20
        <3>23. /\ acc.paid <= f[j].paid
               /\ s * (f[j].paid - acc.paid) <= left * g[U(j)]
               /\ Short => left * g[U(j)] <= s * (f[j].paid - acc.paid)
                                                + (s - 1) * Cardinality(U(j))
            <4>1. acc.paid <= f[j].paid
                BY <1>4, <2>2, <3>3, <3>10, <3>11
            <4>2. f[j].paid - acc.paid = d + p /\ g[U(j)] = x + G /\ Cardinality(U(j)) = c + 1
                BY <3>12, <3>13, <3>14 DEF x, G, c
            <4> QED
                BY <3>21, <3>22, <4>1, <4>2
        <3>24. ASSUME NEW m \in U(j) PROVE f[j].payouts[q[m].who] = Pay(m)
            <4>1. CASE m = j
                <5>1. f[k].payouts[q[j].who] = 0
                    <6>1. \A y \in P \cup V : q[y].who # q[j].who
                        BY <1>1, <3>6, <3>7, <3>8 DEF InOrder
                    <6> QED
                        BY <3>2, <3>8, <6>1 DEF Settled, OthersKept
                <5>2. f[j].payouts[q[j].who] = f[k].payouts[q[j].who] + Pay(j)
                    BY <2>2, <3>2, <3>10
                <5> QED
                    BY <3>3, <4>1, <5>1, <5>2
            <4>2. CASE m # j
                <5>1. m \in V /\ q[m].who # q[j].who /\ q[m].who \in Investors
                    BY <1>5, <1>6, <2>4, <3>5, <4>2 DEF j
                <5>2. f[k].payouts[q[m].who] = Pay(m)
                    BY <2>1, <5>1 DEF V
                <5> QED
                    BY <2>2, <3>2, <3>10, <5>1, <5>2
            <4> QED
                BY <4>1, <4>2
        <3>25. ASSUME NEW i \in Investors, \A m \in U(j) : q[m].who # i
               PROVE  f[j].payouts[i] = acc.payouts[i]
            <4>1. q[j].who # i /\ \A m \in V : q[m].who # i
                BY <3>5, <3>25
            <4>2. f[k].payouts[i] = acc.payouts[i]
                BY <2>1, <4>1 DEF V
            <4> QED
                BY <2>2, <3>2, <3>10, <4>1, <4>2
        <3> QED
            BY <3>9, <3>23, <3>24, <3>25 DEF j
    <2> QED
        BY <2>3, <2>4
<1>10. Inv(n)
    <2> HIDE DEF Inv
    <2>0. Q \in SUBSET Nat
        OBVIOUS
    <2>1. n \in Q
        <3> HIDE DEF Q
        <3>1. Nat \subseteq Q
            BY <1>8, <1>9, <2>0, CountingUp
        <3> QED
            BY <1>1, <3>1
    <2>2. n <= n
        BY <1>1
    <2> QED
        BY <2>1, <2>2
<1>11. U(n) = C
    <2>1. \A m \in C : m <= n
        BY <1>1
    <2> QED
        BY <2>1
<1>12. /\ Settled(z, b, q, P \cup C) /\ acc.paid <= z.paid
       /\ s * (z.paid - acc.paid) <= left * s
       /\ Short => left * s <= s * (z.paid - acc.paid) + (s - 1) * Cardinality(C)
       /\ \A j \in C : z.payouts[q[j].who] = Pay(j)
       /\ \A i \in Investors : (\A j \in C : q[j].who # i) => z.payouts[i] = acc.payouts[i]
    BY <1>2, <1>3, <1>10, <1>11
<1> HIDE DEF U, Q, Inv, Short
<1>13. z.paid \in Nat
    BY <1>12, ProgressFields DEF Settled
<1>14. z.paid <= budget
    <2>1. CASE C = {}
        <3>1. \A k \in 1 .. n : f[k] = f[k - 1]
            BY <1>2, <2>1
        <3> DEFINE R == {k \in Nat : k <= n => f[k] = acc}
        <3>2. 0 \in R
            BY <1>2
        <3>3. ASSUME NEW k \in R PROVE k + 1 \in R
            BY <1>1, <3>1
        <3>4. n \in R
            <4> HIDE DEF R
            <4>1. R \in SUBSET Nat
                BY DEF R
            <4> QED
                BY <1>1, <3>2, <3>3, <4>1, CountingUp
        <3>5. z = acc
            BY <1>1, <1>2, <3>4
        <3> QED
            BY <3>5
    <2>2. CASE C # {}
        <3>1. s \in Nat \ {0}
            BY <1>5, <2>2
        <3> DEFINE e == z.paid - acc.paid
        <3>2. e \in Nat
            BY <1>4, <1>12, <1>13
        <3>3. s * e <= left * s
            BY <1>12
        <3> HIDE DEF e
        <3>4. e <= left
            <4> SUFFICES ASSUME left < e PROVE FALSE
                BY <1>4, <3>2
            <4>1. s * (e - left) \in Nat /\ s * (e - left) # 0
                <5> DEFINE t == e - left
                <5>1. t \in Nat \ {0}
                    BY <1>4, <3>2
                <5> HIDE DEF t
                <5>2. s * t \in Nat /\ s * t > 0
                    BY <3>1, <5>1
                <5> QED
                    BY <5>2 DEF t
            <4>2. s * (e - left) = s * e - left * s
                BY <1>4, <3>1, <3>2
            <4>3. s * e \in Nat /\ left * s \in Nat
                BY <1>4, <3>1, <3>2, ProductInNat
            <4> QED
                BY <3>3, <4>1, <4>2, <4>3
        <3> QED
            BY <1>4, <1>13, <3>4 DEF e, left
    <2> QED
        BY <2>1, <2>2
<1>15. (C # {} /\ Short) => budget - z.paid < Cardinality(C)
    <2> SUFFICES ASSUME C # {}, Short PROVE budget - z.paid < Cardinality(C)
        OBVIOUS
    <2>1. s \in Nat \ {0}
        BY <1>5
    <2>2. Cardinality(C) \in Nat \ {0}
        <3>1. IsFiniteSet(C) /\ Cardinality(C) \in Nat
            BY PlacesFinite
        <3> QED
            BY <3>1, FS_EmptySet
    <2> DEFINE e == z.paid - acc.paid
               c == Cardinality(C)
    <2>3. e \in Nat /\ left * s <= s * e + (s - 1) * c
        BY <1>4, <1>12, <1>13
    <2>4. c \in Nat \ {0}
        BY <2>2
    <2> HIDE DEF e, c
    <2>5. /\ (s - 1) * c = s * c - c /\ s * (e + c) = s * e + s * c /\ left * s = s * left
          /\ s * e \in Nat /\ s * c \in Nat /\ s * left \in Nat
        <3>1. (s - 1) * c = s * c - c
            BY <2>1, <2>4
        <3>2. s * (e + c) = s * e + s * c
            BY <2>1, <2>3, <2>4
        <3>3. left * s = s * left
            BY <1>4, <2>1
        <3>4. s * e \in Nat /\ s * c \in Nat /\ s * left \in Nat
            BY <1>4, <2>1, <2>3, <2>4, ProductInNat
        <3> QED
            BY <3>1, <3>2, <3>3, <3>4
    <2>6. s * left < s * (e + c)
        BY <2>3, <2>4, <2>5
    <2>7. left < e + c
        BY <1>4, <2>1, <2>3, <2>4, <2>6, CancelFactor
    <2>8. budget - z.paid = left - e /\ left \in Nat
        BY <1>4, <1>13 DEF left, e
    <2> QED
        BY <2>3, <2>4, <2>7, <2>8 DEF c
<1> QED
    BY <1>12, <1>14, <1>15 DEF CohortServed, z, s, left, Pay, Short

Older(q, t) == {k \in Served(q) : q[k].at < t}

\* Nobody has asked after now.
AskedByNow(q) == \A k \in 1 .. Len(q) : q[k].at <= now

LEMMA ServedPlaces ==
    ASSUME NEW q \in Seq(Request), InOrder(q), now \in Nat
    PROVE  /\ Served(q) \in SUBSET (1 .. Len(q))
           /\ \A t : Cohort(q, t) \in SUBSET (1 .. Len(q)) /\ Older(q, t) \in SUBSET (1 .. Len(q))
           /\ \A t \in Nat : \A m \in Older(q, t), k \in Cohort(q, t) : m < k
           /\ \A m \in Served(q), k \in 1 .. Len(q) : k \notin Served(q) => m < k
<1>1. DOMAIN q = 1 .. Len(q) /\ Len(q) \in Nat /\ \A k \in 1 .. Len(q) : q[k].at \in Nat
    BY LenProperties, ElementOfSeq, RequestFields
<1> DEFINE aged == {k \in DOMAIN q : MaxQueueAge > 0 /\ now >= q[k].at + MaxQueueAge}
<1>2. Served(q) = IF aged = {} THEN DOMAIN q ELSE aged
    BY DEF Served
<1>3. Served(q) \in SUBSET (1 .. Len(q))
    BY <1>1, <1>2
<1>4. \A k, m \in 1 .. Len(q) : q[m].at < q[k].at => m < k
    <2> SUFFICES ASSUME NEW k \in 1 .. Len(q), NEW m \in 1 .. Len(q), q[m].at < q[k].at, ~(m < k)
                 PROVE  FALSE
        OBVIOUS
    <2>1. k = m \/ k < m
        BY <1>1
    <2>2. k < m => q[k].at <= q[m].at
        BY DEF InOrder
    <2> QED
        BY <1>1, <2>1, <2>2
<1>5. ASSUME NEW t \in Nat, NEW m \in Older(q, t), NEW k \in Cohort(q, t) PROVE m < k
    <2>1. m \in 1 .. Len(q) /\ k \in 1 .. Len(q) /\ q[m].at < q[k].at
        BY <1>3 DEF Older, Cohort
    <2> QED
        BY <1>4, <2>1
<1>6. ASSUME NEW m \in Served(q), NEW k \in 1 .. Len(q), k \notin Served(q) PROVE m < k
    <2>1. Served(q) = aged
        BY <1>1, <1>2, <1>6
    <2>2. /\ MaxQueueAge > 0 /\ now >= q[m].at + MaxQueueAge /\ m \in 1 .. Len(q)
          /\ ~(now >= q[k].at + MaxQueueAge)
        BY <1>1, <1>6, <2>1
    <2>3. q[m].at < q[k].at
        BY <1>1, <2>2, SharesAssumption
    <2> QED
        BY <1>4, <2>2, <2>3
<1> QED
    BY <1>3, <1>5, <1>6 DEF Cohort, Older

LEMMA StartSettled ==
    ASSUME NEW q \in Seq(Request), NEW b \in [Investors -> Nat], NEW c \in Int
    PROVE  Settled(SettlementStart(b, c), b, q, {})
<1> DEFINE a == SettlementStart(b, c)
           zero == [i \in Investors |-> 0]
<1>1. a = [ok |-> TRUE, cash |-> c, paid |-> 0, burned |-> 0, bal |-> b,
           payouts |-> zero, queue |-> <<>>]
    BY DEF SettlementStart
<1>2. zero \in [Investors -> Nat] /\ \A i \in Investors : zero[i] = 0
    OBVIOUS
<1>3. Total(zero) = 0
    BY SumOfZero, TotalIsSum, SharesAssumption
<1>4. b \in [Investors -> Int]
    OBVIOUS
<1>5. Total(b) \in Int
    BY <1>4, TotalType
<1> HIDE DEF a, zero
<1>6. <<>> \in Seq(Request) /\ Len(<<>>) = 0
    BY EmptySeq
<1>7. a \in Progress
    BY <1>1, <1>2, <1>4, <1>6 DEF Progress
<1>8. a.ok = TRUE /\ a.paid = 0 /\ a.burned = 0 /\ a.bal = b /\ a.payouts = zero /\ a.queue = <<>>
    BY <1>1
<1>9. BooksAgree(a, b)
    BY <1>3, <1>5, <1>8 DEF BooksAgree
<1>10. OthersKept(a, b, q, {}) /\ RestBounded(a, b, q, {})
    BY <1>2, <1>8 DEF OthersKept, RestBounded
<1>11. RestQueued(a, b, q, {}) /\ IdsRise(a.queue)
    <2>1. 1 .. Len(a.queue) = {}
        BY <1>6, <1>8
    <2> QED
        BY <2>1 DEF RestQueued, IdsRise
<1>12. OkMeans(a, b)
    BY <1>2, <1>8 DEF OkMeans
<1> QED
    BY <1>7, <1>9, <1>10, <1>11, <1>12 DEF Settled, a

\* The cohorts, the oldest first.  f[t] is what has been done when those of
\* before t have been served.
CohortsServed(f, q, budget, b, total, pv) ==
    /\ \A t \in 0 .. now + 1 : Settled(f[t], b, q, Older(q, t)) /\ f[t].paid <= budget
    /\ \A t \in 0 .. now : CohortServed(f[t], f[t + 1], q, Cohort(q, t), budget, pv, total)
    /\ \A t \in 0 .. now + 1 : \A i \in Investors :
          (\A j \in Served(q) : q[j].who = i => q[j].at < t)
             => f[now + 1].payouts[i] = f[t].payouts[i]

LEMMA CohortsFacts ==
    ASSUME NEW q \in Seq(Request), InOrder(q), now \in Nat,
           NEW b \in [Investors -> Nat], NEW c \in Int,
           NEW budget \in Nat, NEW pv \in Int, NEW total \in Nat \ {0}
    PROVE  \E f : /\ SettleCohorts(q, budget, b, total, pv, c) = f[now + 1]
                  /\ CohortsServed(f, q, budget, b, total, pv)
<1>1. PICK f : /\ f[0] = SettlementStart(b, c)
               /\ \A t \in 1 .. now + 1 : f[t] =
                     SettleCohort(f[t - 1], q, Cohort(q, t - 1), budget, pv, total)
               /\ SettleCohorts(q, budget, b, total, pv, c) = f[now + 1]
    BY CohortsLoop
<1>2. b \in [Investors -> Int]
    OBVIOUS
<1>3. \A t \in 0 .. now : f[t + 1] = SettleCohort(f[t], q, Cohort(q, t), budget, pv, total)
    <2> SUFFICES ASSUME NEW t \in 0 .. now
                 PROVE  f[t + 1] = SettleCohort(f[t], q, Cohort(q, t), budget, pv, total)
        OBVIOUS
    <2>1. t + 1 \in 1 .. now + 1 /\ (t + 1) - 1 = t
        OBVIOUS
    <2> QED
        BY <1>1, <2>1
<1> DEFINE Reached(t) == Settled(f[t], b, q, Older(q, t)) /\ f[t].paid <= budget
<1>4. ASSUME NEW t \in 0 .. now, Reached(t)
      PROVE  /\ Settled(f[t + 1], b, q, Older(q, t) \cup Cohort(q, t))
             /\ CohortServed(f[t], f[t + 1], q, Cohort(q, t), budget, pv, total)
    <2>1. /\ Cohort(q, t) \in SUBSET (1 .. Len(q)) /\ Older(q, t) \in SUBSET (1 .. Len(q))
          /\ \A m \in Older(q, t), k \in Cohort(q, t) : m < k
        BY ServedPlaces
    <2>2. f[t + 1] = SettleCohort(f[t], q, Cohort(q, t), budget, pv, total)
        BY <1>3
    <2>3. Settled(f[t], b, q, Older(q, t)) /\ f[t].paid <= budget
        BY <1>4
    <2>4. LET z == SettleCohort(f[t], q, Cohort(q, t), budget, pv, total)
          IN  /\ Settled(z, b, q, Older(q, t) \cup Cohort(q, t))
              /\ CohortServed(f[t], z, q, Cohort(q, t), budget, pv, total)
        BY <1>2, <2>1, <2>3, CohortFacts, Zenon
    <2> QED
        BY <2>2, <2>4
<1> DEFINE Q == {t \in Nat : t <= now + 1 => Reached(t)}
<1>5. 0 \in Q
    <2>1. Older(q, 0) = {}
        <3>1. \A k \in 1 .. Len(q) : q[k].at \in Nat
            BY ElementOfSeq, RequestFields
        <3>2. Served(q) \in SUBSET (1 .. Len(q))
            BY ServedPlaces
        <3> QED
            BY <3>1, <3>2 DEF Older
    <2>2. Settled(f[0], b, q, Older(q, 0))
        BY <1>1, <2>1, StartSettled
    <2>3. f[0].paid = 0
        BY <1>1 DEF SettlementStart
    <2> QED
        BY <2>2, <2>3
<1>6. ASSUME NEW t \in Q PROVE t + 1 \in Q
    <2> SUFFICES ASSUME t + 1 <= now + 1 PROVE Reached(t + 1)
        OBVIOUS
    <2>1. t \in 0 .. now /\ Reached(t)
        OBVIOUS
    <2>2. Older(q, t + 1) = Older(q, t) \cup Cohort(q, t)
        <3>1. \A k \in Served(q) : q[k].at \in Nat
            BY ServedPlaces, ElementOfSeq, RequestFields
        <3>2. \A k \in Served(q) : q[k].at < t + 1 <=> q[k].at < t \/ q[k].at = t
            BY <2>1, <3>1
        <3> QED
            BY <3>2 DEF Older, Cohort
    <2> HIDE DEF Reached
    <2>3. Settled(f[t + 1], b, q, Older(q, t) \cup Cohort(q, t)) /\ f[t + 1].paid <= budget
        BY <1>4, <2>1 DEF CohortServed
    <2> QED
        BY <2>2, <2>3 DEF Reached
<1> HIDE DEF Reached
<1>7. \A t \in 0 .. now + 1 : Reached(t)
    <2>0. Q \in SUBSET Nat
        OBVIOUS
    <2>1. Nat \subseteq Q
        <3> HIDE DEF Q
        <3> QED
            BY <1>5, <1>6, <2>0, CountingUp
    <2> QED
        BY <2>1
<1> HIDE DEF Q
<1> DEFINE Before(i, t) == \A j \in Served(q) : q[j].who = i => q[j].at < t
           R == {t \in Nat : t <= now + 1 => \A u \in 0 .. t : \A i \in Investors :
                                Before(i, u) => f[t].payouts[i] = f[u].payouts[i]}
<1>8. 0 \in R
    <2>1. \A u \in 0 .. 0 : u = 0
        OBVIOUS
    <2> QED
        BY <2>1
<1>9. ASSUME NEW t \in R PROVE t + 1 \in R
    <2> SUFFICES ASSUME t + 1 <= now + 1, NEW u \in 0 .. t + 1, NEW i \in Investors, Before(i, u)
                 PROVE  f[t + 1].payouts[i] = f[u].payouts[i]
        OBVIOUS
    <2>1. t \in 0 .. now /\ t \in 0 .. now + 1
        OBVIOUS
    <2>2. CASE u = t + 1
        BY <2>2
    <2>3. CASE u # t + 1
        <3>1. u \in 0 .. t
            BY <2>3
        <3>2. f[t].payouts[i] = f[u].payouts[i]
            BY <2>1, <3>1
        <3>3. \A j \in Cohort(q, t) : q[j].who # i
            <4> SUFFICES ASSUME NEW j \in Cohort(q, t), q[j].who = i PROVE FALSE
                OBVIOUS
            <4>1. q[j].at < u /\ q[j].at = t
                BY DEF Cohort
            <4> QED
                BY <3>1, <4>1
        <3>4. f[t + 1].payouts[i] = f[t].payouts[i]
            BY <1>4, <1>7, <2>1, <3>3 DEF CohortServed
        <3> QED
            BY <3>2, <3>4
    <2> QED
        BY <2>2, <2>3
<1>10. \A t \in 0 .. now + 1 : \A i \in Investors :
          Before(i, t) => f[now + 1].payouts[i] = f[t].payouts[i]
    <2>0. R \in SUBSET Nat
        OBVIOUS
    <2>1. now + 1 \in R
        <3> HIDE DEF R
        <3>1. Nat \subseteq R
            BY <1>8, <1>9, <2>0, CountingUp
        <3> QED
            BY <3>1
    <2> HIDE DEF Before
    <2> QED
        BY <2>1
<1>11. CohortsServed(f, q, budget, b, total, pv)
    <2>1. \A t \in 0 .. now + 1 : Settled(f[t], b, q, Older(q, t)) /\ f[t].paid <= budget
        BY <1>7 DEF Reached
    <2>2. ASSUME NEW t \in 0 .. now
          PROVE  CohortServed(f[t], f[t + 1], q, Cohort(q, t), budget, pv, total)
        <3>1. t \in 0 .. now + 1
            OBVIOUS
        <3> QED
            BY <1>4, <1>7, <3>1
    <2> QED
        BY <1>10, <2>1, <2>2, Zenon DEF CohortsServed
<1> QED
    BY <1>1, <1>11

\* The requests that are not served are put back behind the others, as they are.
LEMMA PutBackFacts ==
    ASSUME NEW q \in Seq(Request), InOrder(q), now \in Nat, NEW b \in [Investors -> Int],
           NEW a, Settled(a, b, q, Served(q))
    PROVE  Settled([a EXCEPT !.queue = PutBack(@, q, Served(q))], b, q, 1 .. Len(q))
<1> DEFINE n == Len(q)
           S == Served(q)
           Z(w) == [a EXCEPT !.queue = w]
           U(k) == S \cup (1 .. k)
<1>1. n \in Nat /\ \A k \in 1 .. n : q[k] \in Request /\ q[k].shares \in Nat \ {0} /\ q[k].who \in Investors
    BY LenProperties, ElementOfSeq, RequestFields
<1>2. a \in Progress /\ a.queue \in Seq(Request)
    BY ProgressFields DEF Settled
<1>3. PICK f : /\ f[0] = a.queue
               /\ \A k \in 1 .. n : f[k] = PutBackAt(f[k - 1], q, S, k)
               /\ PutBack(a.queue, q, S) = f[n]
    BY <1>1, PutBackLoop
<1>4. S \in SUBSET (1 .. n) /\ \A m \in S, k \in 1 .. n : k \notin S => m < k
    BY ServedPlaces
<1> HIDE DEF S
<1> DEFINE Q == {k \in Nat : k <= n => f[k] \in Seq(Request) /\ Settled(Z(f[k]), b, q, U(k))}
<1>5. 0 \in Q
    <2>1. U(0) = S
        <3>1. 1 .. 0 = {}
            OBVIOUS
        <3> QED
            BY <3>1
    <2>2. Z(f[0]) = a
        BY <1>2, <1>3 DEF Progress
    <2> HIDE DEF Z, U
    <2> QED
        BY <1>2, <1>3, <2>1, <2>2 DEF S
<1>6. ASSUME NEW k \in Q PROVE k + 1 \in Q
    <2> DEFINE j == k + 1
    <2> HIDE DEF Z, U
    <2> SUFFICES ASSUME j <= n PROVE f[j] \in Seq(Request) /\ Settled(Z(f[j]), b, q, U(j))
        OBVIOUS
    <2>1. k \in Nat /\ j \in 1 .. n /\ j - 1 = k /\ f[k] \in Seq(Request) /\ Settled(Z(f[k]), b, q, U(k))
        BY <1>1
    <2> USE DEF Z, U
    <2>2. U(j) = U(k) \cup {j} /\ U(k) \in SUBSET (1 .. n)
        <3>1. 1 .. j = (1 .. k) \cup {j}
            BY <2>1
        <3>2. 1 .. k \subseteq 1 .. n
            BY <1>1, <2>1
        <3> QED
            BY <1>4, <3>1, <3>2
    <2>3. CASE j \in S
        <3>1. U(j) = U(k)
            BY <2>2, <2>3
        <3>2. f[j] = f[k]
            BY <1>3, <2>1, <2>3 DEF PutBackAt
        <3> HIDE DEF U, Z
        <3> QED
            BY <2>1, <3>1, <3>2
    <2>4. CASE j \notin S
        <3>1. f[j] = Append(f[k], q[j]) /\ q[j] \in Request
            BY <1>1, <1>3, <2>1, <2>4 DEF PutBackAt
        <3>2. f[j] \in Seq(Request)
            BY <2>1, <3>1
        <3>3. \A m \in U(k) : m < j
            BY <1>4, <2>1, <2>4
        <3>4. /\ Z(f[j]) \in Progress /\ Z(f[k]) \in Progress
            BY <1>2, <2>1, <3>2 DEF Progress
        <3>5. /\ Z(f[j]).ok = a.ok /\ Z(f[j]).paid = a.paid /\ Z(f[j]).burned = a.burned
              /\ Z(f[j]).bal = a.bal /\ Z(f[j]).payouts = a.payouts /\ Z(f[j]).queue = f[j]
            BY <1>2 DEF Progress
        <3>6. /\ Z(f[k]).ok = a.ok /\ Z(f[k]).paid = a.paid /\ Z(f[k]).burned = a.burned
              /\ Z(f[k]).bal = a.bal /\ Z(f[k]).payouts = a.payouts /\ Z(f[k]).queue = f[k]
            BY <1>2 DEF Progress
        <3>7. /\ q[j].shares \in Nat \ {0} /\ q[j].who \in Investors
              /\ a.bal \in [Investors -> Int] /\ a.payouts \in [Investors -> Nat]
              /\ a.paid \in Nat /\ a.burned \in Nat
            BY <1>1, <1>2, <2>1, ProgressFields
        <3> HIDE DEF Z, U, j
        <3>11. Served1(Z(f[k]), Z(f[j]), q[j], 0, 0)
            BY <3>1, <3>4, <3>5, <3>6, NothingServed
        <3>12. 0 \in 0 .. q[j].shares /\ 0 \in Nat
            BY <3>7
        <3>13. Settled(Z(f[j]), b, q, U(k) \cup {j})
            BY <2>1, <2>2, <3>3, <3>4, <3>11, <3>12, SettledStep, Zenon
        <3> QED
            BY <2>2, <3>2, <3>13
    <2> QED
        BY <2>3, <2>4
<1>7. n \in Q
    <2>0. Q \in SUBSET Nat
        OBVIOUS
    <2> HIDE DEF Q
    <2>1. Nat \subseteq Q
        BY <1>5, <1>6, <2>0, CountingUp
    <2> QED
        BY <1>1, <2>1
<1>8. U(n) = 1 .. n
    BY <1>4
<1>9. Settled(Z(f[n]), b, q, 1 .. n)
    <2> HIDE DEF Z, U
    <2>1. n <= n
        BY <1>1
    <2> QED
        BY <1>7, <1>8, <2>1
<1> QED
    BY <1>3, <1>9 DEF S

\* A settlement with nothing to do leaves everything as it is.
LEMMA IdleSettled ==
    ASSUME NEW q \in Seq(Request), InOrder(q), NEW b \in [Investors -> Nat], NEW c \in Int
    PROVE  LET z == [SettlementStart(b, c) EXCEPT !.queue = q]
           IN  Settled(z, b, q, 1 .. Len(q)) /\ z.paid = 0
<1> DEFINE a == SettlementStart(b, c)
           z == [a EXCEPT !.queue = q]
           n == Len(q)
<1>1. Settled(a, b, q, {})
    BY StartSettled
<1>2. a \in Progress
    BY <1>1 DEF Settled
<1>3. a.bal = b /\ a.paid = 0
    BY DEF SettlementStart
<1> HIDE DEF a
<1>4. /\ z \in Progress /\ z.ok = a.ok /\ z.paid = a.paid /\ z.burned = a.burned
      /\ z.bal = a.bal /\ z.payouts = a.payouts /\ z.queue = q
    BY <1>2 DEF Progress
<1> HIDE DEF z
<1>5. n \in Nat /\ \A k \in 1 .. n : q[k] \in Request /\ q[k].shares \in Nat \ {0} /\ q[k].who \in Investors
    BY LenProperties, ElementOfSeq, RequestFields
<1>6. BooksAgree(z, b) /\ OkMeans(z, b)
    BY <1>1, <1>4 DEF Settled, BooksAgree, OkMeans
<1>7. OthersKept(z, b, q, 1 .. n)
    BY <1>1, <1>4 DEF Settled, OthersKept
<1>8. \A j \in 1 .. n : Rest(z, b, q, j) = q[j].shares
    <2> SUFFICES ASSUME NEW j \in 1 .. n PROVE Rest(z, b, q, j) = q[j].shares
        OBVIOUS
    <2>1. z.bal[q[j].who] = b[q[j].who] /\ b[q[j].who] \in Nat
        BY <1>3, <1>4, <1>5
    <2> QED
        BY <1>5, <2>1 DEF Rest
<1>9. RestBounded(z, b, q, 1 .. n)
    BY <1>5, <1>8 DEF RestBounded
<1>10. \A j \in 1 .. n : [q[j] EXCEPT !.shares = Rest(z, b, q, j)] = q[j] /\ Rest(z, b, q, j) > 0
    <2> SUFFICES ASSUME NEW j \in 1 .. n
                 PROVE  [q[j] EXCEPT !.shares = Rest(z, b, q, j)] = q[j] /\ Rest(z, b, q, j) > 0
        OBVIOUS
    <2>1. q[j] \in Request /\ Rest(z, b, q, j) = q[j].shares
        BY <1>5, <1>8
    <2>2. [q[j] EXCEPT !.shares = q[j].shares] = q[j]
        BY <2>1 DEF Request
    <2> QED
        BY <1>5, <2>1, <2>2
<1>11. RestQueued(z, b, q, 1 .. n)
    BY <1>4, <1>10 DEF RestQueued
<1>12. IdsRise(z.queue)
    BY <1>4 DEF InOrder, IdsRise
<1> QED
    BY <1>3, <1>4, <1>6, <1>7, <1>9, <1>11, <1>12 DEF Settled, z, a

\* What a settlement does, whatever it is given: it treats the whole queue and
\* pays out no more than the budget.
LEMMA SettlementFacts ==
    ASSUME NEW q \in Seq(Request), InOrder(q), AskedByNow(q), now \in Nat,
           NEW b \in [Investors -> Nat], NEW c \in Int,
           NEW budget \in Int, NEW pv \in Int, NEW total \in Int
    PROVE  LET r == Settlement(q, budget, b, total, pv, c)
           IN  Settled(r, b, q, 1 .. Len(q)) /\ r.paid <= IF budget > 0 THEN budget ELSE 0
<1> DEFINE r == Settlement(q, budget, b, total, pv, c)
           s == SettleCohorts(q, budget, b, total, pv, c)
<1>1. CASE q = <<>> \/ budget <= 0 \/ total <= 0
    <2>1. r = [SettlementStart(b, c) EXCEPT !.queue = q]
        BY <1>1 DEF Settlement
    <2>2. Settled(r, b, q, 1 .. Len(q)) /\ r.paid = 0
        BY <2>1, IdleSettled
    <2> QED
        BY <2>2
<1>2. CASE ~(q = <<>> \/ budget <= 0 \/ total <= 0)
    <2>1. r = [s EXCEPT !.queue = PutBack(@, q, Served(q))]
        BY <1>2 DEF Settlement
    <2>2. budget \in Nat /\ total \in Nat \ {0}
        BY <1>2
    <2>3. PICK f : s = f[now + 1] /\ CohortsServed(f, q, budget, b, total, pv)
        BY <2>2, CohortsFacts
    <2>4. Older(q, now + 1) = Served(q)
        <3>1. \A k \in Served(q) : q[k].at < now + 1
            <4>1. \A k \in Served(q) : k \in 1 .. Len(q) /\ q[k].at \in Nat /\ q[k].at <= now
                BY ServedPlaces, ElementOfSeq, RequestFields DEF AskedByNow
            <4> QED
                BY <4>1
        <3> QED
            BY <3>1 DEF Older
    <2>5. Settled(s, b, q, Served(q)) /\ s.paid <= budget
        <3>1. now + 1 \in 0 .. now + 1
            OBVIOUS
        <3> QED
            BY <2>3, <2>4, <3>1 DEF CohortsServed
    <2> HIDE DEF s
    <2>6. b \in [Investors -> Int]
        OBVIOUS
    <2>7. Settled(r, b, q, 1 .. Len(q))
        BY <2>1, <2>5, <2>6, PutBackFacts
    <2>8. r.paid = s.paid
        <3>1. s \in Progress
            BY <2>5 DEF Settled
        <3> QED
            BY <2>1, <3>1 DEF Progress
    <2> QED
        BY <2>2, <2>5, <2>7, <2>8
<1> QED
    BY <1>1, <1>2

-----------------------------------------------------------------------------
(* The queued shares, investor by investor *)

QueuedBy(q) ==
    [i \in Investors |->
        IF \E k \in 1 .. Len(q) : q[k].who = i
        THEN q[CHOOSE k \in 1 .. Len(q) : q[k].who = i].shares ELSE 0]

LEMMA QueuedByFacts ==
    ASSUME NEW q \in Seq(Request), InOrder(q)
    PROVE  /\ QueuedBy(q) \in [Investors -> Nat]
           /\ \A k \in 1 .. Len(q) : QueuedBy(q)[q[k].who] = q[k].shares
           /\ \A i \in Investors : (\A k \in 1 .. Len(q) : q[k].who # i) => QueuedBy(q)[i] = 0
<1> DEFINE At(i) == CHOOSE k \in 1 .. Len(q) : q[k].who = i
<1>1. Len(q) \in Nat /\ \A k \in 1 .. Len(q) : q[k].shares \in Nat /\ q[k].who \in Investors
    BY LenProperties, ElementOfSeq, RequestFields
<1>2. ASSUME NEW k \in 1 .. Len(q) PROVE At(q[k].who) = k
    <2>1. At(q[k].who) \in 1 .. Len(q) /\ q[At(q[k].who)].who = q[k].who
        OBVIOUS
    <2> DEFINE m == At(q[k].who)
    <2> HIDE DEF m, At
    <2>2. m \in 1 .. Len(q) /\ q[m].who = q[k].who
        BY <2>1 DEF m
    <2>3. ~(m < k) /\ ~(k < m)
        BY <2>2 DEF InOrder
    <2>4. m = k
        BY <1>1, <2>2, <2>3
    <2> QED
        BY <2>4 DEF m
<1>3. ASSUME NEW k \in 1 .. Len(q) PROVE QueuedBy(q)[q[k].who] = q[k].shares
    <2>1. \E m \in 1 .. Len(q) : q[m].who = q[k].who
        OBVIOUS
    <2>2. QueuedBy(q)[q[k].who] = q[At(q[k].who)].shares
        BY <1>1, <2>1 DEF QueuedBy
    <2> HIDE DEF At
    <2> QED
        BY <1>2, <2>2
<1>4. ASSUME NEW i \in Investors, \A k \in 1 .. Len(q) : q[k].who # i PROVE QueuedBy(q)[i] = 0
    BY <1>4 DEF QueuedBy
<1>5. QueuedBy(q) \in [Investors -> Nat]
    <2>1. ASSUME NEW i \in Investors PROVE QueuedBy(q)[i] \in Nat
        <3>1. CASE \E k \in 1 .. Len(q) : q[k].who = i
            <4>1. PICK k \in 1 .. Len(q) : q[k].who = i
                BY <3>1
            <4> QED
                BY <1>1, <1>3, <4>1
        <3>2. CASE \A k \in 1 .. Len(q) : q[k].who # i
            BY <1>4, <3>2
        <3> QED
            BY <3>1, <3>2
    <2>2. DOMAIN QueuedBy(q) = Investors /\ QueuedBy(q) = [i \in Investors |-> QueuedBy(q)[i]]
        BY DEF QueuedBy
    <2> QED
        BY <2>1, <2>2
<1> QED
    BY <1>3, <1>4, <1>5

LEMMA SumSharesIs ==
    ASSUME NEW q \in Seq(Request), InOrder(q)
    PROVE  SumShares(q) = Total(QueuedBy(q))
<1> DEFINE n == Len(q)
           By == QueuedBy(q)
           H(k) == [i \in Investors |-> IF \E m \in 1 .. k : q[m].who = i THEN By[i] ELSE 0]
<1>1. /\ n \in Nat /\ DOMAIN q = 1 .. n
      /\ \A k \in 1 .. n : q[k].shares \in Nat /\ q[k].who \in Investors
    BY LenProperties, ElementOfSeq, RequestFields
<1>2. /\ By \in [Investors -> Nat]
      /\ \A k \in 1 .. n : By[q[k].who] = q[k].shares
      /\ \A i \in Investors : (\A k \in 1 .. n : q[k].who # i) => By[i] = 0
    BY QueuedByFacts
<1> HIDE DEF By
<1>3. PICK g : /\ g[{}] = 0 /\ g[1 .. n] = SharesAt(q, 1 .. n)
               /\ \A s \in SUBSET (1 .. n) : g[s] \in Nat
               /\ \A s \in SUBSET (1 .. n) : \A x \in s : g[s] = q[x].shares + g[s \ {x}]
    BY SharesAddUp
<1> DEFINE Q == {k \in Nat : k <= n => g[1 .. k] = Total(H(k))}
<1>4. 0 \in Q
    <2>1. H(0) = [i \in Investors |-> 0] /\ 1 .. 0 = {}
        OBVIOUS
    <2>2. Total(H(0)) = 0
        BY <2>1, SumOfZero, TotalIsSum, SharesAssumption
    <2> HIDE DEF H
    <2> QED
        BY <1>3, <2>1, <2>2
<1>5. ASSUME NEW k \in Q PROVE k + 1 \in Q
    <2> SUFFICES ASSUME k + 1 <= n PROVE g[1 .. (k + 1)] = Total(H(k + 1))
        OBVIOUS
    <2> DEFINE j == k + 1
               w == q[j].who
    <2>1. k \in Nat /\ j \in 1 .. n /\ g[1 .. k] = Total(H(k))
        BY <1>1
    <2>2. g[1 .. j] = q[j].shares + g[1 .. k]
        <3>1. 1 .. j \in SUBSET (1 .. n) /\ j \in 1 .. j /\ (1 .. j) \ {j} = 1 .. k
            <4>1. \A x \in Int : x \in (1 .. j) \ {j} <=> x \in 1 .. k
                BY <2>1
            <4>2. 1 .. j \in SUBSET (1 .. n) /\ j \in 1 .. j
                BY <1>1, <2>1
            <4>3. (1 .. j) \ {j} \subseteq Int /\ 1 .. k \subseteq Int
                OBVIOUS
            <4>4. (1 .. j) \ {j} = 1 .. k
                <5> HIDE DEF j
                <5> QED
                    BY <4>1, <4>3
            <4> QED
                BY <4>2, <4>4
        <3> HIDE DEF j
        <3>2. g[1 .. j] = q[j].shares + g[(1 .. j) \ {j}]
            BY <1>3, <3>1, Zenon
        <3> QED
            BY <3>1, <3>2
    <2>3. w \in Investors /\ q[j].shares \in Nat /\ By[w] = q[j].shares
        BY <1>1, <1>2, <2>1
    <2>4. \A m \in 1 .. k : q[m].who # w
        BY <1>1, <2>1 DEF InOrder
    <2>5. H(k) \in [Investors -> Int] /\ H(j) \in [Investors -> Int]
        BY <1>2
    <2>6. H(k)[w] = 0 /\ H(j)[w] = q[j].shares
        <3>1. ~ \E m \in 1 .. k : q[m].who = w
            BY <2>4
        <3>2. \E m \in 1 .. j : q[m].who = w
            BY <2>1
        <3> HIDE DEF w, j
        <3> QED
            BY <2>3, <3>1, <3>2
    <2>7. \A i \in Investors \ {w} : H(j)[i] = H(k)[i]
        <3> SUFFICES ASSUME NEW i \in Investors \ {w} PROVE H(j)[i] = H(k)[i]
            OBVIOUS
        <3>1. (\E m \in 1 .. j : q[m].who = i) <=> (\E m \in 1 .. k : q[m].who = i)
            <4>1. 1 .. j = (1 .. k) \cup {j}
                BY <2>1
            <4> QED
                BY <4>1
        <3> HIDE DEF w, j
        <3> QED
            BY <3>1
    <2> HIDE DEF H, w
    <2>8. /\ Total(H(k)) \in Int
          /\ Total(H(j)) = Total(H(k)) + H(j)[w] - H(k)[w]
        BY <2>3, <2>5, <2>7, TotalChange
    <2> QED
        BY <2>1, <2>2, <2>3, <2>6, <2>8
<1>6. g[1 .. n] = Total(H(n))
    <2>0. Q \in SUBSET Nat
        OBVIOUS
    <2>1. n \in Q
        <3> HIDE DEF Q
        <3>1. Nat \subseteq Q
            BY <1>4, <1>5, <2>0, CountingUp
        <3> QED
            BY <1>1, <3>1
    <2>2. n <= n
        BY <1>1
    <2> HIDE DEF H
    <2> QED
        BY <2>1, <2>2
<1>7. H(n) = By
    <2>1. \A i \in Investors : H(n)[i] = By[i]
        BY <1>2
    <2> QED
        BY <1>2, <2>1
<1>8. SumShares(q) = SharesAt(q, 1 .. n)
    BY <1>1 DEF SumShares
<1> HIDE DEF H
<1> QED
    BY <1>3, <1>6, <1>7, <1>8 DEF By

\* A place of a queue in order is determined by the id, and by the investor.
LEMMA PlacesDiffer ==
    ASSUME NEW q \in Seq(Request), InOrder(q), NEW j \in 1 .. Len(q), NEW k \in 1 .. Len(q)
    PROVE  /\ q[j].who = q[k].who => j = k
           /\ q[j].id < q[k].id => j < k
           /\ q[j].id = q[k].id => j = k
<1>1. Len(q) \in Nat /\ q[j].id \in Nat /\ q[k].id \in Nat
    BY LenProperties, ElementOfSeq, RequestFields
<1>2. j < k \/ j = k \/ k < j
    BY <1>1
<1> QED
    BY <1>1, <1>2 DEF InOrder

\* Two pairs of ledgers with the same sum, investor by investor.
Ledgers == [Investors -> Nat]

SameSums(f, g, h, k) == \A i \in Investors : f[i] + g[i] = h[i] + k[i]

LEMMA TotalsBalance ==
    ASSUME NEW f \in Ledgers, NEW g \in Ledgers, NEW h \in Ledgers, NEW k \in Ledgers,
           SameSums(f, g, h, k)
    PROVE  Total(f) + Total(g) = Total(h) + Total(k)
<1> DEFINE e == [i \in Investors |-> f[i] + g[i]]
<1>1. /\ f \in [Investors -> Int] /\ g \in [Investors -> Int]
      /\ h \in [Investors -> Int] /\ k \in [Investors -> Int]
      /\ e \in [Investors -> Int] /\ IsFiniteSet(Investors)
    BY SharesAssumption DEF Ledgers
<1>2. /\ \A i \in Investors : e[i] = f[i] + g[i]
      /\ \A i \in Investors : e[i] = h[i] + k[i]
    BY DEF SameSums, Ledgers
<1> HIDE DEF e
<1>3. SumOf(e) = SumOf(f) + SumOf(g)
    BY <1>1, <1>2, SumOfSums
<1>4. SumOf(e) = SumOf(h) + SumOf(k)
    BY <1>1, <1>2, SumOfSums
<1> QED
    BY <1>3, <1>4, TotalIsSum

\* Every request of a queue was in the older queue.
StillThere(new, old) ==
    \A n \in 1 .. Len(new) : \E j \in 1 .. Len(old) :
        new[n].id = old[j].id /\ new[n].at = old[j].at

\* The books after a settlement.
Outcome(r, b, q) ==
    /\ r.queue \in Seq(Request) /\ InOrder(r.queue)
    /\ r.bal \in [Investors -> Nat] /\ r.paid \in Nat /\ r.burned \in Nat
    /\ StillThere(r.queue, q)
    /\ Total(r.bal) = Total(b) - r.burned
    /\ SumShares(r.queue) = SumShares(q) - r.burned
    /\ r.queue = q => r.burned = 0 /\ r.paid = 0

LEMMA SettledOutcome ==
    ASSUME NEW q \in Seq(Request), InOrder(q), NEW b \in [Investors -> Nat],
           NEW r, Settled(r, b, q, 1 .. Len(q)), r.ok
    PROVE  Outcome(r, b, q)
<1> DEFINE N == 1 .. Len(q)
           M == 1 .. Len(r.queue)
<1>1. r \in Progress
    BY DEF Settled
<1>2. /\ r.paid \in Nat /\ r.burned \in Nat /\ r.queue \in Seq(Request)
      /\ r.bal \in [Investors -> Int] /\ r.payouts \in [Investors -> Nat]
    BY <1>1, ProgressFields
<1>3. /\ Len(q) \in Nat
      /\ \A k \in N : /\ q[k] \in Request /\ q[k].shares \in Nat \ {0} /\ q[k].who \in Investors
                      /\ q[k].at \in Nat /\ q[k].id \in Nat
    BY LenProperties, ElementOfSeq, RequestFields
<1>4. r.bal \in [Investors -> Nat]
    <2>1. \A i \in Investors : r.bal[i] \in Nat
        BY <1>2 DEF Settled, OkMeans
    <2> QED
        BY <1>2, <2>1
<1>5. \A n \in M : \E j \in N : Rest(r, b, q, j) > 0
                               /\ r.queue[n] = [q[j] EXCEPT !.shares = Rest(r, b, q, j)]
    BY DEF Settled, RestQueued
<1>6. ASSUME NEW j \in N, NEW e, e = [q[j] EXCEPT !.shares = Rest(r, b, q, j)]
      PROVE  /\ e.id = q[j].id /\ e.at = q[j].at /\ e.who = q[j].who
             /\ e.shares = Rest(r, b, q, j)
    BY <1>3, <1>6 DEF Request
<1>7. \A n \in M : \E j \in N : /\ Rest(r, b, q, j) > 0
                                /\ r.queue[n].id = q[j].id /\ r.queue[n].at = q[j].at
                                /\ r.queue[n].who = q[j].who
    <2> SUFFICES ASSUME NEW n \in M
                 PROVE  \E j \in N : /\ Rest(r, b, q, j) > 0
                                     /\ r.queue[n].id = q[j].id /\ r.queue[n].at = q[j].at
                                     /\ r.queue[n].who = q[j].who
        OBVIOUS
    <2>1. PICK j \in N : Rest(r, b, q, j) > 0 /\ r.queue[n] = [q[j] EXCEPT !.shares = Rest(r, b, q, j)]
        BY <1>5
    <2>2. /\ r.queue[n].id = q[j].id /\ r.queue[n].at = q[j].at
          /\ r.queue[n].who = q[j].who
        BY <1>6, <2>1
    <2> QED
        BY <2>1, <2>2
<1>8. InOrder(r.queue)
    <2> SUFFICES ASSUME NEW n \in M, NEW m \in M, n < m
                 PROVE  /\ r.queue[n].id < r.queue[m].id /\ r.queue[n].at <= r.queue[m].at
                        /\ r.queue[n].who # r.queue[m].who
        BY DEF InOrder
    <2>1. r.queue[n].id < r.queue[m].id
        BY DEF Settled, IdsRise
    <2>2. PICK j \in N : /\ r.queue[n].id = q[j].id /\ r.queue[n].at = q[j].at
                         /\ r.queue[n].who = q[j].who
        BY <1>7
    <2>3. PICK k \in N : /\ r.queue[m].id = q[k].id /\ r.queue[m].at = q[k].at
                         /\ r.queue[m].who = q[k].who
        BY <1>7
    <2>4. j < k
        BY <2>1, <2>2, <2>3, PlacesDiffer
    <2> QED
        BY <2>1, <2>2, <2>3, <2>4 DEF InOrder
<1>9. /\ QueuedBy(q) \in [Investors -> Nat] /\ QueuedBy(r.queue) \in [Investors -> Nat]
      /\ \A k \in N : QueuedBy(q)[q[k].who] = q[k].shares
      /\ \A i \in Investors : (\A k \in N : q[k].who # i) => QueuedBy(q)[i] = 0
      /\ \A k \in M : QueuedBy(r.queue)[r.queue[k].who] = r.queue[k].shares
      /\ \A i \in Investors : (\A k \in M : r.queue[k].who # i) => QueuedBy(r.queue)[i] = 0
    BY <1>2, <1>8, QueuedByFacts
<1>10. ASSUME NEW i \in Investors
       PROVE  QueuedBy(r.queue)[i] + b[i] = QueuedBy(q)[i] + r.bal[i]
    <2>0. b[i] \in Nat /\ r.bal[i] \in Nat
        BY <1>4
    <2>1. CASE \A k \in N : q[k].who # i
        <3>1. \A k \in M : r.queue[k].who # i
            BY <1>7, <2>1
        <3>2. QueuedBy(q)[i] = 0 /\ QueuedBy(r.queue)[i] = 0
            BY <1>9, <2>1, <3>1
        <3>3. r.bal[i] = b[i]
            BY <2>1 DEF Settled, OthersKept
        <3> QED
            BY <2>0, <3>2, <3>3
    <2>2. CASE \E k \in N : q[k].who = i
        <3>1. PICK j \in N : q[j].who = i
            BY <2>2
        <3>2. QueuedBy(q)[i] = q[j].shares /\ q[j].shares \in Nat
            BY <1>3, <1>9, <3>1
        <3>3. Rest(r, b, q, j) \in 0 .. q[j].shares /\ Rest(r, b, q, j) = q[j].shares - (b[i] - r.bal[i])
            BY <3>1 DEF Settled, RestBounded, Rest
        <3>4. QueuedBy(r.queue)[i] = Rest(r, b, q, j)
            <4>1. CASE Rest(r, b, q, j) > 0
                <5>1. PICK n \in M : r.queue[n] = [q[j] EXCEPT !.shares = Rest(r, b, q, j)]
                    BY <4>1 DEF Settled, RestQueued
                <5>2. r.queue[n].who = i /\ r.queue[n].shares = Rest(r, b, q, j)
                    BY <1>6, <3>1, <5>1
                <5> QED
                    BY <1>9, <5>2
            <4>2. CASE ~(Rest(r, b, q, j) > 0)
                <5>1. ASSUME NEW n \in M PROVE r.queue[n].who # i
                    <6>1. PICK k \in N : Rest(r, b, q, k) > 0 /\ r.queue[n].who = q[k].who
                        BY <1>7
                    <6>2. q[k].who = i => k = j
                        BY <3>1, PlacesDiffer
                    <6> QED
                        BY <4>2, <6>1, <6>2
                <5>2. QueuedBy(r.queue)[i] = 0
                    BY <1>9, <5>1
                <5> QED
                    BY <3>2, <3>3, <4>2, <5>2
            <4> QED
                BY <4>1, <4>2
        <3> QED
            BY <2>0, <3>2, <3>3, <3>4
    <2> QED
        BY <2>1, <2>2
<1>11. Total(r.bal) \in Int /\ Total(b) \in Int /\ Total(r.bal) = Total(b) - r.burned
    <2>1. b \in [Investors -> Int]
        OBVIOUS
    <2>2. Total(b) \in Int /\ Total(r.bal) \in Int
        BY <1>2, <2>1, TotalType
    <2>3. r.burned = Total(b) - Total(r.bal)
        BY DEF Settled, BooksAgree
    <2> QED
        BY <1>2, <2>2, <2>3
<1>12. SumShares(r.queue) = SumShares(q) - r.burned
    <2>1. \A i \in Investors : QueuedBy(r.queue)[i] + b[i] = QueuedBy(q)[i] + r.bal[i]
        BY <1>10
    <2>2. Total(QueuedBy(r.queue)) + Total(b) = Total(QueuedBy(q)) + Total(r.bal)
        <3>1. /\ QueuedBy(r.queue) \in Ledgers /\ QueuedBy(q) \in Ledgers
              /\ r.bal \in Ledgers /\ b \in Ledgers
            BY <1>4, <1>9 DEF Ledgers
        <3>2. SameSums(QueuedBy(r.queue), b, QueuedBy(q), r.bal)
            BY <2>1 DEF SameSums
        <3> QED
            BY <3>1, <3>2, TotalsBalance
    <2>3. SumShares(q) = Total(QueuedBy(q)) /\ SumShares(r.queue) = Total(QueuedBy(r.queue))
        BY <1>2, <1>8, SumSharesIs
    <2>4. Total(QueuedBy(q)) \in Int /\ Total(QueuedBy(r.queue)) \in Int
        <3>1. QueuedBy(q) \in [Investors -> Int] /\ QueuedBy(r.queue) \in [Investors -> Int]
            BY <1>9
        <3> QED
            BY <3>1, TotalType
    <2> DEFINE tb == Total(b)
               tr == Total(r.bal)
    <2>5. tb \in Int /\ tr \in Int /\ tr = tb - r.burned /\ r.burned \in Nat
        BY <1>2, <1>11
    <2>6. SumShares(r.queue) + tb = SumShares(q) + tr /\ SumShares(q) \in Int /\ SumShares(r.queue) \in Int
        BY <2>2, <2>3, <2>4
    <2> HIDE DEF tb, tr
    <2> QED
        BY <2>5, <2>6
<1>13. ASSUME r.queue = q PROVE r.burned = 0 /\ r.paid = 0
    <2>1. r.bal = b
        <3>1. ASSUME NEW i \in Investors PROVE r.bal[i] = b[i]
            <4>1. QueuedBy(q)[i] \in Nat /\ r.bal[i] \in Nat /\ b[i] \in Nat
                BY <1>4, <1>9
            <4> QED
                BY <1>10, <1>13, <4>1
        <3> QED
            BY <1>4, <3>1
    <2>2. r.burned = 0
        BY <1>2, <1>11, <2>1
    <2>3. \A i \in Investors : r.payouts[i] = 0
        BY <2>1 DEF Settled, OkMeans
    <2>4. r.payouts = [i \in Investors |-> 0]
        BY <1>2, <2>3
    <2>5. Total(r.payouts) = 0
        BY <2>4, SumOfZero, TotalIsSum, SharesAssumption
    <2>6. r.paid = Total(r.payouts)
        BY DEF Settled, BooksAgree
    <2> QED
        BY <2>2, <2>5, <2>6
<1>14. StillThere(r.queue, q)
    BY <1>7 DEF StillThere
<1> QED
    BY <1>2, <1>4, <1>8, <1>11, <1>12, <1>13, <1>14 DEF Outcome

LEMMA SumSharesInt ==
    ASSUME NEW q \in Seq(Request), InOrder(q)
    PROVE  SumShares(q) \in Int
<1>1. QueuedBy(q) \in [Investors -> Nat] /\ SumShares(q) = Total(QueuedBy(q))
    BY QueuedByFacts, SumSharesIs
<1>2. QueuedBy(q) \in [Investors -> Int]
    BY <1>1
<1> QED
    BY <1>1, <1>2, TotalType

-----------------------------------------------------------------------------
(* The queue between two calls *)

\* QueueBacked is inductive together with the dates of the queue.
QueueInv == QueueBacked /\ AskedByNow(queue)

\* What a handler may rely on after its trailing process_withdrawal_queue: the
\* token balance and the NAV fall by the same amount, which the liquidity covers;
\* the supply is still the sum of the balances, and falls with the queued shares;
\* who is left in the queue has kept his turn.
SettledFrom(total, pv, dep, c) ==
    /\ bal' \in [Investors -> Nat]
    /\ supply' \in Int
    /\ queue' \in Seq(Request)
    /\ poolValue' \in Int /\ cash' \in Int
    /\ cash' - poolValue' = c - pv
    /\ pv >= dep => poolValue' >= dep
    /\ supply' = Total(bal')
    /\ SumShares(queue) \in Int /\ SumShares(queue') \in Int
    /\ supply' - SumShares(queue') = total - SumShares(queue)
    /\ InOrder(queue') /\ StillThere(queue', queue)
    /\ queue' = queue => supply' = total /\ poolValue' = pv

LEMMA SettleQueueFacts ==
    ASSUME TypeOK, QueueInv,
           NEW b \in [Investors -> Nat], NEW total \in Int, total = Total(b),
           NEW pv \in Int, NEW dep \in Int, NEW c \in Int,
           SettleQueue(b, total, pv, dep, c)
    PROVE  SettledFrom(total, pv, dep, c)
<1> DEFINE r == Settlement(queue, pv - dep, b, total, pv, c)
<1>0. /\ queue \in Seq(Request) /\ InOrder(queue) /\ AskedByNow(queue) /\ now \in Nat
      /\ pv - dep \in Int
    <2>1. InOrder(queue) /\ AskedByNow(queue)
        BY Zenon DEF QueueInv, QueueBacked, InOrder
    <2> QED
        BY <2>1 DEF TypeOK
<1>1. /\ r.ok
      /\ bal' = r.bal /\ supply' = total - r.burned /\ queue' = r.queue
      /\ poolValue' = pv - r.paid /\ cash' = c - r.paid
    BY DEF SettleQueue
<1>2. Settled(r, b, queue, 1 .. Len(queue)) /\ r.paid <= IF pv - dep > 0 THEN pv - dep ELSE 0
    BY <1>0, SettlementFacts
<1> HIDE DEF r
<1>3. Outcome(r, b, queue)
    BY <1>0, <1>1, <1>2, SettledOutcome
<1>4. /\ r.queue \in Seq(Request) /\ InOrder(r.queue) /\ StillThere(r.queue, queue)
      /\ r.bal \in [Investors -> Nat] /\ r.paid \in Nat /\ r.burned \in Nat
      /\ Total(r.bal) = Total(b) - r.burned
      /\ SumShares(r.queue) = SumShares(queue) - r.burned
      /\ r.queue = queue => r.burned = 0 /\ r.paid = 0
    BY <1>3, Zenon DEF Outcome
<1>5. /\ bal' \in [Investors -> Nat] /\ queue' \in Seq(Request)
      /\ InOrder(queue') /\ StillThere(queue', queue)
    BY <1>1, <1>4, Zenon
<1>6. SumShares(queue) \in Int
    BY <1>0, SumSharesInt
<1>7. supply' = Total(bal') /\ SumShares(queue') = SumShares(queue) - r.burned
    BY <1>1, <1>4, Zenon
<1>8. queue' = queue => r.burned = 0 /\ r.paid = 0
    BY <1>1, <1>4, Zenon
<1>9. /\ supply' \in Int /\ poolValue' \in Int /\ cash' \in Int
      /\ cash' - poolValue' = c - pv
      /\ pv >= dep => poolValue' >= dep
      /\ SumShares(queue') \in Int
      /\ supply' - SumShares(queue') = total - SumShares(queue)
      /\ queue' = queue => supply' = total /\ poolValue' = pv
    <2> DEFINE paid == r.paid
               burned == r.burned
               old == SumShares(queue)
    <2> HIDE DEF paid, burned, old
    <2>1. /\ paid \in Nat /\ burned \in Nat /\ old \in Int
          /\ paid <= IF pv - dep > 0 THEN pv - dep ELSE 0
          /\ supply' = total - burned /\ poolValue' = pv - paid /\ cash' = c - paid
          /\ SumShares(queue') = old - burned
          /\ queue' = queue => burned = 0 /\ paid = 0
        BY <1>1, <1>2, <1>4, <1>6, <1>7, <1>8 DEF paid, burned, old
    <2> QED
        BY <2>1 DEF old
<1> QED
    BY <1>5, <1>6, <1>7, <1>9 DEF SettledFrom

-----------------------------------------------------------------------------
(* Lemmas about the operators *)

\* The fee and the interest of a loan are amounts.
LEMMA LoanAmounts ==
    ASSUME TypeOK, NEW i \in Invoices
    PROVE  /\ Interest(i) \in Int
           /\ TotalDue(i) \in Int
           /\ Remaining(i) \in Int
           /\ Released(i) \in Nat
           /\ loan[i].principal \in Nat /\ loan[i].fee \in Nat
           /\ loan[i].repaid \in Nat /\ loan[i].booked \in Nat
           /\ loan[i].due \in Nat /\ loan[i].at \in Nat
           /\ collateral[i].amount \in Nat
<1>1. /\ loan[i] \in Loan /\ now \in Nat
      /\ collateral[i] \in Collateral
  BY DEF TypeOK
<1>2. loan[i].principal * Rate * (Smaller(now, loan[i].due) - loan[i].at) \in Int
  BY <1>1, LendingAssumption DEF Loan, Smaller
<1>3. Interest(i) \in Int
  <2>1. RateDenom \in Nat \ {0} /\ RateDenom \div 2 \in Int
    BY LendingAssumption
  <2> QED
    BY <1>2, <2>1 DEF Interest
<1> QED
  BY <1>1, <1>3 DEF Loan, Collateral, TotalDue, Remaining, Released

\* Interest is never negative.
LEMMA InterestIsNatural ==
    ASSUME TypeOK, LoanTimes, NEW i \in Invoices
    PROVE  Interest(i) \in Nat
<1>1. /\ loan[i].principal \in Nat /\ loan[i].at \in Nat /\ loan[i].due \in Nat
      /\ now \in Nat /\ loan[i].at <= now /\ loan[i].at <= loan[i].due
  BY LoanAmounts DEF TypeOK, LoanTimes
<1> DEFINE time == Smaller(now, loan[i].due) - loan[i].at
           amount == loan[i].principal * Rate
<1>2. time \in Nat
  BY <1>1 DEF Smaller
<1>3. amount \in Nat
  BY <1>1, LendingAssumption
<1> HIDE DEF time, amount
<1>4. amount * time \in Nat
  BY <1>2, <1>3
<1>5. RateDenom \div 2 \in Nat /\ \A n \in Nat : n \div RateDenom \in Nat
  BY LendingAssumption
<1>6. amount * time + RateDenom \div 2 \in Nat
  BY <1>4, <1>5
<1> QED
  BY <1>5, <1>6, Zenon DEF Interest, time, amount

LEMMA FeeIsAmount ==
    ASSUME NEW p \in Nat
    PROVE  FactoringFee(p) \in Nat
<1>1. p * FeeBps \in Nat
  BY LendingAssumption
<1>2. \A n \in Nat : n \div BPS \in Nat
  BY LendingAssumption
<1> QED
  BY <1>1, <1>2, LendingAssumption DEF FactoringFee

LEMMA ClaimIsAmount ==
    ASSUME TypeOK, NEW i \in Investors
    PROVE  Claimable(i) \in Int
<1>1. bal[i] \in Nat /\ rps \in Int /\ snapshot[i] \in Int
  BY DEF TypeOK
<1>2. (rps - snapshot[i]) * bal[i] \in Int
  BY <1>1
<1> QED
  BY <1>2, LendingAssumption DEF Claimable

\* What a number of shares is worth is an amount.
LEMMA WorthIsAmount ==
    ASSUME TypeOK, NEW n \in Int, supply > 0
    PROVE  WithdrawalAmount(n, poolValue, supply) \in Int
<1>1. poolValue \in Int /\ supply \in Int
  BY DEF TypeOK
<1>2. n * poolValue \in Int /\ n * (-poolValue) \in Int
  BY <1>1
<1> QED
  BY <1>1, <1>2 DEF WithdrawalAmount

LEMMA MintedIsAmount ==
    ASSUME TypeOK, NEW a \in Nat, poolValue >= 0 \/ supply = 0
    PROVE  SharesFor(a) \in Int
<1>1. poolValue \in Int /\ supply \in Int
  BY DEF TypeOK
<1>2. a * supply \in Int
  BY <1>1
<1> QED
  BY <1>1, <1>2 DEF SharesFor

\* Records stay records when a handler rewrites a field.
LEMMA LoanUpdates ==
    ASSUME NEW l \in Loan, NEW n \in Nat
    PROVE  /\ [l EXCEPT !.principal = n] \in Loan
           /\ [l EXCEPT !.repaid = n] \in Loan
           /\ [l EXCEPT !.repaid = n, !.booked = n] \in Loan
           /\ [l EXCEPT !.due = n] \in Loan
  BY DEF Loan

LEMMA CollateralUpdates ==
    ASSUME NEW c \in Collateral, NEW n \in Nat
    PROVE  /\ [c EXCEPT !.amount = n] \in Collateral
           /\ [c EXCEPT !.status = "settled"] \in Collateral
           /\ [amount |-> n, status |-> "held"] \in Collateral
  BY DEF Collateral

-----------------------------------------------------------------------------
(* The three handlers that end in process_withdrawal_queue *)

LEMMA DrainSettles ==
    ASSUME TypeOK, QueueInv, DrainWithdrawalQueue
    PROVE  SettledFrom(supply, poolValue, deployed, cash)
<1>1. /\ bal \in [Investors -> Nat] /\ supply \in Int /\ poolValue \in Int /\ deployed \in Int
      /\ cash \in Int /\ supply = Total(bal)
    BY DEF TypeOK, QueueInv, QueueBacked
<1>2. SettleQueue(bal, supply, poolValue, deployed, cash)
    BY Zenon DEF DrainWithdrawalQueue
<1> QED
    BY <1>1, <1>2, SettleQueueFacts

LEMMA DepositSettles ==
    ASSUME TypeOK, QueueInv, NEW i \in Investors, NEW a \in DepositAmounts, Deposit(i, a)
    PROVE  /\ a \in Nat /\ SharesFor(a) \in Nat
           /\ SettledFrom(supply + SharesFor(a), poolValue + a, deployed, cash + a)
<1> DEFINE n == SharesFor(a)
           b == [bal EXCEPT ![i] = @ + n]
<1>1. /\ bal \in [Investors -> Nat] /\ supply \in Int /\ poolValue \in Int /\ deployed \in Int
      /\ cash \in Int /\ supply = Total(bal)
    BY DEF TypeOK, QueueInv, QueueBacked
<1>2. a \in Nat /\ n \in Int /\ n > 0
    BY SharesAssumption, MintedIsAmount DEF Deposit
<1>3. SettleQueue(b, supply + n, poolValue + a, deployed, cash + a)
    BY Zenon DEF Deposit
<1> HIDE DEF n
<1>4. n \in Nat
    BY <1>2
<1>5. b \in [Investors -> Nat] /\ b[i] = bal[i] + n /\ \A y \in Investors \ {i} : b[y] = bal[y]
    BY <1>1, <1>4
<1>6. b \in [Investors -> Int] /\ bal \in [Investors -> Int] /\ bal[i] \in Nat
    BY <1>1, <1>5
<1> HIDE DEF b
<1>7. Total(bal) \in Int /\ Total(b) = Total(bal) + b[i] - bal[i]
    BY <1>5, <1>6, TotalChange
<1>8. Total(b) = supply + n
    BY <1>1, <1>4, <1>5, <1>6, <1>7
<1>9. supply + n \in Int /\ poolValue + a \in Int /\ cash + a \in Int
    BY <1>1, <1>2
<1>10. SettledFrom(supply + n, poolValue + a, deployed, cash + a)
    BY <1>1, <1>3, <1>5, <1>8, <1>9, SettleQueueFacts
<1> QED
    BY <1>2, <1>4, <1>10 DEF n

LEMMA RepaySettles ==
    ASSUME TypeOK, QueueInv, NEW i \in Invoices, NEW a, NEW reward \in Rewards(i),
           RepayFull(i, a, reward)
    PROVE  /\ reward \in Int
           /\ SettledFrom(supply, poolValue + Interest(i), deployed - loan[i].principal,
                          cash + Remaining(i) - Released(i) - reward)
<1>1. /\ bal \in [Investors -> Nat] /\ supply \in Int /\ poolValue \in Int /\ deployed \in Int
      /\ cash \in Int /\ supply = Total(bal)
    BY DEF TypeOK, QueueInv, QueueBacked
<1>2. /\ Interest(i) \in Int /\ Remaining(i) \in Int /\ Released(i) \in Nat
      /\ loan[i].principal \in Nat /\ loan[i].fee \in Nat
    BY LoanAmounts
<1>3. reward \in Int
    <2>1. loan[i].fee * ReferralBps \in Int
        BY <1>2, LendingAssumption
    <2> QED
        BY <2>1, LendingAssumption DEF Rewards
<1> DEFINE pv == poolValue + Interest(i)
           dep == deployed - loan[i].principal
           c == cash + Remaining(i) - Released(i) - reward
<1>4. pv \in Int /\ dep \in Int /\ c \in Int
    BY <1>1, <1>2, <1>3
<1>5. SettleQueue(bal, supply, pv, dep, c)
    BY Zenon DEF RepayFull
<1> HIDE DEF pv, dep, c
<1>6. SettledFrom(supply, pv, dep, c)
    BY <1>1, <1>4, <1>5, SettleQueueFacts
<1> QED
    BY <1>3, <1>6 DEF pv, dep, c

-----------------------------------------------------------------------------
(* Types *)

LEMMA InitType == Init => TypeOK
<1> SUFFICES ASSUME Init PROVE TypeOK
  OBVIOUS
<1>1. queue \in Seq(Request)
  BY EmptySeq DEF Init, SharesInit
<1>2. NoLoan \in Loan
  BY DEF NoLoan, Loan
<1>3. [amount |-> 0, status |-> "none"] \in Collateral
  BY DEF Collateral
<1>4. /\ loan \in [Invoices -> Loan]
      /\ collateral \in [Invoices -> Collateral]
  BY <1>2, <1>3, Zenon DEF Init, LendingInit
<1>5. /\ now \in Nat /\ cash \in Int /\ poolValue \in Int /\ deployed \in Int
      /\ supply \in Int /\ counter \in Nat
      /\ bal \in [Investors -> Nat] /\ available \in [Investors -> Int]
      /\ revenue \in Int /\ rps \in Int /\ snapshot \in [Investors -> Int]
      /\ held \in Int /\ unbooked \in Int /\ leak \in Int
  BY DEF Init, SharesInit, LendingInit
<1>6. paused \in BOOLEAN
  BY DEF Init, SharesInit
<1> QED
  BY <1>1, <1>4, <1>5, <1>6 DEF TypeOK

\* A deposit or a withdrawal keeps the types.
LEMMA SharesStepType ==
    ASSUME TypeOK, QueueInv, SharesNext, UNCHANGED lendingVars
    PROVE  TypeOK'
<1> USE DEF TypeOK, lendingVars, shareVars
<1>1. CASE Tick
  BY <1>1 DEF Tick
<1>2. CASE Pause \/ Unpause
  BY <1>2 DEF Pause, Unpause
<1>3. CASE DrainWithdrawalQueue
  BY <1>3, DrainSettles DEF DrainWithdrawalQueue, SettledFrom
<1>4. ASSUME NEW i \in Investors, NEW a \in DepositAmounts, Deposit(i, a)
      PROVE  TypeOK'
  <2>1. a \in Nat /\ SharesFor(a) \in Nat
        /\ SettledFrom(supply + SharesFor(a), poolValue + a, deployed, cash + a)
    BY <1>4, DepositSettles
  <2>2. /\ bal' \in [Investors -> Nat] /\ supply' \in Int /\ queue' \in Seq(Request)
        /\ poolValue' \in Int /\ cash' \in Int
    BY <2>1 DEF SettledFrom
  <2>3. available' \in [Investors -> Int]
    BY <1>4, <2>1 DEF Deposit
  <2> QED
    BY <1>4, <2>2, <2>3 DEF Deposit
<1>5. ASSUME NEW i \in Investors, NEW n \in ShareAmounts,
             Withdraw(i, n) \/ RequestImmediate(i, n)
      PROVE  TypeOK'
  <2>1. n \in Nat /\ supply > 0
    BY <1>5, SharesAssumption DEF ShareAmounts, Withdraw, RequestImmediate, MayRequest
  <2> DEFINE worth == WithdrawalAmount(n, poolValue, supply)
  <2>2. worth \in Int
    BY <2>1, WorthIsAmount
  <2> HIDE DEF worth
  <2>3. /\ PayOut(i, n, worth)
        /\ UNCHANGED <<now, paused, deployed, queue, counter>>
    BY <1>5 DEF worth, Withdraw, RequestImmediate
  <2> QED
    BY <2>1, <2>2, <2>3 DEF PayOut
<1>6. ASSUME NEW i \in Investors, NEW n \in ShareAmounts, RequestQueued(i, n)
      PROVE  TypeOK'
  <2>1. n \in Nat \ {0}
    BY SharesAssumption DEF ShareAmounts
  <2> DEFINE req == [who |-> i, shares |-> n, at |-> now, id |-> counter + 1]
  <2>2. req \in Request
    BY <2>1 DEF Request
  <2>3. Append(queue, req) \in Seq(Request)
    BY <2>2, AppendProperties
  <2> QED
    BY <1>6, <2>1, <2>3 DEF RequestQueued
<1>7. ASSUME NEW i \in Investors, CancelWithdrawalRequest(i)
      PROVE  TypeOK'
  <2>1. PICK k \in 1 .. Len(queue) :
            /\ available' = [available EXCEPT ![i] = @ + queue[k].shares]
            /\ queue' = RemoveAt(queue, k)
            /\ UNCHANGED <<now, paused, cash, poolValue, deployed, supply, bal, counter>>
    BY <1>7 DEF CancelWithdrawalRequest
  <2>2. queue[k] \in Request
    BY <2>1, ElementOfSeq
  <2>a. available' \in [Investors -> Int]
    <3>1. queue[k].shares \in Nat
      BY <2>2 DEF Request
    <3> QED
      BY <2>1, <3>1
  <2>3. SubSeq(queue, 1, k - 1) \in Seq(Request) /\ SubSeq(queue, k + 1, Len(queue)) \in Seq(Request)
    BY <2>1, SubSeqProperties
  <2>4. queue' \in Seq(Request)
    BY <2>1, <2>3, ConcatProperties DEF RemoveAt
  <2> QED
    BY <2>1, <2>a, <2>4
<1>8. ASSUME NEW i \in Investors, NEW n \in ShareAmounts, AdjustWithdrawalRequest(i, n)
      PROVE  TypeOK'
  <2>1. n \in Nat \ {0}
    BY SharesAssumption DEF ShareAmounts
  <2>2. PICK k \in 1 .. Len(queue) :
            /\ available' = [available EXCEPT ![i] = @ - (n - queue[k].shares)]
            /\ queue' = [queue EXCEPT ![k].shares = n]
            /\ UNCHANGED <<now, paused, cash, poolValue, deployed, supply, bal, counter>>
    BY <1>8 DEF AdjustWithdrawalRequest
  <2>3. queue[k] \in Request
    BY <2>2, ElementOfSeq
  <2>4. [queue[k] EXCEPT !.shares = n] \in Request
    BY <2>1, <2>3 DEF Request
  <2>5. queue' \in Seq(Request)
    BY <2>2, <2>4, ExceptSeq
  <2>6. available' \in [Investors -> Int]
    <3>1. queue[k].shares \in Nat
      BY <2>3 DEF Request
    <3>2. available[i] - (n - queue[k].shares) \in Int
      BY <2>1, <3>1
    <3>3. available' = [available EXCEPT ![i] = available[i] - (n - queue[k].shares)]
      BY <2>2, Zenon
    <3> QED
      BY <3>2, <3>3, Zenon
  <2> QED
    BY <2>2, <2>5, <2>6
<1>9. ASSUME NEW i \in Investors, NEW j \in Investors, NEW n \in ShareAmounts,
             ShareTransfer(i, j, n)
      PROVE  TypeOK'
  <2>1. n \in Nat
    BY SharesAssumption DEF ShareAmounts
  <2>2. bal' \in [Investors -> Nat]
    <3>1. bal[i] \in Nat /\ bal[j] \in Nat
      OBVIOUS
    <3>2. bal[i] - n \in Nat /\ bal[j] + n \in Nat
      BY <1>9, <2>1, <3>1 DEF ShareTransfer
    <3>3. [bal EXCEPT ![i] = @ - n] \in [Investors -> Nat]
      BY <3>2
    <3>4. [bal EXCEPT ![i] = @ - n][j] + n \in Nat
      BY <1>9, <3>2 DEF ShareTransfer
    <3>5. bal' = [[bal EXCEPT ![i] = @ - n] EXCEPT ![j] = @ + n]
      BY <1>9, Zenon DEF ShareTransfer
    <3> QED
      BY <3>3, <3>4, <3>5
  <2> QED
    BY <1>9, <2>2 DEF ShareTransfer
<1> QED
  BY <1>1, <1>2, <1>3, <1>4, <1>5, <1>6, <1>7, <1>8, <1>9 DEF SharesNext

\* Lending, repaying, claiming and seizing keep the types.
LEMMA LendingStepType ==
    ASSUME TypeOK, QueueInv, LendingNext
    PROVE  TypeOK'
<1>0. /\ now \in Nat /\ cash \in Int /\ poolValue \in Int /\ deployed \in Int
      /\ supply \in Int /\ revenue \in Int /\ rps \in Int
      /\ held \in Int /\ unbooked \in Int /\ leak \in Int
      /\ snapshot \in [Investors -> Int]
      /\ \A i \in Invoices : loan[i] \in Loan /\ collateral[i] \in Collateral
  BY DEF TypeOK
<1>1. ASSUME NEW i \in Invoices, NEW p \in Principals, NEW k \in DueOffsets,
             NEW premium \in Premiums, FundInvoiceRequest(i, p, now + k, premium)
      PROVE  TypeOK'
  <2>1. p \in Nat /\ now + k \in Nat /\ premium \in Nat
    BY <1>0, LendingAssumption
  <2>2. FactoringFee(p) \in Nat
    BY <2>1, FeeIsAmount
  <2>3. [loan[i] EXCEPT !.principal = loan[i].principal + p] \in Loan
    <3>1. loan[i].principal + p \in Nat
      BY <2>1, LoanAmounts
    <3> QED
      BY <1>0, <3>1, LoanUpdates
  <2>4. [principal |-> p, at |-> now, due |-> now + k, fee |-> FactoringFee(p),
         repaid |-> 0, booked |-> 0] \in Loan
    BY <1>0, <2>1, <2>2 DEF Loan
  <2>5. loan' \in [Invoices -> Loan]
    <3> DEFINE new == [principal |-> p, at |-> now, due |-> now + k,
                       fee |-> FactoringFee(p), repaid |-> 0, booked |-> 0]
               more == [loan[i] EXCEPT !.principal = loan[i].principal + p]
    <3>1. loan' = [loan EXCEPT ![i] = IF Present(i) THEN more ELSE new]
      BY <1>1, Zenon DEF FundInvoiceRequest
    <3>2. more \in Loan /\ new \in Loan
      BY <2>3, <2>4
    <3> HIDE DEF new, more
    <3> QED
      BY <3>1, <3>2, Zenon DEF TypeOK
  <2>6. deployed' \in Int /\ cash' \in Int /\ revenue' \in Int /\ poolValue' \in Int /\ leak' \in Int
    BY <1>0, <1>1, <2>1 DEF FundInvoiceRequest
  <2> QED
    BY <1>1, <2>5, <2>6, Zenon DEF FundInvoiceRequest, TypeOK, shareVars
<1>2. ASSUME NEW i \in Invoices, NEW a \in Payments, RepayPart(i, a)
      PROVE  TypeOK'
  <2>1. a \in Nat
    BY LendingAssumption
  <2>2. [loan[i] EXCEPT !.repaid = loan[i].repaid + a] \in Loan
    <3>1. loan[i].repaid + a \in Nat
      BY <2>1, LoanAmounts
    <3> QED
      BY <1>0, <3>1, LoanUpdates
  <2>3. loan' \in [Invoices -> Loan]
    BY <1>2, <2>2, Zenon DEF RepayPart, TypeOK
  <2>4. cash' \in Int /\ unbooked' \in Int
    BY <1>0, <1>2, <2>1 DEF RepayPart
  <2> QED
    BY <1>2, <2>3, <2>4, Zenon DEF RepayPart, TypeOK, shareVars
<1>3. ASSUME NEW i \in Invoices, NEW a \in Payments, NEW reward \in Rewards(i),
             RepayFull(i, a, reward)
      PROVE  TypeOK'
  <2>1. /\ Interest(i) \in Int /\ Remaining(i) \in Int /\ Released(i) \in Nat
        /\ loan[i].principal \in Nat /\ loan[i].fee \in Nat
        /\ loan[i].repaid \in Nat /\ loan[i].booked \in Nat
    BY LoanAmounts
  <2>2. reward \in Int
        /\ SettledFrom(supply, poolValue + Interest(i), deployed - loan[i].principal,
                       cash + Remaining(i) - Released(i) - reward)
    BY <1>3, RepaySettles
  <2>3. /\ bal' \in [Investors -> Nat] /\ supply' \in Int /\ queue' \in Seq(Request)
        /\ poolValue' \in Int /\ cash' \in Int
    BY <2>2, Zenon DEF SettledFrom
  <2>4. rps' \in Int
    <3>1. Interest(i) * Precision \in Int
      BY <2>1, LendingAssumption
    <3>2. rps' = IF supply > 0 THEN rps + (Interest(i) * Precision) \div supply ELSE rps
      BY <1>3, Zenon DEF RepayFull
    <3> QED
      BY <1>0, <3>1, <3>2
  <2>5. loan' \in [Invoices -> Loan]
    <3> DEFINE paid == loan[i].repaid + Remaining(i)
    <3>1. paid \in Nat
      BY <1>3, <2>1 DEF RepayFull
    <3>2. loan' = [loan EXCEPT ![i] = [loan[i] EXCEPT !.repaid = paid, !.booked = paid]]
      BY <1>0, <1>3 DEF RepayFull, Loan
    <3> HIDE DEF paid
    <3>3. [loan[i] EXCEPT !.repaid = paid, !.booked = paid] \in Loan
      BY <1>0, <3>1, LoanUpdates
    <3> QED
      BY <3>2, <3>3, Zenon DEF TypeOK
  <2>6. collateral' \in [Invoices -> Collateral]
    <3>1. [collateral[i] EXCEPT !.status = IF collateral[i].status = "held"
                                           THEN "settled" ELSE collateral[i].status]
             \in Collateral
      BY <1>0 DEF Collateral
    <3> QED
      BY <1>3, <3>1, Zenon DEF RepayFull, TypeOK
  <2>7. deployed' \in Int /\ revenue' \in Int /\ held' \in Int /\ unbooked' \in Int /\ leak' \in Int
    <3>1. /\ deployed' = deployed - loan[i].principal
          /\ revenue' = revenue + loan[i].fee - reward
          /\ held' = held - Released(i)
          /\ unbooked' = unbooked - (loan[i].repaid - loan[i].booked)
          /\ leak' = leak + loan[i].booked
      BY <1>3, Zenon DEF RepayFull
    <3> QED
      BY <1>0, <2>1, <2>2, <3>1
  <2> QED
    BY <1>3, <2>3, <2>4, <2>5, <2>6, <2>7, Zenon DEF RepayFull, TypeOK
<1>4. ASSUME NEW i \in Investors, NEW bonus \in Bonuses(Claimable(i)), ClaimYield(i, bonus)
      PROVE  TypeOK'
  <2>1. Claimable(i) \in Int
    BY ClaimIsAmount
  <2>2. bonus \in Int
    BY <1>0, <2>1 DEF Bonuses, Smaller
  <2>3. cash' \in Int /\ revenue' \in Int /\ leak' \in Int /\ snapshot' \in [Investors -> Int]
    BY <1>0, <1>4, <2>1, <2>2 DEF ClaimYield
  <2> QED
    BY <1>4, <2>3, Zenon DEF ClaimYield, TypeOK, shareVars
<1>5. ASSUME NEW i \in Invoices, NEW a \in CollateralAmounts,
             DepositCollateral(i, a) \/ TopUpCollateral(i, a)
      PROVE  TypeOK'
  <2>1. a \in Nat
    BY LendingAssumption
  <2>2. /\ [amount |-> a, status |-> "held"] \in Collateral
        /\ [collateral[i] EXCEPT !.amount = collateral[i].amount + a] \in Collateral
    <3>1. collateral[i].amount + a \in Nat
      BY <2>1, LoanAmounts
    <3> QED
      BY <1>0, <2>1, <3>1, CollateralUpdates
  <2>3. collateral' \in [Invoices -> Collateral]
    BY <1>5, <2>2, Zenon DEF DepositCollateral, TopUpCollateral, TypeOK
  <2>4. cash' \in Int /\ held' \in Int
    BY <1>0, <1>5, <2>1 DEF DepositCollateral, TopUpCollateral
  <2> QED
    BY <1>5, <2>3, <2>4, Zenon DEF DepositCollateral, TopUpCollateral, TypeOK, shareVars
<1>6. ASSUME NEW i \in Invoices, RiskLiquidateCollateral(i) \/ LiquidateInvoice(i)
      PROVE  TypeOK'
  <2>1. collateral[i].amount \in Nat /\ loan[i].principal \in Nat
    BY LoanAmounts
  <2>2. [collateral[i] EXCEPT !.status = "settled"] \in Collateral
    BY <1>0, CollateralUpdates
  <2>3. collateral' \in [Invoices -> Collateral]
    BY <1>6, <2>2, Zenon DEF RiskLiquidateCollateral, LiquidateInvoice, TypeOK
  <2>4. cash' \in Int /\ poolValue' \in Int /\ deployed' \in Int /\ held' \in Int /\ leak' \in Int
    BY <1>0, <1>6, <2>1 DEF RiskLiquidateCollateral, LiquidateInvoice
  <2> QED
    BY <1>6, <2>3, <2>4, Zenon
    DEF RiskLiquidateCollateral, LiquidateInvoice, TypeOK, shareVars
<1>7. ASSUME NEW i \in Invoices, CancelFundedInvoice(i) \/ CleanupFundedInvoice(i)
      PROVE  TypeOK'
  <2>1. loan[i].principal \in Nat /\ loan[i].repaid \in Nat /\ loan[i].booked \in Nat
    BY LoanAmounts
  <2>2. NoLoan \in Loan
    BY DEF NoLoan, Loan
  <2>3. loan' \in [Invoices -> Loan]
    BY <1>7, <2>2, Zenon DEF CancelFundedInvoice, CleanupFundedInvoice, DropLoan, TypeOK
  <2>4. deployed' \in Int /\ unbooked' \in Int /\ leak' \in Int
    BY <1>0, <1>7, <2>1 DEF CancelFundedInvoice, CleanupFundedInvoice, DropLoan
  <2> QED
    BY <1>7, <2>3, <2>4, Zenon DEF CancelFundedInvoice, CleanupFundedInvoice, TypeOK, shareVars
<1>8. ASSUME NEW i \in Invoices, NEW k \in DueOffsets, UpdateInvoiceDueDate(i, loan[i].due + k)
      PROVE  TypeOK'
  <2>1. loan[i].due + k \in Nat
    BY LoanAmounts, LendingAssumption
  <2>2. [loan[i] EXCEPT !.due = loan[i].due + k] \in Loan
    BY <1>0, <2>1, LoanUpdates
  <2>3. loan' \in [Invoices -> Loan]
    BY <1>8, <2>2, Zenon DEF UpdateInvoiceDueDate, TypeOK
  <2> QED
    BY <1>8, <2>3, Zenon DEF UpdateInvoiceDueDate, TypeOK, shareVars
<1>9. ASSUME NEW a \in InsurancePayouts \cup Payments,
             ReceiveInsurancePayout(a) \/ WithdrawRevenue(a)
      PROVE  TypeOK'
  <2>1. a \in Nat
    BY LendingAssumption
  <2>2. cash' \in Int /\ poolValue' \in Int /\ revenue' \in Int
    BY <1>0, <1>9, <2>1 DEF ReceiveInsurancePayout, WithdrawRevenue, lendingVars
  <2> QED
    BY <1>9, <2>2, Zenon
    DEF ReceiveInsurancePayout, WithdrawRevenue, lendingVars, TypeOK, shareVars
<1> QED
  BY <1>1, <1>2, <1>3, <1>4, <1>5, <1>6, <1>7, <1>8, <1>9
  DEF LendingNext, FundInvoice, FundMultipleInvoices

-----------------------------------------------------------------------------
(* The queue is backed, and keeps its order *)

\* Every request of q that is not i's is in p, for as many shares.
CarriedOver(q, p, i) ==
    \A k \in 1 .. Len(q) : q[k].who # i =>
        \E m \in 1 .. Len(p) : p[m].who = q[k].who /\ p[m].shares = q[k].shares

\* The queued shares when one investor's request comes, goes or is adjusted.
LEMMA OneRequestChanged ==
    ASSUME NEW q \in Seq(Request), NEW p \in Seq(Request), InOrder(q), InOrder(p),
           NEW i \in Investors, CarriedOver(q, p, i), CarriedOver(p, q, i)
    PROVE  /\ SumShares(q) \in Int /\ SumShares(p) \in Int
           /\ SumShares(p) = SumShares(q) + QueuedBy(p)[i] - QueuedBy(q)[i]
<1>1. /\ QueuedBy(q) \in [Investors -> Nat]
      /\ \A k \in 1 .. Len(q) : QueuedBy(q)[q[k].who] = q[k].shares
      /\ \A y \in Investors : (\A k \in 1 .. Len(q) : q[k].who # y) => QueuedBy(q)[y] = 0
    BY QueuedByFacts
<1>2. /\ QueuedBy(p) \in [Investors -> Nat]
      /\ \A k \in 1 .. Len(p) : QueuedBy(p)[p[k].who] = p[k].shares
      /\ \A y \in Investors : (\A k \in 1 .. Len(p) : p[k].who # y) => QueuedBy(p)[y] = 0
    BY QueuedByFacts
<1>3. ASSUME NEW y \in Investors \ {i} PROVE QueuedBy(p)[y] = QueuedBy(q)[y]
    <2>1. CASE \E k \in 1 .. Len(q) : q[k].who = y
        <3>1. PICK k \in 1 .. Len(q) : q[k].who = y
            BY <2>1
        <3>2. PICK m \in 1 .. Len(p) : p[m].who = q[k].who /\ p[m].shares = q[k].shares
            BY <3>1 DEF CarriedOver
        <3> QED
            BY <1>1, <1>2, <3>1, <3>2, Zenon
    <2>2. CASE \A k \in 1 .. Len(q) : q[k].who # y
        <3>1. \A m \in 1 .. Len(p) : p[m].who # y
            BY <2>2 DEF CarriedOver
        <3> QED
            BY <1>1, <1>2, <2>2, <3>1
    <2> QED
        BY <2>1, <2>2
<1>4. QueuedBy(q) \in [Investors -> Int] /\ QueuedBy(p) \in [Investors -> Int]
    BY <1>1, <1>2
<1>5. /\ Total(QueuedBy(q)) \in Int /\ Total(QueuedBy(p)) \in Int
      /\ Total(QueuedBy(p)) = Total(QueuedBy(q)) + QueuedBy(p)[i] - QueuedBy(q)[i]
    BY <1>3, <1>4, TotalChange
<1> QED
    BY <1>5, SumSharesIs

\* A request of the queue was there before, or is new.
Followed ==
    \A n \in 1 .. Len(queue') :
        \/ \E j \in 1 .. Len(queue) : queue'[n].id = queue[j].id
        \/ queue'[n].id > counter

\* What the invariant says of the queue as it is.
LEMMA QueueNow ==
    ASSUME TypeOK, QueueInv
    PROVE  /\ queue \in Seq(Request) /\ InOrder(queue) /\ Len(queue) \in Nat
           /\ \A k \in 1 .. Len(queue) :
                 /\ queue[k] \in Request /\ queue[k].shares \in Nat \ {0}
                 /\ queue[k].who \in Investors
                 /\ queue[k].id \in 1 .. counter /\ queue[k].at \in 0 .. now
           /\ counter \in Nat /\ now \in Nat /\ supply \in Int
           /\ supply = Total(bal) /\ supply = Total(available) + SumShares(queue)
<1>1. queue \in Seq(Request) /\ counter \in Nat /\ now \in Nat /\ supply \in Int
    BY DEF TypeOK
<1>2. /\ Len(queue) \in Nat
      /\ \A k \in 1 .. Len(queue) : /\ queue[k] \in Request /\ queue[k].shares \in Nat \ {0}
                                    /\ queue[k].who \in Investors
                                    /\ queue[k].id \in Nat /\ queue[k].at \in Nat
    BY <1>1, LenProperties, ElementOfSeq, RequestFields
<1>3. InOrder(queue) /\ supply = Total(bal) /\ supply = Total(available) + SumShares(queue)
    BY DEF QueueInv, QueueBacked, InOrder
<1>4. \A k \in 1 .. Len(queue) : queue[k].id \in 1 .. counter /\ queue[k].at <= now
    BY DEF QueueInv, QueueBacked, AskedByNow
<1> QED
    BY <1>1, <1>2, <1>3, <1>4

\* When the handler only takes requests off the queue.
LEMMA QueueKept ==
    ASSUME TypeOK, TypeOK', QueueInv, InOrder(queue'), StillThere(queue', queue),
           counter' = counter, now' >= now,
           supply' = Total(bal'), supply' = Total(available') + SumShares(queue')
    PROVE  QueueInv' /\ Followed
<1>1. /\ counter \in Nat /\ now \in Nat /\ now' \in Nat
      /\ \A k \in 1 .. Len(queue) : queue[k].id \in 1 .. counter /\ queue[k].at \in 0 .. now
    BY QueueNow DEF TypeOK
<1>2. \A k \in 1 .. Len(queue') : queue'[k].shares \in Nat \ {0}
    <2>1. queue' \in Seq(Request)
        BY DEF TypeOK
    <2> QED
        BY <2>1, LenProperties, ElementOfSeq, RequestFields
<1>3. ASSUME NEW k \in 1 .. Len(queue')
      PROVE  /\ queue'[k].id \in 1 .. counter' /\ queue'[k].at <= now'
             /\ \E j \in 1 .. Len(queue) : queue'[k].id = queue[j].id
    <2>1. PICK j \in 1 .. Len(queue) : queue'[k].id = queue[j].id /\ queue'[k].at = queue[j].at
        BY DEF StillThere
    <2> QED
        BY <1>1, <2>1
<1>4. QueueBacked'
    BY <1>2, <1>3 DEF QueueBacked, InOrder
<1>5. AskedByNow(queue)'
    BY <1>3 DEF AskedByNow
<1>6. Followed
    BY <1>3 DEF Followed
<1> QED
    BY <1>4, <1>5, <1>6 DEF QueueInv

LEMMA SameStillThere ==
    ASSUME NEW q PROVE StillThere(q, q)
    BY Zenon DEF StillThere

\* When the handler does not touch the queue.
LEMMA QueueUntouched ==
    ASSUME TypeOK, TypeOK', QueueInv, UNCHANGED <<queue, counter>>, now' >= now,
           supply' = Total(bal'), supply' - Total(available') = supply - Total(available)
    PROVE  QueueInv' /\ Followed
<1>1. /\ InOrder(queue) /\ queue \in Seq(Request)
      /\ supply \in Int /\ supply = Total(available) + SumShares(queue)
    BY QueueNow
<1>2. Total(available) \in Int /\ Total(available') \in Int /\ supply' \in Int
    BY TotalType DEF TypeOK
<1>3. SumShares(queue) \in Int
    BY <1>1, SumSharesInt
<1>4. supply' = Total(available') + SumShares(queue)
    <2> DEFINE a == Total(available)
               b == Total(available')
               s == SumShares(queue)
    <2> HIDE DEF a, b, s
    <2>1. /\ a \in Int /\ b \in Int /\ s \in Int /\ supply' \in Int /\ supply \in Int
          /\ supply = a + s /\ supply' - b = supply - a
        BY <1>1, <1>2, <1>3 DEF a, b, s
    <2>2. supply' = b + s
        BY <2>1
    <2> QED
        BY <2>2 DEF b, s
<1>5. /\ InOrder(queue') /\ StillThere(queue', queue) /\ counter' = counter
      /\ supply' = Total(available') + SumShares(queue')
    BY <1>1, <1>4, SameStillThere, Zenon
<1> QED
    BY <1>5, QueueKept

\* A new request goes to the end of the queue.
LEMMA RequestQueues ==
    ASSUME TypeOK, QueueInv, NEW i \in Investors, NEW n \in Nat \ {0}, ~Queued(i),
           NEW q, q = Append(queue, [who |-> i, shares |-> n, at |-> now, id |-> counter + 1])
    PROVE  /\ q \in Seq(Request) /\ InOrder(q)
           /\ SumShares(q) = SumShares(queue) + n
           /\ \A k \in 1 .. Len(q) : /\ q[k].id \in 1 .. counter + 1 /\ q[k].at <= now
                                     /\ \/ \E j \in 1 .. Len(queue) : q[k].id = queue[j].id
                                        \/ q[k].id > counter
<1> DEFINE req == [who |-> i, shares |-> n, at |-> now, id |-> counter + 1]
           l == Len(queue)
<1>0. /\ queue \in Seq(Request) /\ InOrder(queue) /\ l \in Nat
      /\ \A k \in 1 .. l :
            /\ queue[k] \in Request /\ queue[k].shares \in Nat \ {0}
            /\ queue[k].who \in Investors
            /\ queue[k].id \in 1 .. counter /\ queue[k].at \in 0 .. now
      /\ counter \in Nat /\ now \in Nat
    BY QueueNow
<1>1. req \in Request /\ req.who = i /\ req.shares = n /\ req.at = now /\ req.id = counter + 1
    BY <1>0 DEF Request
<1>2. q = Append(queue, req)
    OBVIOUS
<1> HIDE DEF req
<1>3. /\ q \in Seq(Request) /\ Len(q) = l + 1 /\ q[l + 1] = req
      /\ \A k \in 1 .. l : q[k] = queue[k]
    BY <1>0, <1>1, <1>2, AppendProperties
<1> HIDE DEF l
<1>4. \A k \in 1 .. l : queue[k].who # i
    BY DEF Queued, l
<1>5. ASSUME NEW k \in 1 .. Len(q), NEW m \in 1 .. Len(q), k < m
      PROVE  q[k].id < q[m].id /\ q[k].at <= q[m].at /\ q[k].who # q[m].who
    <2>1. k \in 1 .. l /\ q[k] = queue[k]
        BY <1>0, <1>3, <1>5
    <2>2. CASE m = l + 1
        BY <1>0, <1>1, <1>3, <1>4, <2>1, <2>2
    <2>3. CASE m \in 1 .. l
        BY <1>0, <1>3, <1>5, <2>1, <2>3 DEF InOrder, l
    <2> QED
        BY <1>0, <1>3, <2>2, <2>3
<1>6. InOrder(q)
    BY <1>5 DEF InOrder
<1>7. ASSUME NEW k \in 1 .. Len(q)
      PROVE  /\ q[k].id \in 1 .. counter + 1 /\ q[k].at <= now
             /\ \/ \E j \in 1 .. Len(queue) : q[k].id = queue[j].id
                \/ q[k].id > counter
    <2>1. CASE k = l + 1
        BY <1>0, <1>1, <1>3, <2>1
    <2>2. CASE k \in 1 .. l
        BY <1>0, <1>3, <2>2 DEF l
    <2> QED
        BY <1>0, <1>3, <2>1, <2>2
<1>8. CarriedOver(queue, q, i)
    <2> SUFFICES ASSUME NEW k \in 1 .. Len(queue)
                 PROVE  \E m \in 1 .. Len(q) : q[m].who = queue[k].who /\ q[m].shares = queue[k].shares
        BY DEF CarriedOver
    <2>1. k \in 1 .. Len(q) /\ q[k] = queue[k]
        BY <1>0, <1>3 DEF l
    <2> QED
        BY <2>1
<1>9. CarriedOver(q, queue, i)
    <2> SUFFICES ASSUME NEW k \in 1 .. Len(q), q[k].who # i
                 PROVE  \E m \in 1 .. Len(queue) : queue[m].who = q[k].who /\ queue[m].shares = q[k].shares
        BY DEF CarriedOver
    <2>1. k # l + 1
        BY <1>1, <1>3
    <2>2. k \in 1 .. Len(queue) /\ q[k] = queue[k]
        BY <1>0, <1>3, <2>1 DEF l
    <2> QED
        BY <2>2
<1>10. /\ SumShares(queue) \in Int
       /\ SumShares(q) = SumShares(queue) + QueuedBy(q)[i] - QueuedBy(queue)[i]
    BY <1>0, <1>3, <1>6, <1>8, <1>9, OneRequestChanged
<1>11. QueuedBy(queue)[i] = 0
    BY <1>0, <1>4, QueuedByFacts DEF l
<1>12. QueuedBy(q)[i] = n
    <2>1. l + 1 \in 1 .. Len(q) /\ q[l + 1].who = i /\ q[l + 1].shares = n
        BY <1>0, <1>1, <1>3
    <2>2. \A k \in 1 .. Len(q) : QueuedBy(q)[q[k].who] = q[k].shares
        BY <1>3, <1>6, QueuedByFacts
    <2> QED
        BY <2>1, <2>2
<1> QED
    BY <1>3, <1>6, <1>7, <1>10, <1>11, <1>12

\* What RemoveAt of SequencesExt leaves, place by place.
LEMMA RemoveAtPlaces ==
    ASSUME NEW S, NEW q \in Seq(S), NEW k \in 1 .. Len(q)
    PROVE  /\ Len(RemoveAt(q, k)) = Len(q) - 1
           /\ \A m \in 1 .. Len(q) - 1 : RemoveAt(q, k)[m] = IF m < k THEN q[m] ELSE q[m + 1]
<1> DEFINE a == SubSeq(q, 1, k - 1)
           b == SubSeq(q, k + 1, Len(q))
<1>1. Len(q) \in Nat /\ k \in Nat /\ k >= 1 /\ k <= Len(q)
    BY LenProperties
<1>2. /\ a \in Seq(S) /\ Len(a) = k - 1 /\ \A m \in 1 .. k - 1 : a[m] = q[m]
    BY <1>1, SubSeqProperties
<1>3. b \in Seq(S) /\ Len(b) = Len(q) - k /\ \A m \in 1 .. Len(q) - k : b[m] = q[m + k]
    BY <1>1, SubSeqProperties
<1> HIDE DEF a, b
<1>4. RemoveAt(q, k) = a \o b
    BY DEF RemoveAt, a, b
<1>5. /\ Len(a \o b) = Len(a) + Len(b)
      /\ \A m \in 1 .. Len(a) + Len(b) : (a \o b)[m] = IF m <= Len(a) THEN a[m] ELSE b[m - Len(a)]
    BY <1>2, <1>3, ConcatProperties
<1>6. ASSUME NEW m \in 1 .. Len(q) - 1 PROVE (a \o b)[m] = IF m < k THEN q[m] ELSE q[m + 1]
    <2>1. (a \o b)[m] = IF m <= k - 1 THEN a[m] ELSE b[m - (k - 1)]
        BY <1>1, <1>2, <1>3, <1>5
    <2>2. CASE m < k
        BY <1>1, <1>2, <2>1, <2>2
    <2>3. CASE ~(m < k)
        <3>1. m - (k - 1) \in 1 .. Len(q) - k /\ (m - (k - 1)) + k = m + 1
            BY <1>1, <2>3
        <3> QED
            BY <1>1, <1>3, <2>1, <2>3, <3>1
    <2> QED
        BY <2>2, <2>3
<1> QED
    BY <1>1, <1>2, <1>3, <1>4, <1>5, <1>6

\* A request that is cancelled leaves the others in their order.
LEMMA CancelLeaves ==
    ASSUME TypeOK, QueueInv, NEW k \in 1 .. Len(queue), NEW q, q = RemoveAt(queue, k),
           q \in Seq(Request)
    PROVE  /\ InOrder(q) /\ StillThere(q, queue)
           /\ SumShares(q) = SumShares(queue) - queue[k].shares
<1> DEFINE l == Len(queue)
           i == queue[k].who
           At(m) == IF m < k THEN m ELSE m + 1
<1>0. /\ queue \in Seq(Request) /\ InOrder(queue) /\ l \in Nat
      /\ \A m \in 1 .. l : queue[m].shares \in Nat \ {0} /\ queue[m].who \in Investors
      /\ k \in 1 .. l
    BY QueueNow
<1>1. Len(q) = l - 1 /\ \A m \in 1 .. l - 1 : q[m] = queue[At(m)]
    BY <1>0, RemoveAtPlaces
<1>2. \A m \in 1 .. l - 1 : At(m) \in 1 .. l /\ At(m) # k
    BY <1>0
<1>3. \A m, h \in 1 .. l - 1 : m < h => At(m) < At(h)
    BY <1>0
<1>4. \A j \in 1 .. l : j # k => \E m \in 1 .. l - 1 : At(m) = j
    <2> SUFFICES ASSUME NEW j \in 1 .. l, j # k PROVE \E m \in 1 .. l - 1 : At(m) = j
        OBVIOUS
    <2>1. CASE j < k
        <3>1. j \in 1 .. l - 1 /\ At(j) = j
            BY <1>0, <2>1
        <3> QED
            BY <3>1
    <2>2. CASE ~(j < k)
        <3>1. j - 1 \in 1 .. l - 1 /\ At(j - 1) = j
            BY <1>0, <2>2
        <3> QED
            BY <3>1
    <2> QED
        BY <2>1, <2>2
<1> HIDE DEF At, l
<1>5. InOrder(q)
    <2> SUFFICES ASSUME NEW m \in 1 .. Len(q), NEW h \in 1 .. Len(q), m < h
                 PROVE  q[m].id < q[h].id /\ q[m].at <= q[h].at /\ q[m].who # q[h].who
        BY DEF InOrder
    <2>1. m \in 1 .. l - 1 /\ h \in 1 .. l - 1
        BY <1>1
    <2>2. /\ q[m] = queue[At(m)] /\ q[h] = queue[At(h)] /\ At(m) < At(h)
          /\ At(m) \in 1 .. Len(queue) /\ At(h) \in 1 .. Len(queue)
        BY <1>1, <1>2, <1>3, <2>1 DEF l
    <2> QED
        BY <1>0, <2>2 DEF InOrder
<1>6. StillThere(q, queue)
    <2> SUFFICES ASSUME NEW m \in 1 .. Len(q)
                 PROVE  \E j \in 1 .. Len(queue) : q[m].id = queue[j].id /\ q[m].at = queue[j].at
        BY DEF StillThere
    <2>1. q[m] = queue[At(m)] /\ At(m) \in 1 .. Len(queue)
        BY <1>1, <1>2 DEF l
    <2> QED
        BY <2>1
<1>7. CarriedOver(queue, q, i)
    <2> SUFFICES ASSUME NEW j \in 1 .. Len(queue), queue[j].who # i
                 PROVE  \E m \in 1 .. Len(q) : q[m].who = queue[j].who /\ q[m].shares = queue[j].shares
        BY DEF CarriedOver
    <2>1. j # k /\ j \in 1 .. l
        BY DEF l
    <2>2. PICK m \in 1 .. l - 1 : At(m) = j
        BY <1>4, <2>1
    <2>3. m \in 1 .. Len(q) /\ q[m] = queue[j]
        BY <1>1, <2>2
    <2> QED
        BY <2>3
<1>8. CarriedOver(q, queue, i)
    <2> SUFFICES ASSUME NEW m \in 1 .. Len(q)
                 PROVE  \E j \in 1 .. Len(queue) : queue[j].who = q[m].who /\ queue[j].shares = q[m].shares
        BY DEF CarriedOver
    <2>1. q[m] = queue[At(m)] /\ At(m) \in 1 .. Len(queue)
        BY <1>1, <1>2 DEF l
    <2> QED
        BY <2>1
<1>9. i \in Investors /\ queue[k].shares \in Nat
    BY <1>0
<1>10. /\ SumShares(queue) \in Int
       /\ SumShares(q) = SumShares(queue) + QueuedBy(q)[i] - QueuedBy(queue)[i]
    BY <1>0, <1>5, <1>7, <1>8, <1>9, OneRequestChanged
<1>11. QueuedBy(queue)[i] = queue[k].shares
    BY <1>0, QueuedByFacts
<1>12. QueuedBy(q)[i] = 0
    <2>1. ASSUME NEW m \in 1 .. Len(q) PROVE q[m].who # i
        <3>1. q[m] = queue[At(m)] /\ At(m) \in 1 .. Len(queue) /\ At(m) # k
            BY <1>1, <1>2 DEF l
        <3>2. queue[At(m)].who # queue[k].who
            BY <1>0, <3>1, PlacesDiffer
        <3> QED
            BY <3>1, <3>2
    <2>2. \A y \in Investors : (\A m \in 1 .. Len(q) : q[m].who # y) => QueuedBy(q)[y] = 0
        BY <1>5, QueuedByFacts
    <2> QED
        BY <1>9, <2>1, <2>2
<1> QED
    BY <1>5, <1>6, <1>9, <1>10, <1>11, <1>12

\* A request that is adjusted keeps its place.
LEMMA AdjustKeepsPlace ==
    ASSUME TypeOK, QueueInv, NEW k \in 1 .. Len(queue), NEW n \in Nat \ {0},
           NEW q, q = [queue EXCEPT ![k].shares = n], q \in Seq(Request)
    PROVE  /\ InOrder(q) /\ StillThere(q, queue)
           /\ SumShares(q) = SumShares(queue) + n - queue[k].shares
<1> DEFINE i == queue[k].who
           N == 1 .. Len(queue)
           new == [queue[k] EXCEPT !.shares = n]
<1>0. /\ queue \in Seq(Request) /\ InOrder(queue) /\ Len(queue) \in Nat
      /\ \A m \in N : queue[m] \in Request /\ queue[m].shares \in Nat \ {0} /\ queue[m].who \in Investors
      /\ queue \in [N -> Request]
    BY QueueNow, LenProperties
<1>1. new.id = queue[k].id /\ new.at = queue[k].at /\ new.who = i /\ new.shares = n
    BY <1>0 DEF Request
<1>2. q = [queue EXCEPT ![k] = new]
    BY Zenon
<1> HIDE DEF new
<1>3. /\ q[k] = new /\ \A m \in N : m # k => q[m] = queue[m]
      /\ DOMAIN q = N /\ Len(q) = Len(queue)
    <2>1. q[k] = new /\ (\A m \in N : m # k => q[m] = queue[m]) /\ DOMAIN q = N
        BY <1>0, <1>2
    <2>2. DOMAIN q = 1 .. Len(q) /\ Len(q) \in Nat
        BY LenProperties
    <2> QED
        BY <1>0, <2>1, <2>2
<1>4. \A m \in N : /\ q[m].id = queue[m].id /\ q[m].at = queue[m].at /\ q[m].who = queue[m].who
                   /\ m # k => q[m].shares = queue[m].shares
    BY <1>1, <1>3
<1>5. InOrder(q)
    BY <1>0, <1>3, <1>4 DEF InOrder
<1>6. StillThere(q, queue)
    BY <1>3, <1>4 DEF StillThere
<1>7. CarriedOver(queue, q, i) /\ CarriedOver(q, queue, i)
    <2>1. ASSUME NEW m \in N, queue[m].who # i \/ q[m].who # i
          PROVE  q[m].who = queue[m].who /\ q[m].shares = queue[m].shares
        BY <1>4, <2>1
    <2> QED
        BY <1>3, <2>1 DEF CarriedOver
<1>9. i \in Investors /\ queue[k].shares \in Nat
    BY <1>0
<1>10. /\ SumShares(queue) \in Int
       /\ SumShares(q) = SumShares(queue) + QueuedBy(q)[i] - QueuedBy(queue)[i]
    BY <1>0, <1>5, <1>7, <1>9, OneRequestChanged
<1>11. QueuedBy(queue)[i] = queue[k].shares
    BY <1>0, QueuedByFacts
<1>12. QueuedBy(q)[i] = n
    <2>1. \A m \in 1 .. Len(q) : QueuedBy(q)[q[m].who] = q[m].shares
        BY <1>5, QueuedByFacts
    <2>2. k \in 1 .. Len(q) /\ q[k].who = i /\ q[k].shares = n
        BY <1>1, <1>3
    <2> QED
        BY <2>1, <2>2
<1> QED
    BY <1>5, <1>6, <1>9, <1>10, <1>11, <1>12

\* The investors' handlers keep the queue backed and in order.
LEMMA SharesStepQueue ==
    ASSUME TypeOK, TypeOK', QueueInv, SharesNext
    PROVE  QueueInv' /\ Followed
<1> DEFINE Goal == QueueInv' /\ Followed
<1> SUFFICES Goal
    OBVIOUS
<1>0. /\ queue \in Seq(Request) /\ InOrder(queue) /\ Len(queue) \in Nat
      /\ \A k \in 1 .. Len(queue) :
            /\ queue[k] \in Request /\ queue[k].shares \in Nat \ {0}
            /\ queue[k].who \in Investors
            /\ queue[k].id \in 1 .. counter /\ queue[k].at \in 0 .. now
      /\ counter \in Nat /\ now \in Nat /\ supply \in Int
      /\ supply = Total(bal) /\ supply = Total(available) + SumShares(queue)
    BY QueueNow
<1>a. /\ bal \in [Investors -> Int] /\ available \in [Investors -> Int]
      /\ bal' \in [Investors -> Int] /\ available' \in [Investors -> Int]
      /\ queue' \in Seq(Request)
    <2>1. /\ bal \in [Investors -> Nat] /\ available \in [Investors -> Int]
          /\ bal' \in [Investors -> Nat] /\ available' \in [Investors -> Int]
          /\ queue' \in Seq(Request)
        BY Zenon DEF TypeOK
    <2> QED
        BY <2>1
<1>c. /\ supply \in Int /\ supply = Total(bal) /\ supply = Total(available) + SumShares(queue)
      /\ now \in Nat /\ SumShares(queue) \in Int /\ supply' \in Int
    BY <1>0, SumSharesInt DEF TypeOK
<1>b. /\ Total(bal) \in Int /\ Total(available) \in Int
      /\ Total(bal') \in Int /\ Total(available') \in Int
    BY <1>a, TotalType
<1>1. CASE Tick \/ Pause \/ Unpause
    <2>1. UNCHANGED <<supply, bal, available, queue, counter>> /\ now' \in {now, now + 1}
        BY <1>1, Zenon DEF Tick, Pause, Unpause, shareVars
    <2>2. now' >= now
        BY <1>0, <2>1
    <2>3. supply' = Total(bal') /\ supply' - Total(available') = supply - Total(available)
        BY <1>0, <2>1, Zenon
    <2> QED
        BY <2>1, <2>2, <2>3, QueueUntouched
<1>2. ASSUME NEW total \in Int, NEW pv, NEW dep, NEW c, SettledFrom(total, pv, dep, c),
             UNCHANGED <<now, counter>>, total - Total(available') = supply - Total(available)
      PROVE  Goal
    <2>1. /\ supply' = Total(bal') /\ supply' \in Int
          /\ SumShares(queue') \in Int
          /\ supply' - SumShares(queue') = total - SumShares(queue)
          /\ InOrder(queue') /\ StillThere(queue', queue)
        BY <1>2, Zenon DEF SettledFrom
    <2> DEFINE a == Total(available)
               a2 == Total(available')
               s == SumShares(queue)
               s2 == SumShares(queue')
    <2>2. /\ a \in Int /\ a2 \in Int /\ s \in Int /\ s2 \in Int /\ supply = a + s
          /\ total - a2 = supply - a /\ supply' - s2 = total - s
        BY <1>b, <1>c, <1>2, <2>1
    <2>a. supply \in Int /\ supply' \in Int
        BY <1>c
    <2> HIDE DEF a, a2, s, s2
    <2>b. PICK t \in Int : t = supply'
        BY <2>a, Zenon
    <2>c. t - s2 = total - s
        BY <2>2, <2>b, Zenon
    <2>d. t = a2 + s2
        BY <2>2, <2>a, <2>c
    <2>3. supply' = a2 + s2
        BY <2>b, <2>d, Zenon
    <2>4. now' >= now /\ counter' = counter
        BY <1>0, <1>2
    <2> QED
        BY <2>1, <2>3, <2>4, QueueKept DEF a2, s2
<1>3. CASE DrainWithdrawalQueue
    <2>1. SettledFrom(supply, poolValue, deployed, cash)
        BY <1>3, DrainSettles
    <2>2. UNCHANGED <<now, counter, available>>
        BY <1>3, Zenon DEF DrainWithdrawalQueue
    <2> QED
        BY <1>0, <1>2, <2>1, <2>2
<1>4. ASSUME NEW i \in Investors, NEW a \in DepositAmounts, Deposit(i, a)
      PROVE  Goal
    <2> DEFINE n == SharesFor(a)
    <2>1. n \in Nat /\ SettledFrom(supply + n, poolValue + a, deployed, cash + a)
        BY <1>4, DepositSettles
    <2>2. UNCHANGED <<now, counter>> /\ available' = [available EXCEPT ![i] = @ + n]
        BY <1>4, Zenon DEF Deposit
    <2> HIDE DEF n
    <2>3. /\ available'[i] = available[i] + n /\ available[i] \in Int
          /\ \A y \in Investors \ {i} : available'[y] = available[y]
        BY <1>a, <2>2
    <2>4. Total(available') = Total(available) + available'[i] - available[i]
        BY <1>a, <2>3, TotalChange
    <2>a. n \in Nat /\ available'[i] = available[i] + n /\ available[i] \in Int
        BY <2>1, <2>3
    <2>5. supply + n \in Int /\ (supply + n) - Total(available') = supply - Total(available)
        BY <1>b, <1>c, <2>4, <2>a
    <2> QED
        BY <1>2, <2>1, <2>2, <2>5
<1>5. ASSUME NEW i \in Investors, NEW n \in ShareAmounts,
             Withdraw(i, n) \/ RequestImmediate(i, n)
      PROVE  Goal
    <2>1. /\ bal' = [bal EXCEPT ![i] = @ - n] /\ available' = [available EXCEPT ![i] = @ - n]
          /\ supply' = supply - n /\ UNCHANGED <<now, queue, counter>>
        BY <1>5, Zenon DEF Withdraw, RequestImmediate, PayOut
    <2>2. n \in Nat
        BY SharesAssumption DEF ShareAmounts
    <2>3. /\ bal'[i] = bal[i] - n /\ bal[i] \in Int
          /\ available'[i] = available[i] - n /\ available[i] \in Int
          /\ \A y \in Investors \ {i} : bal'[y] = bal[y]
          /\ \A y \in Investors \ {i} : available'[y] = available[y]
        BY <1>a, <2>1
    <2>4. Total(bal') = Total(bal) + bal'[i] - bal[i]
        BY <1>a, <2>3, TotalChange
    <2>5. Total(available') = Total(available) + available'[i] - available[i]
        BY <1>a, <2>3, TotalChange
    <2>6. supply' = Total(bal') /\ supply' - Total(available') = supply - Total(available)
        <3>1. /\ bal'[i] = bal[i] - n /\ bal[i] \in Int /\ supply' = supply - n
              /\ available'[i] = available[i] - n /\ available[i] \in Int
            BY <2>1, <2>3
        <3>2. PICK tb \in Int, ta \in Int : tb = Total(bal') /\ ta = Total(available')
            BY <1>b, Zenon
        <3>3. tb = Total(bal) + bal'[i] - bal[i] /\ ta = Total(available) + available'[i] - available[i]
            BY <2>4, <2>5, <3>2, Zenon
        <3>4. tb = Total(bal) - n /\ ta = Total(available) - n
            BY <1>b, <2>2, <3>1, <3>3
        <3>5. supply - n = tb /\ (supply - n) - ta = supply - Total(available)
            <4> DEFINE a == Total(available)
            <4>1. supply \in Int /\ a \in Int /\ tb = supply - n /\ ta = a - n
                BY <1>b, <1>c, <3>4
            <4> HIDE DEF a
            <4>2. supply - n = tb /\ (supply - n) - ta = supply - a
                BY <2>2, <4>1
            <4> QED
                BY <4>2 DEF a
        <3>6. supply' = tb
            BY <3>1, <3>5
        <3>7. supply' - ta = supply - Total(available)
            BY <3>1, <3>5
        <3> QED
            BY <3>2, <3>6, <3>7
    <2>7. now' >= now
        BY <1>0, <2>1
    <2> QED
        BY <2>1, <2>6, <2>7, QueueUntouched
<1>6. ASSUME NEW i \in Investors, NEW n \in ShareAmounts, RequestQueued(i, n)
      PROVE  Goal
    <2>1. /\ ~Queued(i) /\ available' = [available EXCEPT ![i] = @ - n] /\ counter' = counter + 1
          /\ queue' = Append(queue, [who |-> i, shares |-> n, at |-> now, id |-> counter + 1])
          /\ UNCHANGED <<now, supply, bal>>
        BY <1>6, Zenon DEF RequestQueued, MayRequest
    <2>2. n \in Nat \ {0}
        BY SharesAssumption DEF ShareAmounts
    <2>3. /\ InOrder(queue') /\ SumShares(queue') = SumShares(queue) + n
          /\ \A k \in 1 .. Len(queue') : /\ queue'[k].id \in 1 .. counter + 1 /\ queue'[k].at <= now
                                         /\ \/ \E j \in 1 .. Len(queue) : queue'[k].id = queue[j].id
                                            \/ queue'[k].id > counter
        BY <2>1, <2>2, RequestQueues
    <2>4. /\ available'[i] = available[i] - n /\ available[i] \in Int
          /\ \A y \in Investors \ {i} : available'[y] = available[y]
        BY <1>a, <2>1
    <2>5. Total(available') = Total(available) + available'[i] - available[i]
        BY <1>a, <2>4, TotalChange
    <2>6. supply' = Total(bal') /\ supply' = Total(available') + SumShares(queue')
        <3>1. /\ available'[i] = available[i] - n /\ available[i] \in Int
              /\ SumShares(queue') = SumShares(queue) + n
            BY <2>3, <2>4
        <3>2. supply' = supply /\ Total(bal') = Total(bal)
            BY <2>1
        <3>3. PICK ta \in Int : ta = Total(available')
            BY <1>b, Zenon
        <3>4. ta = Total(available) + available'[i] - available[i]
            BY <2>5, <3>3, Zenon
        <3>5. ta = Total(available) - n
            BY <1>b, <2>2, <3>1, <3>4
        <3>6. supply = ta + (SumShares(queue) + n)
            BY <1>b, <1>c, <2>2, <3>5
        <3> QED
            BY <1>c, <3>1, <3>2, <3>3, <3>6, Zenon
    <2>7. \A k \in 1 .. Len(queue') : queue'[k].shares \in Nat \ {0}
        BY <1>a, LenProperties, ElementOfSeq, RequestFields
    <2>8. QueueBacked'
        <3>1. \A k \in 1 .. Len(queue') : queue'[k].shares > 0 /\ queue'[k].id \in 1 .. counter'
            BY <2>1, <2>3, <2>7
        <3> QED
            BY <2>3, <2>6, <3>1, Zenon DEF QueueBacked, InOrder
    <2>9. AskedByNow(queue)' /\ Followed
        BY <2>1, <2>3 DEF AskedByNow, Followed
    <2> QED
        BY <2>8, <2>9 DEF QueueInv
<1>7. ASSUME NEW i \in Investors, NEW d \in Int, InOrder(queue'), StillThere(queue', queue),
             available' = [available EXCEPT ![i] = @ - d],
             SumShares(queue') = SumShares(queue) + d,
             UNCHANGED <<now, supply, bal, counter>>
      PROVE  Goal
    <2>1. /\ available'[i] = available[i] - d /\ available[i] \in Int
          /\ \A y \in Investors \ {i} : available'[y] = available[y]
        BY <1>a, <1>7
    <2>2. Total(available') = Total(available) + available'[i] - available[i]
        BY <1>a, <2>1, TotalChange
    <2>3. supply' = Total(bal') /\ supply' = Total(available') + SumShares(queue')
        <3>1. /\ available'[i] = available[i] - d /\ available[i] \in Int
              /\ SumShares(queue') = SumShares(queue) + d
            BY <1>7, <2>1
        <3>2. supply' = supply /\ Total(bal') = Total(bal)
            BY <1>7
        <3> QED
            BY <1>b, <1>c, <1>7, <2>2, <3>1, <3>2
    <2>4. now' >= now /\ counter' = counter
        BY <1>0, <1>7
    <2> QED
        BY <1>7, <2>3, <2>4, QueueKept
<1>8. ASSUME NEW i \in Investors, CancelWithdrawalRequest(i)
      PROVE  Goal
    <2>1. PICK k \in 1 .. Len(queue) :
              /\ available' = [available EXCEPT ![i] = @ + queue[k].shares]
              /\ queue' = RemoveAt(queue, k)
              /\ UNCHANGED <<now, paused, cash, poolValue, deployed, supply, bal, counter>>
        BY <1>8 DEF CancelWithdrawalRequest
    <2>2. /\ InOrder(queue') /\ StillThere(queue', queue)
          /\ SumShares(queue') = SumShares(queue) - queue[k].shares
        BY <1>a, <2>1, CancelLeaves
    <2> DEFINE d == -queue[k].shares
    <2>3. queue[k].shares \in Nat /\ d \in Int
        BY <1>0
    <2>4. available' = [available EXCEPT ![i] = @ - d] /\ SumShares(queue') = SumShares(queue) + d
        <3>1. available[i] + queue[k].shares = available[i] - d
            BY <1>a, <2>3
        <3> QED
            BY <1>a, <2>1, <2>2, <2>3, <3>1
    <2> HIDE DEF d
    <2> QED
        BY <1>7, <2>1, <2>2, <2>3, <2>4
<1>9. ASSUME NEW i \in Investors, NEW n \in ShareAmounts, AdjustWithdrawalRequest(i, n)
      PROVE  Goal
    <2>1. n \in Nat \ {0}
        BY SharesAssumption DEF ShareAmounts
    <2>2. PICK k \in 1 .. Len(queue) :
              /\ available' = [available EXCEPT ![i] = @ - (n - queue[k].shares)]
              /\ queue' = [queue EXCEPT ![k].shares = n]
              /\ UNCHANGED <<now, paused, cash, poolValue, deployed, supply, bal, counter>>
        BY <1>9 DEF AdjustWithdrawalRequest
    <2>3. /\ InOrder(queue') /\ StillThere(queue', queue)
          /\ SumShares(queue') = SumShares(queue) + n - queue[k].shares
        BY <1>a, <2>1, <2>2, AdjustKeepsPlace
    <2> DEFINE d == n - queue[k].shares
    <2>4. queue[k].shares \in Nat /\ d \in Int
        BY <1>0, <2>1
    <2>5. available' = [available EXCEPT ![i] = @ - d]
        BY <2>2, Zenon
    <2>6. SumShares(queue') = SumShares(queue) + d
        BY <1>a, <2>1, <2>3, <2>4
    <2> HIDE DEF d
    <2> QED
        BY <1>7, <2>2, <2>3, <2>4, <2>5, <2>6
<1>10. ASSUME NEW i \in Investors, NEW j \in Investors, NEW n \in ShareAmounts,
              ShareTransfer(i, j, n)
       PROVE  Goal
    <2> DEFINE b == [bal EXCEPT ![i] = @ - n]
    <2>1. /\ i # j /\ bal' = [b EXCEPT ![j] = @ + n]
          /\ UNCHANGED <<now, supply, available, queue, counter>>
        BY <1>10, Zenon DEF ShareTransfer
    <2>2. n \in Nat
        BY SharesAssumption DEF ShareAmounts
    <2>3. /\ b \in [Investors -> Int] /\ b[i] = bal[i] - n /\ b[j] = bal[j]
          /\ bal[i] \in Int /\ bal[j] \in Int
          /\ \A y \in Investors \ {i} : b[y] = bal[y]
        BY <1>a, <2>1, <2>2
    <2> HIDE DEF b
    <2>4. bal'[j] = b[j] + n /\ \A y \in Investors \ {j} : bal'[y] = b[y]
        BY <2>1, <2>3
    <2>5. Total(b) \in Int /\ Total(b) = Total(bal) + b[i] - bal[i]
        BY <1>a, <2>3, TotalChange
    <2>6. Total(bal') = Total(b) + bal'[j] - b[j]
        BY <1>a, <2>3, <2>4, TotalChange
    <2>7. Total(bal') = Total(bal)
        BY <1>b, <2>2, <2>3, <2>4, <2>5, <2>6
    <2>8. supply' = Total(bal') /\ supply' - Total(available') = supply - Total(available)
        BY <1>0, <2>1, <2>7, Zenon
    <2>9. now' >= now
        BY <1>0, <2>1
    <2> QED
        BY <2>1, <2>8, <2>9, QueueUntouched
<1> QED
    BY <1>1, <1>3, <1>4, <1>5, <1>6, <1>8, <1>9, <1>10 DEF SharesNext

\* Of the lending handlers only a full repayment reaches the shares.
LEMMA LendingStepShares ==
    ASSUME LendingNext
    PROVE  \/ UNCHANGED <<now, shareVars>>
           \/ \E i \in Invoices, a \in Payments : \E reward \in Rewards(i) : RepayFull(i, a, reward)
<1>1. ASSUME NEW i \in Invoices, NEW p, NEW due, NEW premium, FundInvoiceRequest(i, p, due, premium)
      PROVE  UNCHANGED <<now, shareVars>>
    BY <1>1, Zenon DEF FundInvoiceRequest
<1>2. ASSUME NEW i, NEW a,
             \/ RepayPart(i, a) \/ DepositCollateral(i, a) \/ TopUpCollateral(i, a)
             \/ RiskLiquidateCollateral(i) \/ LiquidateInvoice(i) \/ CancelFundedInvoice(i)
             \/ CleanupFundedInvoice(i) \/ UpdateInvoiceDueDate(i, a)
             \/ ClaimYield(i, a) \/ ReceiveInsurancePayout(a) \/ WithdrawRevenue(a)
      PROVE  UNCHANGED <<now, shareVars>>
    BY <1>2, Zenon DEF RepayPart, DepositCollateral, TopUpCollateral, RiskLiquidateCollateral,
       LiquidateInvoice, CancelFundedInvoice, CleanupFundedInvoice, UpdateInvoiceDueDate,
       ClaimYield, ReceiveInsurancePayout, WithdrawRevenue
<1> QED
    BY <1>1, <1>2, Zenon DEF LendingNext, FundInvoice, FundMultipleInvoices

LEMMA LendingStepQueue ==
    ASSUME TypeOK, TypeOK', QueueInv, LendingNext
    PROVE  QueueInv' /\ Followed
<1>0. now \in Nat /\ supply \in Int /\ supply = Total(bal)
    BY QueueNow
<1>1. ASSUME UNCHANGED <<now, shareVars>> PROVE QueueInv' /\ Followed
    <2>1. UNCHANGED <<now, supply, bal, available, queue, counter>>
        BY <1>1 DEF shareVars
    <2>2. supply' = Total(bal') /\ supply' - Total(available') = supply - Total(available)
        BY <1>0, <2>1, Zenon
    <2>3. now' >= now
        BY <1>0, <2>1
    <2> QED
        BY <2>1, <2>2, <2>3, QueueUntouched
<1>2. ASSUME NEW i \in Invoices, NEW a \in Payments, NEW reward \in Rewards(i),
             RepayFull(i, a, reward)
      PROVE  QueueInv' /\ Followed
    <2>1. PICK pv, dep, c : SettledFrom(supply, pv, dep, c)
        BY <1>2, RepaySettles
    <2>2. UNCHANGED <<now, counter, available>>
        BY <1>2, Zenon DEF RepayFull
    <2>3. /\ supply' = Total(bal') /\ supply' \in Int
          /\ SumShares(queue') \in Int /\ SumShares(queue) \in Int
          /\ supply' - SumShares(queue') = supply - SumShares(queue)
          /\ InOrder(queue') /\ StillThere(queue', queue)
        BY <2>1, Zenon DEF SettledFrom
    <2>4. supply = Total(available) + SumShares(queue) /\ Total(available) \in Int
        BY QueueNow, TotalType DEF TypeOK
    <2>5. supply' = Total(available) + SumShares(queue')
        BY <1>0, <2>3, <2>4
    <2>6. supply' = Total(available') + SumShares(queue') /\ counter' = counter
        BY <2>2, <2>5
    <2>7. now' >= now
        BY <1>0, <2>2
    <2> QED
        BY <2>3, <2>6, <2>7, QueueKept
<1> QED
    BY <1>1, <1>2, LendingStepShares, Zenon

LEMMA InitQueue == Init => QueueInv
<1> SUFFICES ASSUME Init PROVE QueueInv
    OBVIOUS
<1>1. /\ supply = 0 /\ queue = <<>> /\ bal = [i \in Investors |-> 0]
      /\ available = [i \in Investors |-> 0]
    BY DEF Init, SharesInit
<1>2. Total([i \in Investors |-> 0]) = 0
    BY SumOfZero, TotalIsSum, SharesAssumption
<1>3. Len(queue) = 0 /\ queue \in Seq(Request)
    BY <1>1, EmptySeq
<1>4. InOrder(queue) /\ AskedByNow(queue)
    BY <1>3 DEF InOrder, AskedByNow
<1>5. SumShares(queue) = 0
    <2>1. /\ QueuedBy(queue) \in [Investors -> Nat] /\ SumShares(queue) = Total(QueuedBy(queue))
          /\ \A i \in Investors : (\A k \in 1 .. Len(queue) : queue[k].who # i) => QueuedBy(queue)[i] = 0
        BY <1>3, <1>4, QueuedByFacts, SumSharesIs
    <2>2. \A i \in Investors : QueuedBy(queue)[i] = 0
        BY <1>3, <2>1
    <2>3. QueuedBy(queue) = [i \in Investors |-> 0]
        BY <2>1, <2>2
    <2> QED
        BY <1>2, <2>1, <2>3
<1>6. supply = Total(bal) /\ supply = Total(available) + SumShares(queue)
    BY <1>1, <1>2, <1>5
<1> QED
    BY <1>3, <1>4, <1>6 DEF QueueInv, QueueBacked, InOrder

\* The induction step of the types and of the queue: the types need the queue
\* to know that a settlement goes through, and the queue the types.
LEMMA BooksStep ==
    ASSUME TypeOK, QueueInv, [Next]_vars
    PROVE  TypeOK' /\ QueueInv' /\ (Followed \/ UNCHANGED queue)
<1>1. CASE UNCHANGED vars
    <2>1. TypeOK'
        BY <1>1 DEF vars, shareVars, lendingVars, TypeOK
    <2>2. UNCHANGED <<now, supply, bal, available, queue, counter>>
        BY <1>1 DEF vars, shareVars
    <2>3. QueueInv'
        BY <2>2 DEF QueueInv, QueueBacked, AskedByNow
    <2> QED
        BY <2>1, <2>2, <2>3
<1>2. CASE SharesNext /\ UNCHANGED lendingVars
    <2>1. TypeOK'
        BY <1>2, SharesStepType
    <2> QED
        BY <1>2, <2>1, SharesStepQueue
<1>3. CASE LendingNext
    <2>1. TypeOK'
        BY <1>3, LendingStepType
    <2> QED
        BY <1>3, <2>1, LendingStepQueue
<1> QED
    BY <1>1, <1>2, <1>3 DEF Next

\* Types and queue together, in every behaviour.
LEMMA BooksHold == Spec => [](TypeOK /\ QueueInv)
<1>1. Init => TypeOK /\ QueueInv
    BY InitType, InitQueue
<1>2. (TypeOK /\ QueueInv) /\ [Next]_vars => (TypeOK /\ QueueInv)'
    BY BooksStep
<1> QED
    BY <1>1, <1>2, PTL DEF Spec

\* Every value the contract stores keeps its type in every behaviour of the
\* pool: amounts stay amounts through all divisions and settlements.
THEOREM TypeCorrect == Spec => []TypeOK
    BY BooksHold, PTL

\* The three ledgers of the shares agree, and the queue stays in the order of
\* arrival, whatever the number of investors and requests: through settlements
\* of any number of cohorts that pay in full, in part or not at all, and however
\* their divisions round.  The inductive invariant adds that no request is dated
\* after now, without which a settlement would pass a cohort over.
THEOREM QueueCorrect == Spec => []QueueBacked
<1>1. TypeOK /\ QueueInv => QueueBacked
    BY DEF QueueInv
<1> QED
    BY <1>1, BooksHold, PTL

\* The requests ahead of a request of a queue in order.
LEMMA AheadIsOlder ==
    ASSUME NEW q \in Seq(Request), InOrder(q), NEW j \in 1 .. Len(q), NEW x
    PROVE  x \in Ahead(q[j].id, q) <=> \E m \in 1 .. Len(q) : x = q[m].id /\ q[m].id < q[j].id
<1>1. Len(q) \in Nat /\ \A k \in 1 .. Len(q) : q[k].id \in Nat
    BY LenProperties, ElementOfSeq, RequestFields
<1>2. ASSUME x \in Ahead(q[j].id, q)
      PROVE  \E m \in 1 .. Len(q) : x = q[m].id /\ q[m].id < q[j].id
    <2>1. PICK m \in 1 .. Len(q) : x = q[m].id /\ \E k \in m + 1 .. Len(q) : q[k].id = q[j].id
        BY <1>2 DEF Ahead
    <2>2. PICK k \in m + 1 .. Len(q) : q[k].id = q[j].id
        BY <2>1
    <2>3. k \in 1 .. Len(q) /\ m < k
        BY <1>1
    <2> QED
        BY <2>1, <2>2, <2>3 DEF InOrder
<1>3. ASSUME NEW m \in 1 .. Len(q), x = q[m].id, q[m].id < q[j].id
      PROVE  x \in Ahead(q[j].id, q)
    <2>1. m < j
        BY <1>3, PlacesDiffer
    <2>2. j \in m + 1 .. Len(q)
        BY <1>1, <2>1
    <2> QED
        BY <1>3, <2>2 DEF Ahead
<1> QED
    BY <1>2, <1>3

\* No step of any handler puts a request ahead of one that was waiting before
\* it: an adjustment keeps the place, a settlement rebuilds the queue in order,
\* and a new request gets an id above all that are waiting.
THEOREM NotOvertaken == Spec => NobodyIsOvertaken
<1> DEFINE A == \A id \in Ids(queue) \cap Ids(queue') : Ahead(id, queue') \subseteq Ahead(id, queue)
<1>1. (TypeOK /\ QueueInv) /\ [Next]_vars => [A]_vars
    <2> SUFFICES ASSUME TypeOK, QueueInv, [Next]_vars PROVE A
        OBVIOUS
    <2>1. TypeOK' /\ QueueInv' /\ (Followed \/ UNCHANGED queue)
        BY BooksStep
    <2>2. CASE UNCHANGED queue
        BY <2>2
    <2>3. CASE Followed
        <3> SUFFICES ASSUME NEW id \in Ids(queue) \cap Ids(queue'), NEW x \in Ahead(id, queue')
                     PROVE  x \in Ahead(id, queue)
            OBVIOUS
        <3>0. /\ queue \in Seq(Request) /\ InOrder(queue) /\ counter \in Nat
              /\ \A k \in 1 .. Len(queue) : queue[k].id \in 1 .. counter
            BY QueueNow
        <3>1. queue' \in Seq(Request) /\ InOrder(queue')
            BY <2>1, Zenon DEF TypeOK, QueueInv, QueueBacked, InOrder
        <3>2. PICK j \in 1 .. Len(queue) : id = queue[j].id
            BY DEF Ids
        <3>3. PICK k \in 1 .. Len(queue') : id = queue'[k].id
            BY DEF Ids
        <3>4. x \in Ahead(queue'[k].id, queue')
            BY <3>3
        <3>5. PICK m \in 1 .. Len(queue') : x = queue'[m].id /\ queue'[m].id < queue'[k].id
            BY <3>1, <3>4, AheadIsOlder
        <3>6. id \in 1 .. counter /\ x < id
            BY <3>0, <3>2, <3>3, <3>5
        <3>7. ~(x > counter)
            <4>1. x \in Nat
                BY <3>1, <3>5, LenProperties, ElementOfSeq, RequestFields
            <4> QED
                BY <3>0, <3>6, <4>1
        <3>8. PICK h \in 1 .. Len(queue) : x = queue[h].id
            BY <2>3, <3>5, <3>7 DEF Followed
        <3>9. x = queue[h].id /\ queue[h].id < queue[j].id
            BY <3>2, <3>6, <3>8
        <3> QED
            BY <3>0, <3>2, <3>9, AheadIsOlder
    <2> QED
        BY <2>1, <2>2, <2>3
<1> QED
    BY <1>1, BooksHold, PTL DEF Spec, NobodyIsOvertaken

\* What an amount buys, and what shares are worth, is rounded in favour of those
\* who stay.
LEMMA RoundedForThePool ==
    ASSUME NEW s \in Nat \ {0}, NEW v \in Nat, NEW a \in Nat, NEW n \in Nat
    PROVE  /\ v * n <= a * s => (v + a) * s >= v * (s + n)
           /\ s * a <= n * v => (v - a) * s >= v * (s - n)
<1>1. /\ (v + a) * s = v * s + a * s /\ v * (s + n) = v * s + v * n
      /\ (v - a) * s = v * s - s * a /\ v * (s - n) = v * s - n * v
    OBVIOUS
<1>2. v * s \in Int /\ a * s \in Int /\ v * n \in Int /\ s * a \in Int /\ n * v \in Int
    OBVIOUS
<1> QED
    BY <1>1, <1>2

\* A deposit or a withdrawal never lowers the value of a share.
THEOREM PriceKept == Spec => SharePriceNeverFalls
<1> DEFINE A == (supply > 0 /\ poolValue >= 0 /\ supply' # supply /\ queue' = queue)
                    => poolValue' * supply >= poolValue * supply'
<1>1. (TypeOK /\ QueueInv) /\ [Next]_vars => [A]_vars
    <2> SUFFICES ASSUME TypeOK, QueueInv, [Next]_vars,
                        supply > 0, poolValue >= 0, supply' # supply, queue' = queue
                 PROVE  poolValue' * supply >= poolValue * supply'
        OBVIOUS
    <2> DEFINE Goal == poolValue' * supply >= poolValue * supply'
    <2>0. supply \in Nat \ {0} /\ poolValue \in Nat
        BY DEF TypeOK
    <2>1. ASSUME NEW a \in Nat, NEW n \in Nat, poolValue * n <= a * supply,
                 supply' = supply + n, poolValue' = poolValue + a
          PROVE  Goal
        <3>1. (poolValue + a) * supply >= poolValue * (supply + n)
            BY <2>0, <2>1, RoundedForThePool
        <3> QED
            BY <2>1, <3>1
    <2>2. ASSUME NEW a \in Nat, NEW n \in Nat, supply * a <= n * poolValue,
                 supply' = supply - n, poolValue' = poolValue - a
          PROVE  Goal
        <3>1. (poolValue - a) * supply >= poolValue * (supply - n)
            BY <2>0, <2>2, RoundedForThePool
        <3> QED
            BY <2>2, <3>1
    <2>3. ASSUME NEW i \in Investors, NEW a \in DepositAmounts, Deposit(i, a)
          PROVE  Goal
        <3>1. /\ a \in Nat /\ SharesFor(a) \in Nat
              /\ SettledFrom(supply + SharesFor(a), poolValue + a, deployed, cash + a)
            BY <2>3, DepositSettles
        <3>2. supply' = supply + SharesFor(a) /\ poolValue' = poolValue + a
            BY <3>1, Zenon DEF SettledFrom
        <3>3. poolValue * SharesFor(a) <= a * supply
            <4>1. CASE poolValue = 0
                <5>1. poolValue * SharesFor(a) = 0 /\ a * supply \in Nat
                    BY <2>0, <3>1, <4>1
                <5> QED
                    BY <5>1
            <4>2. CASE poolValue # 0
                <5>1. a * supply \in Nat /\ poolValue \in Nat \ {0}
                    BY <2>0, <3>1, <4>2
                <5>2. poolValue * ((a * supply) \div poolValue) <= a * supply
                    BY <5>1, QuotientBounds
                <5>3. SharesFor(a) = (a * supply) \div poolValue
                    BY <2>0, <4>2 DEF SharesFor
                <5> QED
                    BY <5>2, <5>3
            <4> QED
                BY <4>1, <4>2
        <3> QED
            BY <2>1, <3>1, <3>2, <3>3
    <2>4. ASSUME NEW i \in Investors, NEW n \in ShareAmounts, Withdraw(i, n) \/ RequestImmediate(i, n)
          PROVE  Goal
        <3> DEFINE worth == WithdrawalAmount(n, poolValue, supply)
        <3>1. n \in Nat
            BY SharesAssumption DEF ShareAmounts
        <3>2. supply' = supply - n /\ poolValue' = poolValue - worth
            BY <2>4, Zenon DEF Withdraw, RequestImmediate, PayOut
        <3>3. worth = (n * poolValue) \div supply
            BY <2>0 DEF WithdrawalAmount
        <3>4. n * poolValue \in Nat
            BY <2>0, <3>1
        <3>5. worth \in Nat /\ supply * worth <= n * poolValue
            BY <2>0, <3>3, <3>4, QuotientBounds
        <3> HIDE DEF worth
        <3> QED
            BY <2>2, <3>1, <3>2, <3>5
    <2>5. ASSUME NEW pv, NEW dep, NEW c, SettledFrom(supply, pv, dep, c)
          PROVE  FALSE
        BY <2>5, Zenon DEF SettledFrom
    <2>6. CASE SharesNext
        <3>1. ASSUME NEW i \in Investors, NEW j \in Investors, NEW n \in ShareAmounts,
                     \/ RequestQueued(i, n) \/ AdjustWithdrawalRequest(i, n)
                     \/ ShareTransfer(i, j, n)
              PROVE  FALSE
            BY <3>1, Zenon DEF RequestQueued, AdjustWithdrawalRequest, ShareTransfer
        <3>2. ASSUME NEW i \in Investors, CancelWithdrawalRequest(i)
              PROVE  FALSE
            BY <3>2, Zenon DEF CancelWithdrawalRequest
        <3>3. ~(Tick \/ Pause \/ Unpause)
            BY Zenon DEF Tick, Pause, Unpause, shareVars
        <3>4. ~DrainWithdrawalQueue
            BY <2>5, DrainSettles
        <3> QED
            BY <2>3, <2>4, <2>6, <3>1, <3>2, <3>3, <3>4, Zenon DEF SharesNext
    <2>7. ~LendingNext
        <3> SUFFICES ASSUME LendingNext PROVE FALSE
            OBVIOUS
        <3>1. ASSUME NEW i \in Invoices, NEW a \in Payments, NEW reward \in Rewards(i),
                     RepayFull(i, a, reward)
              PROVE  FALSE
            BY <2>5, <3>1, RepaySettles
        <3>2. ~UNCHANGED shareVars
            BY DEF shareVars
        <3> QED
            BY <3>1, <3>2, LendingStepShares
    <2>8. ~UNCHANGED vars
        BY DEF vars, shareVars
    <2> QED
        BY <2>6, <2>7, <2>8 DEF Next
<1> QED
    BY <1>1, BooksHold, PTL DEF Spec, SharePriceNeverFalls

-----------------------------------------------------------------------------
(* What a settlement gives to whom *)

\* The places of the requests made at t, served or not.
MadeAt(q, t) == {j \in 1 .. Len(q) : q[j].at = t}

\* What those who asked after t have got of the payouts.
PaidAfter(payouts, q, t) ==
    [i \in Investors |->
        IF \E j \in 1 .. Len(q) : q[j].who = i /\ q[j].at > t THEN payouts[i] ELSE 0]

\* Nobody gets more than his queued shares are worth, and who asked after one
\* that gets less shares less than one unit per request of the latter's cohort.
WorthKept(payouts, q, pv, total) ==
    \A j \in 1 .. Len(q) : payouts[q[j].who] <= WithdrawalAmount(q[j].shares, pv, total)
YoungerWait(payouts, q, pv, total) ==
    \A k \in 1 .. Len(q) :
        payouts[q[k].who] < WithdrawalAmount(q[k].shares, pv, total)
            => Total(PaidAfter(payouts, q, q[k].at)) < Cardinality(MadeAt(q, q[k].at))

LEMMA MadeAtPlace ==
    ASSUME NEW q \in Seq(Request), NEW k \in 1 .. Len(q)
    PROVE  Cardinality(MadeAt(q, q[k].at)) \in Nat \ {0}
<1>1. MadeAt(q, q[k].at) \in SUBSET (1 .. Len(q)) /\ k \in MadeAt(q, q[k].at)
    BY DEF MadeAt
<1>2. IsFiniteSet(MadeAt(q, q[k].at)) /\ Cardinality(MadeAt(q, q[k].at)) \in Nat
    BY <1>1, PlacesFinite
<1> QED
    BY <1>1, <1>2, FS_EmptySet

\* If those who asked after t have got nothing, they have got less than that.
LEMMA NothingAfter ==
    ASSUME NEW q \in Seq(Request), NEW p \in [Investors -> Nat], NEW t,
           \A j \in 1 .. Len(q) : q[j].at > t => p[q[j].who] = 0
    PROVE  Total(PaidAfter(p, q, t)) = 0
<1>1. PaidAfter(p, q, t) = [i \in Investors |-> 0]
    BY DEF PaidAfter
<1> QED
    BY <1>1, SumOfZero, TotalIsSum, SharesAssumption

LEMMA WorthOf ==
    ASSUME NEW n \in Nat, NEW pv \in Nat, NEW total \in Nat \ {0}
    PROVE  WithdrawalAmount(n, pv, total) = (n * pv) \div total /\ (n * pv) \div total \in Nat
<1>1. n * pv \in Nat
    BY ProductInNat
<1>2. (n * pv) \div total \in Nat
    BY <1>1, QuotientBounds
<1> QED
    BY <1>2 DEF WithdrawalAmount

\* The part of left, rounded down, for n out of s shares.
RoundedPart(n, left, s) == (left * n) \div s

SmallerOfTwo(pay, part, worth) ==
    part \in Nat /\ worth \in Nat /\ pay = IF part <= worth THEN part ELSE worth

\* A payment is the smaller of the rounded part and of the worth.
LEMMA PaidIsSmaller ==
    ASSUME NEW r \in Request, NEW left \in Nat, NEW s \in Nat \ {0}, NEW pv \in Nat,
           NEW total \in Nat \ {0}
    PROVE  SmallerOfTwo(PaidOf(r, left, s, pv, total), RoundedPart(r.shares, left, s),
                        WithdrawalAmount(r.shares, pv, total))
<1> DEFINE part == RoundedPart(r.shares, left, s)
           worth == WithdrawalAmount(r.shares, pv, total)
<1>1. r.shares \in Nat
    BY RequestFields
<1>2. left * r.shares \in Nat
    BY <1>1, ProductInNat
<1>3. part \in Nat
    BY <1>2, QuotientBounds DEF RoundedPart
<1>4. worth \in Nat
    <2>1. worth = (r.shares * pv) \div total /\ (r.shares * pv) \div total \in Nat
        BY <1>1, WorthOf
    <2> QED
        BY <2>1
<1>5. PaidOf(r, left, s, pv, total) = IF Smaller(part, worth) <= 0 THEN 0 ELSE Smaller(part, worth)
    BY DEF PaidOf, RoundedPart
<1> HIDE DEF part, worth
<1>6. PaidOf(r, left, s, pv, total) = IF part <= worth THEN part ELSE worth
    BY <1>3, <1>4, <1>5 DEF Smaller
<1> QED
    BY <1>3, <1>4, <1>6 DEF part, worth, SmallerOfTwo

\* Who gets less than his worth shows that the others of his cohort get no more
\* than theirs.
LEMMA PartsAreShort ==
    ASSUME NEW left \in Nat, NEW s \in Nat \ {0}, NEW pv \in Nat, NEW total \in Nat \ {0},
           NEW n \in Nat \ {0}, NEW m \in Nat,
           RoundedPart(n, left, s) < WithdrawalAmount(n, pv, total)
    PROVE  RoundedPart(m, left, s) <= WithdrawalAmount(m, pv, total)
<1>1. /\ WithdrawalAmount(n, pv, total) = (n * pv) \div total
      /\ WithdrawalAmount(m, pv, total) = (m * pv) \div total
    BY WorthOf
<1>2. (left * n) \div s < (n * pv) \div total
    BY <1>1 DEF RoundedPart
<1>3. (left * m) \div s <= (m * pv) \div total
    BY <1>2, ShortForAll
<1> QED
    BY <1>1, <1>3 DEF RoundedPart

\* A cohort with a request that gets less than its worth: there is not enough
\* for anyone in it, and what stays behind is the remainder of the rounding.
LEMMA ShortCohort ==
    ASSUME NEW q \in Seq(Request), NEW C \in SUBSET (1 .. Len(q)), NEW k \in C,
           NEW a \in Progress, NEW z \in Progress, NEW budget \in Nat, a.paid <= budget,
           NEW pv \in Nat, NEW total \in Nat \ {0},
           CohortServed(a, z, q, C, budget, pv, total),
           z.payouts[q[k].who] < WithdrawalAmount(q[k].shares, pv, total)
    PROVE  budget - z.paid < Cardinality(C)
<1> DEFINE left == budget - a.paid
           s == SharesAt(q, C)
           Pay(j) == PaidOf(q[j], left, s, pv, total)
           Part(j) == RoundedPart(q[j].shares, left, s)
           Worth(j) == WithdrawalAmount(q[j].shares, pv, total)
<1>1. /\ z.payouts[q[k].who] = Pay(k)
      /\ (C # {} /\ \A j \in C : Pay(j) = Part(j)) => budget - z.paid < Cardinality(C)
    BY DEF CohortServed, RoundedPart
<1>2. left \in Nat
    BY ProgressFields
<1>3. s \in Nat \ {0}
    BY CohortHasShares
<1>4. \A j \in C : q[j] \in Request /\ q[j].shares \in Nat \ {0}
    BY ElementOfSeq, RequestFields
<1> HIDE DEF left, s
<1>5. ASSUME NEW j \in C PROVE SmallerOfTwo(Pay(j), Part(j), Worth(j))
    <2>1. q[j] \in Request
        BY <1>4
    <2> QED
        BY <1>2, <1>3, <2>1, PaidIsSmaller
<1>6. Part(k) < Worth(k)
    <2>1. Pay(k) < Worth(k)
        BY <1>1
    <2> HIDE DEF Pay, Part, Worth
    <2>2. /\ Part(k) \in Nat /\ Worth(k) \in Nat
          /\ Pay(k) = IF Part(k) <= Worth(k) THEN Part(k) ELSE Worth(k)
        BY <1>5 DEF SmallerOfTwo
    <2> QED
        BY <2>1, <2>2
<1>7. ASSUME NEW j \in C PROVE Pay(j) = Part(j)
    <2>1. Part(j) <= Worth(j)
        <3>1. q[j].shares \in Nat /\ q[k].shares \in Nat \ {0}
            BY <1>4
        <3> QED
            BY <1>2, <1>3, <1>6, <3>1, PartsAreShort
    <2> HIDE DEF Pay, Part, Worth
    <2> QED
        BY <1>5, <2>1 DEF SmallerOfTwo
<1> QED
    BY <1>1, <1>7

LEMMA FairOutcome ==
    ASSUME NEW q \in Seq(Request), InOrder(q), AskedByNow(q), now \in Nat,
           NEW b \in [Investors -> Nat], NEW c \in Int,
           NEW budget \in Int, NEW pv \in Nat, NEW total \in Nat \ {0}
    PROVE  LET r == Settlement(q, budget, b, total, pv, c)
           IN  WorthKept(r.payouts, q, pv, total) /\ YoungerWait(r.payouts, q, pv, total)
<1> DEFINE r == Settlement(q, budget, b, total, pv, c)
           Worth(j) == WithdrawalAmount(q[j].shares, pv, total)
           N == 1 .. Len(q)
<1>1. \A j \in N : /\ q[j] \in Request /\ q[j].shares \in Nat \ {0} /\ q[j].who \in Investors
                   /\ q[j].at \in Nat
    BY ElementOfSeq, RequestFields
<1>2. \A j \in N : Worth(j) \in Nat
    <2> SUFFICES ASSUME NEW j \in N PROVE Worth(j) \in Nat
        OBVIOUS
    <2>1. q[j].shares \in Nat
        BY <1>1
    <2>2. Worth(j) = (q[j].shares * pv) \div total /\ (q[j].shares * pv) \div total \in Nat
        BY <2>1, WorthOf
    <2> QED
        BY <2>2
<1>3. CASE q = <<>> \/ budget <= 0
    <2>1. r = [SettlementStart(b, c) EXCEPT !.queue = q]
        BY <1>3 DEF Settlement
    <2>2. r.payouts = [i \in Investors |-> 0]
        BY <2>1 DEF SettlementStart
    <2>3. r.payouts \in [Investors -> Nat] /\ \A i \in Investors : r.payouts[i] = 0
        BY <2>2
    <2> HIDE DEF r, Worth
    <2>4. WorthKept(r.payouts, q, pv, total)
        <3>1. \A j \in N : r.payouts[q[j].who] <= Worth(j)
            BY <1>1, <1>2, <2>3
        <3> QED
            BY <3>1 DEF WorthKept, Worth
    <2>5. \A k \in N : Total(PaidAfter(r.payouts, q, q[k].at)) < Cardinality(MadeAt(q, q[k].at))
        <3> SUFFICES ASSUME NEW k \in N
                     PROVE  Total(PaidAfter(r.payouts, q, q[k].at)) < Cardinality(MadeAt(q, q[k].at))
            OBVIOUS
        <3>1. Total(PaidAfter(r.payouts, q, q[k].at)) = 0
            BY <1>1, <2>3, NothingAfter
        <3>2. Cardinality(MadeAt(q, q[k].at)) \in Nat \ {0}
            BY MadeAtPlace
        <3> QED
            BY <3>1, <3>2
    <2>6. YoungerWait(r.payouts, q, pv, total)
        BY <2>5 DEF YoungerWait
    <2> QED
        BY <2>4, <2>6 DEF r
<1>4. CASE ~(q = <<>> \/ budget <= 0)
    <2> DEFINE s == SettleCohorts(q, budget, b, total, pv, c)
               S == Served(q)
    <2>1. r = [s EXCEPT !.queue = PutBack(@, q, S)] /\ budget \in Nat /\ pv \in Int
        BY <1>4 DEF Settlement
    <2>2. PICK f : s = f[now + 1] /\ CohortsServed(f, q, budget, b, total, pv)
        BY <2>1, CohortsFacts
    <2>3. \A t \in 0 .. now + 1 : /\ Settled(f[t], b, q, Older(q, t)) /\ f[t].paid <= budget
                                  /\ f[t] \in Progress
        BY <2>2 DEF CohortsServed, Settled
    <2>4. \A t \in 0 .. now : CohortServed(f[t], f[t + 1], q, Cohort(q, t), budget, pv, total)
        BY <2>2 DEF CohortsServed
    <2>5. \A t \in 0 .. now + 1 : \A i \in Investors :
             (\A j \in S : q[j].who = i => q[j].at < t) => s.payouts[i] = f[t].payouts[i]
        BY <2>2 DEF CohortsServed
    <2>6. now + 1 \in 0 .. now + 1
        OBVIOUS
    <2>7. s \in Progress /\ s.payouts \in [Investors -> Nat] /\ s.paid \in Nat /\ s.paid <= budget
        <3>1. s \in Progress /\ s.paid <= budget
            BY <2>2, <2>3, <2>6
        <3> QED
            BY <3>1, ProgressFields
    <2> HIDE DEF s
    <2>8. r.payouts = s.payouts
        BY <2>1, <2>7 DEF Progress
    <2>9. /\ S \in SUBSET N
          /\ \A t : Cohort(q, t) \in SUBSET N
          /\ \A m \in S, k \in N : k \notin S => m < k
        BY ServedPlaces
    <2>10. \A j \in N : q[j].at \in 0 .. now /\ q[j].at + 1 \in 0 .. now + 1
        BY <1>1 DEF AskedByNow
    <2>11. ASSUME NEW j \in S
           PROVE  LET t == q[j].at IN
                  /\ j \in Cohort(q, t)
                  /\ s.payouts[q[j].who] = f[t + 1].payouts[q[j].who]
                  /\ s.payouts[q[j].who] = PaidOf(q[j], budget - f[t].paid, SharesAt(q, Cohort(q, t)), pv, total)
        <3> DEFINE t == q[j].at
        <3>1. j \in N /\ t \in 0 .. now /\ t + 1 \in 0 .. now + 1 /\ t \in Nat /\ q[j].who \in Investors
            BY <1>1, <2>9, <2>10
        <3>2. j \in Cohort(q, t)
            BY DEF Cohort
        <3>3. \A m \in S : q[m].who = q[j].who => q[m].at < t + 1
            <4> SUFFICES ASSUME NEW m \in S, q[m].who = q[j].who PROVE q[m].at < t + 1
                OBVIOUS
            <4>1. m = j
                BY <2>9, <3>1, PlacesDiffer
            <4> QED
                BY <3>1, <4>1
        <3> HIDE DEF t
        <3>4. s.payouts[q[j].who] = f[t + 1].payouts[q[j].who]
            BY <2>5, <3>1, <3>3
        <3>5. f[t + 1].payouts[q[j].who] = PaidOf(q[j], budget - f[t].paid, SharesAt(q, Cohort(q, t)), pv, total)
            BY <2>4, <3>1, <3>2 DEF CohortServed
        <3> QED
            BY <3>2, <3>4, <3>5 DEF t
    <2>12. ASSUME NEW j \in N, j \notin S PROVE s.payouts[q[j].who] = 0
        <3>1. OthersKept(s, b, q, Older(q, now + 1))
            BY <2>2, <2>3, <2>6 DEF Settled
        <3>2. \A m \in Older(q, now + 1) : q[m].who # q[j].who
            <4> SUFFICES ASSUME NEW m \in Older(q, now + 1), q[m].who = q[j].who PROVE FALSE
                OBVIOUS
            <4>1. m \in S
                BY DEF Older
            <4>2. m = j
                BY <2>9, <4>1, PlacesDiffer
            <4> QED
                BY <2>12, <4>1, <4>2
        <3>3. q[j].who \in Investors
            BY <1>1
        <3> QED
            BY <3>1, <3>2, <3>3 DEF OthersKept
    <2>13. WorthKept(s.payouts, q, pv, total)
        <3> SUFFICES ASSUME NEW j \in N PROVE s.payouts[q[j].who] <= Worth(j)
            BY DEF WorthKept
        <3>1. CASE j \notin S
            BY <1>2, <2>12, <3>1
        <3>2. CASE j \in S
            <4> DEFINE t == q[j].at
                       left == budget - f[t].paid
                       sh == SharesAt(q, Cohort(q, t))
            <4>1. s.payouts[q[j].who] = PaidOf(q[j], left, sh, pv, total) /\ j \in Cohort(q, t)
                BY <2>11, <3>2
            <4>2. t \in 0 .. now + 1
                BY <2>10
            <4>3. left \in Nat
                <5>1. f[t].paid \in Nat /\ f[t].paid <= budget
                    BY <2>3, <4>2, ProgressFields
                <5> QED
                    BY <2>1, <5>1
            <4>4. sh \in Nat \ {0}
                BY <2>9, <4>1, CohortHasShares
            <4> HIDE DEF left, sh
            <4> DEFINE part == RoundedPart(q[j].shares, left, sh)
            <4>5. q[j] \in Request
                BY <1>1
            <4>6. SmallerOfTwo(PaidOf(q[j], left, sh, pv, total), part, Worth(j))
                BY <4>3, <4>4, <4>5, PaidIsSmaller
            <4> HIDE DEF part, Worth
            <4> QED
                BY <4>1, <4>6 DEF SmallerOfTwo
        <3> QED
            BY <3>1, <3>2
    <2>14. YoungerWait(s.payouts, q, pv, total)
        <3> SUFFICES ASSUME NEW k \in N, s.payouts[q[k].who] < Worth(k)
                     PROVE  Total(PaidAfter(s.payouts, q, q[k].at)) < Cardinality(MadeAt(q, q[k].at))
            BY DEF YoungerWait
        <3> DEFINE t == q[k].at
                   Y == PaidAfter(s.payouts, q, t)
        <3>0. t \in Nat /\ t \in 0 .. now /\ t \in 0 .. now + 1 /\ t + 1 \in 0 .. now + 1
            BY <1>1, <2>10
        <3>1. CASE k \notin S
            <4>1. ASSUME NEW j \in N, q[j].at > t PROVE s.payouts[q[j].who] = 0
                <5>1. ~(j < k) /\ j # k
                    <6>1. q[j].at \in Nat /\ t \in Nat
                        BY <1>1
                    <6>2. j < k => q[j].at <= t
                        BY DEF InOrder
                    <6> QED
                        BY <4>1, <6>1, <6>2
                <5>2. j \notin S
                    BY <2>9, <3>1, <5>1
                <5> QED
                    BY <2>12, <5>2
            <4>2. Total(Y) = 0
                BY <2>7, <4>1, NothingAfter
            <4>3. Cardinality(MadeAt(q, t)) \in Nat \ {0}
                BY MadeAtPlace
            <4> QED
                BY <4>2, <4>3
        <3>2. CASE k \in S
            <4> DEFINE C == Cohort(q, t)
                       a == f[t]
                       z == f[t + 1]
            <4>1. /\ k \in C /\ C \in SUBSET N /\ z.payouts[q[k].who] = s.payouts[q[k].who]
                BY <2>9, <2>11, <3>2
            <4>2. a \in Progress /\ z \in Progress /\ a.paid <= budget /\ z.paid <= budget
                BY <2>3, <3>0
            <4>3. CohortServed(a, z, q, C, budget, pv, total)
                BY <2>4, <3>0
            <4>4. z.paid \in Nat /\ z.payouts \in [Investors -> Nat]
                BY <4>2, ProgressFields
            <4>5. OthersKept(z, b, q, Older(q, t + 1)) /\ z.paid = Total(z.payouts)
                BY <2>3, <3>0 DEF Settled, BooksAgree
            <4>6. s.paid = Total(s.payouts)
                BY <2>2, <2>3, <2>6 DEF Settled, BooksAgree
            <4>7. \A i \in Investors :
                     (\A j \in S : q[j].who = i => q[j].at < t + 1) => s.payouts[i] = z.payouts[i]
                BY <2>5, <3>0
            <4> HIDE DEF a, z, C, t
            <4>8. budget - z.paid < Cardinality(C)
                BY <2>1, <4>1, <4>2, <4>3, ShortCohort
            <4>9. Y \in [Investors -> Nat]
                BY <2>7 DEF PaidAfter
            <4>10. ASSUME NEW i \in Investors PROVE s.payouts[i] = Y[i] + z.payouts[i]
                <5>1. CASE \E j \in N : q[j].who = i /\ q[j].at > t
                    <6>1. Y[i] = s.payouts[i]
                        BY <5>1 DEF PaidAfter
                    <6>2. PICK j \in N : q[j].who = i /\ q[j].at > t
                        BY <5>1
                    <6>3. \A m \in Older(q, t + 1) : q[m].who # i
                        <7> SUFFICES ASSUME NEW m \in Older(q, t + 1), q[m].who = i PROVE FALSE
                            OBVIOUS
                        <7>1. m \in S /\ q[m].at < t + 1
                            BY DEF Older
                        <7>2. m = j
                            BY <2>9, <6>2, <7>1, PlacesDiffer
                        <7>3. q[j].at \in Nat
                            BY <1>1
                        <7> QED
                            BY <3>0, <6>2, <7>1, <7>2, <7>3
                    <6>4. z.payouts[i] = 0
                        BY <4>5, <6>3 DEF OthersKept
                    <6> QED
                        BY <2>7, <6>1, <6>4
                <5>2. CASE ~ \E j \in N : q[j].who = i /\ q[j].at > t
                    <6>1. Y[i] = 0
                        BY <5>2 DEF PaidAfter
                    <6>2. \A j \in S : q[j].who = i => q[j].at < t + 1
                        <7> SUFFICES ASSUME NEW j \in S, q[j].who = i PROVE q[j].at < t + 1
                            OBVIOUS
                        <7>1. j \in N /\ q[j].at \in Nat /\ ~(q[j].at > t)
                            BY <1>1, <2>9, <5>2
                        <7> QED
                            BY <3>0, <7>1
                    <6>3. s.payouts[i] = z.payouts[i]
                        BY <4>7, <6>2
                    <6> QED
                        BY <4>4, <6>1, <6>3
                <5> QED
                    BY <5>1, <5>2
            <4> HIDE DEF Y
            <4>11. Total(s.payouts) = Total(Y) + Total(z.payouts) /\ Total(Y) \in Int
                <5> DEFINE sp == s.payouts
                           zp == z.payouts
                           zero == [i \in Investors |-> 0]
                <5>1. sp \in Ledgers /\ Y \in Ledgers /\ zp \in Ledgers /\ zero \in Ledgers
                    BY <2>7, <4>4, <4>9 DEF Ledgers
                <5>2. SameSums(sp, zero, Y, zp)
                    BY <2>7, <4>10 DEF SameSums
                <5>3. Total(zero) = 0
                    BY SumOfZero, TotalIsSum, SharesAssumption
                <5>4. sp \in [Investors -> Int] /\ zp \in [Investors -> Int] /\ Y \in [Investors -> Int]
                    BY <5>1 DEF Ledgers
                <5> HIDE DEF sp, zp, zero
                <5>5. Total(sp) + Total(zero) = Total(Y) + Total(zp)
                    BY <5>1, <5>2, TotalsBalance
                <5>6. Total(sp) \in Int /\ Total(Y) \in Int /\ Total(zp) \in Int
                    BY <5>4, TotalType
                <5>7. Total(sp) = Total(Y) + Total(zp)
                    BY <5>3, <5>5, <5>6
                <5> QED
                    BY <5>6, <5>7 DEF sp, zp
            <4>12. Cardinality(C) <= Cardinality(MadeAt(q, t)) /\ Cardinality(C) \in Nat
                   /\ Cardinality(MadeAt(q, t)) \in Nat
                <5>1. MadeAt(q, t) \in SUBSET N /\ C \in SUBSET MadeAt(q, t)
                    BY <2>9 DEF MadeAt, Cohort, C
                <5>2. IsFiniteSet(MadeAt(q, t)) /\ Cardinality(MadeAt(q, t)) \in Nat
                    BY <5>1, PlacesFinite
                <5>3. Cardinality(C) \in Nat
                    BY <4>1, PlacesFinite
                <5> QED
                    BY <5>1, <5>2, <5>3, FS_Subset
            <4>13. Total(Y) = s.paid - z.paid
                BY <2>7, <4>4, <4>5, <4>6, <4>11
            <4>14. Total(Y) < Cardinality(MadeAt(q, t))
                BY <2>1, <2>7, <4>4, <4>8, <4>11, <4>12, <4>13
            <4> QED
                BY <4>14 DEF Y, t
        <3> QED
            BY <3>1, <3>2
    <2> QED
        BY <2>8, <2>13, <2>14
<1> QED
    BY <1>3, <1>4

\* The requests of a queue are finitely many, one of its own at every place.
LEMMA RequestsOf ==
    ASSUME NEW q \in Seq(Request), InOrder(q)
    PROVE  LET requests == {q[k] : k \in 1 .. Len(q)}
           IN  /\ IsFiniteSet(requests)
               /\ \A x, y \in requests : x.who = y.who => x = y
               /\ \A t : LET made == {x \in requests : x.at = t}
                         IN  /\ Cardinality(made) \in Nat
                             /\ Cardinality(MadeAt(q, t)) <= Cardinality(made)
<1> DEFINE N == 1 .. Len(q)
           R == {q[k] : k \in N}
<1>1. IsFiniteSet(R)
    <2> DEFINE g == [k \in N |-> q[k]]
    <2>1. g \in Surjection(N, R)
        BY DEF Surjection
    <2>2. IsFiniteSet(N)
        BY LenProperties, FS_Interval
    <2> HIDE DEF g, R, N
    <2> QED
        BY <2>1, <2>2, FS_Surjection
<1>2. ASSUME NEW x \in R, NEW y \in R, x.who = y.who PROVE x = y
    <2>1. PICK j \in N : x = q[j]
        OBVIOUS
    <2>2. PICK k \in N : y = q[k]
        OBVIOUS
    <2> QED
        BY <1>2, <2>1, <2>2, PlacesDiffer
<1>3. ASSUME NEW t
      PROVE  LET made == {x \in R : x.at = t}
             IN  Cardinality(made) \in Nat /\ Cardinality(MadeAt(q, t)) <= Cardinality(made)
    <2> DEFINE made == {x \in R : x.at = t}
               P == MadeAt(q, t)
               h == [j \in P |-> q[j]]
    <2>1. P \in SUBSET N /\ \A j \in P : q[j] \in made
        BY DEF MadeAt
    <2>2. made \in SUBSET R
        OBVIOUS
    <2>3. IsFiniteSet(made) /\ Cardinality(made) \in Nat
        <3> HIDE DEF made, R
        <3> QED
            BY <1>1, <2>2, FS_Subset, FS_CardinalityType
    <2>4. \A j, k \in P : q[j] = q[k] => j = k
        BY <2>1, PlacesDiffer
    <2> HIDE DEF made, P
    <2>5. h \in [P -> made]
        BY <2>1
    <2>6. h \in Injection(P, made)
        BY <2>4, <2>5 DEF Injection, IsInjective
    <2> HIDE DEF h
    <2>7. Cardinality(P) <= Cardinality(made)
        BY <2>3, <2>6, FS_Injection
    <2> QED
        BY <2>3, <2>7 DEF made, P
<1> QED
    BY <1>1, <1>2, <1>3

\* What the requests made after t are paid, request by request.
LEMMA PaidToYounger ==
    ASSUME NEW q \in Seq(Request), InOrder(q), NEW p \in [Investors -> Nat], NEW t
    PROVE  LET younger == {x \in {q[k] : k \in 1 .. Len(q)} : x.at > t}
           IN  /\ Total([x \in younger |-> p[x.who]]) \in Int
               /\ Total(PaidAfter(p, q, t)) \in Int
               /\ Total([x \in younger |-> p[x.who]]) <= Total(PaidAfter(p, q, t))
<1> DEFINE R == {q[k] : k \in 1 .. Len(q)}
           younger == {x \in R : x.at > t}
           f == [x \in younger |-> p[x.who]]
           e == [x \in younger |-> x.who]
           h == PaidAfter(p, q, t)
<1>1. IsFiniteSet(R) /\ \A x, y \in R : x.who = y.who => x = y
    BY RequestsOf
<1>2. younger \in SUBSET R
    OBVIOUS
<1>3. \A x \in younger : /\ x.who \in Investors
                         /\ \E j \in 1 .. Len(q) : q[j].who = x.who /\ q[j].at > t
    BY ElementOfSeq, RequestFields
<1>4. h \in [Investors -> Nat] /\ \A x \in younger : h[x.who] = p[x.who]
    BY <1>3 DEF PaidAfter
<1>5. IsFiniteSet(younger)
    <2> HIDE DEF younger, R
    <2> QED
        BY <1>1, <1>2, FS_Subset
<1>6. \A x, y \in younger : x.who = y.who => x = y
    BY <1>1, <1>2
<1> HIDE DEF younger, h
<1>7. f \in [younger -> Int] /\ e \in [younger -> Investors]
    BY <1>3
<1>8. FoundAgain(f, h, e, younger)
    BY <1>4, <1>6 DEF FoundAgain
<1> HIDE DEF f, e
<1>9. SumOf(f) <= SumOf(h)
    <2>1. IsFiniteSet(Investors)
        BY SharesAssumption
    <2> QED
        BY <1>4, <1>5, <1>7, <1>8, <2>1, SumFoundAgain
<1>10. SumOf(f) \in Int /\ SumOf(h) \in Int
    BY <1>4, <1>5, <1>7, SumOfType, SharesAssumption
<1> QED
    BY <1>9, <1>10, TotalIsSum DEF f, h, younger

\* A queue in order, with the books in order, is settled fairly.
LEMMA FairNow ==
    ASSUME TypeOK, QueueInv
    PROVE  SettlementIsFair
<1>1. /\ now \in Nat /\ bal \in [Investors -> Nat] /\ queue \in Seq(Request)
      /\ poolValue \in Int /\ supply \in Int
    BY DEF TypeOK
<1>2. InOrder(queue) /\ AskedByNow(queue)
    BY DEF QueueInv, QueueBacked, InOrder
<1> SUFFICES ASSUME supply > 0, poolValue > 0, NEW budget \in Budgets
             PROVE  LET r == Settlement(queue, budget, bal, supply, poolValue, budget)
                        worth(q) == WithdrawalAmount(q.shares, poolValue, supply)
                        requests == {queue[k] : k \in 1 .. Len(queue)}
                        unpaid(q) == /\ worth(q) > r.payouts[q.who]
                                     /\ \E k \in 1 .. Len(r.queue) : r.queue[k].id = q.id
                    IN  r.ok =>
                        /\ r.paid <= budget
                        /\ \A q \in requests : r.payouts[q.who] <= worth(q)
                        /\ \A q \in {x \in requests : unpaid(x)} :
                              LET younger == {x \in requests : x.at > q.at}
                                  cohort == {x \in requests : x.at = q.at}
                              IN  Total([x \in younger |-> r.payouts[x.who]]) < Cardinality(cohort)
    BY DEF SettlementIsFair
<1>3. budget \in Nat /\ budget \in Int
    <2>1. 2 * MaxSupply \in Nat
        BY SharesAssumption
    <2> QED
        BY <2>1 DEF Budgets
<1> DEFINE r == Settlement(queue, budget, bal, supply, poolValue, budget)
           p == r.payouts
           worth(q) == WithdrawalAmount(q.shares, poolValue, supply)
           requests == {queue[k] : k \in 1 .. Len(queue)}
<1>4. poolValue \in Nat /\ supply \in Nat \ {0}
    BY <1>1
<1>5. Settled(r, bal, queue, 1 .. Len(queue)) /\ r.paid <= IF budget > 0 THEN budget ELSE 0
    BY <1>1, <1>2, <1>3, SettlementFacts
<1>6. r.paid <= budget /\ p \in [Investors -> Nat]
    <2>1. r \in Progress
        BY <1>5 DEF Settled
    <2> HIDE DEF r
    <2>2. r.paid \in Nat /\ p \in [Investors -> Nat]
        BY <2>1, ProgressFields
    <2> QED
        BY <1>3, <1>5, <2>2
<1>7. WorthKept(p, queue, poolValue, supply) /\ YoungerWait(p, queue, poolValue, supply)
    BY <1>1, <1>2, <1>3, <1>4, FairOutcome
<1> HIDE DEF r, p
<1>8. ASSUME NEW q \in requests PROVE p[q.who] <= worth(q)
    <2>1. PICK k \in 1 .. Len(queue) : q = queue[k]
        OBVIOUS
    <2> QED
        BY <1>7, <2>1 DEF WorthKept
<1>9. ASSUME NEW q \in requests, worth(q) > p[q.who]
      PROVE  LET younger == {x \in requests : x.at > q.at}
                 cohort == {x \in requests : x.at = q.at}
             IN  Total([x \in younger |-> p[x.who]]) < Cardinality(cohort)
    <2> DEFINE younger == {x \in requests : x.at > q.at}
               cohort == {x \in requests : x.at = q.at}
               paid == Total([x \in younger |-> p[x.who]])
               after == Total(PaidAfter(p, queue, q.at))
               made == Cardinality(MadeAt(queue, q.at))
    <2>1. PICK k \in 1 .. Len(queue) : q = queue[k]
        OBVIOUS
    <2>2. p[q.who] < worth(q)
        <3>1. q.who \in Investors /\ q.shares \in Nat
            BY <1>1, <2>1, ElementOfSeq, RequestFields
        <3>2. p[q.who] \in Int
            BY <1>6, <3>1
        <3>3. worth(q) \in Int
            BY <1>1, <1>4, <3>1, WorthIsInt, Zenon
        <3> HIDE DEF worth
        <3> QED
            BY <1>9, <3>2, <3>3
    <2>3. after < made
        BY <1>7, <2>1, <2>2 DEF YoungerWait
    <2>4. paid \in Int /\ after \in Int /\ paid <= after
        BY <1>1, <1>2, <1>6, PaidToYounger
    <2>5. Cardinality(cohort) \in Nat /\ made <= Cardinality(cohort)
        BY <1>1, <1>2, RequestsOf
    <2>6. made \in Nat
        BY <1>1, <2>1, MadeAtPlace
    <2> HIDE DEF paid, after, made, cohort
    <2>7. paid < Cardinality(cohort)
        BY <2>3, <2>4, <2>5, <2>6
    <2> QED
        BY <2>7 DEF paid, cohort
<1> HIDE DEF worth, requests
<1> QED
    BY <1>6, <1>8, <1>9 DEF p, r, worth, requests

\* Every settlement of a queue the contract can get into is fair, whatever the
\* budget, the rounding and the number of cohorts: no more is paid than there is,
\* nobody gets more than his shares are worth, and the cohorts behind one that is
\* left short share at most the remainder of its rounding.  It holds by the shape
\* of a cohort's division, and needs the queue in order of arrival (#912).
THEOREM FairSettlement == Spec => []SettlementIsFair
<1>1. TypeOK /\ QueueInv => SettlementIsFair
    BY FairNow
<1> QED
    BY <1>1, BooksHold, PTL

-----------------------------------------------------------------------------
(* The balance of the ledger, and the cover of what is deployed *)

\* The investors' handlers move the token and the NAV by the same amount, and
\* leave the NAV above what is deployed.
LEMMA SharesStepMoney ==
    ASSUME TypeOK, QueueInv, SharesNext
    PROVE  /\ deployed' = deployed
           /\ cash' - poolValue' = cash - poolValue
           /\ poolValue >= deployed => poolValue' >= deployed'
<1>0. cash \in Int /\ poolValue \in Int /\ deployed \in Int /\ supply \in Int
  BY DEF TypeOK
<1> DEFINE Goal == /\ deployed' = deployed
                   /\ cash' - poolValue' = cash - poolValue
                   /\ poolValue >= deployed => poolValue' >= deployed'
<1> SUFFICES Goal
  OBVIOUS
<1>1. ASSUME UNCHANGED <<cash, poolValue, deployed>>
      PROVE  Goal
  BY <1>0, <1>1
<1>2. CASE DrainWithdrawalQueue
  BY <1>0, <1>2, DrainSettles DEF DrainWithdrawalQueue, SettledFrom
<1>3. ASSUME NEW i \in Investors, NEW a \in DepositAmounts, Deposit(i, a)
      PROVE  Goal
  <2>1. a \in Nat /\ SettledFrom(supply + SharesFor(a), poolValue + a, deployed, cash + a)
    BY <1>3, DepositSettles
  <2>2. /\ cash' - poolValue' = (cash + a) - (poolValue + a)
        /\ poolValue + a >= deployed => poolValue' >= deployed
        /\ cash' \in Int /\ poolValue' \in Int
    BY <2>1, Zenon DEF SettledFrom
  <2>3. deployed' = deployed
    BY <1>3 DEF Deposit
  <2>4. cash' - poolValue' = cash - poolValue
    <3>1. a \in Int
      BY <2>1
    <3>2. (cash + a) - (poolValue + a) = cash - poolValue
      BY <1>0, <3>1
    <3> QED
      BY <2>2, <3>2, Zenon
  <2>5. poolValue >= deployed => poolValue' >= deployed
    BY <1>0, <2>1, <2>2
  <2> QED
    BY <2>3, <2>4, <2>5
<1>4. ASSUME NEW i \in Investors, NEW n \in ShareAmounts,
             Withdraw(i, n) \/ RequestImmediate(i, n)
      PROVE  Goal
  <2>1. n \in Nat /\ supply > 0
    BY <1>4, SharesAssumption DEF ShareAmounts, Withdraw, RequestImmediate, MayRequest
  <2> DEFINE worth == WithdrawalAmount(n, poolValue, supply)
  <2>2. worth \in Int
    BY <2>1, WorthIsAmount
  <2> HIDE DEF worth
  <2>3. /\ poolValue' = poolValue - worth /\ cash' = cash - worth
        /\ deployed' = deployed /\ poolValue - deployed >= worth
    BY <1>4, Zenon DEF worth, Withdraw, RequestImmediate, PayOut, Liquidity
  <2> QED
    BY <1>0, <2>2, <2>3
<1>5. ASSUME NEW i \in Investors, NEW n \in ShareAmounts, NEW j \in Investors,
             \/ RequestQueued(i, n) \/ AdjustWithdrawalRequest(i, n)
             \/ CancelWithdrawalRequest(i) \/ ShareTransfer(i, j, n)
      PROVE  Goal
  BY <1>1, <1>5, Zenon
  DEF RequestQueued, AdjustWithdrawalRequest, CancelWithdrawalRequest, ShareTransfer
<1>6. CASE Tick \/ Pause \/ Unpause
  BY <1>1, <1>6, Zenon DEF Tick, Pause, Unpause
<1>7. ASSUME NEW i \in Investors, CancelWithdrawalRequest(i)
      PROVE  Goal
  BY <1>1, <1>7, Zenon DEF CancelWithdrawalRequest
<1> QED
  BY <1>2, <1>3, <1>4, <1>5, <1>6, <1>7, Zenon DEF SharesNext

\* None of them touches what is deployed.
LEMMA SharesStepDeployed == SharesNext => deployed' = deployed
  BY Zenon DEF SharesNext, Tick, Pause, Unpause, DrainWithdrawalQueue, Deposit, Withdraw,
     RequestImmediate, RequestQueued, AdjustWithdrawalRequest, ShareTransfer,
     CancelWithdrawalRequest

\* Every lending handler that moves the token moves the totals with it, or
\* enters the difference into the history variables.
LEMMA LendingStepMoney ==
    ASSUME TypeOK, QueueInv, LendingNext
    PROVE  /\ LedgerBalanced => LedgerBalanced'
           /\ LoanTimes /\ NavCoversDeployed => NavCoversDeployed'
<1>0. /\ cash \in Int /\ poolValue \in Int /\ deployed \in Int /\ revenue \in Int
      /\ held \in Int /\ unbooked \in Int /\ leak \in Int /\ supply \in Int
  BY DEF TypeOK
<1> DEFINE Goal == /\ LedgerBalanced => LedgerBalanced'
                   /\ LoanTimes /\ NavCoversDeployed => NavCoversDeployed'
<1> SUFFICES Goal
  OBVIOUS
<1>1. ASSUME NEW i \in Invoices, NEW p \in Principals, NEW due, NEW premium \in Premiums,
             FundInvoiceRequest(i, p, due, premium)
      PROVE  Goal
  <2>1. p \in Nat /\ premium \in Nat
    BY LendingAssumption
  <2>2. /\ deployed' = deployed + p /\ cash' = cash - p - premium
        /\ revenue' = revenue - premium /\ poolValue' = poolValue - premium
        /\ leak' = leak - premium /\ held' = held /\ unbooked' = unbooked
        /\ poolValue - deployed >= p
    BY <1>1, Zenon DEF FundInvoiceRequest, Liquidity
  <2>3. Premiums = {0} => premium = 0
    OBVIOUS
  <2> QED
    BY <1>0, <2>1, <2>2, <2>3 DEF LedgerBalanced, NavCoversDeployed
<1>2. ASSUME NEW i \in Invoices, NEW a \in Payments, RepayPart(i, a)
      PROVE  Goal
  <2>1. a \in Nat
    BY LendingAssumption
  <2>2. /\ cash' = cash + a /\ unbooked' = unbooked + a
        /\ UNCHANGED <<poolValue, deployed, revenue, held, leak>>
    BY <1>2, Zenon DEF RepayPart
  <2> QED
    BY <1>0, <2>1, <2>2 DEF LedgerBalanced, NavCoversDeployed
<1>3. ASSUME NEW i \in Invoices, NEW a \in Payments, NEW reward \in Rewards(i),
             RepayFull(i, a, reward)
      PROVE  Goal
  <2>1. /\ Interest(i) \in Int /\ Remaining(i) \in Int /\ Released(i) \in Nat
        /\ loan[i].principal \in Nat /\ loan[i].fee \in Nat
        /\ loan[i].repaid \in Nat /\ loan[i].booked \in Nat
    BY LoanAmounts
  <2>2. reward \in Int
        /\ SettledFrom(supply, poolValue + Interest(i), deployed - loan[i].principal,
                       cash + Remaining(i) - Released(i) - reward)
    BY <1>3, RepaySettles
  <2>3. Remaining(i) = (loan[i].principal + Interest(i) + loan[i].fee) - loan[i].repaid
    BY Zenon DEF Remaining, TotalDue
  <2>4. /\ deployed' = deployed - loan[i].principal
        /\ revenue' = revenue + loan[i].fee - reward
        /\ held' = held - Released(i)
        /\ unbooked' = unbooked - (loan[i].repaid - loan[i].booked)
        /\ leak' = leak + loan[i].booked
    BY <1>3, Zenon DEF RepayFull
  <2>5. /\ cash' \in Int /\ poolValue' \in Int
        /\ cash' - poolValue' = (cash + Remaining(i) - Released(i) - reward)
                                   - (poolValue + Interest(i))
        /\ poolValue + Interest(i) >= deployed - loan[i].principal
              => poolValue' >= deployed - loan[i].principal
    BY <2>2, Zenon DEF SettledFrom
  <2>6. LedgerBalanced => LedgerBalanced'
    <3> SUFFICES ASSUME LedgerBalanced PROVE LedgerBalanced'
      OBVIOUS
    <3>1. PICK c \in Int, pv \in Int : c = cash' /\ pv = poolValue'
      BY <2>5, Zenon
    <3> DEFINE interest == Interest(i)
               remaining == Remaining(i)
               released == Released(i)
               principal == loan[i].principal
               fee == loan[i].fee
               repaid == loan[i].repaid
               booked == loan[i].booked
    <3>2. c - pv = (cash + remaining - released - reward) - (poolValue + interest)
      BY <2>5, <3>1, Zenon
    <3>3. remaining = (principal + interest + fee) - repaid
      BY <2>3, Zenon
    <3>4. /\ interest \in Int /\ remaining \in Int /\ released \in Int
          /\ principal \in Int /\ fee \in Int /\ repaid \in Int /\ booked \in Int
      BY <2>1
    <3> HIDE DEF interest, remaining, released, principal, fee, repaid, booked
    <3>5. c - pv = (cash - poolValue) + principal + fee - repaid - released - reward
      BY <1>0, <2>2, <3>2, <3>3, <3>4
    <3>6. cash - poolValue = revenue + held + unbooked - leak - deployed
      BY <1>0 DEF LedgerBalanced
    <3>7. c = pv - (deployed - principal) + (revenue + fee - reward)
                 + (held - released) + (unbooked - (repaid - booked))
                 - (leak + booked)
      BY <1>0, <2>2, <3>4, <3>5, <3>6
    <3>8. cash' = poolValue' - deployed' + revenue' + held' + unbooked' - leak'
      BY <2>4, <3>1, <3>7, Zenon DEF released, principal, fee, repaid, booked
    <3> QED
      BY <3>8, Zenon DEF LedgerBalanced
  <2>7. LoanTimes /\ NavCoversDeployed => NavCoversDeployed'
    <3>1. LoanTimes => Interest(i) >= 0
      BY InterestIsNatural
    <3> QED
      BY <1>0, <2>1, <2>4, <2>5, <3>1 DEF NavCoversDeployed
  <2> QED
    BY <2>6, <2>7
<1>4. ASSUME NEW i \in Investors, NEW bonus \in Bonuses(Claimable(i)), ClaimYield(i, bonus)
      PROVE  Goal
  <2>1. Claimable(i) \in Int
    BY ClaimIsAmount
  <2>2. bonus \in Int
    BY <1>0, <2>1 DEF Bonuses, Smaller
  <2>3. /\ cash' = cash - Claimable(i) - bonus /\ revenue' = revenue - bonus
        /\ leak' = leak + Claimable(i)
        /\ UNCHANGED <<poolValue, deployed, held, unbooked>>
    BY <1>4, Zenon DEF ClaimYield
  <2> QED
    BY <1>0, <2>1, <2>2, <2>3 DEF LedgerBalanced, NavCoversDeployed
<1>5. ASSUME NEW i \in Invoices, NEW a \in CollateralAmounts,
             DepositCollateral(i, a) \/ TopUpCollateral(i, a)
      PROVE  Goal
  <2>1. a \in Nat
    BY LendingAssumption
  <2>2. /\ cash' = cash + a /\ held' = held + a
        /\ UNCHANGED <<poolValue, deployed, revenue, unbooked, leak>>
    BY <1>5, Zenon DEF DepositCollateral, TopUpCollateral
  <2> QED
    BY <1>0, <2>1, <2>2 DEF LedgerBalanced, NavCoversDeployed
<1>6. ASSUME NEW i \in Invoices, RiskLiquidateCollateral(i)
      PROVE  Goal
  <2>1. collateral[i].amount \in Nat
    BY LoanAmounts
  <2>2. /\ poolValue' = poolValue + collateral[i].amount
        /\ cash' = cash - collateral[i].amount
        /\ held' = held - collateral[i].amount
        /\ leak' = leak + collateral[i].amount
        /\ UNCHANGED <<deployed, revenue, unbooked>>
    BY <1>6, Zenon DEF RiskLiquidateCollateral
  <2> QED
    BY <1>0, <2>1, <2>2 DEF LedgerBalanced, NavCoversDeployed
<1>7. ASSUME NEW i \in Invoices, LiquidateInvoice(i)
      PROVE  Goal
  <2>1. collateral[i].amount \in Nat /\ loan[i].principal \in Nat
    BY LoanAmounts
  <2>2. /\ poolValue' = poolValue - loan[i].principal + collateral[i].amount
        /\ deployed' = deployed - loan[i].principal
        /\ held' = held - collateral[i].amount
        /\ UNCHANGED <<cash, revenue, unbooked, leak>>
    BY <1>7, Zenon DEF LiquidateInvoice
  <2> QED
    BY <1>0, <2>1, <2>2 DEF LedgerBalanced, NavCoversDeployed
<1>8. ASSUME NEW i \in Invoices, CancelFundedInvoice(i)
      PROVE  Goal
  <2>1. loan[i].principal \in Nat /\ loan[i].repaid \in Nat /\ loan[i].booked \in Nat
    BY LoanAmounts
  <2>2. /\ deployed' = deployed - loan[i].principal
        /\ unbooked' = unbooked - (loan[i].repaid - loan[i].booked)
        /\ leak' = leak + loan[i].principal - (loan[i].repaid - loan[i].booked)
        /\ UNCHANGED <<cash, poolValue, revenue, held>>
    BY <1>8, Zenon DEF CancelFundedInvoice, DropLoan
  <2>3. LedgerBalanced => LedgerBalanced'
    <3> DEFINE open == loan[i].repaid - loan[i].booked
               principal == loan[i].principal
    <3>1. open \in Int /\ principal \in Int
      BY <2>1
    <3>2. /\ deployed' = deployed - principal
          /\ unbooked' = unbooked - open
          /\ leak' = leak + principal - open
      BY <2>2, Zenon
    <3> HIDE DEF open, principal
    <3> QED
      BY <1>0, <2>2, <3>1, <3>2 DEF LedgerBalanced
  <2>4. NavCoversDeployed => NavCoversDeployed'
    BY <1>0, <2>1, <2>2 DEF NavCoversDeployed
  <2> QED
    BY <2>3, <2>4
<1>9. ASSUME NEW i \in Invoices, CleanupFundedInvoice(i)
      PROVE  Goal
  <2>1. loan[i].repaid \in Nat /\ loan[i].booked \in Nat
    BY LoanAmounts
  <2>2. /\ unbooked' = unbooked - (loan[i].repaid - loan[i].booked)
        /\ leak' = leak - (loan[i].repaid - loan[i].booked)
        /\ UNCHANGED <<cash, poolValue, deployed, revenue, held>>
    BY <1>9, Zenon DEF CleanupFundedInvoice, DropLoan
  <2> QED
    BY <1>0, <2>1, <2>2 DEF LedgerBalanced, NavCoversDeployed
<1>10. ASSUME NEW i \in Invoices, NEW due, UpdateInvoiceDueDate(i, due)
      PROVE  Goal
  <2>1. UNCHANGED <<cash, poolValue, deployed, revenue, held, unbooked, leak>>
    BY <1>10, Zenon DEF UpdateInvoiceDueDate
  <2> QED
    BY <2>1 DEF LedgerBalanced, NavCoversDeployed
<1>11. ASSUME NEW a \in InsurancePayouts, ReceiveInsurancePayout(a)
      PROVE  Goal
  <2>1. a \in Nat
    BY LendingAssumption
  <2>2. /\ poolValue' = poolValue + a /\ cash' = cash + a
        /\ UNCHANGED <<deployed, revenue, held, unbooked, leak>>
    BY <1>11, Zenon DEF ReceiveInsurancePayout, lendingVars
  <2> QED
    BY <1>0, <2>1, <2>2 DEF LedgerBalanced, NavCoversDeployed
<1>12. ASSUME NEW a \in Payments, WithdrawRevenue(a)
      PROVE  Goal
  <2>1. a \in Nat
    BY LendingAssumption
  <2>2. /\ revenue' = revenue - a /\ cash' = cash - a
        /\ UNCHANGED <<poolValue, deployed, held, unbooked, leak>>
    BY <1>12, Zenon DEF WithdrawRevenue
  <2> QED
    BY <1>0, <2>1, <2>2 DEF LedgerBalanced, NavCoversDeployed
<1> QED
  BY <1>1, <1>2, <1>3, <1>4, <1>5, <1>6, <1>7, <1>8, <1>9, <1>10, <1>11, <1>12, Zenon
  DEF LendingNext, FundInvoice, FundMultipleInvoices

\* The pool's token balance is accounted for in every behaviour: undeployed
\* NAV, revenue, collateral and unbooked repayments, up to the entries that the
\* handlers named at LedgerBalanced leave out.
THEOREM LedgerCorrect == Spec => []LedgerBalanced
<1>1. Init => LedgerBalanced
  BY DEF Init, SharesInit, LendingInit, LedgerBalanced
<1>2. TypeOK /\ QueueInv /\ LedgerBalanced /\ [Next]_vars => LedgerBalanced'
  <2> SUFFICES ASSUME TypeOK, QueueInv, LedgerBalanced, [Next]_vars PROVE LedgerBalanced'
    OBVIOUS
  <2>1. CASE UNCHANGED vars
    BY <2>1 DEF vars, lendingVars, LedgerBalanced
  <2>2. CASE SharesNext /\ UNCHANGED lendingVars
    <3>1. /\ deployed' = deployed /\ cash' - poolValue' = cash - poolValue
      BY <2>2, SharesStepMoney
    <3>2. UNCHANGED <<revenue, held, unbooked, leak>>
      BY <2>2 DEF lendingVars
    <3>3. cash' \in Int /\ poolValue' \in Int
      <4>1. TypeOK'
        BY <2>2, SharesStepType
      <4> QED
        BY <4>1 DEF TypeOK
    <3>4. /\ cash \in Int /\ poolValue \in Int /\ deployed \in Int /\ revenue \in Int
          /\ held \in Int /\ unbooked \in Int /\ leak \in Int
      BY DEF TypeOK
    <3>5. PICK c \in Int, p \in Int : c = cash' /\ p = poolValue'
      BY <3>3, Zenon
    <3>6. c - p = cash - poolValue
      BY <3>1, <3>5, Zenon
    <3>7. c = p - deployed + revenue + held + unbooked - leak
      BY <3>4, <3>6 DEF LedgerBalanced
    <3> QED
      BY <3>1, <3>2, <3>5, <3>7, Zenon DEF LedgerBalanced
  <2>3. CASE LendingNext
    BY <2>3, LendingStepMoney
  <2> QED
    BY <2>1, <2>2, <2>3 DEF Next
<1> QED
  BY <1>1, <1>2, BooksHold, PTL DEF Spec

-----------------------------------------------------------------------------
(* Loans are dated in order; the NAV covers what is deployed *)

\* The inductive step of LoanTimes: only funding, cleanup, cancellation and an
\* extension rewrite a date.
LEMMA LoanTimesStep ==
    ASSUME TypeOK, LoanTimes, [Next]_vars
    PROVE  LoanTimes'
<1>0. /\ now \in Nat /\ loan \in [Invoices -> Loan]
      /\ \A i \in Invoices : loan[i].at \in Nat /\ loan[i].due \in Nat
  BY LoanAmounts DEF TypeOK
<1>1. ASSUME UNCHANGED loan, now' \in Nat, now' >= now
      PROVE  LoanTimes'
  BY <1>0, <1>1 DEF LoanTimes
<1>2. CASE UNCHANGED vars
  BY <1>0, <1>1, <1>2 DEF vars, lendingVars
<1>3. CASE SharesNext /\ UNCHANGED lendingVars
  <2>1. UNCHANGED loan
    BY <1>3 DEF lendingVars
  <2>2. now' = now \/ now' = now + 1
    BY <1>3, Zenon DEF SharesNext, Tick, Pause, Unpause, DrainWithdrawalQueue, Deposit, Withdraw,
       RequestImmediate, RequestQueued, AdjustWithdrawalRequest, ShareTransfer,
       CancelWithdrawalRequest
  <2> QED
    BY <1>0, <1>1, <2>1, <2>2
<1>4. ASSUME NEW i \in Invoices, NEW l \in Loan, l.at <= now, l.at <= l.due,
             now' = now, loan' = [loan EXCEPT ![i] = l]
      PROVE  LoanTimes'
  BY <1>0, <1>4 DEF LoanTimes, Loan
<1>5. CASE LendingNext
  <2>1. ASSUME NEW i \in Invoices, NEW p \in Principals, NEW k \in DueOffsets,
               NEW premium \in Premiums, FundInvoiceRequest(i, p, now + k, premium)
        PROVE  LoanTimes'
    <3>1. CASE Present(i)
      <4>1. /\ now' = now
            /\ loan' = [loan EXCEPT ![i] = [loan[i] EXCEPT !.principal = @ + p]]
        BY <2>1, <3>1, Zenon DEF FundInvoiceRequest
      <4>2. \A j \in Invoices : loan'[j].at = loan[j].at /\ loan'[j].due = loan[j].due
        BY <1>0, <4>1 DEF Loan
      <4> QED
        BY <1>0, <4>1, <4>2 DEF LoanTimes
    <3>2. CASE ~Present(i)
      <4> DEFINE l == [principal |-> p, at |-> now, due |-> now + k,
                       fee |-> FactoringFee(p), repaid |-> 0, booked |-> 0]
      <4>1. now' = now /\ loan' = [loan EXCEPT ![i] = l]
        BY <2>1, <3>2, Zenon DEF FundInvoiceRequest
      <4>2. p \in Nat /\ k \in Nat
        BY LendingAssumption
      <4>3. l \in Loan /\ l.at <= now /\ l.at <= l.due
        BY <1>0, <4>2, FeeIsAmount DEF Loan
      <4> QED
        BY <1>4, <4>1, <4>3
    <3> QED
      BY <3>1, <3>2
  <2>2. ASSUME NEW i \in Invoices,
               \/ \E a \in Payments : RepayPart(i, a)
               \/ \E a \in Payments, reward \in Rewards(i) : RepayFull(i, a, reward)
        PROVE  LoanTimes'
    <3>1. now' = now
      BY <2>2, Zenon DEF RepayPart, RepayFull
    <3>2. \A j \in Invoices : loan'[j].at = loan[j].at /\ loan'[j].due = loan[j].due
      <4>1. CASE \E a \in Payments : RepayPart(i, a)
        BY <1>0, <4>1 DEF RepayPart, Loan
      <4>2. CASE \E a \in Payments, reward \in Rewards(i) : RepayFull(i, a, reward)
        BY <1>0, <4>2 DEF RepayFull, Loan
      <4> QED
        BY <2>2, <4>1, <4>2
    <3> QED
      BY <1>0, <3>1, <3>2 DEF LoanTimes
  <2>3. ASSUME NEW i \in Invoices, CancelFundedInvoice(i) \/ CleanupFundedInvoice(i)
        PROVE  LoanTimes'
    <3>1. now' = now /\ loan' = [loan EXCEPT ![i] = NoLoan]
      BY <2>3, Zenon DEF CancelFundedInvoice, CleanupFundedInvoice, DropLoan
    <3>2. NoLoan \in Loan /\ NoLoan.at <= now /\ NoLoan.at <= NoLoan.due
      BY <1>0 DEF NoLoan, Loan
    <3> QED
      BY <1>4, <3>1, <3>2
  <2>4. ASSUME NEW i \in Invoices, NEW k \in DueOffsets,
               UpdateInvoiceDueDate(i, loan[i].due + k)
        PROVE  LoanTimes'
    <3>1. k \in Nat
      BY LendingAssumption
    <3>2. now' = now /\ loan' = [loan EXCEPT ![i].due = loan[i].due + k]
      BY <2>4, Zenon DEF UpdateInvoiceDueDate
    <3>3. \A j \in Invoices : loan'[j].at = loan[j].at /\ loan'[j].due >= loan[j].due
                                 /\ loan'[j].due \in Nat
      BY <1>0, <3>1, <3>2 DEF Loan
    <3> QED
      BY <1>0, <3>2, <3>3 DEF LoanTimes
  <2>5. ASSUME UNCHANGED <<now, loan>>
        PROVE  LoanTimes'
    BY <1>0, <1>1, <2>5
  <2> QED
    BY <1>5, <2>1, <2>2, <2>3, <2>4, <2>5, Zenon
    DEF LendingNext, FundInvoice, FundMultipleInvoices, ClaimYield, DepositCollateral,
        TopUpCollateral, RiskLiquidateCollateral, LiquidateInvoice,
        ReceiveInsurancePayout, WithdrawRevenue, lendingVars
<1> QED
  BY <1>2, <1>3, <1>5 DEF Next

\* Without premiums the NAV covers the deployed capital in every behaviour:
\* the inductive invariant adds the types and that no interest is negative.
THEOREM NavCovers == Spec => []NavCoversDeployed
<1> DEFINE Inv == LoanTimes /\ NavCoversDeployed
<1>1. Init => Inv
  BY DEF Init, SharesInit, LendingInit, LoanTimes, NavCoversDeployed, NoLoan
<1>2. TypeOK /\ QueueInv /\ Inv /\ [Next]_vars => Inv'
  <2> SUFFICES ASSUME TypeOK, QueueInv, LoanTimes, NavCoversDeployed, [Next]_vars
               PROVE  LoanTimes' /\ NavCoversDeployed'
    OBVIOUS
  <2>1. LoanTimes'
    BY LoanTimesStep
  <2>2. CASE UNCHANGED vars
    BY <2>1, <2>2 DEF vars, NavCoversDeployed
  <2>3. CASE SharesNext /\ UNCHANGED lendingVars
    BY <2>1, <2>3, SharesStepMoney DEF NavCoversDeployed
  <2>4. CASE LendingNext
    BY <2>1, <2>4, LendingStepMoney
  <2> QED
    BY <2>2, <2>3, <2>4 DEF Next
<1> QED
  BY <1>1, <1>2, BooksHold, PTL DEF Spec

-----------------------------------------------------------------------------
(* What the handlers do to the loan and the collateral they name *)

LEMMA FundFacts ==
    ASSUME TypeOK, NEW i \in Invoices, NEW p \in Principals, NEW k \in DueOffsets,
           NEW premium \in Premiums, FundInvoiceRequest(i, p, now + k, premium)
    PROVE  /\ p \in Nat /\ p > 0 /\ k \in Nat
           /\ \A j \in Invoices \ {i} : loan'[j] = loan[j]
           /\ loan'[i].principal = loan[i].principal + p
           /\ Present(i) => /\ loan'[i].at = loan[i].at /\ loan'[i].due = loan[i].due
                            /\ loan'[i].fee = loan[i].fee /\ loan'[i].repaid = loan[i].repaid
                            /\ loan'[i].booked = loan[i].booked
           /\ ~Present(i) => /\ loan'[i].at = now /\ loan'[i].due = now + k
                             /\ loan'[i].repaid = 0 /\ loan'[i].booked = 0
           /\ deployed' = deployed + p
           /\ UNCHANGED <<now, collateral, held, unbooked>>
<1>1. p \in Nat /\ p > 0 /\ k \in Nat
  BY LendingAssumption
<1>2. loan \in [Invoices -> Loan] /\ loan[i] \in Loan /\ loan[i].principal \in Nat
  BY LoanAmounts DEF TypeOK
<1>3. deployed' = deployed + p /\ UNCHANGED <<now, collateral, held, unbooked>>
  BY Zenon DEF FundInvoiceRequest
<1>4. CASE Present(i)
  <2> DEFINE new == [loan[i] EXCEPT !.principal = loan[i].principal + p]
  <2>1. loan' = [loan EXCEPT ![i] = new]
    BY <1>4, Zenon DEF FundInvoiceRequest
  <2>2. /\ new.principal = loan[i].principal + p /\ new.at = loan[i].at
        /\ new.due = loan[i].due /\ new.fee = loan[i].fee /\ new.repaid = loan[i].repaid
        /\ new.booked = loan[i].booked
    BY <1>2 DEF Loan
  <2> HIDE DEF new
  <2>3. loan'[i] = new /\ \A j \in Invoices \ {i} : loan'[j] = loan[j]
    BY <1>2, <2>1
  <2> QED
    BY <1>1, <1>3, <1>4, <2>2, <2>3, Zenon
<1>5. CASE ~Present(i)
  <2> DEFINE new == [principal |-> p, at |-> now, due |-> now + k, fee |-> FactoringFee(p),
                     repaid |-> 0, booked |-> 0]
  <2>1. loan' = [loan EXCEPT ![i] = new]
    BY <1>5, Zenon DEF FundInvoiceRequest
  <2>2. /\ new.principal = loan[i].principal + p /\ new.at = now /\ new.due = now + k
        /\ new.repaid = 0 /\ new.booked = 0
    BY <1>1, <1>2, <1>5 DEF Present
  <2> HIDE DEF new
  <2>3. loan'[i] = new /\ \A j \in Invoices \ {i} : loan'[j] = loan[j]
    BY <1>2, <2>1
  <2> QED
    BY <1>1, <1>3, <1>5, <2>2, <2>3, Zenon
<1> QED
  BY <1>4, <1>5

LEMMA PartFacts ==
    ASSUME TypeOK, NEW i \in Invoices, NEW a \in Payments, RepayPart(i, a)
    PROVE  /\ a \in Nat /\ Present(i) /\ a < Remaining(i)
           /\ \A j \in Invoices \ {i} : loan'[j] = loan[j]
           /\ loan'[i].principal = loan[i].principal
           /\ loan'[i].at = loan[i].at /\ loan'[i].due = loan[i].due
           /\ loan'[i].fee = loan[i].fee /\ loan'[i].repaid = loan[i].repaid + a
           /\ loan'[i].booked = loan[i].booked
           /\ unbooked' = unbooked + a
           /\ UNCHANGED <<now, deployed, collateral, held>>
<1> DEFINE new == [loan[i] EXCEPT !.repaid = loan[i].repaid + a]
<1>1. loan \in [Invoices -> Loan] /\ loan[i] \in Loan
  BY DEF TypeOK
<1>2. loan' = [loan EXCEPT ![i] = new]
  BY Zenon DEF RepayPart
<1>3. /\ new.principal = loan[i].principal /\ new.at = loan[i].at
      /\ new.due = loan[i].due /\ new.fee = loan[i].fee /\ new.repaid = loan[i].repaid + a
      /\ new.booked = loan[i].booked
  BY <1>1 DEF Loan
<1> HIDE DEF new
<1>4. loan'[i] = new /\ \A j \in Invoices \ {i} : loan'[j] = loan[j]
  BY <1>1, <1>2
<1>5. a \in Nat
  BY LendingAssumption
<1> QED
  BY <1>3, <1>4, <1>5, Zenon DEF RepayPart

LEMMA FullFacts ==
    ASSUME TypeOK, NEW i \in Invoices, NEW a, NEW reward, RepayFull(i, a, reward)
    PROVE  /\ Present(i) /\ Remaining(i) > 0
           /\ \A j \in Invoices \ {i} : loan'[j] = loan[j] /\ collateral'[j] = collateral[j]
           /\ loan'[i].principal = loan[i].principal
           /\ loan'[i].at = loan[i].at /\ loan'[i].due = loan[i].due
           /\ loan'[i].fee = loan[i].fee
           /\ loan'[i].repaid = loan[i].repaid + Remaining(i)
           /\ loan'[i].booked = loan[i].repaid + Remaining(i)
           /\ collateral'[i].status # "held"
           /\ deployed' = deployed - loan[i].principal
           /\ held' = held - Released(i)
           /\ unbooked' = unbooked - (loan[i].repaid - loan[i].booked)
           /\ now' = now
<1> DEFINE paid == loan[i].repaid + Remaining(i)
           new == [loan[i] EXCEPT !.repaid = paid, !.booked = paid]
           st == IF collateral[i].status = "held" THEN "settled" ELSE collateral[i].status
           col == [collateral[i] EXCEPT !.status = st]
<1>1. /\ loan \in [Invoices -> Loan] /\ loan[i] \in Loan
      /\ collateral \in [Invoices -> Collateral] /\ collateral[i] \in Collateral
  BY DEF TypeOK
<1>2. loan' = [loan EXCEPT ![i] = new]
  BY Zenon DEF RepayFull
<1>3. collateral' = [collateral EXCEPT ![i] = col]
  BY Zenon DEF RepayFull
<1>4. st # "held"
  OBVIOUS
<1> HIDE DEF paid, st
<1>5. /\ new.principal = loan[i].principal /\ new.at = loan[i].at
      /\ new.due = loan[i].due /\ new.fee = loan[i].fee /\ new.repaid = paid
      /\ new.booked = paid
  BY <1>1 DEF Loan
<1>6. col.status = st
  BY <1>1 DEF Collateral
<1> HIDE DEF new, col
<1>7. /\ loan'[i] = new /\ \A j \in Invoices \ {i} : loan'[j] = loan[j]
  BY <1>1, <1>2
<1>8. /\ collateral'[i] = col /\ \A j \in Invoices \ {i} : collateral'[j] = collateral[j]
  BY <1>1, <1>3
<1>9. /\ Present(i) /\ Remaining(i) > 0
      /\ deployed' = deployed - loan[i].principal
      /\ held' = held - Released(i)
      /\ unbooked' = unbooked - (loan[i].repaid - loan[i].booked)
      /\ now' = now
  BY Zenon DEF RepayFull
<1> QED
  BY <1>4, <1>5, <1>6, <1>7, <1>8, <1>9, Zenon DEF paid

LEMMA DropFacts ==
    ASSUME TypeOK, NEW i \in Invoices, DropLoan(i)
    PROVE  /\ \A j \in Invoices \ {i} : loan'[j] = loan[j]
           /\ loan'[i].principal = 0 /\ loan'[i].at = 0 /\ loan'[i].due = 0
           /\ loan'[i].fee = 0 /\ loan'[i].repaid = 0 /\ loan'[i].booked = 0
           /\ unbooked' = unbooked - (loan[i].repaid - loan[i].booked)
<1>1. loan \in [Invoices -> Loan]
  BY DEF TypeOK
<1>2. /\ loan' = [loan EXCEPT ![i] = NoLoan]
      /\ unbooked' = unbooked - (loan[i].repaid - loan[i].booked)
  BY DEF DropLoan
<1>3. loan'[i] = NoLoan /\ \A j \in Invoices \ {i} : loan'[j] = loan[j]
  BY <1>1, <1>2
<1>4. /\ NoLoan.principal = 0 /\ NoLoan.at = 0 /\ NoLoan.due = 0
      /\ NoLoan.fee = 0 /\ NoLoan.repaid = 0 /\ NoLoan.booked = 0
  BY DEF NoLoan
<1> QED
  BY <1>2, <1>3, <1>4, Zenon

LEMMA ExtendFacts ==
    ASSUME TypeOK, NEW i \in Invoices, NEW due, UpdateInvoiceDueDate(i, due)
    PROVE  /\ due > loan[i].due
           /\ \A j \in Invoices \ {i} : loan'[j] = loan[j]
           /\ loan'[i].principal = loan[i].principal
           /\ loan'[i].at = loan[i].at /\ loan'[i].due = due
           /\ loan'[i].fee = loan[i].fee /\ loan'[i].repaid = loan[i].repaid
           /\ loan'[i].booked = loan[i].booked
           /\ UNCHANGED <<now, deployed, collateral, held, unbooked>>
<1> DEFINE new == [loan[i] EXCEPT !.due = due]
<1>1. loan \in [Invoices -> Loan] /\ loan[i] \in Loan
  BY DEF TypeOK
<1>2. loan' = [loan EXCEPT ![i] = new]
  BY Zenon DEF UpdateInvoiceDueDate
<1>3. /\ new.principal = loan[i].principal /\ new.at = loan[i].at
      /\ new.due = due /\ new.fee = loan[i].fee /\ new.repaid = loan[i].repaid
      /\ new.booked = loan[i].booked
  BY <1>1 DEF Loan
<1> HIDE DEF new
<1>4. loan'[i] = new /\ \A j \in Invoices \ {i} : loan'[j] = loan[j]
  BY <1>1, <1>2
<1> QED
  BY <1>3, <1>4, Zenon DEF UpdateInvoiceDueDate

\* The steps that touch neither a loan, nor the clock, nor the totals derived
\* from them.
LEMMA LoanSteps ==
    ASSUME TypeOK, [Next]_vars
    PROVE  \/ \E i \in Invoices, p \in Principals, k \in DueOffsets, premium \in Premiums :
                  FundInvoiceRequest(i, p, now + k, premium)
           \/ \E i \in Invoices, a \in Payments : RepayPart(i, a)
           \/ \E i \in Invoices, a \in Payments : \E reward \in Rewards(i) : RepayFull(i, a, reward)
           \/ \E i \in Invoices : CancelFundedInvoice(i) \/ CleanupFundedInvoice(i)
           \/ \E i \in Invoices, k \in DueOffsets : UpdateInvoiceDueDate(i, loan[i].due + k)
           \/ \E i \in Invoices : RiskLiquidateCollateral(i) \/ LiquidateInvoice(i)
           \/ \E i \in Invoices, a \in CollateralAmounts :
                  DepositCollateral(i, a) \/ TopUpCollateral(i, a)
           \/ /\ UNCHANGED <<deployed, loan, collateral, held, unbooked>>
              /\ now' = now \/ now' = now + 1
<1> DEFINE Quiet == /\ UNCHANGED <<deployed, loan, collateral, held, unbooked>>
                    /\ now' = now \/ now' = now + 1
<1>1. CASE UNCHANGED vars
  BY <1>1 DEF vars, lendingVars
<1>2. CASE SharesNext /\ UNCHANGED lendingVars
  <2>1. UNCHANGED <<loan, collateral, held, unbooked>>
    BY <1>2 DEF lendingVars
  <2>2. deployed' = deployed
    BY <1>2, SharesStepDeployed
  <2>3. now' = now \/ now' = now + 1
    BY <1>2, Zenon DEF SharesNext, Tick, Pause, Unpause, DrainWithdrawalQueue, Deposit, Withdraw,
       RequestImmediate, RequestQueued, AdjustWithdrawalRequest, ShareTransfer,
       CancelWithdrawalRequest
  <2> QED
    BY <2>1, <2>2, <2>3
<1>3. CASE LendingNext
  <2>1. ASSUME NEW i \in Investors, NEW bonus, ClaimYield(i, bonus) PROVE Quiet
    BY <2>1 DEF ClaimYield
  <2>2. ASSUME NEW a, ReceiveInsurancePayout(a) \/ WithdrawRevenue(a) PROVE Quiet
    BY <2>2 DEF ReceiveInsurancePayout, WithdrawRevenue, lendingVars
  <2> HIDE DEF Quiet
  <2>3. \/ \E i \in Invoices, p \in Principals, k \in DueOffsets, premium \in Premiums :
               FundInvoiceRequest(i, p, now + k, premium)
        \/ \E i \in Invoices, a \in Payments : RepayPart(i, a)
        \/ \E i \in Invoices, a \in Payments : \E reward \in Rewards(i) : RepayFull(i, a, reward)
        \/ \E i \in Invoices : CancelFundedInvoice(i) \/ CleanupFundedInvoice(i)
        \/ \E i \in Invoices, k \in DueOffsets : UpdateInvoiceDueDate(i, loan[i].due + k)
        \/ \E i \in Invoices : RiskLiquidateCollateral(i) \/ LiquidateInvoice(i)
        \/ \E i \in Invoices, a \in CollateralAmounts :
               DepositCollateral(i, a) \/ TopUpCollateral(i, a)
        \/ Quiet
    BY <1>3, <2>1, <2>2, Zenon DEF LendingNext, FundInvoice, FundMultipleInvoices
  <2> QED
    BY <2>3, Zenon DEF Quiet
<1> QED
  BY <1>1, <1>2, <1>3 DEF Next

-----------------------------------------------------------------------------
(* Collateral in custody and repayments in waiting *)

\* What each invoice adds to held and to unbooked.
Kept(c) == IF c.status = "held" THEN c.amount ELSE 0
KeptBy(col) == [i \in Invoices |-> Kept(col[i])]
Waiting(l) == l.repaid - l.booked
WaitingBy(loans) == [i \in Invoices |-> Waiting(loans[i])]

\* An invoice without a loan carries no repayment.
BlankIsBooked == \A i \in Invoices : ~Present(i) => Waiting(loan[i]) = 0

LEMMA KeptType ==
    ASSUME NEW col \in [Invoices -> Collateral]
    PROVE  /\ \A i \in Invoices : Kept(col[i]) \in Nat /\ KeptBy(col)[i] = Kept(col[i])
           /\ KeptBy(col) \in [Invoices -> Int] /\ SumOf(KeptBy(col)) \in Int
<1>1. \A i \in Invoices : Kept(col[i]) \in Nat
  BY DEF Kept, Collateral
<1>2. KeptBy(col) \in [Invoices -> Int] /\ \A i \in Invoices : KeptBy(col)[i] = Kept(col[i])
  BY <1>1 DEF KeptBy
<1> QED
  BY <1>1, <1>2, SumOfType, LendingAssumption

LEMMA WaitingType ==
    ASSUME NEW loans \in [Invoices -> Loan]
    PROVE  /\ \A i \in Invoices : Waiting(loans[i]) \in Int /\ WaitingBy(loans)[i] = Waiting(loans[i])
           /\ WaitingBy(loans) \in [Invoices -> Int] /\ SumOf(WaitingBy(loans)) \in Int
<1>1. \A i \in Invoices : Waiting(loans[i]) \in Int
  BY DEF Waiting, Loan
<1>2. WaitingBy(loans) \in [Invoices -> Int] /\ \A i \in Invoices : WaitingBy(loans)[i] = Waiting(loans[i])
  BY <1>1 DEF WaitingBy
<1> QED
  BY <1>1, <1>2, SumOfType, LendingAssumption

LEMMA KeptChange ==
    ASSUME NEW old \in [Invoices -> Collateral], NEW new \in [Invoices -> Collateral],
           NEW i \in Invoices, \A j \in Invoices \ {i} : new[j] = old[j]
    PROVE  SumOf(KeptBy(new)) = SumOf(KeptBy(old)) + Kept(new[i]) - Kept(old[i])
<1>1. \A j \in Invoices \ {i} : KeptBy(new)[j] = KeptBy(old)[j]
  BY KeptType
<1>2. KeptBy(new) \in [Invoices -> Int] /\ KeptBy(old) \in [Invoices -> Int]
  BY KeptType
<1>3. SumOf(KeptBy(new)) = SumOf(KeptBy(old)) + KeptBy(new)[i] - KeptBy(old)[i]
  BY <1>1, <1>2, SumChange, LendingAssumption
<1> QED
  BY <1>3, KeptType

LEMMA WaitingChange ==
    ASSUME NEW old \in [Invoices -> Loan], NEW new \in [Invoices -> Loan],
           NEW i \in Invoices, \A j \in Invoices \ {i} : new[j] = old[j]
    PROVE  SumOf(WaitingBy(new)) = SumOf(WaitingBy(old)) + Waiting(new[i]) - Waiting(old[i])
<1>1. \A j \in Invoices \ {i} : WaitingBy(new)[j] = WaitingBy(old)[j]
  BY WaitingType
<1>2. WaitingBy(new) \in [Invoices -> Int] /\ WaitingBy(old) \in [Invoices -> Int]
  BY WaitingType
<1>3. SumOf(WaitingBy(new)) = SumOf(WaitingBy(old)) + WaitingBy(new)[i] - WaitingBy(old)[i]
  BY <1>1, <1>2, SumChange, LendingAssumption
<1> QED
  BY <1>3, WaitingType

LEMMA CustodyNow ==
    /\ CustodyAccounted <=> held = SumOf(KeptBy(collateral)) /\ unbooked = SumOf(WaitingBy(loan))
    /\ CustodyAccounted' <=> held' = SumOf(KeptBy(collateral')) /\ unbooked' = SumOf(WaitingBy(loan'))
<1>1. /\ \A f : Total(f) = SumOf(f)
      /\ [i \in Invoices |-> Released(i)] = KeptBy(collateral)
      /\ [i \in Invoices |-> Released(i)]' = KeptBy(collateral')
      /\ [i \in Invoices |-> loan[i].repaid - loan[i].booked] = WaitingBy(loan)
      /\ [i \in Invoices |-> loan[i].repaid - loan[i].booked]' = WaitingBy(loan')
  BY Zenon DEF Total, SumOf, KeptBy, Kept, Released, WaitingBy, Waiting
<1> QED
  BY <1>1, Zenon DEF CustodyAccounted

\* Custody follows one invoice at a time.
LEMMA HeldMoves ==
    ASSUME TypeOK, TypeOK', NEW i \in Invoices,
           \A j \in Invoices \ {i} : collateral'[j] = collateral[j],
           held' = held + Kept(collateral'[i]) - Kept(collateral[i]),
           held = SumOf(KeptBy(collateral))
    PROVE  held' = SumOf(KeptBy(collateral'))
<1>1. collateral \in [Invoices -> Collateral] /\ collateral' \in [Invoices -> Collateral]
  BY DEF TypeOK
<1>2. SumOf(KeptBy(collateral')) =
          SumOf(KeptBy(collateral)) + Kept(collateral'[i]) - Kept(collateral[i])
  BY <1>1, KeptChange
<1> QED
  BY <1>2, Zenon

LEMMA WaitingMoves ==
    ASSUME TypeOK, TypeOK', NEW i \in Invoices,
           \A j \in Invoices \ {i} : loan'[j] = loan[j],
           unbooked' = unbooked + Waiting(loan'[i]) - Waiting(loan[i]),
           unbooked = SumOf(WaitingBy(loan))
    PROVE  unbooked' = SumOf(WaitingBy(loan'))
<1>1. loan \in [Invoices -> Loan] /\ loan' \in [Invoices -> Loan]
  BY DEF TypeOK
<1>2. SumOf(WaitingBy(loan')) = SumOf(WaitingBy(loan)) + Waiting(loan'[i]) - Waiting(loan[i])
  BY <1>1, WaitingChange
<1> QED
  BY <1>2, Zenon

\* How a step moves the collateral and the repayments of an invoice.
CollateralMoved(i) ==
    /\ \A j \in Invoices \ {i} : collateral'[j] = collateral[j]
    /\ held' = held + Kept(collateral'[i]) - Kept(collateral[i])

RepaymentMoved(i) ==
    /\ \A j \in Invoices \ {i} : loan'[j] = loan[j]
    /\ unbooked' = unbooked + Waiting(loan'[i]) - Waiting(loan[i])
    /\ loan'[i].principal > 0 \/ Waiting(loan'[i]) = 0

LEMMA CollateralSteps ==
    ASSUME TypeOK, TypeOK', [Next]_vars
    PROVE  \/ UNCHANGED <<collateral, held>>
           \/ \E i \in Invoices : CollateralMoved(i)
<1>0. ASSUME NEW i \in Invoices
      PROVE  /\ collateral[i] \in Collateral /\ collateral[i].amount \in Nat
             /\ held \in Int /\ Kept(collateral[i]) = Released(i)
  BY <1>0, LoanAmounts, Zenon DEF TypeOK, Kept, Released
<1>1. ASSUME NEW i \in Invoices, NEW a \in CollateralAmounts, DepositCollateral(i, a)
      PROVE  CollateralMoved(i)
  <2>1. a \in Nat
    BY LendingAssumption
  <2>2. /\ Kept(collateral[i]) = 0
        /\ collateral' = [collateral EXCEPT ![i] = [amount |-> a, status |-> "held"]]
        /\ held' = held + a
    BY <1>1 DEF DepositCollateral, Kept
  <2>3. /\ \A j \in Invoices \ {i} : collateral'[j] = collateral[j]
        /\ Kept(collateral'[i]) = a
    BY <2>2 DEF TypeOK, Kept
  <2> QED
    BY <1>0, <2>1, <2>2, <2>3 DEF CollateralMoved
<1>2. ASSUME NEW i \in Invoices, NEW a \in CollateralAmounts, TopUpCollateral(i, a)
      PROVE  CollateralMoved(i)
  <2> DEFINE new == [collateral[i] EXCEPT !.amount = collateral[i].amount + a]
  <2>1. a \in Nat
    BY LendingAssumption
  <2>2. /\ collateral[i].status = "held"
        /\ collateral' = [collateral EXCEPT ![i] = new]
        /\ held' = held + a
    BY <1>2, Zenon DEF TopUpCollateral
  <2>3. new.amount = collateral[i].amount + a /\ new.status = collateral[i].status
    BY <1>0 DEF Collateral
  <2> HIDE DEF new
  <2>4. collateral'[i] = new /\ \A j \in Invoices \ {i} : collateral'[j] = collateral[j]
    BY <2>2 DEF TypeOK
  <2>5. Kept(collateral[i]) = collateral[i].amount /\ Kept(collateral'[i]) = collateral[i].amount + a
    BY <2>2, <2>3, <2>4, Zenon DEF Kept
  <2>6. held' = held + Kept(collateral'[i]) - Kept(collateral[i])
    BY <1>0, <2>1, <2>2, <2>5
  <2> QED
    BY <2>4, <2>6 DEF CollateralMoved
<1>3. ASSUME NEW i \in Invoices, RiskLiquidateCollateral(i) \/ LiquidateInvoice(i)
      PROVE  CollateralMoved(i)
  <2> DEFINE new == [collateral[i] EXCEPT !.status = "settled"]
  <2>1. /\ collateral[i].status = "held"
        /\ collateral' = [collateral EXCEPT ![i] = new]
        /\ held' = held - collateral[i].amount
    BY <1>3, Zenon DEF RiskLiquidateCollateral, LiquidateInvoice
  <2>2. new.status = "settled"
    BY <1>0 DEF Collateral
  <2> HIDE DEF new
  <2>3. collateral'[i] = new /\ \A j \in Invoices \ {i} : collateral'[j] = collateral[j]
    BY <2>1 DEF TypeOK
  <2>4. Kept(collateral[i]) = collateral[i].amount /\ Kept(collateral'[i]) = 0
    BY <2>1, <2>2, <2>3 DEF Kept
  <2>5. held' = held + Kept(collateral'[i]) - Kept(collateral[i])
    BY <1>0, <2>1, <2>4
  <2> QED
    BY <2>3, <2>5 DEF CollateralMoved
<1>4. ASSUME NEW i \in Invoices, NEW a, NEW reward, RepayFull(i, a, reward)
      PROVE  CollateralMoved(i)
  <2>1. /\ \A j \in Invoices \ {i} : collateral'[j] = collateral[j]
        /\ collateral'[i].status # "held" /\ held' = held - Released(i)
    BY <1>4, FullFacts
  <2>2. Kept(collateral'[i]) = 0
    BY <2>1 DEF Kept
  <2>3. held' = held + Kept(collateral'[i]) - Kept(collateral[i])
    BY <1>0, <2>1, <2>2, LoanAmounts
  <2> QED
    BY <2>1, <2>3 DEF CollateralMoved
<1>5. ASSUME NEW i \in Invoices, NEW p \in Principals, NEW k \in DueOffsets,
             NEW premium \in Premiums, FundInvoiceRequest(i, p, now + k, premium)
      PROVE  UNCHANGED <<collateral, held>>
  BY <1>5, FundFacts
<1>6. ASSUME NEW i \in Invoices, NEW a \in Payments, RepayPart(i, a)
      PROVE  UNCHANGED <<collateral, held>>
  BY <1>6, PartFacts
<1>7. ASSUME NEW i \in Invoices, CancelFundedInvoice(i) \/ CleanupFundedInvoice(i)
      PROVE  UNCHANGED <<collateral, held>>
  BY <1>7 DEF CancelFundedInvoice, CleanupFundedInvoice
<1>8. ASSUME NEW i \in Invoices, NEW k, UpdateInvoiceDueDate(i, loan[i].due + k)
      PROVE  UNCHANGED <<collateral, held>>
  BY <1>8, ExtendFacts
<1>9. CASE UNCHANGED <<deployed, loan, collateral, held, unbooked>>
  BY <1>9
<1> QED
  BY <1>1, <1>2, <1>3, <1>4, <1>5, <1>6, <1>7, <1>8, <1>9, LoanSteps, Zenon

LEMMA RepaymentSteps ==
    ASSUME TypeOK, TypeOK', BlankIsBooked, [Next]_vars
    PROVE  \/ UNCHANGED <<loan, unbooked>>
           \/ \E i \in Invoices : RepaymentMoved(i)
<1>0. ASSUME NEW i \in Invoices
      PROVE  /\ unbooked \in Int /\ loan[i].repaid \in Nat /\ loan[i].booked \in Nat
             /\ Waiting(loan[i]) = loan[i].repaid - loan[i].booked
             /\ loan[i].principal \in Nat /\ Remaining(i) \in Int
  BY <1>0, LoanAmounts DEF TypeOK, Waiting
<1>1. ASSUME NEW i \in Invoices, NEW p \in Principals, NEW k \in DueOffsets,
             NEW premium \in Premiums, FundInvoiceRequest(i, p, now + k, premium)
      PROVE  RepaymentMoved(i)
  <2>1. Waiting(loan'[i]) = Waiting(loan[i])
    <3>1. CASE Present(i)
      BY <1>1, <3>1, FundFacts DEF Waiting
    <3>2. CASE ~Present(i)
      <4>1. loan'[i].repaid = 0 /\ loan'[i].booked = 0
        BY <1>1, <3>2, FundFacts
      <4> QED
        BY <3>2, <4>1 DEF BlankIsBooked, Waiting
    <3> QED
      BY <3>1, <3>2
  <2>2. /\ \A j \in Invoices \ {i} : loan'[j] = loan[j]
        /\ unbooked' = unbooked /\ p > 0 /\ p \in Nat
        /\ loan'[i].principal = loan[i].principal + p
    BY <1>1, FundFacts
  <2>3. unbooked' = unbooked + Waiting(loan'[i]) - Waiting(loan[i]) /\ loan'[i].principal > 0
    BY <1>0, <2>1, <2>2
  <2> QED
    BY <2>2, <2>3 DEF RepaymentMoved
<1>2. ASSUME NEW i \in Invoices, NEW a \in Payments, RepayPart(i, a)
      PROVE  RepaymentMoved(i)
  <2>1. /\ \A j \in Invoices \ {i} : loan'[j] = loan[j]
        /\ unbooked' = unbooked + a /\ a \in Nat /\ Present(i)
        /\ loan'[i].principal = loan[i].principal
        /\ loan'[i].repaid = loan[i].repaid + a /\ loan'[i].booked = loan[i].booked
    BY <1>2, PartFacts
  <2>2. unbooked' = unbooked + Waiting(loan'[i]) - Waiting(loan[i]) /\ loan'[i].principal > 0
    BY <1>0, <2>1 DEF Waiting, Present
  <2> QED
    BY <2>1, <2>2 DEF RepaymentMoved
<1>3. ASSUME NEW i \in Invoices, NEW a, NEW reward, RepayFull(i, a, reward)
      PROVE  RepaymentMoved(i)
  <2>1. /\ \A j \in Invoices \ {i} : loan'[j] = loan[j]
        /\ unbooked' = unbooked - (loan[i].repaid - loan[i].booked)
        /\ loan'[i].repaid = loan[i].repaid + Remaining(i)
        /\ loan'[i].booked = loan[i].repaid + Remaining(i)
    BY <1>3, FullFacts
  <2>2. Waiting(loan'[i]) = 0
    BY <1>0, <2>1 DEF Waiting
  <2>3. unbooked' = unbooked + Waiting(loan'[i]) - Waiting(loan[i])
    BY <1>0, <2>1, <2>2
  <2> QED
    BY <2>1, <2>2, <2>3 DEF RepaymentMoved
<1>4. ASSUME NEW i \in Invoices, CancelFundedInvoice(i) \/ CleanupFundedInvoice(i)
      PROVE  RepaymentMoved(i)
  <2>1. DropLoan(i)
    BY <1>4 DEF CancelFundedInvoice, CleanupFundedInvoice
  <2>2. /\ \A j \in Invoices \ {i} : loan'[j] = loan[j]
        /\ unbooked' = unbooked - (loan[i].repaid - loan[i].booked)
        /\ loan'[i].repaid = 0 /\ loan'[i].booked = 0
    BY <2>1, DropFacts
  <2>3. Waiting(loan'[i]) = 0
    BY <2>2 DEF Waiting
  <2>4. unbooked' = unbooked + Waiting(loan'[i]) - Waiting(loan[i])
    BY <1>0, <2>2, <2>3
  <2> QED
    BY <2>2, <2>3, <2>4 DEF RepaymentMoved
<1>5. ASSUME NEW i \in Invoices, NEW k, UpdateInvoiceDueDate(i, loan[i].due + k)
      PROVE  RepaymentMoved(i)
  <2>1. /\ \A j \in Invoices \ {i} : loan'[j] = loan[j]
        /\ unbooked' = unbooked
        /\ loan'[i].principal = loan[i].principal
        /\ loan'[i].repaid = loan[i].repaid /\ loan'[i].booked = loan[i].booked
    BY <1>5, ExtendFacts
  <2>2. Present(i)
    BY <1>5 DEF UpdateInvoiceDueDate
  <2>3. unbooked' = unbooked + Waiting(loan'[i]) - Waiting(loan[i]) /\ loan'[i].principal > 0
    BY <1>0, <2>1, <2>2 DEF Waiting, Present
  <2> QED
    BY <2>1, <2>3 DEF RepaymentMoved
<1>6. ASSUME NEW i \in Invoices,
             \/ RiskLiquidateCollateral(i) \/ LiquidateInvoice(i)
             \/ \E a \in CollateralAmounts : DepositCollateral(i, a) \/ TopUpCollateral(i, a)
      PROVE  UNCHANGED <<loan, unbooked>>
  BY <1>6, Zenon DEF RiskLiquidateCollateral, LiquidateInvoice, DepositCollateral, TopUpCollateral
<1>7. CASE UNCHANGED <<deployed, loan, collateral, held, unbooked>>
  BY <1>7
<1> QED
  BY <1>1, <1>2, <1>3, <1>4, <1>5, <1>6, <1>7, LoanSteps, Zenon

\* Collateral is in custody once, and a repayment waits to be booked once,
\* whatever the order in which repayment, seizure, liquidation, cancellation
\* and cleanup reach an invoice; for any number of invoices.
THEOREM CustodyCorrect == Spec => []CustodyAccounted
<1> DEFINE Inv == BlankIsBooked /\ CustodyAccounted
<1>1. Init => Inv
  <2> SUFFICES ASSUME Init PROVE Inv
    OBVIOUS
  <2>1. KeptBy(collateral) = [i \in Invoices |-> 0] /\ WaitingBy(loan) = [i \in Invoices |-> 0]
    BY DEF Init, LendingInit, KeptBy, Kept, WaitingBy, Waiting, NoLoan
  <2>2. held = 0 /\ unbooked = 0 /\ BlankIsBooked
    BY DEF Init, LendingInit, BlankIsBooked, Waiting, NoLoan
  <2>3. SumOf([i \in Invoices |-> 0]) = 0
    BY SumOfZero, LendingAssumption
  <2> QED
    BY <2>1, <2>2, <2>3, CustodyNow, Zenon
<1>2. TypeOK /\ TypeOK' /\ Inv /\ [Next]_vars => Inv'
  <2> SUFFICES ASSUME TypeOK, TypeOK', BlankIsBooked, CustodyAccounted, [Next]_vars
               PROVE  BlankIsBooked' /\ CustodyAccounted'
    OBVIOUS
  <2>1. held = SumOf(KeptBy(collateral)) /\ unbooked = SumOf(WaitingBy(loan))
    BY CustodyNow, Zenon
  <2>2. held' = SumOf(KeptBy(collateral'))
    <3>1. ASSUME NEW i \in Invoices, CollateralMoved(i) PROVE held' = SumOf(KeptBy(collateral'))
      BY <2>1, <3>1, HeldMoves, Zenon DEF CollateralMoved
    <3>2. CASE UNCHANGED <<collateral, held>>
      BY <2>1, <3>2, Zenon
    <3> QED
      BY <3>1, <3>2, CollateralSteps, Zenon
  <2>3. unbooked' = SumOf(WaitingBy(loan')) /\ BlankIsBooked'
    <3>1. ASSUME NEW i \in Invoices, RepaymentMoved(i)
          PROVE  unbooked' = SumOf(WaitingBy(loan')) /\ BlankIsBooked'
      <4>1. unbooked' = SumOf(WaitingBy(loan'))
        BY <2>1, <3>1, WaitingMoves, Zenon DEF RepaymentMoved
      <4>2. BlankIsBooked'
        BY <3>1, Zenon DEF RepaymentMoved, BlankIsBooked, Present, Waiting
      <4> QED
        BY <4>1, <4>2
    <3>2. CASE UNCHANGED <<loan, unbooked>>
      BY <2>1, <3>2, Zenon DEF BlankIsBooked, Present, Waiting
    <3> QED
      BY <3>1, <3>2, RepaymentSteps, Zenon
  <2> QED
    BY <2>2, <2>3, CustodyNow, Zenon
<1> QED
  BY <1>1, <1>2, TypeCorrect, PTL DEF Spec

-----------------------------------------------------------------------------
(* Principal that is still owed *)

\* Interest, remaining debt and owed principal of a loan record at a time.
InterestAt(l, t) ==
    (l.principal * Rate * (Smaller(t, l.due) - l.at) + RateDenom \div 2) \div RateDenom
RemainingAt(l, t) == (l.principal + InterestAt(l, t) + l.fee) - l.repaid
OwedAt(l, t) == IF l.principal > 0 /\ RemainingAt(l, t) > 0 THEN l.principal ELSE 0
OwedBy(loans, t) == [i \in Invoices |-> OwedAt(loans[i], t)]

\* No loan is repaid beyond what is due.
NeverOverpaid == \A i \in Invoices : RemainingAt(loan[i], now) >= 0

\* A record of a loan at a time at which it may have been paid out.
Dated(l, t) == l.at <= t /\ l.at <= l.due

LEMMA LoanFields ==
    ASSUME NEW l \in Loan
    PROVE  /\ l.principal \in Nat /\ l.at \in Nat /\ l.due \in Nat /\ l.fee \in Nat
           /\ l.repaid \in Nat /\ l.booked \in Nat
  BY DEF Loan

\* Division keeps the order.
LEMMA DivMonotone ==
    ASSUME NEW a \in Nat, NEW b \in Nat, NEW d \in Nat \ {0}, a <= b
    PROVE  a \div d \in Nat /\ b \div d \in Nat /\ a \div d <= b \div d
<1>1. a \div d \in Nat /\ b \div d \in Nat
  OBVIOUS
<1> DEFINE x == a \div d
           y == b \div d
<1>2. d * x <= a /\ b < d * (y + 1)
  BY Z3
<1>3. x \in Nat /\ y \in Nat
  BY <1>1
<1> HIDE DEF x, y
<1>4. d * x < d * (y + 1)
  BY <1>2, <1>3
<1>5. x <= y
  <2> SUFFICES ASSUME x >= y + 1 PROVE FALSE
    BY <1>3
  <2>1. d * x - d * (y + 1) = d * (x - (y + 1))
    BY <1>3
  <2>2. d * (x - (y + 1)) >= 0
    BY <1>3
  <2> QED
    BY <1>3, <1>4, <2>1, <2>2
<1> QED
  BY <1>1, <1>5 DEF x, y

LEMMA ProductMonotone ==
    ASSUME NEW a \in Nat, NEW b \in Nat, NEW c \in Nat, NEW d \in Nat, a <= b, c <= d
    PROVE  a * c \in Nat /\ b * d \in Nat /\ a * c <= b * d
<1>1. (b - a) * d \in Nat /\ a * (d - c) \in Nat /\ a * c \in Nat /\ b * d \in Nat
  <2>1. b - a \in Nat /\ d - c \in Nat
    OBVIOUS
  <2> QED
    BY <2>1
<1>2. b * d - a * c = (b - a) * d + a * (d - c)
  OBVIOUS
<1> QED
  BY <1>1, <1>2

\* Interest grows with the principal, with time and with the due date.
LEMMA InterestMonotone ==
    ASSUME NEW l \in Loan, NEW m \in Loan, NEW s \in Nat, NEW t \in Nat, Dated(l, s),
           l.principal <= m.principal, m.at = l.at, s <= t, l.due <= m.due
    PROVE  InterestAt(l, s) \in Nat /\ InterestAt(m, t) \in Nat /\ InterestAt(l, s) <= InterestAt(m, t)
<1> DEFINE a == l.principal * Rate
           b == m.principal * Rate
           c == Smaller(s, l.due) - l.at
           d == Smaller(t, m.due) - m.at
           half == RateDenom \div 2
<1>1. /\ l.principal \in Nat /\ l.at \in Nat /\ l.due \in Nat
      /\ m.principal \in Nat /\ m.due \in Nat
      /\ Rate \in Nat /\ RateDenom \in Nat \ {0}
  BY LoanFields, LendingAssumption
<1>2. a \in Nat /\ b \in Nat /\ a <= b
  <2>1. Rate <= Rate
    BY <1>1
  <2> QED
    BY <1>1, <2>1, ProductMonotone
<1>3. c \in Nat /\ d \in Nat /\ c <= d
  BY <1>1 DEF Dated, Smaller
<1>4. half \in Nat
  BY <1>1
<1>5. InterestAt(l, s) = (a * c + half) \div RateDenom /\ InterestAt(m, t) = (b * d + half) \div RateDenom
  BY DEF InterestAt
<1> HIDE DEF a, b, c, d, half
<1>6. a * c \in Nat /\ b * d \in Nat /\ a * c <= b * d
  BY <1>2, <1>3, ProductMonotone
<1>7. a * c + half \in Nat /\ b * d + half \in Nat /\ a * c + half <= b * d + half
  BY <1>4, <1>6
<1> QED
  BY <1>1, <1>5, <1>7, DivMonotone

LEMMA OwedType ==
    ASSUME NEW loans \in [Invoices -> Loan], NEW t
    PROVE  /\ \A i \in Invoices : OwedAt(loans[i], t) \in Nat /\ OwedBy(loans, t)[i] = OwedAt(loans[i], t)
           /\ OwedBy(loans, t) \in [Invoices -> Int] /\ SumOf(OwedBy(loans, t)) \in Int
<1>1. \A i \in Invoices : OwedAt(loans[i], t) \in Nat
  BY LoanFields DEF OwedAt
<1>2. /\ OwedBy(loans, t) \in [Invoices -> Int]
      /\ \A i \in Invoices : OwedBy(loans, t)[i] = OwedAt(loans[i], t)
  BY <1>1 DEF OwedBy
<1> QED
  BY <1>1, <1>2, SumOfType, LendingAssumption

LEMMA OwedChange ==
    ASSUME NEW old \in [Invoices -> Loan], NEW new \in [Invoices -> Loan], NEW t,
           NEW i \in Invoices, \A j \in Invoices \ {i} : new[j] = old[j]
    PROVE  SumOf(OwedBy(new, t)) = SumOf(OwedBy(old, t)) + OwedAt(new[i], t) - OwedAt(old[i], t)
<1>1. \A j \in Invoices \ {i} : OwedBy(new, t)[j] = OwedBy(old, t)[j]
  BY OwedType
<1>2. OwedBy(new, t) \in [Invoices -> Int] /\ OwedBy(old, t) \in [Invoices -> Int]
  BY OwedType
<1>3. SumOf(OwedBy(new, t)) = SumOf(OwedBy(old, t)) + OwedBy(new, t)[i] - OwedBy(old, t)[i]
  BY <1>1, <1>2, SumChange, LendingAssumption
<1> QED
  BY <1>3, OwedType

LEMMA OwedNow ==
    /\ DeployedNeverOverstated <=> deployed <= SumOf(OwedBy(loan, now))
    /\ DeployedNeverOverstated' <=> deployed' <= SumOf(OwedBy(loan', now'))
    /\ \A i : Remaining(i) = RemainingAt(loan[i], now)
<1>1. /\ \A f : Total(f) = SumOf(f)
      /\ [i \in Invoices |-> Owed(i)] = OwedBy(loan, now)
      /\ [i \in Invoices |-> Owed(i)]' = OwedBy(loan', now')
  BY Zenon DEF Total, SumOf, OwedBy, OwedAt, RemainingAt, InterestAt, Owed, Present, Remaining,
     TotalDue, Interest
<1>2. \A i : Remaining(i) = RemainingAt(loan[i], now)
  BY Zenon DEF Remaining, TotalDue, Interest, RemainingAt, InterestAt
<1> QED
  BY <1>1, <1>2, Zenon DEF DeployedNeverOverstated

\* How a handler moves one loan: it stays within its debt, and the principal
\* that becomes deployed is owed.
LoanMoved(i) ==
    /\ now' = now
    /\ \A j \in Invoices \ {i} : loan'[j] = loan[j]
    /\ RemainingAt(loan'[i], now) >= 0
    /\ deployed' - deployed <= OwedAt(loan'[i], now) - OwedAt(loan[i], now)

LEMMA OwedSteps ==
    ASSUME TypeOK, TypeOK', LoanTimes, NeverOverpaid, [Next]_vars
    PROVE  \/ UNCHANGED loan /\ deployed' <= deployed /\ now' \in Nat /\ now <= now'
           \/ \E i \in Invoices : LoanMoved(i)
<1>0. now \in Nat /\ deployed \in Int /\ deployed' \in Int
  BY DEF TypeOK
<1>a. ASSUME NEW i \in Invoices
      PROVE  /\ loan[i] \in Loan /\ loan'[i] \in Loan /\ Dated(loan[i], now)
             /\ RemainingAt(loan[i], now) >= 0
             /\ loan[i].principal \in Nat /\ loan[i].at \in Nat /\ loan[i].due \in Nat
             /\ loan[i].fee \in Nat /\ loan[i].repaid \in Nat
             /\ loan'[i].principal \in Nat /\ loan'[i].fee \in Nat /\ loan'[i].due \in Nat
             /\ OwedAt(loan[i], now) \in Nat /\ OwedAt(loan'[i], now) \in Nat
             /\ InterestAt(loan[i], now) \in Nat
  <2>1. loan[i] \in Loan /\ loan'[i] \in Loan
    BY <1>a DEF TypeOK
  <2>2. Dated(loan[i], now) /\ RemainingAt(loan[i], now) >= 0
    BY <1>a DEF LoanTimes, Dated, NeverOverpaid
  <2>3. /\ loan[i].principal \in Nat /\ loan[i].at \in Nat /\ loan[i].due \in Nat
        /\ loan[i].fee \in Nat /\ loan[i].repaid \in Nat
        /\ loan'[i].principal \in Nat /\ loan'[i].fee \in Nat /\ loan'[i].due \in Nat
    BY <2>1, LoanFields
  <2>4. OwedAt(loan[i], now) \in Nat /\ OwedAt(loan'[i], now) \in Nat
    BY <2>3 DEF OwedAt
  <2>5. InterestAt(loan[i], now) \in Nat
    BY <1>0, <2>1, <2>2, <2>3, InterestMonotone
  <2> QED
    BY <2>1, <2>2, <2>3, <2>4, <2>5
<1>1. ASSUME NEW i \in Invoices, NEW p \in Principals, NEW k \in DueOffsets,
             NEW premium \in Premiums, FundInvoiceRequest(i, p, now + k, premium)
      PROVE  LoanMoved(i)
  <2>1. /\ p \in Nat /\ p > 0 /\ k \in Nat /\ now' = now /\ deployed' = deployed + p
        /\ \A j \in Invoices \ {i} : loan'[j] = loan[j]
        /\ loan'[i].principal = loan[i].principal + p
    BY <1>1, FundFacts
  <2>2. RemainingAt(loan'[i], now) > 0 /\ RemainingAt(loan'[i], now) >= 0
    <3>1. CASE Present(i)
      <4>1. /\ loan'[i].at = loan[i].at /\ loan'[i].due = loan[i].due
            /\ loan'[i].fee = loan[i].fee /\ loan'[i].repaid = loan[i].repaid
        BY <1>1, <3>1, FundFacts
      <4>2. /\ InterestAt(loan[i], now) \in Nat /\ InterestAt(loan'[i], now) \in Nat
            /\ InterestAt(loan[i], now) <= InterestAt(loan'[i], now)
        <5>1. /\ loan[i].principal <= loan'[i].principal /\ now <= now
              /\ loan[i].due <= loan'[i].due
          BY <1>0, <1>a, <2>1, <4>1
        <5> QED
          BY <1>0, <1>a, <4>1, <5>1, InterestMonotone
      <4> QED
        BY <1>a, <2>1, <4>1, <4>2 DEF RemainingAt
    <3>2. CASE ~Present(i)
      <4>1. loan'[i].at = now /\ loan'[i].due = now + k /\ loan'[i].repaid = 0
        BY <1>1, <3>2, FundFacts
      <4>2. InterestAt(loan'[i], now) \in Nat
        <5>1. Dated(loan'[i], now) /\ loan'[i].principal <= loan'[i].principal /\ now <= now
              /\ loan'[i].due <= loan'[i].due
          BY <1>0, <1>a, <2>1, <4>1 DEF Dated
        <5> QED
          BY <1>0, <1>a, <5>1, InterestMonotone
      <4> QED
        BY <1>a, <2>1, <4>1, <4>2 DEF RemainingAt
    <3> QED
      BY <3>1, <3>2
  <2>3. OwedAt(loan'[i], now) = loan[i].principal + p /\ OwedAt(loan[i], now) <= loan[i].principal
    BY <1>a, <2>1, <2>2 DEF OwedAt
  <2>4. deployed' - deployed <= OwedAt(loan'[i], now) - OwedAt(loan[i], now)
    BY <1>0, <1>a, <2>1, <2>3
  <2>5. RemainingAt(loan'[i], now) >= 0
    BY <2>2
  <2> QED
    BY <2>1, <2>4, <2>5 DEF LoanMoved
<1>2. ASSUME NEW i \in Invoices, NEW a \in Payments, RepayPart(i, a)
      PROVE  LoanMoved(i)
  <2>1. /\ a \in Nat /\ Present(i) /\ a < RemainingAt(loan[i], now)
        /\ \A j \in Invoices \ {i} : loan'[j] = loan[j]
        /\ loan'[i].principal = loan[i].principal
        /\ loan'[i].at = loan[i].at /\ loan'[i].due = loan[i].due
        /\ loan'[i].fee = loan[i].fee /\ loan'[i].repaid = loan[i].repaid + a
        /\ now' = now /\ deployed' = deployed
    BY <1>2, PartFacts, OwedNow
  <2>2. InterestAt(loan'[i], now) = InterestAt(loan[i], now)
    BY <2>1, Zenon DEF InterestAt
  <2>3. RemainingAt(loan'[i], now) > 0 /\ RemainingAt(loan'[i], now) >= 0
    BY <1>a, <2>1, <2>2 DEF RemainingAt
  <2>4. OwedAt(loan'[i], now) = OwedAt(loan[i], now)
    <3>1. RemainingAt(loan[i], now) > 0
      BY <1>a, <2>1 DEF RemainingAt
    <3> QED
      BY <2>1, <2>3, <3>1 DEF OwedAt
  <2>5. deployed' - deployed <= OwedAt(loan'[i], now) - OwedAt(loan[i], now)
    BY <1>0, <1>a, <2>1, <2>4
  <2>6. RemainingAt(loan'[i], now) >= 0
    BY <2>3
  <2> QED
    BY <2>1, <2>5, <2>6 DEF LoanMoved
<1>3. ASSUME NEW i \in Invoices, NEW a, NEW reward, RepayFull(i, a, reward)
      PROVE  LoanMoved(i)
  <2>1. /\ Present(i) /\ RemainingAt(loan[i], now) > 0
        /\ \A j \in Invoices \ {i} : loan'[j] = loan[j]
        /\ loan'[i].principal = loan[i].principal
        /\ loan'[i].at = loan[i].at /\ loan'[i].due = loan[i].due
        /\ loan'[i].fee = loan[i].fee
        /\ loan'[i].repaid = loan[i].repaid + RemainingAt(loan[i], now)
        /\ now' = now /\ deployed' = deployed - loan[i].principal
    BY <1>3, FullFacts, OwedNow
  <2>2. InterestAt(loan'[i], now) = InterestAt(loan[i], now)
    BY <2>1, Zenon DEF InterestAt
  <2>3. RemainingAt(loan'[i], now) = 0
    BY <1>a, <2>1, <2>2 DEF RemainingAt
  <2>4. OwedAt(loan'[i], now) = 0 /\ OwedAt(loan[i], now) = loan[i].principal
    BY <2>1, <2>3 DEF OwedAt, Present
  <2>5. deployed' - deployed <= OwedAt(loan'[i], now) - OwedAt(loan[i], now)
    BY <1>0, <1>a, <2>1, <2>4
  <2>6. RemainingAt(loan'[i], now) >= 0
    BY <2>3
  <2> QED
    BY <2>1, <2>5, <2>6 DEF LoanMoved
<1>4. ASSUME NEW i \in Invoices, CancelFundedInvoice(i) \/ CleanupFundedInvoice(i)
      PROVE  LoanMoved(i)
  <2>1. DropLoan(i) /\ now' = now
    BY <1>4 DEF CancelFundedInvoice, CleanupFundedInvoice
  <2>2. /\ \A j \in Invoices \ {i} : loan'[j] = loan[j]
        /\ loan'[i].principal = 0 /\ loan'[i].at = 0 /\ loan'[i].due = 0
        /\ loan'[i].fee = 0 /\ loan'[i].repaid = 0
    BY <2>1, DropFacts
  <2>3. OwedAt(loan'[i], now) = 0
    BY <2>2 DEF OwedAt
  <2>4. RemainingAt(loan'[i], now) >= 0
    <3>1. Dated(loan'[i], now) /\ loan'[i].principal <= loan'[i].principal /\ now <= now
          /\ loan'[i].due <= loan'[i].due
      BY <1>0, <2>2 DEF Dated
    <3>2. InterestAt(loan'[i], now) \in Nat
      BY <1>0, <1>a, <3>1, InterestMonotone
    <3> QED
      BY <2>2, <3>2 DEF RemainingAt
  <2>5. deployed' - deployed <= OwedAt(loan'[i], now) - OwedAt(loan[i], now)
    <3>1. CASE CancelFundedInvoice(i)
      <4>1. deployed' = deployed - loan[i].principal
        BY <3>1 DEF CancelFundedInvoice
      <4>2. OwedAt(loan[i], now) <= loan[i].principal
        BY <1>a DEF OwedAt
      <4> QED
        BY <1>0, <1>a, <2>3, <4>1, <4>2
    <3>2. CASE CleanupFundedInvoice(i)
      <4>1. deployed' = deployed /\ Remaining(i) <= 0
        BY <3>2 DEF CleanupFundedInvoice
      <4>2. RemainingAt(loan[i], now) <= 0 /\ RemainingAt(loan[i], now) \in Int
        BY <1>a, <4>1, OwedNow DEF RemainingAt
      <4>3. OwedAt(loan[i], now) = 0
        BY <4>2 DEF OwedAt
      <4> QED
        BY <1>0, <2>3, <4>1, <4>3
    <3> QED
      BY <1>4, <3>1, <3>2
  <2> QED
    BY <2>1, <2>2, <2>4, <2>5 DEF LoanMoved
<1>5. ASSUME NEW i \in Invoices, NEW k \in DueOffsets, UpdateInvoiceDueDate(i, loan[i].due + k)
      PROVE  LoanMoved(i)
  <2>0. k \in Nat
    BY LendingAssumption
  <2>1. /\ \A j \in Invoices \ {i} : loan'[j] = loan[j]
        /\ loan'[i].principal = loan[i].principal
        /\ loan'[i].at = loan[i].at /\ loan'[i].due = loan[i].due + k
        /\ loan'[i].fee = loan[i].fee /\ loan'[i].repaid = loan[i].repaid
        /\ now' = now /\ deployed' = deployed
    BY <1>5, ExtendFacts
  <2>2. InterestAt(loan'[i], now) \in Nat /\ InterestAt(loan[i], now) <= InterestAt(loan'[i], now)
    <3>1. loan[i].principal <= loan'[i].principal /\ now <= now /\ loan[i].due <= loan'[i].due
      BY <1>0, <1>a, <2>0, <2>1
    <3> QED
      BY <1>0, <1>a, <2>1, <3>1, InterestMonotone
  <2>3. /\ RemainingAt(loan'[i], now) >= 0
        /\ RemainingAt(loan[i], now) > 0 => RemainingAt(loan'[i], now) > 0
    BY <1>a, <2>1, <2>2 DEF RemainingAt
  <2>4. OwedAt(loan'[i], now) >= OwedAt(loan[i], now)
    BY <1>a, <2>1, <2>3 DEF OwedAt
  <2>5. deployed' - deployed <= OwedAt(loan'[i], now) - OwedAt(loan[i], now)
    BY <1>0, <1>a, <2>1, <2>4
  <2> QED
    BY <2>1, <2>3, <2>5 DEF LoanMoved
<1> DEFINE Quiet == UNCHANGED loan /\ deployed' <= deployed /\ now' \in Nat /\ now <= now'
<1>6. ASSUME NEW i \in Invoices, RiskLiquidateCollateral(i) \/ LiquidateInvoice(i)
      PROVE  Quiet
  <2>1. UNCHANGED <<loan, now>> /\ (deployed' = deployed \/ deployed' = deployed - loan[i].principal)
    BY <1>6, Zenon DEF RiskLiquidateCollateral, LiquidateInvoice
  <2> QED
    BY <1>0, <1>a, <2>1
<1>7. ASSUME NEW i \in Invoices, NEW a, DepositCollateral(i, a) \/ TopUpCollateral(i, a)
      PROVE  Quiet
  <2>1. UNCHANGED <<loan, now, deployed>>
    BY <1>7, Zenon DEF DepositCollateral, TopUpCollateral
  <2> QED
    BY <1>0, <2>1
<1>8. ASSUME UNCHANGED <<deployed, loan, collateral, held, unbooked>>,
             now' = now \/ now' = now + 1
      PROVE  Quiet
  BY <1>0, <1>8
<1> HIDE DEF Quiet
<1>9. Quiet \/ \E i \in Invoices : LoanMoved(i)
  BY <1>1, <1>2, <1>3, <1>4, <1>5, <1>6, <1>7, <1>8, LoanSteps, Zenon
<1> QED
  BY <1>9, Zenon DEF Quiet

LEMMA OwedStep ==
    ASSUME TypeOK, TypeOK', LoanTimes, NeverOverpaid, DeployedNeverOverstated, [Next]_vars
    PROVE  NeverOverpaid' /\ DeployedNeverOverstated'
<1> DEFINE sum == SumOf(OwedBy(loan, now))
           sum2 == SumOf(OwedBy(loan', now'))
<1>0. /\ now \in Nat /\ deployed \in Int /\ deployed' \in Int
      /\ loan \in [Invoices -> Loan] /\ loan' \in [Invoices -> Loan]
      /\ sum \in Int /\ sum2 \in Int
  BY OwedType DEF TypeOK
<1>1. deployed <= sum
  BY OwedNow, Zenon
<1>2. SUFFICES NeverOverpaid' /\ deployed' <= sum2
  BY OwedNow, Zenon
<1>3. SUFFICES (\A j \in Invoices : RemainingAt(loan'[j], now') >= 0) /\ deployed' <= sum2
  BY Zenon DEF NeverOverpaid, RemainingAt, InterestAt, Smaller
<1>a. \A j \in Invoices : RemainingAt(loan[j], now) >= 0
  BY DEF NeverOverpaid
<1>4. ASSUME UNCHANGED loan, deployed' <= deployed, now' \in Nat, now <= now'
      PROVE  (\A j \in Invoices : RemainingAt(loan'[j], now') >= 0) /\ deployed' <= sum2
  <2>1. ASSUME NEW j \in Invoices
        PROVE  /\ RemainingAt(loan[j], now') >= 0
               /\ OwedAt(loan[j], now) <= OwedAt(loan[j], now')
    <3>1. loan[j] \in Loan /\ Dated(loan[j], now) /\ RemainingAt(loan[j], now) >= 0
      BY <1>0, <1>a, <2>1 DEF LoanTimes, Dated
    <3>2. /\ loan[j].principal \in Nat /\ loan[j].due \in Nat /\ loan[j].fee \in Nat
          /\ loan[j].repaid \in Nat
      BY <3>1, LoanFields
    <3>3. /\ InterestAt(loan[j], now) \in Nat /\ InterestAt(loan[j], now') \in Nat
          /\ InterestAt(loan[j], now) <= InterestAt(loan[j], now')
      <4>1. loan[j].principal <= loan[j].principal /\ loan[j].due <= loan[j].due
        BY <3>2
      <4> QED
        BY <1>0, <1>4, <3>1, <4>1, InterestMonotone
    <3>4. RemainingAt(loan[j], now) <= RemainingAt(loan[j], now')
          /\ RemainingAt(loan[j], now) \in Int /\ RemainingAt(loan[j], now') \in Int
      BY <3>2, <3>3 DEF RemainingAt
    <3> QED
      BY <3>1, <3>2, <3>4 DEF OwedAt
  <2>2. \A j \in Invoices : OwedBy(loan, now)[j] <= OwedBy(loan, now')[j]
    BY <1>0, <2>1, OwedType
  <2>3. sum <= SumOf(OwedBy(loan, now'))
    <3>1. OwedBy(loan, now) \in [Invoices -> Int] /\ OwedBy(loan, now') \in [Invoices -> Int]
      BY <1>0, OwedType
    <3> QED
      BY <2>2, <3>1, SumCompare, LendingAssumption
  <2>4. sum2 = SumOf(OwedBy(loan, now')) /\ loan' = loan
    BY <1>4
  <2> HIDE DEF sum, sum2
  <2>5. sum <= sum2
    BY <2>3, <2>4, Zenon
  <2>6. deployed' <= sum2
    BY <1>0, <1>1, <1>4, <2>5
  <2> QED
    BY <2>1, <2>4, <2>6, Zenon
<1>5. ASSUME NEW i \in Invoices, LoanMoved(i)
      PROVE  (\A j \in Invoices : RemainingAt(loan'[j], now') >= 0) /\ deployed' <= sum2
  <2>1. sum2 = sum + OwedAt(loan'[i], now) - OwedAt(loan[i], now)
    <3>1. now' = now /\ \A j \in Invoices \ {i} : loan'[j] = loan[j]
      BY <1>5 DEF LoanMoved
    <3>2. SumOf(OwedBy(loan', now)) = sum + OwedAt(loan'[i], now) - OwedAt(loan[i], now)
      BY <1>0, <3>1, OwedChange
    <3> QED
      BY <3>1, <3>2, Zenon
  <2>2. OwedAt(loan[i], now) \in Nat /\ OwedAt(loan'[i], now) \in Nat
    BY <1>0, OwedType
  <2> HIDE DEF sum, sum2
  <2>3. deployed' - deployed <= OwedAt(loan'[i], now) - OwedAt(loan[i], now)
    BY <1>5 DEF LoanMoved
  <2>4. deployed' <= sum2
    BY <1>0, <1>1, <2>1, <2>2, <2>3
  <2>5. \A j \in Invoices : RemainingAt(loan'[j], now') >= 0
    BY <1>5, <1>a, Zenon DEF LoanMoved
  <2> QED
    BY <2>4, <2>5
<1> HIDE DEF sum2
<1> QED
  BY <1>4, <1>5, OwedSteps, Zenon

\* All of total_deployed is principal that some loan still owes, in whatever
\* order funding, repeated funding, repayment, seizure, cancellation and
\* cleanup come.  The inductive invariant adds that no loan is repaid beyond
\* what is due, and that no interest is negative.
THEOREM DeployedCorrect == Spec => []DeployedNeverOverstated
<1> DEFINE Inv == LoanTimes /\ NeverOverpaid /\ DeployedNeverOverstated
<1>1. Init => Inv
  <2> SUFFICES ASSUME Init PROVE Inv
    OBVIOUS
  <2>1. LoanTimes /\ now = 0 /\ deployed = 0 /\ loan = [i \in Invoices |-> NoLoan]
    BY DEF Init, SharesInit, LendingInit, LoanTimes, NoLoan
  <2>2. ASSUME NEW i \in Invoices PROVE RemainingAt(loan[i], now) >= 0 /\ OwedAt(loan[i], now) = 0
    <3>1. NoLoan \in Loan /\ Dated(NoLoan, 0) /\ NoLoan.principal <= NoLoan.principal
          /\ NoLoan.due <= NoLoan.due
      BY DEF NoLoan, Loan, Dated
    <3>2. InterestAt(NoLoan, 0) \in Nat
      BY <3>1, InterestMonotone
    <3>3. NoLoan.principal = 0 /\ NoLoan.fee = 0 /\ NoLoan.repaid = 0
      BY DEF NoLoan
    <3>4. RemainingAt(NoLoan, 0) >= 0 /\ OwedAt(NoLoan, 0) = 0
      BY <3>2, <3>3 DEF RemainingAt, OwedAt
    <3>5. loan[i] = NoLoan /\ now = 0
      BY <2>1, <2>2
    <3> QED
      BY <3>4, <3>5, Zenon
  <2>3. OwedBy(loan, now) = [i \in Invoices |-> 0]
    BY <2>2 DEF OwedBy
  <2>4. SumOf(OwedBy(loan, now)) = 0
    BY <2>3, SumOfZero, LendingAssumption
  <2>5. deployed <= SumOf(OwedBy(loan, now))
    BY <2>1, <2>4
  <2> QED
    BY <2>1, <2>2, <2>5, OwedNow DEF NeverOverpaid
<1>2. TypeOK /\ TypeOK' /\ Inv /\ [Next]_vars => Inv'
  BY LoanTimesStep, OwedStep
<1> QED
  BY <1>1, <1>2, TypeCorrect, PTL DEF Spec

=============================================================================
