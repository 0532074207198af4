----------------------------- MODULE DataLemmas ------------------------------
(***************************************************************************)
(* Induction on numbers and on finite sets in first-order form, and what   *)
(* Max, Min and the sums of FiniteSetsExt return, lists in order, products *)
(* and quotients: what the proof modules of the components share.          *)
(***************************************************************************)
EXTENDS Integers, FiniteSets, FiniteSetsExt, WellFoundedInduction, FiniteSetTheorems, TLAPS

-----------------------------------------------------------------------------
(* Induction *)

\* A non-empty set of naturals has a least element.
LEMMA LeastElement ==
    ASSUME NEW T \in SUBSET Nat, T # {}
    PROVE  \E n \in T : \A m \in T : n <= m
<1> DEFINE R == OpToRel(<, Nat)
<1>1. IsWellFoundedOn(R, Nat)
    BY NatLessThanWellFounded, Zenon
<1>2. \A x, y \in Nat : y < x => <<y, x>> \in R
    BY DEF OpToRel
<1> HIDE DEF R
<1>3. PICK x \in T : \A y \in T : ~ (<<y, x>> \in R)
    BY <1>1, WFMin, Zenon
<1>4. ASSUME NEW y \in T PROVE x <= y
    <2>1. x \in Nat /\ y \in Nat /\ ~ (y < x)
        BY <1>2, <1>3
    <2> QED
        BY <2>1
<1> QED
    BY <1>4

LEMMA CountingUp ==
    ASSUME NEW Q \in SUBSET Nat, 0 \in Q, \A n \in Q : n + 1 \in Q
    PROVE  Nat \subseteq Q
<1> SUFFICES ASSUME Nat \ Q # {} PROVE FALSE
    OBVIOUS
<1>1. PICK n \in Nat \ Q : \A m \in Nat \ Q : n <= m
    BY LeastElement, Nat \ Q \in SUBSET Nat
<1>2. n # 0 /\ n - 1 \in Nat
    BY <1>1
<1>3. n - 1 \in Q
    BY <1>1, <1>2
<1> QED
    BY <1>1, <1>3

\* What holds of a set as soon as it holds of it without any one element, holds of all.
LEMMA SubsetInduction ==
    ASSUME NEW S, IsFiniteSet(S), NEW Q,
           \A s \in SUBSET S : (\A x \in s : s \ {x} \in Q) => s \in Q
    PROVE  SUBSET S \subseteq Q
<1> DEFINE T == {n \in Nat : \E s \in SUBSET S : s \notin Q /\ Cardinality(s) = n}
<1> SUFFICES ASSUME NEW u \in SUBSET S, u \notin Q PROVE FALSE
    OBVIOUS
<1>0. \A s \in SUBSET S : IsFiniteSet(s) /\ Cardinality(s) \in Nat
    BY FS_Subset, FS_CardinalityType
<1>1. T \in SUBSET Nat /\ T # {}
    <2>1. Cardinality(u) \in T
        BY <1>0
    <2> QED
        BY <2>1
<1>2. PICK n \in T : \A m \in T : n <= m
    BY <1>1, LeastElement
<1>3. PICK s \in SUBSET S : s \notin Q /\ Cardinality(s) = n
    BY <1>2
<1>4. PICK x \in s : s \ {x} \notin Q
    BY <1>3
<1>5. Cardinality(s \ {x}) = n - 1 /\ s \ {x} \in SUBSET S
    <2>1. Cardinality(s \ {x}) = IF x \in s THEN Cardinality(s) - 1 ELSE Cardinality(s)
        BY <1>0, FS_RemoveElement
    <2> QED
        BY <1>3, <1>4, <2>1
<1>6. n - 1 \in T
    BY <1>0, <1>4, <1>5
<1> QED
    BY <1>1, <1>2, <1>6

-----------------------------------------------------------------------------
(* Lists in ascending order *)

Ascending(s, S) ==
    /\ s \in [1 .. Cardinality(S) -> S]
    /\ \A i, j \in 1 .. Cardinality(S) : i < j => s[i] < s[j]

\* A finite set of numbers can be listed in order.
LEMMA OrderExists ==
    ASSUME NEW S \in SUBSET Nat, IsFiniteSet(S)
    PROVE  \E s : Ascending(s, S)
<1> DEFINE Q == {T \in SUBSET S : \E s : Ascending(s, T)}
<1>1. ASSUME NEW T \in SUBSET S, \A x \in T : T \ {x} \in Q PROVE T \in Q
    <2>0. IsFiniteSet(T) /\ Cardinality(T) \in Nat
        BY FS_Subset, FS_CardinalityType
    <2>1. CASE T = {}
        <3>1. 1 .. Cardinality(T) = {}
            BY <2>1, FS_EmptySet
        <3>2. Ascending([i \in {} |-> 0], T)
            BY <3>1 DEF Ascending
        <3> QED
            BY <3>2
    <2>2. CASE T # {}
        <3>2. PICK m \in T : \A y \in T : m <= y
            BY <2>2, LeastElement
        <3> DEFINE U == T \ {m}
                   k == Cardinality(T)
        <3>3. PICK r : Ascending(r, U)
            BY <1>1
        <3>4. Cardinality(U) = k - 1 /\ k \in Nat
            BY <2>0, FS_RemoveElement
        <3>5. k \in Nat \ {0}
            BY <2>0, <2>2, FS_EmptySet
        <3>6. /\ \A i \in 1 .. k - 1 : r[i] \in U
              /\ \A i, j \in 1 .. k - 1 : i < j => r[i] < r[j]
            BY <3>3, <3>4 DEF Ascending
        <3> HIDE DEF k
        <3> DEFINE s == [i \in 1 .. k |-> IF i = 1 THEN m ELSE r[i - 1]]
        <3>7. \A i \in 1 .. k : /\ i = 1 => s[i] = m
                                /\ i # 1 => i - 1 \in 1 .. k - 1 /\ s[i] = r[i - 1] /\ s[i] \in U
            BY <3>5, <3>6
        <3>8. s \in [1 .. k -> T]
            BY <3>7
        <3>9. ASSUME NEW i \in 1 .. k, NEW j \in 1 .. k, i < j PROVE s[i] < s[j]
            <4>1. j # 1 /\ j - 1 \in 1 .. k - 1 /\ s[j] = r[j - 1] /\ s[j] \in U
                <5>1. j # 1
                    BY <3>9
                <5> QED
                    BY <3>7, <5>1
            <4>2. CASE i # 1
                <5>1. i - 1 \in 1 .. k - 1 /\ s[i] = r[i - 1] /\ i - 1 < j - 1
                    BY <3>7, <3>9, <4>2
                <5> QED
                    BY <3>6, <4>1, <5>1
            <4>3. CASE i = 1
                <5>1. s[i] = m
                    BY <3>7, <4>3
                <5>2. s[j] \in Nat /\ m \in Nat /\ m <= s[j] /\ s[j] # m
                    BY <3>2, <4>1
                <5> QED
                    BY <5>1, <5>2
            <4> QED
                BY <4>2, <4>3
        <3> HIDE DEF s
        <3>10. Ascending(s, T)
            BY <3>8, <3>9 DEF Ascending, k
        <3> QED
            BY <3>10
    <2> QED
        BY <2>1, <2>2
<1>2. SUBSET S \subseteq Q
    <2>1. \A T \in SUBSET S : (\A x \in T : T \ {x} \in Q) => T \in Q
        BY <1>1, Zenon
    <2> HIDE DEF Q
    <2> QED
        BY <2>1, SubsetInduction
<1> QED
    BY <1>2

-----------------------------------------------------------------------------
(* Max and Min *)

\* A non-empty bounded set of naturals has a maximum, and Max is it.
LEMMA MaxOfBounded ==
    ASSUME NEW S \in SUBSET Nat, S # {}, NEW n \in Nat, \A x \in S : x <= n
    PROVE  Max(S) \in S /\ \A y \in S : y <= Max(S)
<1> DEFINE T == {m \in 0 .. n : n - m \in S}
<1>0. \A x \in S : n - x \in T
    OBVIOUS
<1>1. T \subseteq Nat /\ T # {}
    <2>1. PICK x \in S : TRUE
        OBVIOUS
    <2>2. n - x \in T
        BY <1>0
    <2>3. T \subseteq Nat
        OBVIOUS
    <2> QED
        BY <2>2, <2>3
<1>2. PICK m \in T : \A y \in T : ~ (<<y, m>> \in OpToRel(<, Nat))
    BY <1>1, WFMin, NatLessThanWellFounded
<1>3. \A y \in T : ~ (y < m)
    BY <1>1, <1>2 DEF OpToRel
<1>4. PICK x \in S : m = n - x
    <2>1. n - m \in S /\ m = n - (n - m)
        OBVIOUS
    <2> QED
        BY <2>1
<1>5. \A y \in S : y <= x
    <2> SUFFICES ASSUME NEW y \in S
                 PROVE  y <= x
        OBVIOUS
    <2>1. n - y \in T
        BY <1>0
    <2>2. ~ (n - y < n - x)
        BY <1>3, <1>4, <2>1
    <2> QED
        BY <2>2
<1>6. \E z \in S : \A y \in S : z >= y
    BY <1>5
<1>7. Max(S) \in S /\ \A y \in S : Max(S) >= y
    BY <1>6 DEF Max
<1> QED
    BY <1>7

LEMMA MaxOfTwo ==
    ASSUME NEW a \in Nat, NEW b \in Nat
    PROVE  Max({a, b}) \in {a, b} /\ a <= Max({a, b}) /\ b <= Max({a, b})
<1>1. {a, b} \in SUBSET Nat /\ {a, b} # {}
    OBVIOUS
<1>2. \E n \in Nat : \A x \in {a, b} : x <= n
    BY a + b \in Nat
<1> QED
    BY <1>1, <1>2, MaxOfBounded

LEMMA MinOfTwo ==
    ASSUME NEW a \in Nat, NEW b \in Nat
    PROVE  Min({a, b}) = IF a <= b THEN a ELSE b
<1> DEFINE m == IF a <= b THEN a ELSE b
<1>1. m \in {a, b} /\ \A y \in {a, b} : m <= y
    OBVIOUS
<1>2. Min({a, b}) \in {a, b} /\ \A y \in {a, b} : Min({a, b}) <= y
    BY <1>1 DEF Min
<1> QED
    BY <1>2

-----------------------------------------------------------------------------
(* Sums over a finite set *)

Pick(s) == CHOOSE x \in s : TRUE

\* g adds up f over the subsets of S, as MapThenFoldSet does.
SumsUp(g, f, S) ==
    g = [s \in SUBSET S |-> IF s = {} THEN 0 ELSE f[Pick(s)] + g[s \ {Pick(s)}]]

SumOf(f) == MapThenSumSet(LAMBDA x : f[x], DOMAIN f)

LEMMA PickIsIn == ASSUME NEW s, s # {} PROVE Pick(s) \in s
BY DEF Pick

\* Such a g exists: by induction on the size up to which it adds up.
LEMMA SumExists ==
    ASSUME NEW S, IsFiniteSet(S), NEW f \in [S -> Int]
    PROVE  \E g \in [SUBSET S -> Int] : SumsUp(g, f, S)
<1> DEFINE Next(g) == [s \in SUBSET S |-> IF s = {} THEN 0 ELSE f[Pick(s)] + g[s \ {Pick(s)}]]
           UpTo(g, n) == \A s \in SUBSET S : Cardinality(s) <= n => g[s] = Next(g)[s]
           Q == {n \in Nat : \E g \in [SUBSET S -> Int] : UpTo(g, n)}
<1>1. \A s \in SUBSET S : Cardinality(s) \in Nat /\ IsFiniteSet(s) /\ Cardinality(s) <= Cardinality(S)
    BY FS_Subset, FS_CardinalityType
<1>2. \A s \in SUBSET S : s # {} =>
          /\ Pick(s) \in S /\ s \ {Pick(s)} \in SUBSET S
          /\ Cardinality(s \ {Pick(s)}) = Cardinality(s) - 1
    <2> SUFFICES ASSUME NEW s \in SUBSET S, s # {}
                 PROVE  /\ Pick(s) \in S /\ s \ {Pick(s)} \in SUBSET S
                        /\ Cardinality(s \ {Pick(s)}) = Cardinality(s) - 1
        OBVIOUS
    <2>1. Pick(s) \in s
        BY PickIsIn
    <2>2. Cardinality(s \ {Pick(s)}) =
              IF Pick(s) \in s THEN Cardinality(s) - 1 ELSE Cardinality(s)
        BY <1>1, FS_RemoveElement
    <2> QED
        BY <2>1, <2>2
<1>3. 0 \in Q
    <2> DEFINE g == [s \in SUBSET S |-> 0]
    <2>1. g \in [SUBSET S -> Int]
        OBVIOUS
    <2>2. \A s \in SUBSET S : Cardinality(s) <= 0 => s = {}
        BY <1>1, FS_EmptySet
    <2>3. UpTo(g, 0)
        BY <2>2
    <2> QED
        BY <2>1, <2>3
<1>4. ASSUME NEW n \in Q PROVE n + 1 \in Q
    <2>1. PICK g \in [SUBSET S -> Int] : UpTo(g, n)
        OBVIOUS
    <2> DEFINE h == Next(g)
    <2>2. h \in [SUBSET S -> Int]
        <3>1. ASSUME NEW s \in SUBSET S, s # {} PROVE f[Pick(s)] + g[s \ {Pick(s)}] \in Int
            <4>1. f[Pick(s)] \in Int /\ g[s \ {Pick(s)}] \in Int
                BY <1>2, <3>1
            <4> QED
                BY <4>1
        <3> QED
            BY <3>1
    <2>3. ASSUME NEW s \in SUBSET S, Cardinality(s) <= n + 1
          PROVE  h[s] = Next(h)[s]
        <3>1. CASE s = {}
            BY <3>1
        <3>2. CASE s # {}
            <4>1. s \ {Pick(s)} \in SUBSET S /\ Cardinality(s \ {Pick(s)}) <= n
                BY <1>1, <1>2, <2>3, <3>2
            <4>2. g[s \ {Pick(s)}] = h[s \ {Pick(s)}]
                BY <2>1, <4>1
            <4> QED
                BY <3>2, <4>2
        <3> QED
            BY <3>1, <3>2
    <2>4. UpTo(h, n + 1)
        BY <2>3
    <2> HIDE DEF h, UpTo
    <2> QED
        BY <2>2, <2>4
<1>5. Cardinality(S) \in Q
    <2>1. Nat \subseteq Q
        <3> HIDE DEF Q
        <3>1. Q \in SUBSET Nat
            BY DEF Q
        <3> QED
            BY <1>3, <1>4, <3>1, CountingUp
    <2> QED
        BY <1>1, <2>1
<1>6. PICK g \in [SUBSET S -> Int] : UpTo(g, Cardinality(S))
    BY <1>5
<1>7. \A s \in SUBSET S : g[s] = Next(g)[s]
    BY <1>1, <1>6
<1>8. g = Next(g)
    BY <1>7
<1> QED
    BY <1>8, Zenon DEF SumsUp

LEMMA SumsUpAt ==
    ASSUME NEW S, NEW f, NEW g, SumsUp(g, f, S), NEW s \in SUBSET S
    PROVE  g[s] = IF s = {} THEN 0 ELSE f[Pick(s)] + g[s \ {Pick(s)}]
<1> DEFINE h == [u \in SUBSET S |-> IF u = {} THEN 0 ELSE f[Pick(u)] + g[u \ {Pick(u)}]]
<1>1. g = h
    BY Zenon DEF SumsUp
<1>2. h[s] = IF s = {} THEN 0 ELSE f[Pick(s)] + g[s \ {Pick(s)}]
    OBVIOUS
<1> HIDE DEF h
<1> QED
    BY <1>1, <1>2

LEMMA SumsUpStep ==
    ASSUME NEW S, NEW f, NEW g, SumsUp(g, f, S)
    PROVE  /\ g[{}] = 0
           /\ \A s \in SUBSET S : s # {} => g[s] = f[Pick(s)] + g[s \ {Pick(s)}]
<1>1. \A s \in SUBSET S : g[s] = IF s = {} THEN 0 ELSE f[Pick(s)] + g[s \ {Pick(s)}]
    BY SumsUpAt
<1> QED
    BY <1>1

\* Only f decides what g is.
LEMMA SumUnique ==
    ASSUME NEW S, IsFiniteSet(S), NEW f, NEW g, NEW h, SumsUp(g, f, S), SumsUp(h, f, S)
    PROVE  \A s \in SUBSET S : g[s] = h[s]
<1> DEFINE Q == {s \in SUBSET S : g[s] = h[s]}
<1>1. ASSUME NEW s \in SUBSET S, \A x \in s : s \ {x} \in Q PROVE s \in Q
    <2>1. CASE s = {}
        BY <2>1, SumsUpAt
    <2>2. CASE s # {}
        <3>1. Pick(s) \in s
            BY <2>2, PickIsIn
        <3>2. g[s \ {Pick(s)}] = h[s \ {Pick(s)}]
            BY <1>1, <3>1
        <3> QED
            BY <2>2, <3>2, SumsUpAt
    <2> QED
        BY <2>1, <2>2
<1>2. SUBSET S \subseteq Q
    <2> HIDE DEF Q
    <2> QED
        BY <1>1, SubsetInduction
<1> QED
    BY <1>2

LEMMA SumsUpType ==
    ASSUME NEW S, IsFiniteSet(S), NEW f \in [S -> Int], NEW g, SumsUp(g, f, S)
    PROVE  \A s \in SUBSET S : g[s] \in Int
<1>1. PICK h \in [SUBSET S -> Int] : SumsUp(h, f, S)
    BY SumExists
<1> QED
    BY <1>1, SumUnique

\* In other words: a sum takes out its elements in any order.
AddsUp(g, f, S) ==
    \A s \in SUBSET S :
        /\ g[s] \in Int
        /\ s = {} => g[s] = 0
        /\ \A x \in s : g[s] = f[x] + g[s \ {x}]

\* The order of the elements does not matter: any one may be taken out first.
LEMMA SumsUpAny ==
    ASSUME NEW S, IsFiniteSet(S), NEW f \in [S -> Int], NEW g, SumsUp(g, f, S)
    PROVE  AddsUp(g, f, S)
<1> DEFINE Q == {s \in SUBSET S : \A x \in s : g[s] = f[x] + g[s \ {x}]}
<1>0. \A s \in SUBSET S : g[s] \in Int
    BY SumsUpType
<1>a. \A s \in SUBSET S : s # {} => g[s] = f[Pick(s)] + g[s \ {Pick(s)}]
    <2> DEFINE h == [u \in SUBSET S |-> IF u = {} THEN 0 ELSE f[Pick(u)] + g[u \ {Pick(u)}]]
    <2>1. g = h
        BY Zenon DEF SumsUp
    <2>2. \A s \in SUBSET S : s # {} => h[s] = f[Pick(s)] + g[s \ {Pick(s)}]
        OBVIOUS
    <2> HIDE DEF h, Q
    <2> QED
        BY <2>1, <2>2
<1>1. ASSUME NEW s \in SUBSET S, \A x \in s : s \ {x} \in Q PROVE s \in Q
    <2> SUFFICES ASSUME NEW x \in s PROVE g[s] = f[x] + g[s \ {x}]
        OBVIOUS
    <2> DEFINE p == Pick(s)
    <2>1. p \in s /\ g[s] = f[p] + g[s \ {p}]
        <3>1. s # {} /\ p \in s
            BY PickIsIn
        <3> QED
            BY <1>a, <3>1
    <2> HIDE DEF p
    <2>2. CASE x = p
        BY <2>1, <2>2
    <2>3. CASE x # p
        <3>1. g[s \ {p}] = f[x] + g[(s \ {p}) \ {x}]
            BY <1>1, <2>1, <2>3
        <3>2. g[s \ {x}] = f[p] + g[(s \ {x}) \ {p}]
            BY <1>1, <2>1, <2>3
        <3>3. (s \ {p}) \ {x} = (s \ {x}) \ {p} /\ (s \ {x}) \ {p} \in SUBSET S
            OBVIOUS
        <3>4. f[x] \in Int /\ f[p] \in Int /\ g[(s \ {x}) \ {p}] \in Int
            BY <1>0, <2>1, <3>3
        <3>5. g[s \ {p}] = f[x] + g[(s \ {x}) \ {p}]
            BY <3>1, <3>3
        <3> HIDE DEF Q
        <3> QED
            BY <2>1, <3>2, <3>4, <3>5
    <2> QED
        BY <2>2, <2>3
<1>2. SUBSET S \subseteq Q
    <2> HIDE DEF Q
    <2> QED
        BY <1>1, SubsetInduction
<1>3. g[{}] = 0
    BY SumsUpStep
<1> QED
    BY <1>0, <1>2, <1>3 DEF AddsUp

\* SumOf is such a sum.
LEMMA SumOfIs ==
    ASSUME NEW S, IsFiniteSet(S), NEW f \in [S -> Int], NEW g, SumsUp(g, f, S)
    PROVE  SumOf(f) = g[S]
<1> DEFINE iter == CHOOSE h : h = [s \in SUBSET S |-> IF s = {} THEN 0
                                          ELSE f[CHOOSE x \in s : TRUE] + h[s \ {CHOOSE x \in s : TRUE}]]
<1>0. DOMAIN f = S
    OBVIOUS
<1>1. SumOf(f) = iter[S]
    BY <1>0, Zenon DEF SumOf, MapThenSumSet, MapThenFoldSet
<1>2. SumsUp(iter, f, S)
    BY Zenon DEF SumsUp, Pick
<1> HIDE DEF iter
<1> QED
    BY <1>1, <1>2, SumUnique

LEMMA SumAddsUp ==
    ASSUME NEW S, IsFiniteSet(S), NEW f \in [S -> Int]
    PROVE  \E g : AddsUp(g, f, S) /\ SumOf(f) = g[S]
<1>1. PICK g : SumsUp(g, f, S)
    BY SumExists
<1>2. AddsUp(g, f, S) /\ SumOf(f) = g[S]
    BY <1>1, SumsUpAny, SumOfIs
<1> QED
    BY <1>2

LEMMA SumOfType ==
    ASSUME NEW S, IsFiniteSet(S), NEW f \in [S -> Int]
    PROVE  SumOf(f) \in Int
<1>1. PICK g : AddsUp(g, f, S) /\ SumOf(f) = g[S]
    BY SumAddsUp
<1> QED
    BY <1>1 DEF AddsUp

\* Smaller terms, smaller sum.
LEMMA SumCompare ==
    ASSUME NEW S, IsFiniteSet(S), NEW f \in [S -> Int], NEW h \in [S -> Int],
           \A x \in S : f[x] <= h[x]
    PROVE  SumOf(f) <= SumOf(h)
<1>1. PICK g : AddsUp(g, f, S) /\ SumOf(f) = g[S]
    BY SumAddsUp
<1>2. PICK k : AddsUp(k, h, S) /\ SumOf(h) = k[S]
    BY SumAddsUp
<1> DEFINE Q == {s \in SUBSET S : g[s] <= k[s]}
<1>3. ASSUME NEW s \in SUBSET S, \A x \in s : s \ {x} \in Q PROVE s \in Q
    <2>1. CASE s = {}
        BY <1>1, <1>2, <2>1 DEF AddsUp
    <2>2. CASE s # {}
        <3>1. Pick(s) \in s
            BY <2>2, PickIsIn
        <3>2. g[s] = f[Pick(s)] + g[s \ {Pick(s)}] /\ k[s] = h[Pick(s)] + k[s \ {Pick(s)}]
            BY <1>1, <1>2, <3>1 DEF AddsUp
        <3>3. g[s \ {Pick(s)}] <= k[s \ {Pick(s)}] /\ f[Pick(s)] <= h[Pick(s)]
            BY <1>3, <3>1
        <3>4. /\ g[s \ {Pick(s)}] \in Int /\ k[s \ {Pick(s)}] \in Int
              /\ f[Pick(s)] \in Int /\ h[Pick(s)] \in Int
            BY <1>1, <1>2, <3>1 DEF AddsUp
        <3> QED
            BY <3>2, <3>3, <3>4
    <2> QED
        BY <2>1, <2>2
<1>4. SUBSET S \subseteq Q
    <2>1. \A s \in SUBSET S : (\A y \in s : s \ {y} \in Q) => s \in Q
        BY <1>3, Zenon
    <2> HIDE DEF Q
    <2> QED
        BY <2>1, SubsetInduction
<1>5. g[S] <= k[S]
    BY <1>4
<1> QED
    BY <1>1, <1>2, <1>5

LEMMA SumOfZero ==
    ASSUME NEW S, IsFiniteSet(S)
    PROVE  SumOf([x \in S |-> 0]) = 0
<1> DEFINE f == [x \in S |-> 0]
           g == [s \in SUBSET S |-> 0]
<1>1. f \in [S -> Int]
    OBVIOUS
<1>2. SumsUp(g, f, S)
    <2> DEFINE h == [s \in SUBSET S |-> IF s = {} THEN 0 ELSE f[Pick(s)] + g[s \ {Pick(s)}]]
    <2>1. ASSUME NEW s \in SUBSET S PROVE h[s] = 0
        BY PickIsIn
    <2>2. g = h
        BY <2>1
    <2> QED
        BY <2>2, Zenon DEF SumsUp
<1>3. g[S] = 0
    OBVIOUS
<1> HIDE DEF f, g
<1>4. SumOf(f) = 0
    BY <1>1, <1>2, <1>3, SumOfIs
<1> QED
    BY <1>4 DEF f

LEMMA SumOfNat ==
    ASSUME NEW S, IsFiniteSet(S), NEW f \in [S -> Nat]
    PROVE  SumOf(f) \in Nat
<1> DEFINE z == [x \in S |-> 0]
<1>1. z \in [S -> Int] /\ f \in [S -> Int] /\ \A x \in S : z[x] <= f[x]
    OBVIOUS
<1>2. SumOf(z) = 0
    BY SumOfZero
<1> HIDE DEF z
<1>3. SumOf(z) <= SumOf(f) /\ SumOf(f) \in Int
    BY <1>1, SumCompare, SumOfType
<1> QED
    BY <1>2, <1>3

\* One term changes, and the sum by as much.
LEMMA SumChange ==
    ASSUME NEW S, IsFiniteSet(S), NEW f \in [S -> Int], NEW h \in [S -> Int], NEW x \in S,
           \A y \in S \ {x} : h[y] = f[y]
    PROVE  SumOf(h) = SumOf(f) + h[x] - f[x]
<1>1. PICK g : AddsUp(g, f, S) /\ SumOf(f) = g[S]
    BY SumAddsUp
<1>2. PICK k : AddsUp(k, h, S) /\ SumOf(h) = k[S]
    BY SumAddsUp
<1>b. \A s \in SUBSET S : \A y \in s : g[s] = f[y] + g[s \ {y}]
    BY <1>1 DEF AddsUp
<1>c. \A s \in SUBSET S : \A y \in s : k[s] = h[y] + k[s \ {y}]
    BY <1>2 DEF AddsUp
<1> DEFINE Q == {s \in SUBSET S : x \in s \/ g[s] = k[s]}
<1>3. ASSUME NEW s \in SUBSET S, \A y \in s : s \ {y} \in Q PROVE s \in Q
    <2>1. CASE s = {}
        BY <1>1, <1>2, <2>1 DEF AddsUp
    <2>2. CASE s # {} /\ x \notin s
        <3>1. Pick(s) \in s
            BY <2>2, PickIsIn
        <3>2. g[s] = f[Pick(s)] + g[s \ {Pick(s)}] /\ k[s] = h[Pick(s)] + k[s \ {Pick(s)}]
            BY <1>b, <1>c, <3>1
        <3>3. g[s \ {Pick(s)}] = k[s \ {Pick(s)}]
            BY <1>3, <2>2, <3>1
        <3>4. f[Pick(s)] = h[Pick(s)]
            BY <2>2, <3>1
        <3> QED
            BY <3>2, <3>3, <3>4
    <2> QED
        BY <2>1, <2>2
<1>4. SUBSET S \subseteq Q
    <2>1. \A s \in SUBSET S : (\A y \in s : s \ {y} \in Q) => s \in Q
        BY <1>3, Zenon
    <2> HIDE DEF Q
    <2> QED
        BY <2>1, SubsetInduction
<1>5. S \ {x} \in SUBSET S /\ S \in SUBSET S
    OBVIOUS
<1>6. g[S \ {x}] = k[S \ {x}]
    BY <1>4, <1>5
<1>7. g[S] = f[x] + g[S \ {x}] /\ k[S] = h[x] + k[S \ {x}]
    <2> HIDE DEF Q
    <2> QED
        BY <1>b, <1>c, <1>5
<1>8. SumOf(f) = g[S] /\ SumOf(h) = k[S]
    BY <1>1, <1>2
<1>9. g[S \ {x}] \in Int /\ f[x] \in Int /\ h[x] \in Int
    BY <1>1, <1>5 DEF AddsUp
<1> QED
    BY <1>6, <1>7, <1>8, <1>9

\* Sums are added term by term.
LEMMA SumOfSums ==
    ASSUME NEW S, IsFiniteSet(S), NEW f \in [S -> Int], NEW h \in [S -> Int], NEW e \in [S -> Int],
           \A x \in S : e[x] = f[x] + h[x]
    PROVE  SumOf(e) = SumOf(f) + SumOf(h)
<1>1. PICK g : AddsUp(g, f, S) /\ SumOf(f) = g[S]
    BY SumAddsUp
<1>2. PICK k : AddsUp(k, h, S) /\ SumOf(h) = k[S]
    BY SumAddsUp
<1>3. PICK l : AddsUp(l, e, S) /\ SumOf(e) = l[S]
    BY SumAddsUp
<1> DEFINE Q == {s \in SUBSET S : l[s] = g[s] + k[s]}
<1>4. ASSUME NEW s \in SUBSET S, \A x \in s : s \ {x} \in Q PROVE s \in Q
    <2>1. CASE s = {}
        BY <1>1, <1>2, <1>3, <2>1 DEF AddsUp
    <2>2. CASE s # {}
        <3> DEFINE x == Pick(s)
                   t == s \ {x}
        <3>1. x \in s /\ x \in S /\ t \in SUBSET S
            BY <2>2, PickIsIn
        <3>2. g[s] = f[x] + g[t] /\ k[s] = h[x] + k[t] /\ l[s] = e[x] + l[t]
            BY <1>1, <1>2, <1>3, <3>1 DEF AddsUp
        <3>3. l[t] = g[t] + k[t] /\ e[x] = f[x] + h[x]
            BY <1>4, <3>1
        <3>4. g[t] \in Int /\ k[t] \in Int /\ f[x] \in Int /\ h[x] \in Int
            BY <1>1, <1>2, <3>1 DEF AddsUp
        <3> HIDE DEF x, t
        <3>5. l[s] = g[s] + k[s]
            BY <3>2, <3>3, <3>4
        <3> QED
            BY <3>5
    <2> QED
        BY <2>1, <2>2
<1>5. SUBSET S \subseteq Q
    <2>1. \A s \in SUBSET S : (\A y \in s : s \ {y} \in Q) => s \in Q
        BY <1>4, Zenon
    <2> HIDE DEF Q
    <2> QED
        BY <2>1, SubsetInduction
<1>6. l[S] = g[S] + k[S]
    BY <1>5
<1> QED
    BY <1>1, <1>2, <1>3, <1>6

\* Every term of f is one of h, each at a place of its own.
FoundAgain(f, h, e, S) ==
    /\ \A x, y \in S : e[x] = e[y] => x = y
    /\ \A x \in S : h[e[x]] = f[x]

\* Terms that are found again among others that are not negative sum up to no more.
LEMMA SumFoundAgain ==
    ASSUME NEW S, IsFiniteSet(S), NEW T, IsFiniteSet(T),
           NEW f \in [S -> Int], NEW h \in [T -> Nat], NEW e \in [S -> T], FoundAgain(f, h, e, S)
    PROVE  SumOf(f) <= SumOf(h)
<1> DEFINE Hit(s) == {z \in T : \E x \in s : e[x] = z}
           H(s) == [z \in T |-> IF z \in Hit(s) THEN h[z] ELSE 0]
<1>0. /\ \A x, y \in S : e[x] = e[y] => x = y
      /\ \A x \in S : h[e[x]] = f[x]
    BY DEF FoundAgain
<1>1. PICK g : AddsUp(g, f, S) /\ SumOf(f) = g[S]
    BY SumAddsUp
<1>2. \A s \in SUBSET S : H(s) \in [T -> Int] /\ H(s) \in [T -> Nat]
    OBVIOUS
<1>3. /\ g[{}] = 0
      /\ \A s \in SUBSET S : g[s] \in Int
      /\ \A s \in SUBSET S : \A x \in s : g[s] = f[x] + g[s \ {x}]
    BY <1>1 DEF AddsUp
<1> DEFINE Q == {s \in SUBSET S : g[s] = SumOf(H(s))}
<1>4. ASSUME NEW s \in SUBSET S, \A x \in s : s \ {x} \in Q PROVE s \in Q
    <2>1. CASE s = {}
        <3>1. H(s) = [z \in T |-> 0]
            BY <2>1
        <3> QED
            BY <1>3, <2>1, <3>1, SumOfZero
    <2>2. CASE s # {}
        <3>1. PICK x \in s : TRUE
            BY <2>2
        <3> DEFINE r == s \ {x}
        <3>2. r \in SUBSET S /\ x \in S /\ e[x] \in T
            OBVIOUS
        <3>3. e[x] \in Hit(s) /\ e[x] \notin Hit(r)
            BY <1>0, <3>2
        <3>4. \A z \in T \ {e[x]} : z \in Hit(s) <=> z \in Hit(r)
            OBVIOUS
        <3>5. H(s)[e[x]] = h[e[x]] /\ H(r)[e[x]] = 0
            BY <3>2, <3>3
        <3>6. \A z \in T \ {e[x]} : H(s)[z] = H(r)[z]
            BY <3>4
        <3>7. H(s) \in [T -> Int] /\ H(r) \in [T -> Int]
            BY <1>2, <3>2
        <3>8. g[r] = SumOf(H(r)) /\ g[s] = f[x] + g[r] /\ g[r] \in Int /\ f[x] \in Int
            BY <1>3, <1>4, <3>1, <3>2
        <3>9. h[e[x]] = f[x]
            BY <1>0, <3>2
        <3> HIDE DEF H, r
        <3>10. SumOf(H(s)) = SumOf(H(r)) + H(s)[e[x]] - H(r)[e[x]]
            BY <3>2, <3>6, <3>7, SumChange
        <3>11. g[s] = SumOf(H(s))
            BY <3>5, <3>8, <3>9, <3>10
        <3> QED
            BY <3>11
    <2> QED
        BY <2>1, <2>2
<1>5. SUBSET S \subseteq Q
    <2>1. \A s \in SUBSET S : (\A y \in s : s \ {y} \in Q) => s \in Q
        BY <1>4, Zenon
    <2> HIDE DEF Q
    <2> QED
        BY <2>1, SubsetInduction
<1>6. g[S] = SumOf(H(S))
    BY <1>5
<1>7. SumOf(H(S)) <= SumOf(h)
    <2>1. H(S) \in [T -> Int] /\ h \in [T -> Int] /\ \A z \in T : H(S)[z] <= h[z]
        OBVIOUS
    <2> HIDE DEF H
    <2> QED
        BY <2>1, SumCompare
<1> QED
    BY <1>1, <1>6, <1>7

-----------------------------------------------------------------------------
(* Products and quotients *)

LEMMA QuotientBounds ==
    ASSUME NEW a \in Nat, NEW d \in Nat \ {0}
    PROVE  /\ a \div d \in Nat
           /\ d * (a \div d) <= a /\ a < d * (a \div d) + d
<1> DEFINE x == a \div d
<1>1. x \in Nat
    OBVIOUS
<1>2. d * x <= a /\ a < d * (x + 1)
    BY Z3
<1> HIDE DEF x
<1>3. d * (x + 1) = d * x + d
    BY <1>1
<1> QED
    BY <1>1, <1>2, <1>3 DEF x

LEMMA CancelFactor ==
    ASSUME NEW a \in Int, NEW b \in Int, NEW d \in Nat \ {0}, d * a < d * b
    PROVE  a < b
<1> SUFFICES ASSUME a >= b PROVE FALSE
    OBVIOUS
<1>1. a - b \in Nat
    OBVIOUS
<1>2. d * (a - b) \in Nat
    BY <1>1
<1>3. d * (a - b) = d * a - d * b
    OBVIOUS
<1>4. d * a \in Int /\ d * b \in Int
    OBVIOUS
<1> QED
    BY <1>2, <1>3, <1>4

LEMMA ProductInNat ==
    ASSUME NEW a \in Nat, NEW b \in Nat
    PROVE  a * b \in Nat
    OBVIOUS

\* A part p of a positive w takes a part of s that is smaller than s.
LEMMA PartOf ==
    ASSUME NEW p \in Nat, NEW w \in Nat, NEW s \in Nat \ {0}, p < w
    PROVE  (p * s) \div w \in 0 .. s - 1
<1> DEFINE x == (p * s) \div w
<1>1. p * s \in Nat /\ w \in Nat \ {0}
    BY ProductInNat
<1>2. x \in Nat /\ w * x <= p * s
    BY <1>1, QuotientBounds
<1> HIDE DEF x
<1>3. p * s < w * s
    <2>1. (w - p) * s \in Nat /\ (w - p) * s # 0
        <3>1. w - p \in Nat \ {0}
            OBVIOUS
        <3> DEFINE e == w - p
        <3> HIDE DEF e
        <3>2. e * s > 0
            BY <3>1 DEF e
        <3>3. e * s \in Nat
            BY <3>1 DEF e
        <3> QED
            BY <3>2, <3>3 DEF e
    <2>2. (w - p) * s = w * s - p * s
        OBVIOUS
    <2>3. w * s \in Nat
        BY ProductInNat
    <2> QED
        BY <1>1, <2>1, <2>2, <2>3
<1>4. w * x \in Int /\ w * s \in Int
    BY <1>2
<1>5. w * x < w * s
    BY <1>1, <1>2, <1>3, <1>4
<1>6. x < s
    BY <1>1, <1>2, <1>5, CancelFactor
<1> QED
    BY <1>2, <1>6 DEF x

\* A factor keeps the order.
LEMMA FactorKeepsOrder ==
    ASSUME NEW a \in Nat, NEW b \in Nat, NEW d \in Nat
    PROVE  /\ d * a \in Nat /\ d * b \in Nat
           /\ a <= b => d * a <= d * b
           /\ d > 0 /\ a < b => d * a < d * b
<1>1. d * a \in Nat /\ d * b \in Nat
    BY ProductInNat
<1>2. d * (b - a) = d * b - d * a
    OBVIOUS
<1>3. ASSUME a <= b PROVE d * a <= d * b
    <2>1. b - a \in Nat
        BY <1>3
    <2>2. d * (b - a) \in Nat
        BY <2>1, ProductInNat
    <2> QED
        BY <1>1, <1>2, <2>2
<1>4. ASSUME d > 0, a < b PROVE d * a < d * b
    <2>1. b - a \in Nat \ {0}
        BY <1>4
    <2>2. d * (b - a) > 0
        BY <1>4, <2>1
    <2> QED
        BY <1>1, <1>2, <2>2
<1> QED
    BY <1>1, <1>3, <1>4

\* If the part of l that n out of s gets is, rounded down, less than the rounded
\* value of n, nobody's part is more than his value.
LEMMA ShortForAll ==
    ASSUME NEW l \in Nat, NEW s \in Nat \ {0}, NEW v \in Nat, NEW d \in Nat \ {0},
           NEW n \in Nat \ {0}, NEW m \in Nat,
           (l * n) \div s < (n * v) \div d
    PROVE  (l * m) \div s <= (m * v) \div d
<1> DEFINE x == (l * n) \div s
           y == (n * v) \div d
           u == (l * m) \div s
           w == (m * v) \div d
<1>1. l * n \in Nat /\ n * v \in Nat /\ l * m \in Nat /\ m * v \in Nat
    BY ProductInNat
<1>2. x \in Nat /\ l * n < s * x + s
    BY <1>1, QuotientBounds
<1>3. y \in Nat /\ d * y <= n * v
    BY <1>1, QuotientBounds
<1>4. u \in Nat /\ s * u <= l * m
    BY <1>1, QuotientBounds
<1>5. w \in Nat /\ m * v < d * w + d
    BY <1>1, QuotientBounds
<1>6. x + 1 <= y
    BY <1>2, <1>3
<1> HIDE DEF x, y, u, w
<1>7. d * l < s * v
    <2>1. s * (x + 1) \in Nat /\ s * y \in Nat /\ s * (x + 1) <= s * y
        BY <1>2, <1>3, <1>6, FactorKeepsOrder
    <2>2. s * (x + 1) = s * x + s
        BY <1>2
    <2>3. l * n < s * y
        BY <1>1, <1>2, <2>1, <2>2
    <2>4. d * (l * n) < d * (s * y)
        BY <1>1, <2>1, <2>3, FactorKeepsOrder
    <2>5. d * y \in Nat
        BY <1>3, ProductInNat
    <2>6. s * (d * y) <= s * (n * v)
        BY <1>1, <1>3, <2>5, FactorKeepsOrder
    <2>7. /\ d * (l * n) = n * (d * l) /\ d * (s * y) = s * (d * y)
          /\ s * (n * v) = n * (s * v)
        BY <1>3
    <2>8. d * l \in Nat /\ s * v \in Nat
        BY ProductInNat
    <2>9. n * (d * l) \in Nat /\ n * (s * v) \in Nat /\ s * (d * y) \in Nat
        BY <2>5, <2>8, ProductInNat
    <2>10. n * (d * l) < n * (s * v)
        BY <2>4, <2>6, <2>7, <2>9
    <2> QED
        BY <2>8, <2>10, CancelFactor
<1>8. u < w + 1
    <2>1. s * u \in Nat /\ d * (w + 1) \in Nat /\ d * l \in Nat /\ s * v \in Nat /\ d * w \in Nat
        BY <1>4, <1>5, ProductInNat
    <2>2. d * (s * u) <= d * (l * m)
        BY <1>1, <1>4, <2>1, FactorKeepsOrder
    <2>3. m * (d * l) <= m * (s * v)
        BY <1>7, <2>1, FactorKeepsOrder
    <2>4. s * (m * v) < s * (d * (w + 1))
        <3>1. d * (w + 1) = d * w + d
            BY <1>5
        <3>2. m * v < d * (w + 1)
            BY <1>1, <1>5, <2>1, <3>1
        <3> QED
            BY <1>1, <2>1, <3>2, FactorKeepsOrder
    <2>5. /\ d * (l * m) = m * (d * l) /\ s * (m * v) = m * (s * v)
          /\ d * (s * u) = (d * s) * u /\ s * (d * (w + 1)) = (d * s) * (w + 1)
        BY <1>4, <1>5
    <2>6. d * s \in Nat \ {0} /\ w + 1 \in Nat
        BY <1>5
    <2>7. (d * s) * u \in Nat /\ (d * s) * (w + 1) \in Nat /\ m * (d * l) \in Nat /\ m * (s * v) \in Nat
        BY <1>4, <2>1, <2>6, ProductInNat
    <2>8. (d * s) * u < (d * s) * (w + 1)
        BY <2>2, <2>3, <2>4, <2>5, <2>7
    <2> DEFINE c == d * s
    <2> HIDE DEF c
    <2> QED
        BY <1>4, <2>6, <2>8, CancelFactor DEF c
<1>9. u <= w
    BY <1>4, <1>5, <1>8
<1> QED
    BY <1>9 DEF u, w

==============================================================================
