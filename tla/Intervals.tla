------------------------------ MODULE Intervals ------------------------------
(***************************************************************************)
(* Intervals of integers, for the proofs: least and greatest elements,     *)
(* induction, and functions defined by recursion.                          *)
(***************************************************************************)
EXTENDS Integers, FiniteSetTheorems, TLAPS

\* Every nonempty set of positions has a least element: of the intervals that
\* end in it, one has no strict subset among them.
LEMMA LeastOf ==
    ASSUME NEW n \in Nat, NEW S, S \subseteq 1 .. n, S # {}
    PROVE  \E i \in S : \A j \in S : i <= j
<1> DEFINE upTo == {1 .. i : i \in S}
           order == StrictSubsetOrdering(1 .. n)
<1>1. IsWellFoundedOn(order, FiniteSubsetsOf(1 .. n))
    BY FS_StrictSubsetOrderingWellFounded
<1>2. upTo # {} /\ upTo \subseteq FiniteSubsetsOf(1 .. n)
    <2>1. ASSUME NEW i \in S PROVE 1 .. i \in FiniteSubsetsOf(1 .. n)
        BY FS_Interval DEF FiniteSubsetsOf
    <2> QED
        BY <2>1
<1>3. PICK x \in upTo : \A y \in upTo : ~(<<y, x>> \in order)
    BY <1>1, <1>2, WFMin
<1>4. PICK i \in S : x = 1 .. i
    BY <1>3
<1>5. ASSUME NEW j \in S PROVE i <= j
    <2>1. SUFFICES ASSUME j < i PROVE FALSE
        OBVIOUS
    <2>2. 1 .. j \subseteq 1 .. i /\ i \in 1 .. i /\ i \notin 1 .. j
        BY <2>1
    <2>3. 1 .. j \in FiniteSubsetsOf(1 .. n) /\ 1 .. i \in FiniteSubsetsOf(1 .. n)
        BY <1>2
    <2>4. <<1 .. j, 1 .. i>> \in order
        BY <2>2, <2>3 DEF StrictSubsetOrdering, FiniteSubsetsOf
    <2> QED
        BY <1>3, <1>4, <2>4
<1> QED
    BY <1>5

\* The same of an interval that begins at 0, and of the greatest element.
LEMMA LeastFromZero ==
    ASSUME NEW n \in Nat, NEW S, S \subseteq 0 .. n, S # {}
    PROVE  \E i \in S : \A j \in S : i <= j
<1> DEFINE T == {i \in 1 .. n + 1 : i - 1 \in S}
<1>1. PICK s : s \in S
    OBVIOUS
<1>2. s + 1 \in T
    BY <1>1
<1>3. PICK t \in T : \A j \in T : t <= j
    <2>1. n + 1 \in Nat /\ T \subseteq 1 .. n + 1 /\ T # {}
        BY <1>2
    <2> QED
        BY <2>1, LeastOf
<1>4. t - 1 \in S
    BY <1>3
<1>5. ASSUME NEW j \in S PROVE t - 1 <= j
    <2>1. j + 1 \in T /\ j \in Int
        OBVIOUS
    <2> QED
        BY <1>3, <2>1
<1> QED
    BY <1>4, <1>5

LEMMA GreatestOf ==
    ASSUME NEW n \in Nat, NEW S, S \subseteq 0 .. n, S # {}
    PROVE  \E i \in S : \A j \in S : j <= i
<1> DEFINE T == {i \in 0 .. n : n - i \in S}
<1>1. PICK s : s \in S
    OBVIOUS
<1>2. n - s \in T
    BY <1>1
<1>3. PICK t \in T : \A j \in T : t <= j
    <2>1. T \subseteq 0 .. n /\ T # {}
        BY <1>2
    <2> QED
        BY <2>1, LeastFromZero
<1>4. n - t \in S
    BY <1>3
<1>5. ASSUME NEW j \in S PROVE j <= n - t
    <2>1. n - j \in T /\ j \in 0 .. n /\ t \in 0 .. n
        OBVIOUS
    <2>2. t <= n - j
        BY <1>3, <2>1
    <2> QED
        BY <2>1, <2>2
<1> QED
    BY <1>4, <1>5

\* Induction over an interval, with a set for the predicate.
LEMMA IntervalInduction ==
    ASSUME NEW m \in Nat, NEW n \in Nat, NEW S,
           m \in S, \A i \in m + 1 .. n : i - 1 \in S => i \in S
    PROVE  \A i \in m .. n : i \in S
<1> DEFINE outside == {i \in m .. n : i \notin S}
<1>1. SUFFICES ASSUME outside # {} PROVE FALSE
    BY <1>1
<1>2. outside \subseteq 0 .. n
    OBVIOUS
<1>3. PICK i \in outside : \A j \in outside : i <= j
    BY <1>1, <1>2, LeastFromZero
<1>4. i \in m + 1 .. n /\ i - 1 \in m .. n
    BY <1>3
<1>5. i - 1 \in S
    BY <1>3, <1>4
<1> QED
    BY <1>3, <1>4, <1>5

\* What a step function makes of v along 1 .. n.  One exists for every n.
IsRun(f, n, V, v, step) ==
    /\ f \in [0 .. n -> V]
    /\ f[0] = v
    /\ \A i \in 1 .. n : f[i] = step[<<f[i - 1], i>>]

LEMMA RunExists ==
    ASSUME NEW n \in Nat, NEW V, NEW v \in V, NEW step \in [V \X (1 .. n) -> V]
    PROVE  \E f : IsRun(f, n, V, v, step)
<1> DEFINE S == {k \in 0 .. n : \E f : IsRun(f, k, V, v, step)}
<1>1. 0 \in S
    <2> DEFINE f == [i \in 0 .. 0 |-> v]
    <2>1. f \in [0 .. 0 -> V] /\ f[0] = v
        OBVIOUS
    <2>2. IsRun(f, 0, V, v, step)
        BY <2>1 DEF IsRun
    <2> HIDE DEF f
    <2> QED
        BY <2>2
<1>2. ASSUME NEW k \in 0 + 1 .. n, k - 1 \in S PROVE k \in S
    <2>1. PICK f : IsRun(f, k - 1, V, v, step)
        BY <1>2
    <2> DEFINE g == [i \in 0 .. k |-> IF i = k THEN step[<<f[k - 1], k>>] ELSE f[i]]
    <2>2. k \in 1 .. n /\ k - 1 \in 0 .. k - 1 /\ f \in [0 .. k - 1 -> V]
        BY <2>1 DEF IsRun
    <2>3. step[<<f[k - 1], k>>] \in V
        BY <2>2
    <2>4. g \in [0 .. k -> V]
        BY <2>2, <2>3
    <2>5. g[0] = v
        BY <2>1 DEF IsRun
    <2>6. ASSUME NEW i \in 1 .. k PROVE g[i] = step[<<g[i - 1], i>>]
        <3>1. CASE i = k
            <4>1. g[i] = step[<<f[k - 1], k>>] /\ g[i - 1] = f[k - 1]
                BY <3>1
            <4> QED
                BY <3>1, <4>1
        <3>2. CASE i # k
            <4>1. i \in 1 .. k - 1 /\ i - 1 \in 0 .. k - 1
                BY <3>2
            <4>2. g[i] = f[i] /\ g[i - 1] = f[i - 1]
                BY <3>2, <4>1
            <4> QED
                BY <2>1, <4>1, <4>2 DEF IsRun
        <3> QED
            BY <3>1, <3>2
    <2> HIDE DEF g
    <2>7. IsRun(g, k, V, v, step)
        BY <2>4, <2>5, <2>6 DEF IsRun
    <2> QED
        BY <2>2, <2>7
<1>3. n \in S
    <2> HIDE DEF S
    <2>1. \A i \in 0 .. n : i \in S
        BY <1>1, <1>2, IntervalInduction
    <2> QED
        BY <2>1
<1> QED
    BY <1>3
=============================================================================
