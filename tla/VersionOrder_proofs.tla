------------------------- MODULE VersionOrder_proofs -------------------------
(***************************************************************************)
(* Compare (version/version.go) orders versions: it is antisymmetric and   *)
(* transitive, for cores and prereleases of every length and for numbers   *)
(* that do not fit an int.                                                 *)
(***************************************************************************)
EXTENDS VersionOrder, Intervals

Outcomes == {-1, 0, 1}

-----------------------------------------------------------------------------
(* The first difference *)

\* FirstDifference returns 0 if nothing differs, and else what differs first.
LEMMA FirstDifferenceIs ==
    ASSUME NEW n \in Nat, NEW c \in [1 .. n -> Outcomes]
    PROVE  \/ FirstDifference(c) = 0 /\ \A i \in 1 .. n : c[i] = 0
           \/ \E k \in 1 .. n :
                 /\ FirstDifference(c) = c[k] /\ c[k] # 0
                 /\ \A j \in 1 .. n : j < k => c[j] = 0
<1> DEFINE differ == {i \in DOMAIN c : c[i] # 0}
           first == CHOOSE i \in differ : \A j \in differ : i <= j
<1>1. CASE differ = {}
    BY <1>1 DEF FirstDifference
<1>2. CASE differ # {}
    <2>1. differ \subseteq 1 .. n
        OBVIOUS
    <2>2. first \in differ /\ \A j \in differ : first <= j
        BY <1>2, <2>1, LeastOf
    <2>3. FirstDifference(c) = c[first]
        BY <1>2 DEF FirstDifference
    <2>4. first \in 1 .. n /\ c[first] # 0
        BY <2>2
    <2>5. \A j \in 1 .. n : j < first => c[j] = 0
        BY <2>2, <2>4
    <2> HIDE DEF first
    <2> QED
        BY <2>3, <2>4, <2>5
<1> QED
    BY <1>1, <1>2

\* What differs first determines FirstDifference.
LEMMA FirstDifferenceAt ==
    ASSUME NEW n \in Nat, NEW c \in [1 .. n -> Outcomes],
           NEW k \in 1 .. n, c[k] # 0, \A j \in 1 .. n : j < k => c[j] = 0
    PROVE  FirstDifference(c) = c[k]
<1>1. PICK i \in 1 .. n : /\ FirstDifference(c) = c[i] /\ c[i] # 0
                          /\ \A j \in 1 .. n : j < i => c[j] = 0
    BY FirstDifferenceIs
<1>2. i = k
    BY <1>1
<1> QED
    BY <1>1, <1>2

-----------------------------------------------------------------------------
(* Cores *)

\* A part of a core, or the 0 in place of a missing one, is a number.
LEMMA PartType == ASSUME NEW s \in Seq(Nat), NEW i \in Nat \ {0} PROVE Part(s, i) \in Nat
BY DEF Part

\* Sign gives -1, 0 or 1, as its arguments are below, at or above each other.
LEMMA SignType ==
    ASSUME NEW x \in Nat, NEW y \in Nat
    PROVE  /\ Sign(x, y) \in Outcomes
           /\ Sign(x, y) = 0 <=> x = y
           /\ Sign(x, y) = -1 <=> x < y
           /\ Sign(x, y) = 1 <=> y < x
BY DEF Sign, Outcomes

\* Longer is a length, not less than that of either sequence.
LEMMA LongerType ==
    ASSUME NEW T, NEW s \in Seq(T), NEW t \in Seq(T)
    PROVE  /\ Longer(s, t) \in Nat /\ Longer(s, t) = Longer(t, s)
           /\ Len(s) <= Longer(s, t) /\ Len(t) <= Longer(s, t)
           /\ Longer(s, t) = Len(s) \/ Longer(s, t) = Len(t)
BY DEF Longer

\* Two cores, continued by zeros, are the same; one is below the other.
SameParts(s, t) == \A i \in Nat \ {0} : Part(s, i) = Part(t, i)
Smaller(s, t) ==
    \E k \in Nat \ {0} :
        /\ Part(s, k) < Part(t, k)
        /\ \A j \in Nat \ {0} : j < k => Part(s, j) = Part(t, j)

\* CompareCore says what the cores, continued by zeros, are to each other.
LEMMA CompareCoreIs ==
    ASSUME NEW s \in Seq(Nat), NEW t \in Seq(Nat)
    PROVE  /\ CompareCore(s, t) \in Outcomes
           /\ CompareCore(s, t) = 0 <=> SameParts(s, t)
           /\ CompareCore(s, t) = -1 <=> Smaller(s, t)
           /\ CompareCore(s, t) = 1 <=> Smaller(t, s)
<1> DEFINE n == Longer(s, t)
           c == [i \in 1 .. n |-> Sign(Part(s, i), Part(t, i))]
<1>1. n \in Nat
    BY LongerType
<1>2. \A i \in Nat \ {0} : /\ Part(s, i) \in Nat /\ Part(t, i) \in Nat
                           /\ i \notin 1 .. n => Part(s, i) = Part(t, i)
    BY PartType, LongerType DEF Part
<1>3. c \in [1 .. n -> Outcomes]
    BY <1>2, SignType
<1>4. CompareCore(s, t) = FirstDifference(c)
    BY DEF CompareCore
<1>5. \A i \in 1 .. n : /\ c[i] = 0 <=> Part(s, i) = Part(t, i)
                        /\ c[i] = -1 <=> Part(s, i) < Part(t, i)
                        /\ c[i] = 1 <=> Part(t, i) < Part(s, i)
    BY <1>2, SignType
<1> HIDE DEF n, c
<1>6. CASE FirstDifference(c) = 0 /\ \A i \in 1 .. n : c[i] = 0
    <2>1. \A i \in Nat \ {0} : Part(s, i) = Part(t, i)
        BY <1>2, <1>5, <1>6
    <2>2. ~Smaller(s, t) /\ ~Smaller(t, s)
        BY <2>1, <1>2 DEF Smaller
    <2> QED
        BY <1>4, <1>6, <2>1, <2>2 DEF SameParts, Outcomes
<1>7. CASE \E k \in 1 .. n : /\ FirstDifference(c) = c[k] /\ c[k] # 0
                            /\ \A j \in 1 .. n : j < k => c[j] = 0
    <2>1. PICK k \in 1 .. n : /\ FirstDifference(c) = c[k] /\ c[k] # 0
                             /\ \A j \in 1 .. n : j < k => c[j] = 0
        BY <1>7
    <2>2. k \in Nat \ {0} /\ \A j \in Nat \ {0} : j < k => Part(s, j) = Part(t, j)
        BY <1>1, <1>5, <2>1
    <2>3. Part(s, k) # Part(t, k)
        BY <1>5, <2>1
    <2>4. ~SameParts(s, t)
        BY <2>2, <2>3 DEF SameParts
    <2>5. Smaller(s, t) <=> Part(s, k) < Part(t, k)
        <3>1. ASSUME Smaller(s, t) PROVE Part(s, k) < Part(t, k)
            <4>1. PICK m \in Nat \ {0} :
                     /\ Part(s, m) < Part(t, m)
                     /\ \A j \in Nat \ {0} : j < m => Part(s, j) = Part(t, j)
                BY <3>1 DEF Smaller
            <4>2. Part(s, m) \in Nat /\ Part(s, m) # Part(t, m)
                BY <1>2, <4>1
            <4>3. ~(m < k) /\ ~(k < m)
                BY <2>2, <2>3, <4>1, <4>2
            <4>4. m = k
                BY <2>2, <4>3
            <4> QED
                BY <4>1, <4>4
        <3> QED
            BY <2>2, <3>1 DEF Smaller
    <2>6. Smaller(t, s) <=> Part(t, k) < Part(s, k)
        <3>1. ASSUME Smaller(t, s) PROVE Part(t, k) < Part(s, k)
            <4>1. PICK m \in Nat \ {0} :
                     /\ Part(t, m) < Part(s, m)
                     /\ \A j \in Nat \ {0} : j < m => Part(t, j) = Part(s, j)
                BY <3>1 DEF Smaller
            <4>2. Part(t, m) \in Nat /\ Part(t, m) # Part(s, m)
                BY <1>2, <4>1
            <4>3. ~(m < k) /\ ~(k < m)
                BY <2>2, <2>3, <4>1, <4>2
            <4>4. m = k
                BY <2>2, <4>3
            <4> QED
                BY <4>1, <4>4
        <3> QED
            BY <2>2, <3>1 DEF Smaller
    <2>7. c[k] \in Outcomes
        BY <1>3
    <2> QED
        BY <1>4, <1>5, <2>1, <2>4, <2>5, <2>6, <2>7 DEF Outcomes
<1> QED
    BY <1>1, <1>3, <1>6, <1>7, FirstDifferenceIs

\* CompareCore is transitive.
LEMMA CoreTransitive ==
    ASSUME NEW s \in Seq(Nat), NEW t \in Seq(Nat), NEW u \in Seq(Nat),
           CompareCore(s, t) <= 0, CompareCore(t, u) <= 0
    PROVE  CompareCore(s, u) <= 0
<1>1. \A i \in Nat \ {0} : /\ Part(s, i) \in Nat /\ Part(t, i) \in Nat
                           /\ Part(u, i) \in Nat
    BY PartType
<1>2. SameParts(s, t) \/ Smaller(s, t)
    BY CompareCoreIs DEF Outcomes
<1>3. SameParts(t, u) \/ Smaller(t, u)
    BY CompareCoreIs DEF Outcomes
<1>4. SameParts(s, u) \/ Smaller(s, u)
    <2>1. CASE SameParts(s, t)
        BY <1>3, <2>1 DEF SameParts, Smaller
    <2>2. CASE SameParts(t, u)
        BY <1>2, <2>2 DEF SameParts, Smaller
    <2>3. CASE Smaller(s, t) /\ Smaller(t, u)
        <3>1. PICK k \in Nat \ {0} :
                 /\ Part(s, k) < Part(t, k)
                 /\ \A j \in Nat \ {0} : j < k => Part(s, j) = Part(t, j)
            BY <2>3 DEF Smaller
        <3>2. PICK l \in Nat \ {0} :
                 /\ Part(t, l) < Part(u, l)
                 /\ \A j \in Nat \ {0} : j < l => Part(t, j) = Part(u, j)
            BY <2>3 DEF Smaller
        <3>3. CASE k <= l
            <4>1. Part(t, k) < Part(u, k) \/ Part(t, k) = Part(u, k)
                BY <3>2, <3>3
            <4>2. /\ Part(s, k) \in Nat /\ Part(t, k) \in Nat /\ Part(u, k) \in Nat
                  /\ Part(s, k) < Part(t, k)
                BY <1>1, <3>1
            <4>3. Part(s, k) < Part(u, k)
                BY <4>1, <4>2
            <4> QED
                BY <3>1, <3>2, <3>3, <4>3 DEF Smaller
        <3>4. CASE l < k
            <4>1. Part(s, l) < Part(u, l)
                BY <1>1, <3>1, <3>2, <3>4
            <4> QED
                BY <3>1, <3>2, <3>4, <4>1 DEF Smaller
        <3> QED
            BY <3>3, <3>4
    <2> QED
        BY <1>2, <1>3, <2>1, <2>2, <2>3
<1> QED
    BY <1>4, CompareCoreIs

-----------------------------------------------------------------------------
(* Prereleases *)

\* comparePreIdent: numbers by value before the others by text.
LEMMA IdentifiersOrdered ==
    ASSUME NEW x \in Identifiers, NEW y \in Identifiers, NEW z \in Identifiers
    PROVE  /\ comparePreIdent(x, y) \in Outcomes
           /\ comparePreIdent(x, y) + comparePreIdent(y, x) = 0
           /\ comparePreIdent(x, y) <= 0 /\ comparePreIdent(y, z) <= 0
                => /\ comparePreIdent(x, z) <= 0
                   /\ comparePreIdent(x, z) = 0
                        => comparePreIdent(x, y) = 0 /\ comparePreIdent(y, z) = 0
           /\ comparePreIdent(x, y) = 0 /\ comparePreIdent(y, z) = 0
                => comparePreIdent(x, z) = 0
<1>1. /\ x.num \in Nat /\ y.num \in Nat /\ z.num \in Nat
      /\ x.text \in Nat /\ y.text \in Nat /\ z.text \in Nat
    BY DEF Identifiers
<1>2. IsNumber(x) \in BOOLEAN /\ IsNumber(y) \in BOOLEAN /\ IsNumber(z) \in BOOLEAN
    BY DEF IsNumber
<1> HIDE DEF IsNumber
<1> QED
    BY <1>1, <1>2 DEF comparePreIdent, Sign, Outcomes

\* ComparePreAt gives -1, 0 or 1, and the opposite the other way round.
LEMMA PreAtType ==
    ASSUME NEW s \in Seq(Identifiers), NEW t \in Seq(Identifiers), NEW i \in Nat \ {0}
    PROVE  /\ ComparePreAt(s, t, i) \in Outcomes
           /\ i <= Longer(s, t) => ComparePreAt(s, t, i) + ComparePreAt(t, s, i) = 0
           /\ ComparePreAt(s, t, i) = 0 => i <= Len(s) /\ i <= Len(t)
           /\ ComparePreAt(s, t, i) = -1 /\ i <= Longer(s, t) => i <= Len(t)
<1>1. Len(s) \in Nat /\ Len(t) \in Nat
    OBVIOUS
<1>2. CASE i <= Len(s) /\ i <= Len(t)
    <2>1. s[i] \in Identifiers /\ t[i] \in Identifiers
        BY <1>2
    <2> QED
        BY <1>1, <1>2, <2>1, IdentifiersOrdered DEF ComparePreAt
<1>3. CASE ~(i <= Len(s) /\ i <= Len(t))
    BY <1>1, <1>3 DEF ComparePreAt, Outcomes, Longer
<1> QED
    BY <1>2, <1>3

\* Comparing s to t and t to u at one place, up to where t and u end.
LEMMA PreAtTransitive ==
    ASSUME NEW s \in Seq(Identifiers), NEW t \in Seq(Identifiers),
           NEW u \in Seq(Identifiers), NEW i \in Nat \ {0},
           i <= Longer(t, u),
           ComparePreAt(s, t, i) <= 0, ComparePreAt(t, u, i) <= 0
    PROVE  /\ i <= Len(u)
           /\ ComparePreAt(s, u, i) =
                IF ComparePreAt(s, t, i) = 0 /\ ComparePreAt(t, u, i) = 0 THEN 0 ELSE -1
<1>1. Len(s) \in Nat /\ Len(t) \in Nat /\ Len(u) \in Nat
    OBVIOUS
<1>2. i <= Len(u)
    BY <1>1 DEF ComparePreAt, Longer
<1>3. CASE i > Len(s)
    <2>1. ComparePreAt(s, t, i) = -1 /\ ComparePreAt(s, u, i) = -1
        BY <1>3 DEF ComparePreAt
    <2> QED
        BY <1>2, <2>1
<1>4. CASE i <= Len(s)
    <2>1. i <= Len(t)
        BY <1>1, <1>4 DEF ComparePreAt
    <2>2. s[i] \in Identifiers /\ t[i] \in Identifiers /\ u[i] \in Identifiers
        BY <1>2, <1>4, <2>1
    <2>3. /\ ComparePreAt(s, t, i) = comparePreIdent(s[i], t[i])
          /\ ComparePreAt(t, u, i) = comparePreIdent(t[i], u[i])
          /\ ComparePreAt(s, u, i) = comparePreIdent(s[i], u[i])
        BY <1>1, <1>2, <1>4, <2>1 DEF ComparePreAt
    <2> QED
        BY <1>2, <2>2, <2>3, IdentifiersOrdered DEF Outcomes
<1> QED
    BY <1>1, <1>2, <1>3, <1>4

\* The same of the identifiers of two prereleases.
SamePre(s, t) == \A i \in 1 .. Longer(s, t) : ComparePreAt(s, t, i) = 0
SmallerPre(s, t) ==
    \E k \in 1 .. Longer(s, t) :
        /\ ComparePreAt(s, t, k) = -1
        /\ \A j \in 1 .. Longer(s, t) : j < k => ComparePreAt(s, t, j) = 0

\* ComparePre says which prerelease is smaller at the first place they differ.
LEMMA ComparePreIs ==
    ASSUME NEW s \in Seq(Identifiers), NEW t \in Seq(Identifiers)
    PROVE  /\ ComparePre(s, t) \in Outcomes
           /\ ComparePre(s, t) + ComparePre(t, s) = 0
           /\ ComparePre(s, t) = 0 <=> SamePre(s, t)
           /\ ComparePre(s, t) = -1 <=> SmallerPre(s, t)
<1> DEFINE n == Longer(s, t)
           c == [i \in 1 .. n |-> ComparePreAt(s, t, i)]
           d == [i \in 1 .. n |-> ComparePreAt(t, s, i)]
<1>1. n \in Nat /\ Longer(t, s) = n
    BY LongerType
<1>2. c \in [1 .. n -> Outcomes] /\ d \in [1 .. n -> Outcomes]
    BY <1>1, PreAtType
<1>3. \A i \in 1 .. n : c[i] + d[i] = 0
    BY <1>1, PreAtType
<1>4. ComparePre(s, t) = FirstDifference(c) /\ ComparePre(t, s) = FirstDifference(d)
    BY <1>1 DEF ComparePre
<1>5. /\ SamePre(s, t) <=> \A i \in 1 .. n : c[i] = 0
      /\ SmallerPre(s, t) <=> \E k \in 1 .. n :
             c[k] = -1 /\ \A j \in 1 .. n : j < k => c[j] = 0
    BY DEF SamePre, SmallerPre
<1> HIDE DEF n, c, d
<1>6. CASE FirstDifference(c) = 0 /\ \A i \in 1 .. n : c[i] = 0
    <2>1. \A i \in 1 .. n : d[i] = 0
        BY <1>2, <1>3, <1>6 DEF Outcomes
    <2>2. FirstDifference(d) = 0
        BY <1>1, <1>2, <2>1, FirstDifferenceIs
    <2>3. SamePre(s, t) /\ ~SmallerPre(s, t)
        BY <1>5, <1>6
    <2>4. ComparePre(s, t) = 0 /\ ComparePre(t, s) = 0
        BY <1>4, <1>6, <2>2
    <2>5. ComparePre(s, t) \in Outcomes /\ ComparePre(s, t) + ComparePre(t, s) = 0
        BY <2>4 DEF Outcomes
    <2> QED
        BY <2>3, <2>4, <2>5
<1>7. CASE \E k \in 1 .. n : /\ FirstDifference(c) = c[k] /\ c[k] # 0
                            /\ \A j \in 1 .. n : j < k => c[j] = 0
    <2>1. PICK k \in 1 .. n : /\ FirstDifference(c) = c[k] /\ c[k] # 0
                             /\ \A j \in 1 .. n : j < k => c[j] = 0
        BY <1>7
    <2>2. d[k] # 0 /\ \A j \in 1 .. n : j < k => d[j] = 0
        BY <1>2, <1>3, <2>1 DEF Outcomes
    <2>3. FirstDifference(d) = d[k]
        BY <1>1, <1>2, <2>2, FirstDifferenceAt
    <2>4. c[k] \in Outcomes /\ d[k] \in Outcomes /\ c[k] + d[k] = 0
        BY <1>2, <1>3
    <2>5. ~SamePre(s, t)
        BY <1>5, <2>1
    <2>6. SmallerPre(s, t) <=> c[k] = -1
        <3>1. ASSUME NEW m \in 1 .. n, c[m] = -1, \A j \in 1 .. n : j < m => c[j] = 0
              PROVE  m = k
            BY <1>1, <2>1, <3>1
        <3> QED
            BY <1>5, <2>1, <3>1
    <2> QED
        BY <1>4, <2>1, <2>3, <2>4, <2>5, <2>6 DEF Outcomes
<1> QED
    BY <1>1, <1>2, <1>6, <1>7, FirstDifferenceIs

\* ComparePre is transitive.
LEMMA PreTransitive ==
    ASSUME NEW s \in Seq(Identifiers), NEW t \in Seq(Identifiers),
           NEW u \in Seq(Identifiers),
           ComparePre(s, t) <= 0, ComparePre(t, u) <= 0
    PROVE  ComparePre(s, u) <= 0
<1>1. /\ Len(s) \in Nat /\ Len(t) \in Nat /\ Len(u) \in Nat
      /\ Longer(s, t) \in Nat /\ Longer(t, u) \in Nat /\ Longer(s, u) \in Nat
      /\ Len(t) <= Longer(t, u) /\ Len(u) <= Longer(s, u)
    BY LongerType
<1>2. SamePre(s, t) \/ SmallerPre(s, t)
    BY ComparePreIs DEF Outcomes
<1>3. SamePre(t, u) \/ SmallerPre(t, u)
    BY ComparePreIs DEF Outcomes
\* Where s and t do not differ, t and u are still compared.
<1>4. ASSUME NEW j \in Nat \ {0}, j <= Longer(s, t), ComparePreAt(s, t, j) = 0
      PROVE  j <= Longer(t, u)
    BY <1>1, <1>4, PreAtType
<1>5. ASSUME NEW j \in Nat \ {0}, j <= Longer(t, u),
             ComparePreAt(s, t, j) = 0, ComparePreAt(t, u, j) = 0
      PROVE  ComparePreAt(s, u, j) = 0
    BY <1>5, PreAtTransitive
<1>6. ASSUME NEW j \in Nat \ {0}, j <= Longer(t, u),
             ComparePreAt(s, t, j) <= 0, ComparePreAt(t, u, j) <= 0,
             ComparePreAt(s, t, j) # 0 \/ ComparePreAt(t, u, j) # 0
      PROVE  ComparePreAt(s, u, j) = -1 /\ j <= Longer(s, u)
    BY <1>1, <1>6, PreAtTransitive
<1>7. CASE SamePre(s, t) /\ SamePre(t, u)
    <2>1. Len(s) = Len(t) /\ Len(t) = Len(u)
        <3>1. ASSUME NEW x \in Seq(Identifiers), NEW y \in Seq(Identifiers), SamePre(x, y)
              PROVE  Len(x) = Len(y)
            <4>1. Longer(x, y) \in Nat /\ Len(x) \in Nat /\ Len(y) \in Nat
                BY LongerType
            <4>2. CASE Longer(x, y) = 0
                BY <4>1, <4>2 DEF Longer
            <4>3. CASE Longer(x, y) # 0
                <5>1. ComparePreAt(x, y, Longer(x, y)) = 0
                    BY <3>1, <4>1, <4>3 DEF SamePre
                <5>2. Longer(x, y) <= Len(x) /\ Longer(x, y) <= Len(y)
                    BY <4>1, <4>3, <5>1, PreAtType
                <5>3. Len(x) <= Longer(x, y) /\ Len(y) <= Longer(x, y)
                    BY LongerType
                <5> QED
                    BY <4>1, <5>2, <5>3
            <4> QED
                BY <4>2, <4>3
        <3> QED
            BY <1>7, <3>1
    <2>2. Longer(s, u) = Longer(s, t) /\ Longer(s, u) = Longer(t, u)
        BY <2>1 DEF Longer
    <2>3. SamePre(s, u)
        BY <1>1, <1>5, <1>7, <2>2 DEF SamePre
    <2> QED
        BY <2>3, ComparePreIs
\* Up to m nothing differs, and at m s comes before t or t before u.
<1>8. ASSUME NEW m \in Nat \ {0}, m <= Longer(t, u),
             \A j \in Nat \ {0} : j < m =>
                ComparePreAt(s, t, j) = 0 /\ ComparePreAt(t, u, j) = 0,
             ComparePreAt(s, t, m) <= 0, ComparePreAt(t, u, m) <= 0,
             ComparePreAt(s, t, m) # 0 \/ ComparePreAt(t, u, m) # 0
      PROVE  ComparePre(s, u) <= 0
    <2>1. ComparePreAt(s, u, m) = -1 /\ m <= Longer(s, u)
        BY <1>6, <1>8
    <2>2. \A j \in 1 .. Longer(s, u) : j < m => ComparePreAt(s, u, j) = 0
        BY <1>1, <1>5, <1>8
    <2>3. SmallerPre(s, u)
        BY <1>1, <2>1, <2>2 DEF SmallerPre
    <2> QED
        BY <2>3, ComparePreIs
<1>9. CASE SmallerPre(s, t)
    <2>1. PICK k \in 1 .. Longer(s, t) :
             /\ ComparePreAt(s, t, k) = -1
             /\ \A j \in 1 .. Longer(s, t) : j < k => ComparePreAt(s, t, j) = 0
        BY <1>9 DEF SmallerPre
    <2>2. k \in Nat \ {0} /\ k <= Longer(t, u)
        BY <1>1, <2>1, PreAtType
    <2>3. \A j \in Nat \ {0} : j < k => ComparePreAt(s, t, j) = 0
        BY <1>1, <2>1
    <2>4. CASE SamePre(t, u)
        <3>1. \A j \in Nat \ {0} : j <= k => ComparePreAt(t, u, j) = 0
            BY <1>1, <2>2, <2>4 DEF SamePre
        <3> QED
            BY <1>8, <2>1, <2>2, <2>3, <3>1
    <2>5. CASE SmallerPre(t, u)
        <3>1. PICK l \in 1 .. Longer(t, u) :
                 /\ ComparePreAt(t, u, l) = -1
                 /\ \A j \in 1 .. Longer(t, u) : j < l => ComparePreAt(t, u, j) = 0
            BY <2>5 DEF SmallerPre
        <3>2. l \in Nat \ {0}
            BY <1>1, <3>1
        <3>3. CASE k <= l
            <4>1. \A j \in Nat \ {0} : j < k => ComparePreAt(t, u, j) = 0
                BY <1>1, <2>2, <3>1, <3>3
            <4>2. ComparePreAt(t, u, k) <= 0
                BY <1>1, <2>2, <3>1, <3>2, <3>3
            <4> QED
                BY <1>8, <2>1, <2>2, <2>3, <4>1, <4>2
        <3>4. CASE l < k
            <4>1. ComparePreAt(s, t, l) = 0 /\ l <= Longer(t, u)
                BY <1>1, <2>3, <3>1, <3>2, <3>4
            <4>2. \A j \in Nat \ {0} : j < l =>
                     ComparePreAt(s, t, j) = 0 /\ ComparePreAt(t, u, j) = 0
                BY <1>1, <2>2, <2>3, <3>1, <3>4
            <4> QED
                BY <1>8, <3>1, <3>2, <4>1, <4>2
        <3> QED
            BY <2>2, <3>2, <3>3, <3>4
    <2> QED
        BY <1>3, <2>4, <2>5
<1>10. CASE SamePre(s, t) /\ SmallerPre(t, u)
    <2>1. PICK l \in 1 .. Longer(t, u) :
             /\ ComparePreAt(t, u, l) = -1
             /\ \A j \in 1 .. Longer(t, u) : j < l => ComparePreAt(t, u, j) = 0
        BY <1>10 DEF SmallerPre
    <2>2. l \in Nat \ {0} /\ l <= Longer(t, u)
        BY <1>1, <2>1
    <2>3. \A j \in Nat \ {0} : j <= Longer(s, t) => ComparePreAt(s, t, j) = 0
        BY <1>1, <1>10 DEF SamePre
    <2>4. \A j \in Nat \ {0} : j < l =>
             ComparePreAt(s, t, j) = 0 /\ ComparePreAt(t, u, j) = 0
        <3>1. ASSUME NEW j \in Nat \ {0}, j < l PROVE ComparePreAt(t, u, j) = 0
            BY <1>1, <2>1, <2>2, <3>1
        <3>2. ASSUME NEW j \in Nat \ {0}, j < l PROVE j <= Longer(s, t)
            <4>1. j <= Len(t)
                BY <3>1, <3>2, PreAtType
            <4>2. Len(t) <= Longer(s, t)
                BY LongerType
            <4> QED
                BY <1>1, <4>1, <4>2
        <3> QED
            BY <2>3, <3>1, <3>2
    <2>5. ComparePreAt(s, t, l) <= 0
        <3>1. CASE l <= Longer(s, t)
            BY <2>2, <2>3, <3>1
        <3>2. CASE ~(l <= Longer(s, t))
            <4>1. Len(s) <= Longer(s, t)
                BY LongerType
            <4>2. l > Len(s)
                BY <1>1, <2>2, <3>2, <4>1
            <4> QED
                BY <4>2 DEF ComparePreAt
        <3> QED
            BY <3>1, <3>2
    <2> QED
        BY <1>8, <2>1, <2>2, <2>4, <2>5
<1> QED
    BY <1>2, <1>3, <1>7, <1>9, <1>10

-----------------------------------------------------------------------------
(* Versions *)

\* The core and the prerelease of a version are sequences of numbers and identifiers.
LEMMA VersionParts ==
    ASSUME NEW v \in Versions
    PROVE  v.core \in Seq(Nat) /\ v.pre \in Seq(Identifiers)
<1>1. v.core \in Seq(0 .. MaxInt) /\ v.pre \in Seq(Identifiers)
    BY DEF Versions
<1> QED
    BY <1>1, MaxIntAssumption

\* Compare(a, b) and Compare(b, a) are opposites: of two versions of which one is
\* newer, the update check takes the same one for newer whichever is installed.
THEOREM CompareAntisymmetric ==
    ASSUME NEW a \in Versions, NEW b \in Versions
    PROVE  Compare(a, b) \in Outcomes /\ Compare(a, b) + Compare(b, a) = 0
<1>1. /\ a.core \in Seq(Nat) /\ a.pre \in Seq(Identifiers)
      /\ b.core \in Seq(Nat) /\ b.pre \in Seq(Identifiers)
    BY VersionParts
<1>2. /\ CompareCore(a.core, b.core) \in Outcomes /\ CompareCore(b.core, a.core) \in Outcomes
      /\ CompareCore(a.core, b.core) + CompareCore(b.core, a.core) = 0
    <2>1. SameParts(a.core, b.core) <=> SameParts(b.core, a.core)
        BY DEF SameParts
    <2>2. /\ CompareCore(a.core, b.core) \in Outcomes
          /\ CompareCore(b.core, a.core) \in Outcomes
          /\ CompareCore(a.core, b.core) = 0 <=> CompareCore(b.core, a.core) = 0
          /\ CompareCore(a.core, b.core) = 1 <=> CompareCore(b.core, a.core) = -1
        BY <1>1, <2>1, CompareCoreIs
    <2> QED
        BY <2>2 DEF Outcomes
<1>3. /\ ComparePre(a.pre, b.pre) \in Outcomes /\ ComparePre(b.pre, a.pre) \in Outcomes
      /\ ComparePre(a.pre, b.pre) + ComparePre(b.pre, a.pre) = 0
    BY <1>1, ComparePreIs
<1>4. CASE CompareCore(a.core, b.core) # 0
    BY <1>2, <1>4 DEF Compare, Outcomes
<1>5. CASE CompareCore(a.core, b.core) = 0
    <2>1. CompareCore(b.core, a.core) = 0
        BY <1>2, <1>5 DEF Outcomes
    <2> QED
        BY <1>3, <1>5, <2>1 DEF Compare, Outcomes
<1> QED
    BY <1>4, <1>5

\* Compare is transitive: a release that is not older than one that is not older
\* than the installed version is not older than the installed version, so no
\* sequence of updates leads back.
THEOREM CompareTransitive ==
    ASSUME NEW a \in Versions, NEW b \in Versions, NEW c \in Versions,
           Compare(a, b) <= 0, Compare(b, c) <= 0
    PROVE  Compare(a, c) <= 0
<1>1. /\ a.core \in Seq(Nat) /\ b.core \in Seq(Nat) /\ c.core \in Seq(Nat)
      /\ a.pre \in Seq(Identifiers) /\ b.pre \in Seq(Identifiers)
      /\ c.pre \in Seq(Identifiers)
    BY VersionParts
<1>2. ASSUME NEW s \in Seq(Nat), NEW t \in Seq(Nat)
      PROVE  /\ CompareCore(s, t) \in Outcomes
             /\ CompareCore(s, t) = 0 <=> CompareCore(t, s) = 0
             /\ CompareCore(s, t) = 1 <=> CompareCore(t, s) = -1
    <2>1. SameParts(s, t) <=> SameParts(t, s)
        BY DEF SameParts
    <2> QED
        BY <2>1, CompareCoreIs
<1>3. CompareCore(a.core, b.core) <= 0 /\ CompareCore(b.core, c.core) <= 0
    BY <1>1, <1>2 DEF Compare, Outcomes
<1>4. CompareCore(a.core, c.core) <= 0
    BY <1>1, <1>3, CoreTransitive
\* If a and c have the same core, so has b.
<1>5. CompareCore(a.core, c.core) = 0
        => CompareCore(a.core, b.core) = 0 /\ CompareCore(b.core, c.core) = 0
    <2>1. ASSUME CompareCore(a.core, c.core) = 0
          PROVE  CompareCore(b.core, a.core) <= 0 /\ CompareCore(c.core, b.core) <= 0
        <3>1. CompareCore(c.core, a.core) <= 0
            BY <1>1, <1>2, <2>1
        <3> QED
            BY <1>1, <1>3, <3>1, CoreTransitive
    <2>2. ASSUME NEW s \in Seq(Nat), NEW t \in Seq(Nat),
                 CompareCore(s, t) <= 0, CompareCore(t, s) <= 0
          PROVE  CompareCore(s, t) = 0
        BY <1>2, <2>2 DEF Outcomes
    <2> QED
        BY <1>1, <1>3, <2>1, <2>2
<1>6. CASE CompareCore(a.core, c.core) # 0
    BY <1>4, <1>6 DEF Compare
<1>7. CASE CompareCore(a.core, c.core) = 0
    <2>1. /\ ComparePre(a.pre, b.pre) <= 0 /\ ComparePre(b.pre, c.pre) <= 0
            => ComparePre(a.pre, c.pre) <= 0
        BY <1>1, PreTransitive
    <2> QED
        BY <1>3, <1>5, <1>7, <2>1 DEF Compare
<1> QED
    BY <1>6, <1>7

\* Greater is a strict order: an update check never offers both of two releases
\* as updates of each other, nor goes round through a third.
THEOREM GreaterIsAnOrder ==
    ASSUME NEW a \in Versions, NEW b \in Versions, NEW c \in Versions
    PROVE  /\ ~Greater(a, a)
           /\ Greater(a, b) => ~Greater(b, a)
           /\ Greater(a, b) /\ Greater(b, c) => Greater(a, c)
<1>1. \A x, y \in Versions : Compare(x, y) \in Outcomes /\ Compare(x, y) + Compare(y, x) = 0
    BY CompareAntisymmetric
<1>2. \A x, y, z \in Versions :
         Compare(x, y) <= 0 /\ Compare(y, z) <= 0 => Compare(x, z) <= 0
    BY CompareTransitive
<1>3. ~Greater(a, a) /\ (Greater(a, b) => ~Greater(b, a))
    BY <1>1 DEF Greater, Outcomes
<1>4. ASSUME Greater(a, b), Greater(b, c) PROVE Greater(a, c)
    <2>1. SUFFICES ASSUME Compare(a, c) <= 0 PROVE FALSE
        BY <1>1 DEF Greater, Outcomes
    <2>2. Compare(b, a) <= 0 /\ Compare(c, b) <= 0
        BY <1>1, <1>4 DEF Greater, Outcomes
    \* b <= a <= c <= b, against b > c
    <2>3. Compare(b, c) <= 0
        BY <1>2, <2>1, <2>2
    <2> QED
        BY <1>1, <1>4, <2>3 DEF Greater, Outcomes
<1> QED
    BY <1>3, <1>4

=============================================================================
