---------------------------- MODULE VersionOrder ----------------------------
(***************************************************************************)
(* The order of releases (version/version.go): Parse's result, Compare and *)
(* Greater.  A version is a numeric core and the identifiers of its        *)
(* prerelease, none for a release.  An identifier is what Compare looks at *)
(* in its text: whether it has digits only, the number they are, and its   *)
(* place in the byte order of strings.                                     *)
(***************************************************************************)
EXTENDS Integers, Sequences

CONSTANT MaxInt  \* the largest int that Atoi returns

ASSUME MaxIntAssumption == MaxInt \in Nat

Identifiers == [digits : BOOLEAN, num : Nat, text : Nat]
\* Every part of a core has been through Atoi; a core is never empty.
Versions == [core : Seq(0 .. MaxInt), pre : Seq(Identifiers)]

Sign(m, n) == IF m < n THEN -1 ELSE IF m > n THEN 1 ELSE 0

\* parsePreNum: digits that Atoi refuses are compared as text.
IsNumber(x) == x.digits /\ x.num <= MaxInt

comparePreIdent(x, y) ==
    IF IsNumber(x) /\ IsNumber(y) THEN Sign(x.num, y.num)
    ELSE IF IsNumber(x) THEN -1
    ELSE IF IsNumber(y) THEN 1
    ELSE Sign(x.text, y.text)

\* What a loop that returns at the first difference returns, for the comparisons
\* c it makes.
FirstDifference(c) ==
    LET differ == {i \in DOMAIN c : c[i] # 0}
    IN  IF differ = {} THEN 0 ELSE c[CHOOSE i \in differ : \A j \in differ : i <= j]

Longer(s, t) == IF Len(s) < Len(t) THEN Len(t) ELSE Len(s)

\* A missing part of a core is 0.
Part(core, i) == IF i <= Len(core) THEN core[i] ELSE 0
CompareCore(s, t) ==
    FirstDifference([i \in 1 .. Longer(s, t) |-> Sign(Part(s, i), Part(t, i))])

\* A missing identifier comes before any other.
ComparePreAt(s, t, i) ==
    IF i > Len(s) THEN -1 ELSE IF i > Len(t) THEN 1 ELSE comparePreIdent(s[i], t[i])
ComparePre(s, t) ==
    FirstDifference([i \in 1 .. Longer(s, t) |-> ComparePreAt(s, t, i)])

\* A prerelease comes before its release.
Compare(a, b) ==
    IF CompareCore(a.core, b.core) # 0 THEN CompareCore(a.core, b.core)
    ELSE IF a.pre = <<>> /\ b.pre = <<>> THEN 0
    ELSE IF b.pre = <<>> THEN -1
    ELSE IF a.pre = <<>> THEN 1
    ELSE ComparePre(a.pre, b.pre)

Greater(remote, local) == Compare(remote, local) > 0
=============================================================================
