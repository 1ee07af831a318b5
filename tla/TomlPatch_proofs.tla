-------------------------- MODULE TomlPatch_proofs --------------------------
(***************************************************************************)
(* The patches of a document of any length, any number of them: what toml  *)
(* reads after a patch, and which lines are left as they were.             *)
(***************************************************************************)
EXTENDS TomlPatch, Intervals, SequenceTheorems

Line == [kind : Kinds, at : Seq(STRING), off : BOOLEAN, open : Int, text : Nat]
Docs == {d \in Seq(Line) : \A i \in DOMAIN d : WellFormed(d[i])}

LEMMA DocIs ==
    ASSUME NEW d \in Docs
    PROVE  /\ d \in Seq(Line) /\ Len(d) \in Nat /\ DOMAIN d = 1 .. Len(d)
           /\ \A i \in 1 .. Len(d) : d[i] \in Line /\ WellFormed(d[i])
           /\ \A i \in 1 .. Len(d) : d[i].off \in BOOLEAN /\ d[i].open \in Int
<1>1. d \in Seq(Line) /\ \A i \in DOMAIN d : WellFormed(d[i])
    BY DEF Docs
<1>2. Len(d) \in Nat /\ DOMAIN d = 1 .. Len(d)
    BY <1>1
<1>3. \A i \in 1 .. Len(d) : d[i] \in Line
    BY <1>1
<1>4. \A i \in 1 .. Len(d) : d[i].off \in BOOLEAN /\ d[i].open \in Int
    BY <1>3 DEF Line
<1> QED
    BY <1>1, <1>2, <1>3, <1>4

-----------------------------------------------------------------------------
(* The recursive functions *)

\* The brackets open after a line, from those open before it.
LEMMA DepthIs ==
    ASSUME NEW d \in Docs
    PROVE  /\ Depth(d, 0) = 0
           /\ \A i \in 0 .. Len(d) : Depth(d, i) \in Int
           /\ \A i \in 1 .. Len(d) :
                 Depth(d, i) = Depth(d, i - 1) + IF d[i].off THEN 0 ELSE d[i].open
<1> DEFINE n == Len(d)
           Adds(i) == IF d[i].off THEN 0 ELSE d[i].open
           step == [x \in Int \X (1 .. n) |-> x[1] + Adds(x[2])]
           Is(f) == f = [k \in 0 .. n |-> IF k = 0 THEN 0 ELSE f[k - 1] + Adds(k)]
<1>1. n \in Nat /\ \A i \in 1 .. n : Adds(i) \in Int
    BY DocIs
<1> HIDE DEF n, Adds
<1>2. step \in [Int \X (1 .. n) -> Int]
    BY <1>1
<1>3. PICK f : IsRun(f, n, Int, 0, step)
    <2> HIDE DEF step
    <2>1. 0 \in Int
        OBVIOUS
    <2> QED
        BY <1>1, <1>2, <2>1, RunExists
<1>4. f \in [0 .. n -> Int] /\ f[0] = 0
    BY <1>3 DEF IsRun
<1>5. ASSUME NEW i \in 1 .. n PROVE f[i] = f[i - 1] + Adds(i)
    <2>1. f[i - 1] \in Int
        BY <1>1, <1>4
    <2> QED
        BY <1>3, <2>1 DEF IsRun
<1>6. Is(f)
    BY <1>1, <1>4, <1>5
<1> DEFINE g == CHOOSE h : Is(h)
<1>7. Is(g)
    BY <1>6
<1>8. \A i : Depth(d, i) = g[i]
    BY DEF Depth, Adds, n
<1> HIDE DEF g
<1>9. g[0] = 0 /\ \A i \in 1 .. n : g[i] = g[i - 1] + Adds(i)
    BY <1>1, <1>7
<1>10. \A i \in 0 .. n : g[i] \in Int
    <2> DEFINE S == {i \in 0 .. n : g[i] \in Int}
    <2>1. 0 \in S
        BY <1>1, <1>9
    <2>2. ASSUME NEW i \in 0 + 1 .. n, i - 1 \in S PROVE i \in S
        BY <1>1, <1>9, <2>2
    <2> HIDE DEF S
    <2>3. \A i \in 0 .. n : i \in S
        BY <1>1, <2>1, <2>2, IntervalInduction
    <2> QED
        BY <2>3 DEF S
<1>11. \A i \in 1 .. n : Depth(d, i) = Depth(d, i - 1) + Adds(i)
    BY <1>8, <1>9
<1> QED
    BY <1>8, <1>9, <1>10, <1>11 DEF n, Adds

\* Where the scan can be.
States == [section : Seq(STRING), key : Nat, open : Int]

LEMMA ScanLineType ==
    ASSUME NEW d \in Docs, NEW i \in 1 .. Len(d), NEW s \in States
    PROVE  ScanLine(d, s, i) \in States
<1>1. d[i] \in Line /\ i \in Nat
    BY DocIs
<1>2. CASE GoesOn(d, s, i)
    BY <1>1, <1>2 DEF ScanLine, Opens, Line, States
<1>3. CASE ~GoesOn(d, s, i) /\ d[i].kind = "key"
    BY <1>1, <1>3 DEF ScanLine, Line, States
<1>4. CASE ~GoesOn(d, s, i) /\ d[i].kind # "key"
    BY <1>1, <1>4 DEF ScanLine, Line, Between, States
<1> QED
    BY <1>2, <1>3, <1>4

\* The state of the scan after a line, from the state before it.
LEMMA ScanIs ==
    ASSUME NEW d \in Docs
    PROVE  /\ Scan(d)[0] = Between(<<>>)
           /\ \A i \in 1 .. Len(d) : Scan(d)[i] = ScanLine(d, Scan(d)[i - 1], i)
<1> DEFINE n == Len(d)
           Adds(s, i) == ScanLine(d, s, i)
           step == [x \in States \X (1 .. n) |-> Adds(x[1], x[2])]
           Is(f) == f = [k \in 0 .. n |-> IF k = 0 THEN Between(<<>>) ELSE Adds(f[k - 1], k)]
<1>1. n \in Nat /\ (\A i \in 1 .. n, s \in States : Adds(s, i) \in States)
    BY DocIs, ScanLineType
<1> HIDE DEF n, Adds
<1>2. Between(<<>>) \in States /\ step \in [States \X (1 .. n) -> States]
    BY <1>1 DEF Between, States
<1>3. PICK f : IsRun(f, n, States, Between(<<>>), step)
    <2> HIDE DEF step
    <2> QED
        BY <1>1, <1>2, RunExists
<1>4. f \in [0 .. n -> States] /\ f[0] = Between(<<>>)
    BY <1>3 DEF IsRun
<1>5. ASSUME NEW i \in 1 .. n PROVE f[i] = Adds(f[i - 1], i)
    <2>1. f[i - 1] \in States
        BY <1>1, <1>4
    <2> QED
        BY <1>3, <2>1 DEF IsRun
<1>6. Is(f)
    BY <1>1, <1>4, <1>5
<1> DEFINE g == CHOOSE h : Is(h)
<1>7. Is(g)
    BY <1>6
<1>8. Scan(d) = g
    BY DEF Scan, Adds, n
<1> HIDE DEF g
<1>9. g[0] = Between(<<>>) /\ \A i \in 1 .. n : g[i] = Adds(g[i - 1], i)
    BY <1>1, <1>7
<1> QED
    BY <1>8, <1>9 DEF n, Adds

LEMMA ScanType ==
    ASSUME NEW d \in Docs
    PROVE  \A i \in 0 .. Len(d) : Scan(d)[i] \in States
<1> DEFINE S == {i \in 0 .. Len(d) : Scan(d)[i] \in States}
<1>1. 0 \in S
    <2>1. Between(<<>>) \in States
        BY DEF Between, States
    <2> QED
        BY <2>1, DocIs, ScanIs
<1>2. ASSUME NEW i \in 0 + 1 .. Len(d), i - 1 \in S PROVE i \in S
    BY <1>2, DocIs, ScanIs, ScanLineType
<1> HIDE DEF S
<1>3. \A i \in 0 .. Len(d) : i \in S
    BY <1>1, <1>2, DocIs, IntervalInduction
<1> QED
    BY <1>3 DEF S

\* The three things that happen at a line.
LEMMA ScanStep ==
    ASSUME NEW d \in Docs, NEW i \in 1 .. Len(d)
    PROVE  LET s == Scan(d)[i - 1]
               r == Scan(d)[i]
           IN  /\ GoesOn(d, s, i) => /\ r.section = s.section /\ r.key = s.key
                                     /\ r.open = s.open + Opens(d[i], d[s.key].off)
               /\ ~GoesOn(d, s, i) /\ d[i].kind = "key" =>
                     r.section = s.section /\ r.key = i /\ r.open = d[i].open
               /\ ~GoesOn(d, s, i) /\ d[i].kind # "key" =>
                     /\ r.section = IF d[i].kind = "table" /\ ~d[i].off THEN d[i].at
                                                                      ELSE s.section
                     /\ r.key = 0 /\ r.open = 0
<1> DEFINE s == Scan(d)[i - 1]
<1>1. s \in States
    BY DocIs, ScanType
<1>2. Scan(d)[i] = ScanLine(d, s, i)
    BY ScanIs
<1> HIDE DEF s
<1>3. CASE GoesOn(d, s, i)
    BY <1>1, <1>2, <1>3 DEF ScanLine, States, s
<1>4. CASE ~GoesOn(d, s, i)
    BY <1>2, <1>4 DEF ScanLine, Between, s
<1> QED
    BY <1>3, <1>4

\* The key of a value is a line above, where the value begins in the same section.
Read(d, i) ==
    LET s == Scan(d)[i]
    IN  /\ s.key \in 0 .. i
        /\ s.key = 0 => s.open = 0
        /\ s.key # 0 => /\ d[s.key].kind = "key" /\ Scan(d)[s.key].key = s.key
                        /\ Scan(d)[s.key].section = s.section

LEMMA ScanReads ==
    ASSUME NEW d \in Docs
    PROVE  \A i \in 0 .. Len(d) : Read(d, i)
<1> DEFINE S == {i \in 0 .. Len(d) : Read(d, i)}
<1>1. 0 \in S
    BY DocIs, ScanIs DEF Between, Read
<1>2. ASSUME NEW i \in 0 + 1 .. Len(d), i - 1 \in S PROVE i \in S
    <2> DEFINE s == Scan(d)[i - 1]
    <2>1. i \in 1 .. Len(d) /\ Len(d) \in Nat /\ Read(d, i - 1)
        BY <1>2, DocIs
    <2>2. CASE GoesOn(d, s, i)
        <3>1. Scan(d)[i].section = s.section /\ Scan(d)[i].key = s.key
            BY <2>1, <2>2, ScanStep
        <3>2. s.open > 0
            BY <2>2 DEF GoesOn
        <3> QED
            BY <2>1, <3>1, <3>2 DEF Read
    <2>3. CASE ~GoesOn(d, s, i) /\ d[i].kind = "key"
        <3>1. Scan(d)[i].key = i
            BY <2>1, <2>3, ScanStep
        <3> QED
            BY <2>1, <2>3, <3>1 DEF Read
    <2>4. CASE ~GoesOn(d, s, i) /\ d[i].kind # "key"
        <3>1. Scan(d)[i].key = 0 /\ Scan(d)[i].open = 0
            BY <2>1, <2>4, ScanStep
        <3> QED
            BY <2>1, <3>1 DEF Read
    <2> QED
        BY <2>1, <2>2, <2>3, <2>4
<1> HIDE DEF S
<1>3. \A i \in 0 .. Len(d) : i \in S
    BY <1>1, <1>2, DocIs, IntervalInduction
<1> QED
    BY <1>3 DEF S

-----------------------------------------------------------------------------
(* Least and greatest lines *)

LEMMA MaxIs ==
    ASSUME NEW S, S \subseteq Int, NEW x \in S, \A y \in S : y <= x
    PROVE  Max(S) = x
<1>1. \A z \in S : (\A y \in S : z >= y) => z = x
    OBVIOUS
<1> QED
    BY <1>1 DEF Max

LEMMA MinIs ==
    ASSUME NEW S, S \subseteq Int, NEW x \in S, \A y \in S : x <= y
    PROVE  Min(S) = x
<1>1. \A z \in S : (\A y \in S : z <= y) => z = x
    OBVIOUS
<1> QED
    BY <1>1 DEF Min

LEMMA MaxOf ==
    ASSUME NEW n \in Nat, NEW S, S \subseteq 0 .. n, S # {}
    PROVE  Max(S) \in S /\ \A y \in S : y <= Max(S)
<1>1. PICK x \in S : \A y \in S : y <= x
    BY GreatestOf
<1>2. S \subseteq Int
    OBVIOUS
<1>3. Max(S) = x
    BY <1>1, <1>2, MaxIs
<1> QED
    BY <1>1, <1>3

LEMMA MinOf ==
    ASSUME NEW n \in Nat, NEW S, S \subseteq 0 .. n, S # {}
    PROVE  Min(S) \in S /\ \A y \in S : Min(S) <= y
<1>1. PICK x \in S : \A y \in S : x <= y
    BY LeastFromZero
<1>2. S \subseteq Int
    OBVIOUS
<1>3. Min(S) = x
    BY <1>1, <1>2, MinIs
<1> QED
    BY <1>1, <1>3

-----------------------------------------------------------------------------
(* Spans *)

Starts(d, i) == ~GoesOn(d, Scan(d)[i - 1], i)

LEMMA SpanStarts ==
    ASSUME NEW d \in Docs, NEW i
    PROVE  i \in Spans(d) <=> i \in 1 .. Len(d) /\ Starts(d, i) /\ d[i].kind = "key"
<1>1. SUFFICES ASSUME i \in 1 .. Len(d)
               PROVE  Scan(d)[i].key = i <=> Starts(d, i) /\ d[i].kind = "key"
    BY DocIs DEF Spans
<1>2. Len(d) \in Nat /\ Scan(d)[i - 1].key \in 0 .. i - 1
    BY <1>1, DocIs, ScanReads DEF Read
<1>3. CASE ~Starts(d, i)
    <2>1. Scan(d)[i].key = Scan(d)[i - 1].key
        BY <1>1, <1>3, ScanStep DEF Starts
    <2> QED
        BY <1>1, <1>2, <1>3, <2>1
<1>4. CASE Starts(d, i)
    <2>1. /\ d[i].kind = "key" => Scan(d)[i].key = i
          /\ d[i].kind # "key" => Scan(d)[i].key = 0
        BY <1>1, <1>4, ScanStep DEF Starts
    <2> QED
        BY <1>1, <1>4, <2>1
<1> QED
    BY <1>3, <1>4

\* A span is the lines from the first to the last that have its key.
LEMMA SpanLines ==
    ASSUME NEW d \in Docs, NEW a \in Spans(d)
    PROVE  LET b == EndOf(d, a)
           IN  /\ a \in 1 .. Len(d) /\ b \in a .. Len(d)
               /\ \A j \in 1 .. Len(d) : Scan(d)[j].key = a <=> j \in a .. b
               /\ \A j \in a + 1 .. b : ~Starts(d, j)
               /\ b < Len(d) => Starts(d, b + 1)
<1> DEFINE n == Len(d)
           S == {j \in 1 .. n : Scan(d)[j].key = a}
           b == Max(S)
<1>1. n \in Nat /\ a \in 1 .. n /\ a \in S
    BY DocIs DEF Spans
<1>2. b \in S /\ \A j \in S : j <= b
    <2> HIDE DEF S
    <2>1. S \subseteq 0 .. n /\ S # {}
        BY <1>1 DEF S
    <2> QED
        BY <1>1, <2>1, MaxOf
<1>3. EndOf(d, a) = b
    BY DocIs DEF EndOf
<1> HIDE DEF b
<1>4. \A j \in S : a <= j
    <2>1. \A j \in 1 .. n : Scan(d)[j].key \in 0 .. j
        BY <1>1, ScanReads DEF Read
    <2> QED
        BY <1>1, <2>1
<1>5. ASSUME NEW j \in a + 1 .. n, j \in S PROVE ~Starts(d, j) /\ j - 1 \in S
    <2>1. j \in 1 .. n /\ j - 1 \in 1 .. n /\ j # a /\ a # 0
        BY <1>1
    <2>2. Starts(d, j) => Scan(d)[j].key \in {0, j}
        BY <2>1, ScanStep DEF Starts
    <2>3. ~Starts(d, j)
        BY <1>5, <2>1, <2>2
    <2>4. Scan(d)[j].key = Scan(d)[j - 1].key
        BY <2>1, <2>3, ScanStep DEF Starts
    <2> QED
        BY <1>5, <2>1, <2>3, <2>4
<1>6. \A j \in a .. b : j \in S
    <2> DEFINE out == {j \in a .. b : j \notin S}
    <2>1. SUFFICES ASSUME out # {} PROVE FALSE
        OBVIOUS
    <2>2. out \subseteq 0 .. n
        BY <1>1, <1>2
    <2>3. PICK j \in out : \A k \in out : k <= j
        BY <1>1, <2>1, <2>2, GreatestOf
    <2>4. j + 1 \in a + 1 .. b /\ j + 1 \in S
        BY <1>1, <1>2, <2>3
    <2>5. (j + 1) - 1 \in S
        BY <1>1, <1>2, <1>5, <2>4
    <2> QED
        BY <2>3, <2>5
<1>7. ASSUME b < n PROVE Starts(d, b + 1)
    <2>1. SUFFICES ASSUME ~Starts(d, b + 1) PROVE FALSE
        OBVIOUS
    <2>2. b + 1 \in 1 .. n /\ (b + 1) - 1 = b
        BY <1>1, <1>2, <1>7
    <2>3. Scan(d)[b + 1].key = Scan(d)[b].key
        BY <2>1, <2>2, ScanStep DEF Starts
    <2>4. b + 1 \in S
        BY <1>2, <2>2, <2>3
    <2> QED
        BY <1>1, <1>2, <2>4
<1>8. b \in a .. n /\ \A j \in 1 .. n : j \in S <=> j \in a .. b
    BY <1>1, <1>2, <1>4, <1>6
<1>9. \A j \in a + 1 .. b : ~Starts(d, j)
    BY <1>1, <1>5, <1>6, <1>8
<1> QED
    BY <1>1, <1>3, <1>7, <1>8, <1>9

-----------------------------------------------------------------------------
(* What toml reads, and the scan *)

LEMMA ToplevelIs ==
    ASSUME NEW d \in Docs
    PROVE  /\ Toplevel(d) = {i \in 1 .. Len(d) : ~d[i].off /\ Depth(d, i - 1) = 0}
           /\ Headers(d) = {i \in Toplevel(d) : d[i].kind = "table"}
           /\ Assignments(d) = {i \in Toplevel(d) : d[i].kind = "key"}
    BY DocIs DEF Toplevel, Headers, Assignments

\* The section of a line, from the one of the line before it.
LEMMA SectionIs ==
    ASSUME NEW d \in Docs
    PROVE  /\ SectionAt(d, 0) = <<>>
           /\ \A i \in 1 .. Len(d) :
                 SectionAt(d, i) = IF i \in Headers(d) THEN d[i].at ELSE SectionAt(d, i - 1)
<1> DEFINE above(i) == {h \in Headers(d) : h <= i}
<1>1. Headers(d) \subseteq 1 .. Len(d) /\ Len(d) \in Nat
    BY ToplevelIs, DocIs
<1>2. above(0) = {}
    BY <1>1
<1>3. ASSUME NEW i \in 1 .. Len(d), i \in Headers(d) PROVE SectionAt(d, i) = d[i].at
    <2>1. above(i) \subseteq Int /\ i \in above(i) /\ \A h \in above(i) : h <= i
        BY <1>1, <1>3
    <2> HIDE DEF above
    <2>2. Max(above(i)) = i /\ above(i) # {}
        BY <2>1, MaxIs
    <2> QED
        BY <2>2 DEF SectionAt, above
<1>4. ASSUME NEW i \in 1 .. Len(d), i \notin Headers(d) PROVE above(i) = above(i - 1)
    BY <1>1, <1>4
<1> QED
    BY <1>2, <1>3, <1>4 DEF SectionAt

Agrees(d, i) ==
    LET s == Scan(d)[i]
    IN  /\ s.section = SectionAt(d, i)
        /\ Depth(d, i) = IF s.key # 0 /\ ~d[s.key].off THEN s.open ELSE 0

\* The scan counts the brackets of the values that are not commented out, and
\* knows the section.
LEMMA ScanAgrees ==
    ASSUME NEW d \in Docs, BracketsMatch(d)
    PROVE  \A i \in 0 .. Len(d) : Agrees(d, i)
<1> DEFINE n == Len(d)
           S == {i \in 0 .. n : Agrees(d, i)}
<1>0. n \in Nat
    BY DocIs
<1>1. 0 \in S
    BY <1>0, ScanIs, SectionIs, DepthIs DEF Between, Agrees
<1>2. ASSUME NEW i \in 0 + 1 .. n, i - 1 \in S PROVE i \in S
    <2> DEFINE s == Scan(d)[i - 1]
               r == Scan(d)[i]
    <2>1. i \in 1 .. n /\ i - 1 \in 0 .. n /\ Agrees(d, i - 1) /\ Read(d, i - 1)
        BY <1>0, <1>2, ScanReads
    <2>2. /\ Depth(d, i) = Depth(d, i - 1) + IF d[i].off THEN 0 ELSE d[i].open
          /\ Depth(d, i - 1) \in Int /\ d[i].off \in BOOLEAN /\ d[i].open \in Int
          /\ WellFormed(d[i]) /\ d[i].kind \in Kinds
        BY <2>1, DepthIs, DocIs DEF Line
    <2>3. SectionAt(d, i) = IF i \in Headers(d) THEN d[i].at ELSE SectionAt(d, i - 1)
        BY <2>1, SectionIs
    <2>4. s \in States /\ (s.key # 0 => s.key \in 1 .. n /\ d[s.key].off \in BOOLEAN)
        BY <2>1, <1>0, ScanType, DocIs DEF Read
    <2>5. i \in Headers(d) <=> ~d[i].off /\ Depth(d, i - 1) = 0 /\ d[i].kind = "table"
        BY <2>1, ToplevelIs
    <2>6. CASE ~Starts(d, i)
        <3>1. s.open > 0 /\ (d[s.key].off => d[i].off) /\ s.key # 0
            BY <2>1, <2>4, <2>6 DEF Starts, GoesOn, Read, States
        <3>2. /\ r.section = s.section /\ r.key = s.key
              /\ r.open = s.open + Opens(d[i], d[s.key].off)
            BY <2>1, <2>6, ScanStep DEF Starts
        <3>3. i \notin Headers(d)
            BY <2>1, <2>4, <2>5, <3>1 DEF Agrees, States
        <3>4. Depth(d, i) = IF ~d[s.key].off THEN r.open ELSE 0
            BY <2>1, <2>2, <2>4, <3>1, <3>2 DEF Agrees, Opens, States
        <3> QED
            BY <2>1, <2>3, <3>1, <3>2, <3>3, <3>4 DEF Agrees
    <2>7. CASE Starts(d, i)
        <3>1. Depth(d, i - 1) = 0
            <4>1. CASE s.key # 0 /\ ~d[s.key].off
                <5>1. ~(s.open > 0)
                    BY <2>7, <4>1 DEF Starts, GoesOn
                <5>2. Depth(d, i - 1) = s.open
                    BY <2>1, <4>1 DEF Agrees
                <5>3. Depth(d, i - 1) >= 0
                    BY <2>1, <1>0, DepthIs, DocIs DEF BracketsMatch
                <5> QED
                    BY <2>4, <5>1, <5>2, <5>3 DEF States
            <4> QED
                BY <2>1, <4>1 DEF Agrees
        <3>2. CASE d[i].kind = "key"
            <4>1. r.section = s.section /\ r.key = i /\ r.open = d[i].open
                BY <2>1, <2>7, <3>2, ScanStep DEF Starts
            <4>2. i \notin Headers(d)
                BY <2>5, <3>2
            <4> QED
                BY <2>1, <2>2, <2>3, <3>1, <4>1, <4>2 DEF Agrees
        <3>3. CASE d[i].kind # "key"
            <4>1. /\ r.section = IF d[i].kind = "table" /\ ~d[i].off THEN d[i].at
                                                                    ELSE s.section
                  /\ r.key = 0 /\ r.open = 0
                BY <2>1, <2>7, <3>3, ScanStep DEF Starts
            <4>2. d[i].kind = "text" /\ ~d[i].off => d[i].open = 0
                BY <2>1, <3>1, ToplevelIs DEF BracketsMatch
            <4>3. Depth(d, i) = 0
                BY <2>2, <3>1, <3>3, <4>2 DEF WellFormed, Kinds
            <4> QED
                BY <2>1, <2>3, <2>5, <3>1, <4>1, <4>3 DEF Agrees
        <3> QED
            BY <3>2, <3>3
    <2> QED
        BY <2>6, <2>7
<1> HIDE DEF S
<1>3. \A i \in 0 .. n : i \in S
    BY <1>0, <1>1, <1>2, IntervalInduction
<1> QED
    BY <1>3 DEF S

LEMMA StartsOutside ==
    ASSUME NEW d \in Docs, BracketsMatch(d), NEW i \in 1 .. Len(d)
    PROVE  /\ Starts(d, i) => Depth(d, i - 1) = 0
           /\ ~d[i].off /\ Depth(d, i - 1) = 0 => Starts(d, i)
<1> DEFINE s == Scan(d)[i - 1]
<1>1. i - 1 \in 0 .. Len(d) /\ Len(d) \in Nat
    BY DocIs
<1>2. Agrees(d, i - 1) /\ Read(d, i - 1) /\ s \in States
    BY <1>1, ScanAgrees, ScanReads, ScanType
<1>3. s.key # 0 => s.key \in 1 .. Len(d) /\ d[s.key].off \in BOOLEAN
    BY <1>1, <1>2, DocIs DEF Read
<1>4. ASSUME Starts(d, i) PROVE Depth(d, i - 1) = 0
    <2>1. CASE s.key # 0 /\ ~d[s.key].off
        <3>1. ~(s.open > 0)
            BY <1>4, <2>1 DEF Starts, GoesOn
        <3>2. Depth(d, i - 1) = s.open
            BY <1>2, <2>1 DEF Agrees
        <3>3. Depth(d, i - 1) >= 0
            <4>1. i - 1 = 0 \/ i - 1 \in DOMAIN d
                BY <1>1, DocIs
            <4> QED
                BY <4>1, DepthIs DEF BracketsMatch
        <3> QED
            BY <1>2, <3>1, <3>2, <3>3 DEF States
    <2> QED
        BY <1>2, <2>1 DEF Agrees
<1>5. ASSUME ~d[i].off, Depth(d, i - 1) = 0, ~Starts(d, i) PROVE FALSE
    <2>1. s.open > 0 /\ ~d[s.key].off
        BY <1>5 DEF Starts, GoesOn
    <2>2. s.key # 0
        BY <1>2, <2>1 DEF Read
    <2> QED
        BY <1>2, <1>5, <2>1, <2>2 DEF Agrees, States
<1> QED
    BY <1>4, <1>5

\* The spans that are not commented out are what toml reads, in its sections.
LEMMA LiveSpans ==
    ASSUME NEW d \in Docs, BracketsMatch(d)
    PROVE  /\ Assignments(d) = {i \in Spans(d) : ~d[i].off}
           /\ \A i \in Spans(d) : /\ PathOf(d, i) = SectionAt(d, i) \o d[i].at
                                  /\ SectionAt(d, i) = SectionAt(d, i - 1)
<1>1. ASSUME NEW i PROVE i \in Assignments(d) <=> i \in Spans(d) /\ ~d[i].off
    BY ToplevelIs, SpanStarts, StartsOutside
<1>2. Assignments(d) = {i \in Spans(d) : ~d[i].off}
    BY <1>1
<1>3. ASSUME NEW i \in Spans(d)
      PROVE  PathOf(d, i) = SectionAt(d, i) \o d[i].at /\ SectionAt(d, i) = SectionAt(d, i - 1)
    <2>1. i \in 1 .. Len(d) /\ d[i].kind = "key" /\ i \in 0 .. Len(d)
        BY SpanStarts, DocIs
    <2>2. i \notin Headers(d)
        BY <2>1, ToplevelIs
    <2> QED
        BY <2>1, <2>2, ScanAgrees, SectionIs DEF PathOf, Agrees
<1> QED
    BY <1>2, <1>3

\* A span holds no header and no other assignment, and the brackets match on it.
LEMMA SpanIsClosed ==
    ASSUME NEW d \in Docs, BracketsMatch(d), NEW a \in Spans(d)
    PROVE  LET b == EndOf(d, a)
           IN  /\ Depth(d, a - 1) = 0 /\ Depth(d, b) = 0
               /\ \A i \in a .. b : i \notin Headers(d)
               /\ \A i \in a + 1 .. b : i \notin Toplevel(d)
<1> DEFINE b == EndOf(d, a)
<1>1. /\ a \in 1 .. Len(d) /\ b \in a .. Len(d) /\ Len(d) \in Nat
      /\ \A j \in a + 1 .. b : ~Starts(d, j)
      /\ b < Len(d) => Starts(d, b + 1)
    BY SpanLines, DocIs
<1>2. Starts(d, a) /\ d[a].kind = "key"
    BY SpanStarts
<1> HIDE DEF b
<1>3. Depth(d, a - 1) = 0
    BY <1>1, <1>2, StartsOutside
<1>4. Depth(d, b) = 0
    <2>1. CASE b < Len(d)
        <3>1. b + 1 \in 1 .. Len(d) /\ (b + 1) - 1 = b
            BY <1>1, <2>1
        <3> QED
            BY <1>1, <2>1, <3>1, StartsOutside
    <2>2. CASE ~(b < Len(d))
        <3>1. b = Len(d)
            BY <1>1, <2>2
        <3> QED
            BY <3>1 DEF BracketsMatch
    <2> QED
        BY <2>1, <2>2
<1>5. ASSUME NEW i \in a + 1 .. b PROVE i \notin Toplevel(d)
    <2>1. i \in 1 .. Len(d) /\ ~Starts(d, i)
        BY <1>1
    <2> QED
        BY <2>1, ToplevelIs, StartsOutside
<1>6. ASSUME NEW i \in a .. b PROVE i \notin Headers(d)
    <2>1. i = a \/ i \in a + 1 .. b
        BY <1>1
    <2> QED
        BY <1>2, <1>5, <2>1, ToplevelIs
<1> QED
    BY <1>3, <1>4, <1>5, <1>6 DEF b

\* The page shows what toml reads of a path that the scan meets once.
LEMMA ShownIsLive ==
    ASSUME NEW d \in Docs, BracketsMatch(d), NEW path,
           \A i, j \in SpansAt(d, path) : i = j
    PROVE  Present(d, path) <=> path \in {LivePath(d, i) : i \in Assignments(d)}
<1> DEFINE spans == SpansAt(d, path)
<1>1. spans \subseteq Spans(d) /\ Spans(d) \subseteq Int
    BY DocIs DEF SpansAt, Spans
<1>2. path \in {LivePath(d, i) : i \in Assignments(d)} <=> \E i \in spans : ~d[i].off
    BY LiveSpans DEF LivePath, SpansAt
<1>3. ASSUME spans # {} PROVE Present(d, path) <=> \E i \in spans : ~d[i].off
    <2>1. PICK i \in spans : TRUE
        BY <1>3
    <2>2. \A j \in spans : j = i
        BY <2>1
    <2>3. Max(spans) = i
        <3> HIDE DEF spans
        <3> QED
            BY <1>1, <2>1, <2>2, MaxIs
    <2> QED
        BY <2>1, <2>2, <2>3 DEF Present
<1>4. ASSUME spans = {} PROVE ~Present(d, path)
    BY <1>4 DEF Present
<1> QED
    BY <1>2, <1>3, <1>4

-----------------------------------------------------------------------------
(* One line in place of lines a to b, which may be none: the document that  *)
(* results, and what toml reads in it.                                      *)

Put(d, a, b, l) == Splice(d, a, b, <<l>>)

\* Where a line can be put so that the values around it stay whole.
Place(d, a, b) == /\ a \in 1 .. Len(d) + 1 /\ b \in a - 1 .. Len(d)
                  /\ Depth(d, a - 1) = 0 /\ Depth(d, b) = 0

GoodLine(l) == l \in Line /\ WellFormed(l) /\ l.open = 0

\* And no header is lost, and one is added at the end at most.
Fits(d, a, b, l) == /\ Place(d, a, b) /\ GoodLine(l)
                    /\ \A i \in a .. b : i \notin Headers(d)
                    /\ l.kind # "table" \/ l.off \/ b = Len(d)

LEMMA PutLines ==
    ASSUME NEW d \in Docs, NEW a \in 1 .. Len(d) + 1, NEW b \in a - 1 .. Len(d),
           NEW l, GoodLine(l)
    PROVE  /\ Put(d, a, b, l) \in Docs
           /\ Len(Put(d, a, b, l)) = Len(d) + (a - b)
           /\ \A j \in 1 .. a - 1 : Put(d, a, b, l)[j] = d[j]
           /\ Put(d, a, b, l)[a] = l
           /\ \A j \in b + 1 .. Len(d) : Put(d, a, b, l)[j + (a - b)] = d[j]
<1> DEFINE n == Len(d)
           head == SubSeq(d, 1, a - 1)
           tail == SubSeq(d, b + 1, n)
           e == head \o <<l>> \o tail
<1>1. d \in Seq(Line) /\ n \in Nat /\ l \in Line
    BY DocIs DEF GoodLine
<1>2. head \in Seq(Line) /\ Len(head) = a - 1 /\ \A j \in 1 .. a - 1 : head[j] = d[j]
    BY <1>1
<1>3. /\ tail \in Seq(Line) /\ Len(tail) = n - b
      /\ \A j \in 1 .. n - b : tail[j] = d[j + b]
    BY <1>1
<1>4. <<l>> \in Seq(Line) /\ Len(<<l>>) = 1 /\ <<l>>[1] = l
    BY <1>1
<1>5. Put(d, a, b, l) = e
    BY DEF Put, Splice
<1> HIDE DEF head, tail
<1>6. e \in Seq(Line) /\ Len(e) = n + (a - b)
    <2> DEFINE begin == head \o <<l>>
    <2>1. begin \in Seq(Line) /\ Len(begin) = (a - 1) + 1
        BY <1>2, <1>4
    <2>2. e = begin \o tail
        OBVIOUS
    <2> HIDE DEF begin, e
    <2>3. e \in Seq(Line) /\ Len(e) = ((a - 1) + 1) + (n - b)
        BY <1>3, <2>1, <2>2
    <2> QED
        BY <1>1, <2>3
<1>7. \A j \in 1 .. a - 1 : e[j] = d[j]
    BY <1>1, <1>2, <1>3, <1>4
<1>8. e[a] = l
    BY <1>1, <1>2, <1>3, <1>4
<1>9. \A j \in b + 1 .. n : e[j + (a - b)] = d[j]
    <2>1. ASSUME NEW j \in b + 1 .. n PROVE e[j + (a - b)] = tail[j - b]
        BY <1>1, <1>2, <1>3, <1>4
    <2>2. ASSUME NEW j \in b + 1 .. n PROVE tail[j - b] = d[j]
        BY <1>1, <1>3
    <2> QED
        BY <2>1, <2>2
<1> HIDE DEF e
<1>10. ASSUME NEW i \in DOMAIN e PROVE WellFormed(e[i])
    <2>1. i \in 1 .. n + (a - b) /\ i \in Int
        BY <1>1, <1>6
    <2>2. CASE i < a
        BY <1>7, <2>1, <2>2, DocIs
    <2>3. CASE i = a
        BY <1>8, <2>3 DEF GoodLine
    <2>4. CASE i > a
        <3>1. i - (a - b) \in b + 1 .. n /\ (i - (a - b)) + (a - b) = i
            BY <1>1, <2>1, <2>4
        <3>2. e[i] = d[i - (a - b)]
            BY <1>9, <3>1
        <3> QED
            BY <1>1, <3>1, <3>2, DocIs
    <2> QED
        BY <2>1, <2>2, <2>3, <2>4
<1>11. e \in Docs
    BY <1>6, <1>10 DEF Docs
<1> QED
    BY <1>5, <1>6, <1>7, <1>8, <1>9, <1>11

IsPut(d, e, a, b, l) ==
    /\ e \in Docs /\ Len(e) = Len(d) + (a - b)
    /\ \A j \in 1 .. a - 1 : e[j] = d[j]
    /\ e[a] = l
    /\ \A j \in b + 1 .. Len(d) : e[j + (a - b)] = d[j]

LEMMA PutIs ==
    ASSUME NEW d \in Docs, NEW a, NEW b, NEW l, Place(d, a, b), GoodLine(l)
    PROVE  IsPut(d, Put(d, a, b, l), a, b, l)
    BY PutLines DEF Place, IsPut

LEMMA PutDepth ==
    ASSUME NEW d \in Docs, NEW a, NEW b, Place(d, a, b), NEW l, GoodLine(l)
    PROVE  LET e == Put(d, a, b, l)
           IN  /\ \A j \in 0 .. a - 1 : Depth(e, j) = Depth(d, j)
               /\ Depth(e, a) = 0
               /\ \A j \in b .. Len(d) : Depth(e, j + (a - b)) = Depth(d, j)
<1> DEFINE e == Put(d, a, b, l)
           n == Len(d)
           t == a - b
<1>1. /\ a \in 1 .. n + 1 /\ b \in a - 1 .. n /\ n \in Nat /\ a \in Nat /\ b \in Nat
      /\ Depth(d, a - 1) = 0 /\ Depth(d, b) = 0
    BY DocIs DEF Place
<1>2. /\ e \in Docs /\ Len(e) = n + (a - b)
      /\ \A j \in 1 .. a - 1 : e[j] = d[j]
      /\ e[a] = l
      /\ \A j \in b + 1 .. n : e[j + (a - b)] = d[j]
    BY <1>1, PutLines
<1> HIDE DEF e
<1>3. \A j \in 0 .. a - 1 : Depth(e, j) = Depth(d, j)
    <2> DEFINE S == {j \in 0 .. a - 1 : Depth(e, j) = Depth(d, j)}
    <2>1. 0 \in S
        BY <1>1, <1>2, DepthIs
    <2>2. ASSUME NEW j \in 0 + 1 .. a - 1, j - 1 \in S PROVE j \in S
        <3>1. j \in 1 .. n /\ j \in 1 .. Len(e) /\ e[j] = d[j]
            BY <1>1, <1>2
        <3>2. /\ Depth(d, j) = Depth(d, j - 1) + IF d[j].off THEN 0 ELSE d[j].open
              /\ Depth(e, j) = Depth(e, j - 1) + IF d[j].off THEN 0 ELSE d[j].open
            BY <1>2, <3>1, DepthIs
        <3> QED
            BY <1>1, <2>2, <3>2
    <2> HIDE DEF S
    <2>3. \A j \in 0 .. a - 1 : j \in S
        <3>1. a - 1 \in Nat /\ 0 \in Nat
            BY <1>1
        <3> QED
            BY <2>1, <2>2, <3>1, IntervalInduction
    <2> QED
        BY <2>3 DEF S
<1>4. Depth(e, a) = 0
    <2>1. a \in 1 .. Len(e) /\ Depth(e, a - 1) = 0
        BY <1>1, <1>2, <1>3
    <2>2. Depth(e, a) = Depth(e, a - 1) + IF l.off THEN 0 ELSE l.open
        BY <1>2, <2>1, DepthIs
    <2> QED
        BY <2>1, <2>2 DEF GoodLine
<1>5. \A j \in b .. n : Depth(e, j + (a - b)) = Depth(d, j)
    <2> DEFINE S == {j \in b .. n : Depth(e, j + (a - b)) = Depth(d, j)}
    <2>1. b \in S
        <3>1. b + (a - b) = a
            BY <1>1
        <3> QED
            BY <1>1, <1>4, <3>1
    <2>2. ASSUME NEW j \in b + 1 .. n, j - 1 \in S PROVE j \in S
        <3>1. j \in 1 .. n /\ j + (a - b) \in 1 .. Len(e) /\ e[j + (a - b)] = d[j]
            BY <1>1, <1>2
        <3>2. (j - 1) + (a - b) = (j + (a - b)) - 1
            BY <1>1
        <3>3. /\ Depth(d, j) = Depth(d, j - 1) + IF d[j].off THEN 0 ELSE d[j].open
              /\ Depth(e, j + (a - b)) = Depth(e, (j + (a - b)) - 1) + IF d[j].off THEN 0 ELSE d[j].open
            BY <1>2, <3>1, DepthIs
        <3> QED
            BY <1>1, <2>2, <3>2, <3>3
    <2> HIDE DEF S
    <2>3. \A j \in b .. n : j \in S
        BY <1>1, <2>1, <2>2, IntervalInduction
    <2> QED
        BY <2>3 DEF S
<1> QED
    BY <1>3, <1>4, <1>5 DEF e

\* A line of the new document is one above, the new one, or one below.
LEMMA PutCases ==
    ASSUME NEW n \in Nat, NEW a \in 1 .. n + 1, NEW b \in a - 1 .. n,
           NEW i \in 1 .. n + (a - b)
    PROVE  i \in 1 .. a - 1 \/ i = a \/ \E j \in b + 1 .. n : i = j + (a - b)
<1>1. CASE i > a
    <2>1. i - (a - b) \in b + 1 .. n /\ i = (i - (a - b)) + (a - b)
        BY <1>1
    <2> QED
        BY <2>1
<1>2. CASE ~(i > a)
    BY <1>2
<1> QED
    BY <1>1, <1>2

LEMMA PutToplevel ==
    ASSUME NEW d \in Docs, NEW a, NEW b, Place(d, a, b), NEW l, GoodLine(l)
    PROVE  LET e == Put(d, a, b, l)
           IN  /\ \A i \in 1 .. a - 1 : i \in Toplevel(e) <=> i \in Toplevel(d)
               /\ a \in Toplevel(e) <=> ~l.off
               /\ \A j \in b + 1 .. Len(d) : j + (a - b) \in Toplevel(e) <=> j \in Toplevel(d)
<1> DEFINE e == Put(d, a, b, l)
           n == Len(d)
<1>1. /\ a \in 1 .. n + 1 /\ b \in a - 1 .. n /\ n \in Nat /\ a \in Nat /\ b \in Nat
      /\ Depth(d, a - 1) = 0
    BY DocIs DEF Place
<1>2. /\ e \in Docs /\ Len(e) = n + (a - b)
      /\ \A j \in 1 .. a - 1 : e[j] = d[j]
      /\ e[a] = l
      /\ \A j \in b + 1 .. n : e[j + (a - b)] = d[j]
    BY <1>1, PutLines
<1>3. /\ \A j \in 0 .. a - 1 : Depth(e, j) = Depth(d, j)
      /\ \A j \in b .. n : Depth(e, j + (a - b)) = Depth(d, j)
    BY PutDepth
<1> HIDE DEF e
<1>4. ASSUME NEW i \in 1 .. a - 1 PROVE i \in Toplevel(e) <=> i \in Toplevel(d)
    <2>1. i \in 1 .. n /\ i \in 1 .. Len(e) /\ i - 1 \in 0 .. a - 1
        BY <1>1, <1>2
    <2> QED
        BY <1>2, <1>3, <2>1, ToplevelIs
<1>5. a \in Toplevel(e) <=> ~l.off
    <2>1. a \in 1 .. Len(e) /\ a - 1 \in 0 .. a - 1
        BY <1>1, <1>2
    <2> QED
        BY <1>1, <1>2, <1>3, <2>1, ToplevelIs
<1>6. ASSUME NEW j \in b + 1 .. n PROVE j + (a - b) \in Toplevel(e) <=> j \in Toplevel(d)
    <2>1. /\ j \in 1 .. n /\ j + (a - b) \in 1 .. Len(e) /\ j - 1 \in b .. n
          /\ (j - 1) + (a - b) = (j + (a - b)) - 1
        BY <1>1, <1>2
    <2>2. Depth(e, (j + (a - b)) - 1) = Depth(d, j - 1)
        BY <1>3, <2>1
    <2> QED
        BY <1>2, <2>1, <2>2, ToplevelIs
<1> QED
    BY <1>4, <1>5, <1>6 DEF e

\* Brackets still match.
LEMMA PutBrackets ==
    ASSUME NEW d \in Docs, BracketsMatch(d),
           NEW a, NEW b, Place(d, a, b), NEW l, GoodLine(l)
    PROVE  BracketsMatch(Put(d, a, b, l))
<1> DEFINE e == Put(d, a, b, l)
           n == Len(d)
<1>1. a \in 1 .. n + 1 /\ b \in a - 1 .. n /\ n \in Nat /\ a \in Nat /\ b \in Nat
    BY DocIs DEF Place
<1>2. /\ e \in Docs /\ Len(e) = n + (a - b)
      /\ \A j \in 1 .. a - 1 : e[j] = d[j]
      /\ e[a] = l
      /\ \A j \in b + 1 .. n : e[j + (a - b)] = d[j]
    BY <1>1, PutLines
<1>3. /\ \A j \in 0 .. a - 1 : Depth(e, j) = Depth(d, j)
      /\ Depth(e, a) = 0
      /\ \A j \in b .. n : Depth(e, j + (a - b)) = Depth(d, j)
    BY PutDepth
<1>4. /\ \A i \in 1 .. a - 1 : i \in Toplevel(e) <=> i \in Toplevel(d)
      /\ a \in Toplevel(e) <=> ~l.off
      /\ \A j \in b + 1 .. n : j + (a - b) \in Toplevel(e) <=> j \in Toplevel(d)
    BY PutToplevel
<1> HIDE DEF e
<1>5. Depth(e, Len(e)) = 0
    <2>1. n \in b .. n /\ Depth(d, n) = 0
        BY <1>1 DEF BracketsMatch
    <2> QED
        BY <1>2, <1>3, <2>1
<1>6. ASSUME NEW i \in 1 .. Len(e)
      PROVE  /\ Depth(e, i) >= 0
             /\ e[i].kind = "table" /\ ~e[i].off => i \in Toplevel(e)
             /\ i \in Toplevel(e) /\ e[i].kind = "text" => e[i].open = 0
    <2>1. CASE i \in 1 .. a - 1
        <3>1. i \in DOMAIN d /\ i \in 0 .. a - 1
            BY <1>1, <2>1, DocIs
        <3> QED
            BY <1>2, <1>3, <1>4, <2>1, <3>1 DEF BracketsMatch
    <2>2. CASE i = a
        BY <1>2, <1>3, <1>4, <2>2 DEF GoodLine
    <2>3. CASE \E j \in b + 1 .. n : i = j + (a - b)
        <3>1. PICK j \in b + 1 .. n : i = j + (a - b)
            BY <2>3
        <3>2. j \in DOMAIN d /\ j \in b .. n
            BY <1>1, DocIs
        <3> QED
            BY <1>2, <1>3, <1>4, <3>1, <3>2 DEF BracketsMatch
    <2> QED
        BY <1>1, <1>2, <2>1, <2>2, <2>3, PutCases
<1>7. DOMAIN e = 1 .. Len(e) /\ Toplevel(e) \subseteq 1 .. Len(e)
    BY <1>2, DocIs, ToplevelIs
<1>8. BracketsMatch(e)
    BY <1>5, <1>6, <1>7 DEF BracketsMatch
<1> QED
    BY <1>8 DEF e

\* The sections of the other lines, if no header is lost and one is added at the
\* end at most.
LEMMA PutSection ==
    ASSUME NEW d \in Docs, NEW a, NEW b, Place(d, a, b), NEW l, GoodLine(l),
           \A i \in a .. b : i \notin Headers(d),
           l.kind # "table" \/ l.off \/ b = Len(d)
    PROVE  LET e == Put(d, a, b, l)
           IN  /\ \A j \in 0 .. a - 1 : SectionAt(e, j) = SectionAt(d, j)
               /\ SectionAt(e, a) = IF l.kind = "table" /\ ~l.off THEN l.at
                                                               ELSE SectionAt(d, a - 1)
               /\ \A j \in b + 1 .. Len(d) : SectionAt(e, j + (a - b)) = SectionAt(d, j)
<1> DEFINE e == Put(d, a, b, l)
           n == Len(d)
<1>1. a \in 1 .. n + 1 /\ b \in a - 1 .. n /\ n \in Nat /\ a \in Nat /\ b \in Nat
    BY DocIs DEF Place
<1>2. /\ e \in Docs /\ Len(e) = n + (a - b)
      /\ \A j \in 1 .. a - 1 : e[j] = d[j]
      /\ e[a] = l
      /\ \A j \in b + 1 .. n : e[j + (a - b)] = d[j]
    BY <1>1, PutLines
<1>3. /\ \A i \in 1 .. a - 1 : i \in Toplevel(e) <=> i \in Toplevel(d)
      /\ a \in Toplevel(e) <=> ~l.off
      /\ \A j \in b + 1 .. n : j + (a - b) \in Toplevel(e) <=> j \in Toplevel(d)
    BY PutToplevel
<1> HIDE DEF e
<1>4. /\ \A i \in 1 .. a - 1 : i \in Headers(e) <=> i \in Headers(d)
      /\ a \in Headers(e) <=> l.kind = "table" /\ ~l.off
      /\ \A j \in b + 1 .. n : j + (a - b) \in Headers(e) <=> j \in Headers(d)
    BY <1>2, <1>3, ToplevelIs
<1>5. \A j \in 0 .. a - 1 : SectionAt(e, j) = SectionAt(d, j)
    <2> DEFINE S == {j \in 0 .. a - 1 : SectionAt(e, j) = SectionAt(d, j)}
    <2>1. 0 \in S
        BY <1>1, <1>2, SectionIs
    <2>2. ASSUME NEW j \in 0 + 1 .. a - 1, j - 1 \in S PROVE j \in S
        <3>1. j \in 1 .. n /\ j \in 1 .. Len(e) /\ e[j] = d[j]
            BY <1>1, <1>2
        <3> QED
            BY <1>2, <1>4, <2>2, <3>1, SectionIs
    <2> HIDE DEF S
    <2>3. \A j \in 0 .. a - 1 : j \in S
        <3>1. a - 1 \in Nat /\ 0 \in Nat
            BY <1>1
        <3> QED
            BY <2>1, <2>2, <3>1, IntervalInduction
    <2> QED
        BY <2>3 DEF S
<1>6. SectionAt(e, a) = IF l.kind = "table" /\ ~l.off THEN l.at ELSE SectionAt(d, a - 1)
    <2>1. a \in 1 .. Len(e) /\ a - 1 \in 0 .. a - 1
        BY <1>1, <1>2
    <2> QED
        BY <1>2, <1>4, <1>5, <2>1, SectionIs
<1>7. b # n => SectionAt(d, b) = SectionAt(d, a - 1)
    <2> DEFINE S == {j \in a - 1 .. b : SectionAt(d, j) = SectionAt(d, a - 1)}
    <2>1. a - 1 \in S /\ a - 1 \in Nat
        BY <1>1
    <2>2. ASSUME NEW j \in (a - 1) + 1 .. b, j - 1 \in S PROVE j \in S
        <3>1. j \in 1 .. n /\ j \notin Headers(d) /\ j \in a - 1 .. b
            BY <1>1
        <3> QED
            BY <2>2, <3>1, SectionIs
    <2> HIDE DEF S
    <2>3. \A j \in a - 1 .. b : j \in S
        BY <1>1, <2>1, <2>2, IntervalInduction
    <2>4. b \in a - 1 .. b
        BY <1>1
    <2> QED
        BY <2>3, <2>4 DEF S
<1>8. ASSUME b # n PROVE \A j \in b .. n : SectionAt(e, j + (a - b)) = SectionAt(d, j)
    <2> DEFINE S == {j \in b .. n : SectionAt(e, j + (a - b)) = SectionAt(d, j)}
    <2>1. b \in S
        <3>1. b + (a - b) = a
            BY <1>1
        <3> QED
            BY <1>1, <1>6, <1>7, <1>8, <3>1
    <2>2. ASSUME NEW j \in b + 1 .. n, j - 1 \in S PROVE j \in S
        <3>1. /\ j \in 1 .. n /\ j \in b .. n /\ j + (a - b) \in 1 .. n + (a - b)
              /\ (j - 1) + (a - b) = (j + (a - b)) - 1
            BY <1>1
        <3>2. j + (a - b) \in 1 .. Len(e) /\ e[j + (a - b)] = d[j]
            BY <1>2, <3>1
        <3>3. j + (a - b) \in Headers(e) <=> j \in Headers(d)
            BY <1>4
        <3>4. SectionAt(e, (j + (a - b)) - 1) = SectionAt(d, j - 1)
            BY <2>2, <3>1
        <3>5. SectionAt(e, j + (a - b)) = SectionAt(d, j)
            BY <1>2, <3>1, <3>2, <3>3, <3>4, SectionIs
        <3> QED
            BY <3>1, <3>5
    <2> HIDE DEF S
    <2>3. \A j \in b .. n : j \in S
        BY <1>1, <2>1, <2>2, IntervalInduction
    <2> QED
        BY <2>3 DEF S
<1>9. \A j \in b + 1 .. n : SectionAt(e, j + (a - b)) = SectionAt(d, j)
    BY <1>1, <1>8
<1> QED
    BY <1>5, <1>6, <1>9 DEF e

\* Where an assignment ends: at the first line at which no bracket is open.
LEMMA LastLineIs ==
    ASSUME NEW d \in Docs, BracketsMatch(d), NEW i \in 1 .. Len(d)
    PROVE  /\ LastLine(d, i) \in i .. Len(d) /\ Depth(d, LastLine(d, i)) = 0
           /\ \A j \in i .. Len(d) : Depth(d, j) = 0 => LastLine(d, i) <= j
<1> DEFINE S == {j \in i .. Len(d) : Depth(d, j) = 0}
<1>1. Len(d) \in Nat /\ Len(d) \in S /\ S \subseteq 0 .. Len(d)
    BY DocIs DEF BracketsMatch
<1>2. Min(S) \in S /\ \A j \in S : Min(S) <= j
    <2> HIDE DEF S
    <2> QED
        BY <1>1, MinOf
<1> QED
    BY <1>2 DEF LastLine

LEMMA SubSeqSame ==
    ASSUME NEW d \in Docs, NEW e \in Docs, NEW i \in Int, NEW j \in Int, NEW t \in Int,
           i .. j \subseteq 1 .. Len(d),
           \A k \in i .. j : k + t \in 1 .. Len(e) /\ e[k + t] = d[k]
    PROVE  SubSeq(e, i + t, j + t) = SubSeq(d, i, j)
<1>1. /\ SubSeq(d, i, j) \in Seq(Line)
      /\ Len(SubSeq(d, i, j)) = IF i <= j THEN j - i + 1 ELSE 0
      /\ \A k \in 1 .. j - i + 1 : SubSeq(d, i, j)[k] = d[i + k - 1]
    <2>1. \A k \in i .. j : d[k] \in Line
        BY DocIs
    <2> QED
        BY <2>1, SubSeqProperties
<1>2. /\ SubSeq(e, i + t, j + t) \in Seq(Line)
      /\ Len(SubSeq(e, i + t, j + t)) = IF i + t <= j + t THEN (j + t) - (i + t) + 1 ELSE 0
      /\ \A k \in 1 .. (j + t) - (i + t) + 1 : SubSeq(e, i + t, j + t)[k] = e[(i + t) + k - 1]
    <2>1. ASSUME NEW k \in i + t .. j + t PROVE e[k] \in Line
        <3>1. k - t \in i .. j /\ (k - t) + t = k
            OBVIOUS
        <3> QED
            BY <3>1, DocIs
    <2>2. i + t \in Int /\ j + t \in Int
        OBVIOUS
    <2> QED
        BY <2>1, <2>2, SubSeqProperties
<1>3. (j + t) - (i + t) = j - i /\ (i + t <= j + t <=> i <= j)
    OBVIOUS
<1>4. Len(SubSeq(e, i + t, j + t)) = Len(SubSeq(d, i, j))
    BY <1>1, <1>2, <1>3
<1>5. ASSUME NEW k \in 1 .. Len(SubSeq(e, i + t, j + t))
      PROVE  SubSeq(e, i + t, j + t)[k] = SubSeq(d, i, j)[k]
    <2>1. k \in 1 .. j - i + 1
        BY <1>2, <1>3, <1>5
    <2>2. i + k - 1 \in i .. j /\ (i + t) + k - 1 = (i + k - 1) + t
        BY <2>1
    <2> QED
        BY <1>1, <1>2, <1>3, <2>1, <2>2
<1> QED
    BY <1>1, <1>2, <1>4, <1>5, SeqEqual

LiveItem(d, i) == [path |-> LivePath(d, i), lines |-> SubSeq(d, i, LastLine(d, i))]

LEMMA LiveIs ==
    ASSUME NEW d
    PROVE  Live(d) = {LiveItem(d, i) : i \in Assignments(d)}
    BY DEF Live, LiveItem

\* The assignments of the other lines stay what they were.
ItemsKept(d, e, a, b, l) ==
    /\ \A i \in 1 .. a - 1 : /\ i \in Assignments(e) <=> i \in Assignments(d)
                             /\ LiveItem(e, i) = LiveItem(d, i)
    /\ \A j \in b + 1 .. Len(d) :
          /\ j + (a - b) \in Assignments(e) <=> j \in Assignments(d)
          /\ LiveItem(e, j + (a - b)) = LiveItem(d, j)
    /\ a \in Assignments(e) <=> l.kind = "key" /\ ~l.off
    /\ l.kind = "key" =>
          LiveItem(e, a) = [path |-> SectionAt(d, a - 1) \o l.at, lines |-> <<l>>]

LEMMA PutItems ==
    ASSUME NEW d \in Docs, BracketsMatch(d),
           NEW a, NEW b, NEW l, Fits(d, a, b, l)
    PROVE  ItemsKept(d, Put(d, a, b, l), a, b, l)
<1> DEFINE e == Put(d, a, b, l)
           n == Len(d)
           t == a - b
<1>0. Place(d, a, b) /\ GoodLine(l)
    BY DEF Fits
<1>1. /\ a \in 1 .. n + 1 /\ b \in a - 1 .. n /\ n \in Nat /\ a \in Nat /\ b \in Nat
      /\ Depth(d, a - 1) = 0 /\ Depth(d, b) = 0
    BY <1>0, DocIs DEF Place
<1>2. /\ e \in Docs /\ Len(e) = n + t
      /\ \A j \in 1 .. a - 1 : e[j] = d[j]
      /\ e[a] = l
      /\ \A j \in b + 1 .. n : e[j + t] = d[j]
    BY <1>0, <1>1, PutLines
<1>3. /\ \A j \in 0 .. a - 1 : Depth(e, j) = Depth(d, j)
      /\ Depth(e, a) = 0
      /\ \A j \in b .. n : Depth(e, j + t) = Depth(d, j)
    BY <1>0, PutDepth
<1>4. /\ \A i \in 1 .. a - 1 : i \in Toplevel(e) <=> i \in Toplevel(d)
      /\ a \in Toplevel(e) <=> ~l.off
      /\ \A j \in b + 1 .. n : j + t \in Toplevel(e) <=> j \in Toplevel(d)
    BY <1>0, PutToplevel
<1>5. /\ \A j \in 0 .. a - 1 : SectionAt(e, j) = SectionAt(d, j)
      /\ SectionAt(e, a) = IF l.kind = "table" /\ ~l.off THEN l.at ELSE SectionAt(d, a - 1)
      /\ \A j \in b + 1 .. n : SectionAt(e, j + t) = SectionAt(d, j)
    BY PutSection DEF Fits
<1>6. BracketsMatch(e)
    BY <1>0, PutBrackets
<1> HIDE DEF e
<1>7. ASSUME NEW i \in 1 .. a - 1
      PROVE  (i \in Assignments(e) <=> i \in Assignments(d)) /\ LiveItem(e, i) = LiveItem(d, i)
    <2>1. i \in Assignments(e) <=> i \in Assignments(d)
        BY <1>2, <1>4, ToplevelIs
    <2>2. i \in 1 .. n /\ i \in 1 .. Len(e) /\ a - 1 \in i .. n /\ a - 1 \in i .. Len(e)
        BY <1>1, <1>2
    <2>3. LastLine(d, i) \in i .. a - 1 /\ LastLine(e, i) \in i .. a - 1
        BY <1>1, <1>2, <1>3, <1>6, <2>2, LastLineIs
    <2>4. LastLine(e, i) = LastLine(d, i)
        <3>1. /\ LastLine(d, i) \in 0 .. a - 1 /\ LastLine(e, i) \in 0 .. a - 1
              /\ LastLine(d, i) \in i .. Len(e) /\ LastLine(e, i) \in i .. n
            BY <1>1, <1>2, <2>3
        <3>2. LastLine(e, i) <= LastLine(d, i)
            BY <1>2, <1>3, <1>6, <2>2, <3>1, LastLineIs
        <3>3. LastLine(d, i) <= LastLine(e, i)
            BY <1>2, <1>3, <1>6, <2>2, <3>1, LastLineIs
        <3> QED
            BY <1>1, <3>1, <3>2, <3>3
    <2>5. SubSeq(e, i + 0, LastLine(d, i) + 0) = SubSeq(d, i, LastLine(d, i))
        <3>1. /\ i \in Int /\ LastLine(d, i) \in Int /\ 0 \in Int
              /\ i .. LastLine(d, i) \subseteq 1 .. n
            BY <1>1, <2>2, <2>3
        <3>2. \A k \in i .. LastLine(d, i) : k + 0 \in 1 .. Len(e) /\ e[k + 0] = d[k]
            BY <1>1, <1>2, <2>2, <2>3
        <3> QED
            BY <1>2, <3>1, <3>2, SubSeqSame
    <2>6. i + 0 = i /\ LastLine(d, i) + 0 = LastLine(d, i)
        BY <2>2, <2>3
    <2>7. LivePath(e, i) = LivePath(d, i)
        <3>1. i \in 0 .. a - 1
            BY <1>1
        <3> QED
            BY <1>2, <1>5, <3>1 DEF LivePath
    <2> QED
        BY <2>1, <2>4, <2>5, <2>6, <2>7 DEF LiveItem
<1>8. ASSUME NEW j \in b + 1 .. n
      PROVE  /\ j + t \in Assignments(e) <=> j \in Assignments(d)
             /\ LiveItem(e, j + t) = LiveItem(d, j)
    <2>1. j + t \in Assignments(e) <=> j \in Assignments(d)
        BY <1>2, <1>4, ToplevelIs
    <2>2. j \in 1 .. n /\ j + t \in 1 .. Len(e) /\ t \in Int
        BY <1>1, <1>2
    <2>3. /\ LastLine(d, j) \in j .. n /\ LastLine(e, j + t) \in j + t .. Len(e)
          /\ Depth(d, LastLine(d, j)) = 0 /\ Depth(e, LastLine(e, j + t)) = 0
        BY <1>2, <1>6, <2>2, LastLineIs
    <2>4. LastLine(e, j + t) = LastLine(d, j) + t
        <3> DEFINE L == LastLine(d, j)
                   K == LastLine(e, j + t) - t
        <3>1. /\ L \in b .. n /\ K \in b .. n /\ K \in j .. n
              /\ L + t \in j + t .. Len(e) /\ K + t = LastLine(e, j + t)
            <4>1. /\ j \in Int /\ t \in Int /\ n \in Int /\ b \in Int /\ b + 1 <= j
                  /\ Len(e) = n + t
                BY <1>1, <1>2, <2>2
            <4>2. LastLine(d, j) \in j .. n /\ LastLine(e, j + t) \in j + t .. n + t
                BY <1>2, <2>3
            <4> HIDE DEF t, n
            <4> QED
                BY <4>1, <4>2
        <3>2. Depth(e, L + t) = 0 /\ Depth(d, K) = 0
            BY <1>3, <2>3, <3>1
        <3>3. LastLine(e, j + t) <= L + t
            BY <1>2, <1>6, <2>2, <3>1, <3>2, LastLineIs
        <3>4. L <= K
            BY <1>2, <1>6, <2>2, <3>1, <3>2, LastLineIs
        <3> HIDE DEF L
        <3> QED
            BY <1>1, <2>2, <2>3, <3>1, <3>3, <3>4 DEF L
    <2>5. SubSeq(e, j + t, LastLine(d, j) + t) = SubSeq(d, j, LastLine(d, j))
        <3>1. /\ j \in Int /\ LastLine(d, j) \in Int
              /\ j .. LastLine(d, j) \subseteq 1 .. n
            BY <1>1, <2>2, <2>3
        <3>2. \A k \in j .. LastLine(d, j) : k + t \in 1 .. Len(e) /\ e[k + t] = d[k]
            <4>1. ASSUME NEW k \in j .. LastLine(d, j) PROVE k \in b + 1 .. n /\ k + t \in 1 .. n + t
                BY <1>1, <2>2, <2>3
            <4> QED
                BY <1>2, <4>1
        <3> DEFINE L == LastLine(d, j)
        <3>3. j \in Int /\ L \in Int /\ t \in Int /\ j .. L \subseteq 1 .. Len(d) /\ e \in Docs
            BY <1>2, <2>2, <3>1
        <3>4. \A k \in j .. L : k + t \in 1 .. Len(e) /\ e[k + t] = d[k]
            BY <3>2
        <3> HIDE DEF t, L
        <3>5. SubSeq(e, j + t, L + t) = SubSeq(d, j, L)
            BY <3>3, <3>4, SubSeqSame
        <3> QED
            BY <3>5 DEF L
    <2>6. LivePath(e, j + t) = LivePath(d, j)
        BY <1>2, <1>5 DEF LivePath
    <2> QED
        BY <2>1, <2>4, <2>5, <2>6 DEF LiveItem
<1>9. a \in Assignments(e) <=> l.kind = "key" /\ ~l.off
    BY <1>2, <1>4, ToplevelIs
<1>10. ASSUME l.kind = "key"
       PROVE  LiveItem(e, a) = [path |-> SectionAt(d, a - 1) \o l.at, lines |-> <<l>>]
    <2>1. a \in 1 .. Len(e) /\ a \in a .. Len(e)
        BY <1>1, <1>2
    <2>2. LastLine(e, a) = a
        <3>1. LastLine(e, a) \in a .. Len(e) /\ LastLine(e, a) <= a
            BY <1>2, <1>3, <1>6, <2>1, LastLineIs
        <3> QED
            BY <1>1, <3>1
    <2>3. SubSeq(e, a, a) = <<l>>
        <3>1. a \in Int /\ e[a] \in Line
            BY <1>1, <1>2, <2>1, DocIs
        <3>2. \A i \in a .. a : e[i] \in Line
            BY <3>1
        <3>3. /\ SubSeq(e, a, a) \in Seq(Line) /\ Len(SubSeq(e, a, a)) = 1
              /\ SubSeq(e, a, a)[1] = e[a]
            BY <3>1, <3>2, SubSeqProperties
        <3>4. <<l>> \in Seq(Line) /\ Len(<<l>>) = 1 /\ <<l>>[1] = l
            BY <1>0 DEF GoodLine
        <3>5. \A i \in 1 .. Len(SubSeq(e, a, a)) : SubSeq(e, a, a)[i] = <<l>>[i]
            BY <1>2, <3>3, <3>4
        <3> QED
            BY <3>3, <3>4, <3>5, SeqEqual
    <2>4. LivePath(e, a) = SectionAt(d, a - 1) \o l.at
        BY <1>2, <1>5, <1>10 DEF LivePath
    <2> QED
        BY <2>2, <2>3, <2>4 DEF LiveItem
<1> QED
    BY <1>7, <1>8, <1>9, <1>10 DEF e, ItemsKept

-----------------------------------------------------------------------------
(* Assignments after a line was put *)

\* The line of the old document that line i of the new one was.
Origin(a, b, i) == IF i < a THEN i ELSE i - (a - b)

Slot(n, a, b) == n \in Nat /\ a \in 1 .. n + 1 /\ b \in a - 1 .. n

Origins(n, a, b) ==
    /\ \A i \in 1 .. n + (a - b) : i # a =>
          \/ Origin(a, b, i) \in 1 .. a - 1 /\ Origin(a, b, i) = i
          \/ Origin(a, b, i) \in b + 1 .. n /\ i = Origin(a, b, i) + (a - b)
    /\ \A i, j \in 1 .. n + (a - b) :
          i # a /\ j # a /\ i # j => Origin(a, b, i) # Origin(a, b, j)
    /\ \A k \in 1 .. n : k \notin a .. b =>
          \E i \in 1 .. n + (a - b) : i # a /\ Origin(a, b, i) = k

LEMMA OriginIs ==
    ASSUME NEW n, NEW a, NEW b, Slot(n, a, b)
    PROVE  Origins(n, a, b)
<1>1. ASSUME NEW i \in 1 .. n + (a - b), i # a
      PROVE  \/ Origin(a, b, i) \in 1 .. a - 1 /\ Origin(a, b, i) = i
             \/ Origin(a, b, i) \in b + 1 .. n /\ i = Origin(a, b, i) + (a - b)
    BY <1>1 DEF Origin, Slot
<1>2. ASSUME NEW i \in 1 .. n + (a - b), NEW j \in 1 .. n + (a - b),
             i # a, j # a, i # j
      PROVE  Origin(a, b, i) # Origin(a, b, j)
    BY <1>2 DEF Origin, Slot
<1>3. ASSUME NEW k \in 1 .. n, k \notin a .. b
      PROVE  \E i \in 1 .. n + (a - b) : i # a /\ Origin(a, b, i) = k
    <2>1. CASE k < a
        <3>1. k \in 1 .. n + (a - b) /\ k # a /\ Origin(a, b, k) = k
            BY <2>1 DEF Origin, Slot
        <3> QED
            BY <3>1
    <2>2. CASE k > b
        <3>1. /\ k + (a - b) \in 1 .. n + (a - b) /\ k + (a - b) # a
              /\ Origin(a, b, k + (a - b)) = k
            BY <2>2 DEF Origin, Slot
        <3> QED
            BY <3>1
    <2> QED
        BY <1>3, <2>1, <2>2 DEF Slot
<1> QED
    BY <1>1, <1>2, <1>3 DEF Origins

\* What the lines of the new document are, in terms of their origins.
LEMMA PutOrigins ==
    ASSUME NEW d \in Docs, BracketsMatch(d),
           NEW a, NEW b, NEW l, Fits(d, a, b, l)
    PROVE  LET e == Put(d, a, b, l)
           IN  \A i \in 1 .. Len(e) : i # a =>
                 /\ e[i] = d[Origin(a, b, i)]
                 /\ i \in Headers(e) <=> Origin(a, b, i) \in Headers(d)
                 /\ i \in Assignments(e) <=> Origin(a, b, i) \in Assignments(d)
                 /\ LiveItem(e, i) = LiveItem(d, Origin(a, b, i))
<1> DEFINE e == Put(d, a, b, l)
           n == Len(d)
<1>0. Place(d, a, b) /\ GoodLine(l)
    BY DEF Fits
<1>1. a \in 1 .. n + 1 /\ b \in a - 1 .. n /\ n \in Nat /\ Slot(n, a, b)
    BY <1>0, DocIs DEF Place, Slot
<1>2. /\ e \in Docs /\ Len(e) = n + (a - b)
      /\ \A j \in 1 .. a - 1 : e[j] = d[j]
      /\ \A j \in b + 1 .. n : e[j + (a - b)] = d[j]
    BY <1>0, <1>1, PutLines
<1>3. /\ \A i \in 1 .. a - 1 : i \in Toplevel(e) <=> i \in Toplevel(d)
      /\ \A j \in b + 1 .. n : j + (a - b) \in Toplevel(e) <=> j \in Toplevel(d)
    BY <1>0, PutToplevel
<1>4. /\ \A i \in 1 .. a - 1 : /\ i \in Assignments(e) <=> i \in Assignments(d)
                               /\ LiveItem(e, i) = LiveItem(d, i)
      /\ \A j \in b + 1 .. n : /\ j + (a - b) \in Assignments(e) <=> j \in Assignments(d)
                               /\ LiveItem(e, j + (a - b)) = LiveItem(d, j)
    <2>1. ItemsKept(d, e, a, b, l)
        BY PutItems
    <2> HIDE DEF e
    <2> QED
        BY <2>1 DEF ItemsKept
<1> HIDE DEF e
<1>5. /\ \A i \in 1 .. a - 1 : i \in Headers(e) <=> i \in Headers(d)
      /\ \A j \in b + 1 .. n : j + (a - b) \in Headers(e) <=> j \in Headers(d)
    <2>1. Headers(e) = {i \in Toplevel(e) : e[i].kind = "table"}
        BY <1>2, ToplevelIs
    <2>2. Headers(d) = {i \in Toplevel(d) : d[i].kind = "table"}
        BY ToplevelIs
    <2> QED
        BY <1>2, <1>3, <2>1, <2>2
<1>6. ASSUME NEW i \in 1 .. Len(e), i # a
      PROVE  /\ e[i] = d[Origin(a, b, i)]
             /\ i \in Headers(e) <=> Origin(a, b, i) \in Headers(d)
             /\ i \in Assignments(e) <=> Origin(a, b, i) \in Assignments(d)
             /\ LiveItem(e, i) = LiveItem(d, Origin(a, b, i))
    <2>1. \/ Origin(a, b, i) \in 1 .. a - 1 /\ Origin(a, b, i) = i
          \/ Origin(a, b, i) \in b + 1 .. n /\ i = Origin(a, b, i) + (a - b)
        <3>1. i \in 1 .. n + (a - b)
            BY <1>2
        <3>2. Origins(n, a, b)
            BY <1>1, OriginIs
        <3> QED
            BY <1>6, <3>1, <3>2 DEF Origins
    <2> QED
        BY <1>2, <1>4, <1>5, <2>1
<1> QED
    BY <1>6 DEF e

\* Toml reads the assignment l of p in document e, and otherwise what it read in d.
Takes(d, e, p, l) ==
    /\ IsToml(e)
    /\ Live(e) = {x \in Live(d) : x.path # p}
                   \cup (IF l.off THEN {} ELSE {[path |-> p, lines |-> <<l>>]})

\* The lines from a to b hold the assignments of p and no other.
Only(d, a, b, p) == \A i \in Assignments(d) : i \in a .. b <=> LivePath(d, i) = p

\* An assignment of p in place of the lines from a to b, in the section of p: it is
\* the only one of p, and the others are what they were.
LEMMA PutKey ==
    ASSUME NEW d \in Docs, IsToml(d),
           NEW a, NEW b, NEW l, Fits(d, a, b, l), l.kind = "key",
           NEW p, SectionAt(d, a - 1) \o l.at = p, Only(d, a, b, p)
    PROVE  Takes(d, Put(d, a, b, l), p, l)
<1> DEFINE e == Put(d, a, b, l)
           n == Len(d)
           o(i) == Origin(a, b, i)
           new == [path |-> p, lines |-> <<l>>]
<1>0. Place(d, a, b) /\ GoodLine(l) /\ l.off \in BOOLEAN
    BY DEF Fits, GoodLine, Line
<1>1. /\ a \in 1 .. n + 1 /\ b \in a - 1 .. n /\ n \in Nat /\ BracketsMatch(d)
      /\ b \in Int /\ a \in Int /\ Slot(n, a, b)
    BY <1>0, DocIs DEF Place, IsToml, Slot
<1>2. e \in Docs /\ Len(e) = n + (a - b) /\ e[a] = l
    <2>1. IsPut(d, e, a, b, l)
        BY <1>0, PutIs
    <2> HIDE DEF e
    <2> QED
        BY <2>1 DEF IsPut
<1>3. BracketsMatch(e)
    BY <1>0, <1>1, PutBrackets
<1>4. \A i \in 1 .. Len(e) : i # a =>
          /\ e[i] = d[o(i)]
          /\ i \in Headers(e) <=> o(i) \in Headers(d)
          /\ i \in Assignments(e) <=> o(i) \in Assignments(d)
          /\ LiveItem(e, i) = LiveItem(d, o(i))
    BY <1>1, PutOrigins
<1>5. (a \in Assignments(e) <=> ~l.off) /\ LiveItem(e, a) = new
    <2>1. /\ a \in Assignments(e) <=> l.kind = "key" /\ ~l.off
          /\ l.kind = "key" =>
                LiveItem(e, a) = [path |-> SectionAt(d, a - 1) \o l.at, lines |-> <<l>>]
        <3>1. ItemsKept(d, e, a, b, l)
            BY <1>1, PutItems
        <3> HIDE DEF e
        <3> QED
            BY <3>1 DEF ItemsKept
    <2> QED
        BY <2>1
<1>6. /\ \A i \in 1 .. Len(e) : i # a => o(i) \in 1 .. n /\ o(i) \notin a .. b
      /\ \A i, j \in 1 .. Len(e) : i # a /\ j # a /\ i # j => o(i) # o(j)
      /\ \A k \in 1 .. n : k \notin a .. b => \E i \in 1 .. Len(e) : i # a /\ o(i) = k
    <2>1. \A i \in 1 .. Len(e) : i # a => o(i) \in 1 .. a - 1 \/ o(i) \in b + 1 .. n
        <3>1. Origins(n, a, b)
            BY <1>1, OriginIs
        <3> QED
            BY <1>2, <3>1 DEF Origins
    <2>2. \A k : k \in 1 .. a - 1 \/ k \in b + 1 .. n => k \in 1 .. n /\ k \notin a .. b
        BY <1>1
    <2>3. /\ \A i, j \in 1 .. n + (a - b) : i # a /\ j # a /\ i # j => o(i) # o(j)
          /\ \A k \in 1 .. n : k \notin a .. b => \E i \in 1 .. n + (a - b) : i # a /\ o(i) = k
        <3>1. Origins(n, a, b)
            BY <1>1, OriginIs
        <3> HIDE DEF n
        <3> QED
            BY <3>1 DEF Origins
    <2> HIDE DEF e, o
    <2> QED
        BY <1>2, <2>1, <2>2, <2>3
<1> HIDE DEF e, o, new
<1>7. /\ Headers(e) \subseteq 1 .. Len(e) /\ Assignments(e) \subseteq 1 .. Len(e)
      /\ Headers(d) \subseteq 1 .. n /\ Assignments(d) \subseteq 1 .. n
      /\ \A i \in Headers(e) : e[i].kind = "table"
    BY <1>2, ToplevelIs
<1>8. \A i \in Headers(e) : i # a
    BY <1>2, <1>7
<1>9. \A i \in Assignments(e) : i # a => LivePath(e, i) = LivePath(d, o(i)) /\ LivePath(e, i) # p
    <2>1. ASSUME NEW i \in Assignments(e), i # a
          PROVE  LivePath(e, i) = LivePath(d, o(i)) /\ LivePath(e, i) # p
        <3>1. o(i) \in Assignments(d) /\ LiveItem(e, i) = LiveItem(d, o(i)) /\ o(i) \notin a .. b
            BY <1>4, <1>6, <1>7, <2>1
        <3>2. LivePath(e, i) = LivePath(d, o(i))
            BY <3>1 DEF LiveItem
        <3> QED
            BY <3>1, <3>2 DEF Only
    <2> QED
        BY <2>1
<1>10. a \in Assignments(e) => LivePath(e, a) = p
    BY <1>5 DEF LiveItem, new
<1>11. IsToml(e)
    <2>1. ASSUME NEW i \in Headers(e), NEW j \in Headers(e), i # j PROVE e[i].at # e[j].at
        <3>1. /\ i # a /\ j # a /\ o(i) \in Headers(d) /\ o(j) \in Headers(d)
              /\ e[i] = d[o(i)] /\ e[j] = d[o(j)]
            BY <1>4, <1>7, <1>8
        <3>2. o(i) # o(j)
            BY <1>6, <1>7, <2>1, <3>1
        <3> QED
            BY <3>1, <3>2 DEF IsToml
    <2>2. ASSUME NEW i \in Assignments(e), NEW j \in Assignments(e), i # j
          PROVE  LivePath(e, i) # LivePath(e, j)
        <3>1. CASE i # a /\ j # a
            <4>1. o(i) \in Assignments(d) /\ o(j) \in Assignments(d) /\ o(i) # o(j)
                BY <1>4, <1>6, <1>7, <2>2, <3>1
            <4>2. LivePath(d, o(i)) # LivePath(d, o(j))
                BY <4>1 DEF IsToml
            <4> QED
                BY <1>9, <3>1, <4>2
        <3> QED
            BY <1>9, <1>10, <2>2, <3>1
    <2> QED
        BY <1>3, <2>1, <2>2 DEF IsToml
<1>12. ASSUME NEW x
       PROVE  x \in Live(e) <=> (x \in Live(d) /\ x.path # p) \/ (~l.off /\ x = new)
    <2>1. ASSUME x \in Live(e)
          PROVE  (x \in Live(d) /\ x.path # p) \/ (~l.off /\ x = new)
        <3>1. PICK i \in Assignments(e) : x = LiveItem(e, i)
            BY <2>1, LiveIs
        <3>2. CASE i # a
            <4>1. o(i) \in Assignments(d) /\ x = LiveItem(d, o(i))
                BY <1>4, <1>7, <3>1, <3>2
            <4>2. x.path = LivePath(e, i)
                BY <3>1 DEF LiveItem
            <4> QED
                BY <1>9, <3>2, <4>1, <4>2, LiveIs
        <3> QED
            BY <1>5, <3>1, <3>2
    <2>2. ASSUME x \in Live(d), x.path # p PROVE x \in Live(e)
        <3>1. PICK k \in Assignments(d) : x = LiveItem(d, k)
            BY <2>2, LiveIs
        <3>2. k \notin a .. b
            BY <2>2, <3>1 DEF LiveItem, Only
        <3>3. PICK i \in 1 .. Len(e) : i # a /\ o(i) = k
            BY <1>6, <1>7, <3>2
        <3>4. i \in Assignments(e) /\ x = LiveItem(e, i)
            BY <1>4, <3>1, <3>3
        <3> QED
            BY <3>4, LiveIs
    <2>3. ASSUME ~l.off, x = new PROVE x \in Live(e)
        BY <1>5, <2>3, LiveIs
    <2> QED
        BY <2>1, <2>2, <2>3
<1>13. Live(e) = {x \in Live(d) : x.path # p} \cup (IF l.off THEN {} ELSE {new})
    <2>1. CASE l.off
        BY <1>12, <2>1
    <2>2. CASE ~l.off
        BY <1>12, <2>2
    <2> QED
        BY <2>1, <2>2
<1> QED
    BY <1>11, <1>13 DEF e, new, Takes

\* A line at the end that is no assignment: nothing else changes.
LEMMA PutOther ==
    ASSUME NEW d \in Docs, IsToml(d), NEW l, GoodLine(l), l.kind # "key",
           l.kind = "table" /\ ~l.off => \A h \in Headers(d) : d[h].at # l.at
    PROVE  LET e == Put(d, Len(d) + 1, Len(d), l)
           IN  IsToml(e) /\ Live(e) = Live(d)
<1> DEFINE n == Len(d)
           a == n + 1
           e == Put(d, a, n, l)
           o(i) == Origin(a, n, i)
<1>1. n \in Nat /\ a \in 1 .. n + 1 /\ n \in a - 1 .. n /\ BracketsMatch(d) /\ a - n = 1
    BY DocIs DEF IsToml
<1>2. Place(d, a, n)
    <2>1. a - 1 = n
        BY <1>1
    <2> QED
        BY <1>1, <2>1 DEF Place, BracketsMatch
<1>3. Fits(d, a, n, l)
    BY <1>1, <1>2 DEF Fits
<1>4. e \in Docs /\ Len(e) = n + 1 /\ e[a] = l
    <2>1. IsPut(d, e, a, n, l)
        BY <1>2, PutIs
    <2> HIDE DEF e, a
    <2> QED
        BY <1>1, <2>1 DEF IsPut
<1>5. BracketsMatch(e)
    BY <1>1, <1>2, PutBrackets
<1>6. \A i \in 1 .. Len(e) : i # a =>
          /\ e[i] = d[o(i)]
          /\ i \in Headers(e) <=> o(i) \in Headers(d)
          /\ i \in Assignments(e) <=> o(i) \in Assignments(d)
          /\ LiveItem(e, i) = LiveItem(d, o(i))
    BY <1>1, <1>3, PutOrigins
<1>7. a \notin Assignments(e)
    <2>1. ItemsKept(d, e, a, n, l)
        BY <1>1, <1>3, PutItems
    <2> HIDE DEF e
    <2> QED
        BY <2>1 DEF ItemsKept
<1> HIDE DEF e
<1>8. \A i \in 1 .. Len(e) : i # a => o(i) = i /\ i \in 1 .. n
    BY <1>1, <1>4 DEF Origin
<1>9. /\ Headers(e) \subseteq 1 .. Len(e) /\ Assignments(e) \subseteq 1 .. Len(e)
      /\ Headers(d) \subseteq 1 .. n /\ Assignments(d) \subseteq 1 .. n
      /\ \A i \in Headers(e) : e[i].kind = "table" /\ ~e[i].off
    BY <1>4, ToplevelIs
<1>10. Assignments(e) = Assignments(d) /\ \A i \in Assignments(d) : LiveItem(e, i) = LiveItem(d, i)
    <2>1. \A i \in 1 .. n : i \in 1 .. Len(e) /\ i # a
        BY <1>1, <1>4
    <2> QED
        BY <1>6, <1>7, <1>8, <1>9, <2>1
<1>11. Live(e) = Live(d)
    BY <1>10, LiveIs
<1>12. ASSUME NEW i \in Headers(e), NEW j \in Headers(e), i # j PROVE e[i].at # e[j].at
    <2>1. \A k \in Headers(e) : k # a => k \in Headers(d) /\ e[k] = d[k]
        BY <1>6, <1>8, <1>9
    <2>2. CASE i # a /\ j # a
        BY <1>12, <2>1, <2>2 DEF IsToml
    <2>3. a \in Headers(e) => \A h \in Headers(d) : d[h].at # e[a].at
        BY <1>4, <1>9
    <2> QED
        BY <1>12, <2>1, <2>2, <2>3
<1>13. ASSUME NEW i \in Assignments(e), NEW j \in Assignments(e), i # j
       PROVE  LivePath(e, i) # LivePath(e, j)
    <2>1. \A k \in Assignments(d) : LivePath(e, k) = LivePath(d, k)
        BY <1>10 DEF LiveItem
    <2> QED
        BY <1>10, <1>13, <2>1 DEF IsToml
<1>14. IsToml(e)
    BY <1>5, <1>12, <1>13 DEF IsToml
<1> QED
    BY <1>11, <1>14 DEF e

-----------------------------------------------------------------------------
(* Where applyPatch puts a line *)

\* The section of a line, from the last header above.
LEMMA SectionBelow ==
    ASSUME NEW d \in Docs, NEW i \in 0 .. Len(d)
    PROVE  /\ (\A h \in Headers(d) : h > i) => SectionAt(d, i) = <<>>
           /\ \A h \in Headers(d) :
                 h <= i /\ (\A k \in Headers(d) : k <= i => k <= h) => SectionAt(d, i) = d[h].at
<1> DEFINE above == {h \in Headers(d) : h <= i}
<1>1. Headers(d) \subseteq 1 .. Len(d) /\ Len(d) \in Nat
    BY ToplevelIs, DocIs
<1>2. ASSUME \A h \in Headers(d) : h > i PROVE SectionAt(d, i) = <<>>
    <2>1. above = {}
        BY <1>1, <1>2
    <2> QED
        BY <2>1 DEF SectionAt
<1>3. ASSUME NEW h \in Headers(d), h <= i, \A k \in Headers(d) : k <= i => k <= h
      PROVE  SectionAt(d, i) = d[h].at
    <2>1. above \subseteq Int /\ h \in above /\ \A k \in above : k <= h
        BY <1>1, <1>3
    <2> HIDE DEF above
    <2>2. Max(above) = h /\ above # {}
        BY <2>1, MaxIs
    <2> QED
        BY <2>2 DEF SectionAt, above
<1> QED
    BY <1>2, <1>3

\* Where a new key goes: outside of values.  In a document that toml accepts, if
\* the section has no sub-tables, that is at the end of its section.
Index(d, section) ==
    LET i == SectionInsertIndex(d, section)
    IN  /\ i \in 0 .. Len(d) + 1
        /\ i # 0 => Depth(d, i - 1) = 0
        /\ i \in {0, 1, Len(d) + 1} \cup Headers(d)
        /\ i = 0 => section # <<>> /\ \A h \in Headers(d) : d[h].at # section

LEMMA IndexIs ==
    ASSUME NEW d \in Docs, BracketsMatch(d), NEW section
    PROVE  Index(d, section)
<1> DEFINE n == Len(d)
           i == SectionInsertIndex(d, section)
           tables  == {j \in DOMAIN d : d[j].kind = "table" /\ ~d[j].off}
           headers == {j \in tables : d[j].at = section}
           after   == {j \in tables : /\ \E h \in headers : h < j
                                      /\ d[j].at # section
                                      /\ ~IsStrictPrefix(section, d[j].at)}
           before(lines, none) == IF lines = {} THEN none ELSE Min(lines)
<1>1. n \in Nat /\ tables = Headers(d) /\ tables \subseteq 1 .. n
    BY DocIs, ToplevelIs DEF BracketsMatch
<1>2. \A j \in tables : Depth(d, j - 1) = 0
    BY <1>1, ToplevelIs
<1>3. i = IF section = <<>> THEN before(tables, 1)
          ELSE IF headers = {} THEN 0 ELSE before(after, n + 1)
    BY DEF SectionInsertIndex
<1> HIDE DEF i, tables
<1>4. headers \subseteq tables /\ after \subseteq tables
    OBVIOUS
<1> HIDE DEF after, headers
<1>5. ASSUME NEW S, S \subseteq tables, S # {} PROVE Min(S) \in tables
    <2>1. S \subseteq 0 .. n
        BY <1>1, <1>5
    <2> QED
        BY <1>1, <1>5, <2>1, MinOf
<1>6. CASE section = <<>>
    <2>1. CASE tables = {}
        <3>1. i = 1
            BY <1>3, <1>6, <2>1
        <3> QED
            BY <1>1, <1>6, <3>1, DepthIs DEF Index, i
    <2>2. CASE tables # {}
        <3>1. i = Min(tables) /\ i \in tables
            BY <1>3, <1>5, <1>6, <2>2
        <3> QED
            BY <1>1, <1>2, <1>6, <3>1 DEF Index, i
    <2> QED
        BY <2>1, <2>2
<1>7. CASE section # <<>> /\ headers = {}
    <2>1. i = 0
        BY <1>3, <1>7
    <2>2. \A h \in Headers(d) : d[h].at # section
        BY <1>1, <1>7 DEF headers
    <2> QED
        BY <1>1, <1>7, <2>1, <2>2 DEF Index, i
<1>8. CASE section # <<>> /\ headers # {}
    <2>1. CASE after = {}
        <3>1. i = n + 1
            BY <1>3, <1>8, <2>1
        <3>2. (n + 1) - 1 = n
            BY <1>1
        <3> QED
            BY <1>1, <3>1, <3>2 DEF Index, i, BracketsMatch
    <2>2. CASE after # {}
        <3>1. i = Min(after) /\ i \in tables
            BY <1>3, <1>4, <1>5, <1>8, <2>2
        <3> QED
            BY <1>1, <1>2, <3>1 DEF Index, i
    <2> QED
        BY <2>1, <2>2
<1> QED
    BY <1>6, <1>7, <1>8

LEMMA IndexSection ==
    ASSUME NEW d \in Docs, IsToml(d), NEW section,
           section # <<>> =>
             \A j \in DOMAIN d : d[j].kind = "table" => ~IsStrictPrefix(section, d[j].at),
           SectionInsertIndex(d, section) # 0
    PROVE  SectionAt(d, SectionInsertIndex(d, section) - 1) = section
<1> DEFINE n == Len(d)
           i == SectionInsertIndex(d, section)
           tables  == {j \in DOMAIN d : d[j].kind = "table" /\ ~d[j].off}
           headers == {j \in tables : d[j].at = section}
           after   == {j \in tables : /\ \E h \in headers : h < j
                                      /\ d[j].at # section
                                      /\ ~IsStrictPrefix(section, d[j].at)}
           before(lines, none) == IF lines = {} THEN none ELSE Min(lines)
<1>1. n \in Nat /\ tables = Headers(d) /\ tables \subseteq 1 .. n /\ DOMAIN d = 1 .. n
    BY DocIs, ToplevelIs DEF BracketsMatch, IsToml
<1>2. i = IF section = <<>> THEN before(tables, 1)
          ELSE IF headers = {} THEN 0 ELSE before(after, n + 1)
    BY DEF SectionInsertIndex
<1>3. \A h, k \in headers : h = k
    BY <1>1 DEF IsToml
<1>4. ASSUME section # <<>>, NEW h \in headers, NEW j \in tables, h < j PROVE j \in after
    <2>1. j # h /\ h \in tables /\ d[h].at = section
        BY <1>1, <1>4
    <2>2. d[j].at # section
        BY <1>3, <1>4, <2>1
    <2> QED
        BY <1>1, <1>4, <2>2
<1>5. ASSUME NEW S, S \subseteq tables, S # {}
      PROVE  Min(S) \in S /\ \A j \in S : Min(S) <= j
    <2>1. S \subseteq 0 .. n
        BY <1>1, <1>5
    <2> QED
        BY <1>1, <1>5, <2>1, MinOf
<1>6. CASE section = <<>>
    <2>1. CASE tables = {}
        <3>1. i = 1
            BY <1>2, <1>6, <2>1
        <3> QED
            BY <1>6, <3>1, SectionIs
    <2>2. CASE tables # {}
        <3>1. i = Min(tables) /\ i \in tables /\ \A j \in tables : i <= j
            <4>1. i = Min(tables)
                BY <1>2, <1>6, <2>2
            <4> HIDE DEF i, tables
            <4> QED
                BY <1>5, <2>2, <4>1
        <3>2. i - 1 \in 0 .. n /\ \A h \in Headers(d) : h > i - 1
            <4> HIDE DEF i, tables
            <4> QED
                BY <1>1, <3>1
        <3> QED
            BY <1>6, <3>2, SectionBelow
    <2> QED
        BY <2>1, <2>2
<1>7. CASE section # <<>>
    <2>1. headers # {}
        BY <1>2, <1>7
    <2>2. PICK h \in headers : TRUE
        BY <2>1
    <2>3. h \in tables /\ h \in Headers(d) /\ d[h].at = section /\ h \in 1 .. n
        BY <1>1, <2>2
    <2>4. i - 1 \in 0 .. n /\ h <= i - 1 /\ \A j \in tables : j <= i - 1 => j <= h
        <3>1. CASE after = {}
            <4>1. i = n + 1
                BY <1>2, <1>7, <2>1, <3>1
            <4> HIDE DEF i, after, headers, tables
            <4>2. \A j \in tables : ~(h < j)
                BY <1>4, <1>7, <2>2, <3>1
            <4> QED
                BY <1>1, <2>3, <4>1, <4>2
        <3>2. CASE after # {}
            <4>1. i = Min(after)
                BY <1>2, <1>7, <2>1, <3>2
            <4>2. after \subseteq tables
                OBVIOUS
            <4>3. i \in after /\ \A j \in after : i <= j
                <5> HIDE DEF i, after, headers, tables
                <5> QED
                    BY <1>5, <3>2, <4>1, <4>2
            <4>4. h < i /\ i \in 1 .. n
                <5>1. PICK k \in headers : k < i
                    BY <4>3
                <5> QED
                    BY <1>1, <1>3, <2>2, <4>2, <4>3, <5>1
            <4> HIDE DEF i, after, headers, tables
            <4>5. \A j \in tables : h < j => i <= j
                BY <1>4, <1>7, <2>2, <4>3
            <4> QED
                BY <1>1, <2>3, <4>4, <4>5
        <3> QED
            BY <3>1, <3>2
    <2> HIDE DEF i
    <2>5. SectionAt(d, i - 1) = d[h].at
        BY <1>1, <2>3, <2>4, SectionBelow
    <2> QED
        BY <2>3, <2>5 DEF i
<1> QED
    BY <1>6, <1>7

-----------------------------------------------------------------------------
(* applyPatch *)

PathNames == Seq(STRING) \ {<<>>}

LEMMA AssignmentIs ==
    ASSUME NEW path \in PathNames, NEW enabled \in BOOLEAN, NEW n \in Nat
    PROVE  LET l == Assignment(path, enabled, n)
           IN  /\ GoodLine(l) /\ l.kind = "key" /\ l.off = ~enabled /\ l.text = n
               /\ l.at = <<Last(path)>> /\ Front(path) \in Seq(STRING)
               /\ Front(path) \o l.at = path
<1> DEFINE m == Len(path)
           l == Assignment(path, enabled, n)
<1>1. path \in Seq(STRING) /\ m \in Nat /\ m # 0 /\ Last(path) \in STRING
    BY DEF PathNames, Last
<1>2. <<Last(path)>> \in Seq(STRING) /\ Len(<<Last(path)>>) = 1 /\ <<Last(path)>>[1] = path[m]
    BY <1>1 DEF Last
<1>3. /\ Front(path) \in Seq(STRING) /\ Len(Front(path)) = m - 1
      /\ \A i \in 1 .. m - 1 : Front(path)[i] = path[i]
    BY <1>1 DEF Front
<1>4. Front(path) \o <<Last(path)>> = path
    <2> DEFINE whole == Front(path) \o <<Last(path)>>
    <2>1. whole \in Seq(STRING) /\ Len(whole) = m
        BY <1>1, <1>2, <1>3
    <2>2. ASSUME NEW i \in 1 .. m PROVE whole[i] = path[i]
        <3>1. CASE i = m
            BY <1>1, <1>2, <1>3, <3>1
        <3>2. CASE i # m
            BY <1>1, <1>2, <1>3, <3>2
        <3> QED
            BY <3>1, <3>2
    <2> HIDE DEF whole, m
    <2>3. \A i \in 1 .. Len(whole) : whole[i] = path[i]
        BY <2>1, <2>2
    <2>4. whole = path
        BY <1>1, <2>1, <2>3, SeqEqual DEF m
    <2> QED
        BY <2>4 DEF whole
<1>5. l = [kind |-> "key", at |-> <<Last(path)>>, off |-> ~enabled, open |-> 0, text |-> n]
    BY DEF Assignment, Commented, WithText, Key
<1> HIDE DEF l
<1>6. GoodLine(l)
    BY <1>2, <1>5 DEF GoodLine, Line, Kinds, WellFormed
<1> QED
    BY <1>3, <1>4, <1>5, <1>6 DEF l

LEMMA FindIs ==
    ASSUME NEW d \in Docs, NEW path
    PROVE  /\ SpansAt(d, path) = {} => Find(d, path) = 0
           /\ SpansAt(d, path) # {} => Find(d, path) \in SpansAt(d, path) /\ Find(d, path) # 0
<1> DEFINE spans == SpansAt(d, path)
<1>1. spans \subseteq 0 .. Len(d) /\ Len(d) \in Nat /\ 0 \notin spans
    BY DocIs DEF SpansAt, Spans
<1>2. ASSUME spans # {} PROVE Min(spans) \in spans
    <2> HIDE DEF spans
    <2> QED
        BY <1>1, <1>2, MinOf
<1> QED
    BY <1>1, <1>2 DEF Find

\* A span is a place for a line.
LEMMA SpanFits ==
    ASSUME NEW d \in Docs, BracketsMatch(d), NEW a \in Spans(d),
           NEW l, GoodLine(l), l.kind = "key"
    PROVE  Fits(d, a, EndOf(d, a), l)
<1> DEFINE b == EndOf(d, a)
<1>1. a \in 1 .. Len(d) /\ b \in a .. Len(d) /\ Len(d) \in Nat
    BY SpanLines, DocIs
<1>2. Depth(d, a - 1) = 0 /\ Depth(d, b) = 0 /\ \A i \in a .. b : i \notin Headers(d)
    BY SpanIsClosed
<1> HIDE DEF b
<1>3. a \in 1 .. Len(d) + 1 /\ b \in a - 1 .. Len(d)
    BY <1>1
<1>4. Fits(d, a, b, l)
    BY <1>2, <1>3 DEF Fits, Place
<1> QED
    BY <1>4 DEF b

LEMMA IndexFits ==
    ASSUME NEW d \in Docs, BracketsMatch(d), NEW section,
           NEW l, GoodLine(l), l.kind = "key",
           SectionInsertIndex(d, section) # 0
    PROVE  LET i == SectionInsertIndex(d, section)
           IN  Fits(d, i, i - 1, l) /\ i \in 1 .. Len(d) + 1
<1> DEFINE i == SectionInsertIndex(d, section)
<1>1. Index(d, section)
    BY IndexIs
<1>2. i \in 1 .. Len(d) + 1 /\ Depth(d, i - 1) = 0 /\ Len(d) \in Nat
    BY <1>1, DocIs DEF Index
<1> HIDE DEF i
<1>3. i - 1 \in i - 1 .. Len(d) /\ i .. i - 1 = {}
    BY <1>2
<1>4. Fits(d, i, i - 1, l)
    BY <1>2, <1>3 DEF Fits, Place
<1> QED
    BY <1>2, <1>4 DEF i

\* A line at the end.
LEMMA EndIs ==
    ASSUME NEW d \in Docs, BracketsMatch(d), NEW l, GoodLine(l)
    PROVE  /\ Fits(d, Len(d) + 1, Len(d), l)
           /\ Put(d, Len(d) + 1, Len(d), l) = Append(d, l)
           /\ Append(d, l) \in Docs /\ Len(Append(d, l)) = Len(d) + 1
           /\ BracketsMatch(Append(d, l))
<1> DEFINE n == Len(d)
           a == n + 1
<1>1. /\ n \in Nat /\ d \in Seq(Line) /\ l \in Line
      /\ a \in 1 .. n + 1 /\ n \in a - 1 .. n /\ a - 1 = n /\ a .. n = {}
    BY DocIs DEF GoodLine
<1>2. Place(d, a, n)
    <2> HIDE DEF a
    <2> QED
        BY <1>1 DEF Place, BracketsMatch
<1>3. Fits(d, a, n, l)
    BY <1>1, <1>2 DEF Fits
<1>4. Put(d, a, n, l) = Append(d, l)
    <2>1. SubSeq(d, 1, a - 1) = d
        BY <1>1, SubSeqFull
    <2>2. SubSeq(d, n + 1, n) = <<>>
        BY <1>1, SubSeqEmpty
    <2> DEFINE begin == d \o <<l>>
    <2>3. begin \in Seq(Line) /\ begin = Append(d, l)
        BY <1>1, AppendIsConcat
    <2>4. Put(d, a, n, l) = begin \o <<>>
        BY <2>1, <2>2 DEF Put, Splice
    <2> HIDE DEF begin
    <2> QED
        BY <2>3, <2>4, ConcatEmptySeq
<1>5. IsPut(d, Put(d, a, n, l), a, n, l) /\ BracketsMatch(Put(d, a, n, l))
    BY <1>2, PutIs, PutBrackets
<1>6. Append(d, l) \in Docs /\ Len(Append(d, l)) = n + 1
    <2>1. Len(Append(d, l)) = n + 1
        BY <1>1
    <2> HIDE DEF a
    <2> QED
        BY <1>4, <1>5, <2>1 DEF IsPut
<1> QED
    BY <1>3, <1>4, <1>5, <1>6

Blank == WithText(Text(0), 0)
Header(section) == WithText(Table(section), 0)
Tabled(d, section, line) == Append(Append(Append(Append(d, Blank), Header(section)), Blank), line)

LEMMA TabledIs ==
    ASSUME NEW d \in Docs, NEW section \in PathNames, NEW line, GoodLine(line),
           SectionInsertIndex(d, section) = 0
    PROVE  InsertInSection(d, section, line) = Tabled(d, section, line)
<1> DEFINE n == Len(d)
           h == Header(section)
           four == <<Blank, h, Blank, line>>
<1>1. n \in Nat /\ d \in Seq(Line) /\ line \in Line
    BY DocIs DEF GoodLine
<1>2. Blank \in Line /\ h \in Line
    BY DEF Blank, Header, WithText, Text, Table, Line, Kinds, PathNames
<1>3. InsertInSection(d, section, line) = Splice(d, n + 1, n, << Blank, h, Blank >> \o <<line>>)
    BY DEF InsertInSection, Blank, Header
<1> HIDE DEF h
<1>4. << Blank, h, Blank >> \o <<line>> = four
    <2> DEFINE three == << Blank, h, Blank >>
               one == <<line>>
               whole == three \o one
    <2>1. three \in Seq(Line) /\ Len(three) = 3 /\ one \in Seq(Line) /\ Len(one) = 1
        BY <1>1, <1>2
    <2>2. /\ three[1] = Blank /\ three[2] = h /\ three[3] = Blank /\ one[1] = line
          /\ four[1] = Blank /\ four[2] = h /\ four[3] = Blank /\ four[4] = line
        OBVIOUS
    <2>3. four \in Seq(Line) /\ Len(four) = 4
        BY <1>1, <1>2
    <2> HIDE DEF three, four, one
    <2>4. /\ whole \in Seq(Line) /\ Len(whole) = 4
          /\ \A i \in 1 .. 4 : whole[i] = IF i <= 3 THEN three[i] ELSE one[i - 3]
        <3>1. /\ whole \in Seq(Line) /\ Len(whole) = Len(three) + Len(one)
              /\ \A i \in 1 .. Len(three) + Len(one) :
                    whole[i] = IF i <= Len(three) THEN three[i] ELSE one[i - Len(three)]
            BY <2>1, ConcatProperties
        <3> HIDE DEF whole
        <3>2. Len(three) + Len(one) = 4 /\ Len(three) = 3
            BY <2>1
        <3> QED
            BY <3>1, <3>2
    <2>5. whole[1] = Blank /\ whole[2] = h /\ whole[3] = Blank /\ whole[4] = line
        BY <2>2, <2>4
    <2> HIDE DEF whole
    <2>6. \A i \in 1 .. 4 : whole[i] = four[i]
        BY <2>2, <2>5
    <2>7. whole = four
        BY <2>3, <2>4, <2>6, SeqEqual
    <2> QED
        BY <2>7 DEF whole, three, one
<1>5. SubSeq(d, 1, (n + 1) - 1) = d /\ SubSeq(d, n + 1, n) = <<>>
    BY <1>1, SubSeqFull, SubSeqEmpty
<1>6. four \in Seq(Line)
    BY <1>1, <1>2
<1>7. Splice(d, n + 1, n, four) = d \o four
    <2> DEFINE begin == d \o four
    <2>1. begin \in Seq(Line)
        BY <1>1, <1>6
    <2>2. Splice(d, n + 1, n, four) = begin \o <<>>
        BY <1>5 DEF Splice
    <2> HIDE DEF begin
    <2>3. begin \o <<>> = begin
        BY <2>1, ConcatEmptySeq
    <2> QED
        BY <2>2, <2>3 DEF begin
<1>8. d \o four = Append(Append(Append(Append(d, Blank), h), Blank), line)
    <2> DEFINE e == Append(Append(Append(Append(d, Blank), h), Blank), line)
    <2>1. e \in Seq(Line) /\ Len(e) = n + 4
        BY <1>1, <1>2
    <2>2. d \o four \in Seq(Line) /\ Len(d \o four) = n + 4
        BY <1>1, <1>6
    <2>3. ASSUME NEW i \in 1 .. n + 4 PROVE (d \o four)[i] = e[i]
        <3>1. CASE i \in 1 .. n
            BY <1>1, <1>2, <1>6, <3>1
        <3>2. CASE i = n + 1
            BY <1>1, <1>2, <1>6, <3>2
        <3>3. CASE i = n + 2
            BY <1>1, <1>2, <1>6, <3>3
        <3>4. CASE i = n + 3
            BY <1>1, <1>2, <1>6, <3>4
        <3>5. CASE i = n + 4
            BY <1>1, <1>2, <1>6, <3>5
        <3> QED
            BY <1>1, <3>1, <3>2, <3>3, <3>4, <3>5
    <2> DEFINE f == d \o four
    <2> HIDE DEF e, f, four
    <2>4. Len(f) = Len(e) /\ f \in Seq(Line) /\ \A i \in 1 .. Len(f) : f[i] = e[i]
        BY <2>1, <2>2, <2>3 DEF f
    <2>5. f = e
        BY <2>1, <2>4, SeqEqual
    <2> QED
        BY <2>5 DEF f, e
<1> QED
    BY <1>3, <1>4, <1>7, <1>8 DEF Tabled, h

-----------------------------------------------------------------------------
(* A patch *)

Tables(d) == {d[h].at : h \in Headers(d)}

\* A line at the end that is no assignment, and no table that is there.
LEMMA EndOther ==
    ASSUME NEW d \in Docs, IsToml(d), NEW l, GoodLine(l), l.kind # "key",
           l.kind = "table" /\ ~l.off => l.at \notin Tables(d)
    PROVE  LET e == Append(d, l)
           IN  /\ e \in Docs /\ IsToml(e) /\ Live(e) = Live(d)
               /\ SectionAt(e, Len(e)) = IF l.kind = "table" /\ ~l.off THEN l.at
                                                               ELSE SectionAt(d, Len(d))
               /\ l.kind # "table" => Tables(e) \subseteq Tables(d)
<1> DEFINE n == Len(d)
           e == Append(d, l)
<1>1. BracketsMatch(d) /\ n \in Nat
    BY DocIs DEF IsToml
<1>2. /\ Fits(d, n + 1, n, l) /\ e = Put(d, n + 1, n, l)
      /\ e \in Docs /\ Len(e) = n + 1
    BY <1>1, EndIs
<1>3. IsToml(e) /\ Live(e) = Live(d)
    <2>1. l.kind = "table" /\ ~l.off => \A h \in Headers(d) : d[h].at # l.at
        BY DEF Tables
    <2> QED
        BY <1>2, <2>1, PutOther
<1>4. SectionAt(e, n + 1) = IF l.kind = "table" /\ ~l.off THEN l.at ELSE SectionAt(d, n)
    <2>1. (n + 1) - 1 = n
        BY <1>1
    <2>2. SectionAt(Put(d, n + 1, n, l), n + 1) =
            IF l.kind = "table" /\ ~l.off THEN l.at ELSE SectionAt(d, (n + 1) - 1)
        BY <1>2, PutSection DEF Fits
    <2> QED
        BY <1>2, <2>1, <2>2
<1>5. ASSUME l.kind # "table" PROVE Tables(e) \subseteq Tables(d)
    <2>1. \A i \in 1 .. Len(e) : i # n + 1 =>
            e[i] = d[Origin(n + 1, n, i)] /\ (i \in Headers(e) <=> Origin(n + 1, n, i) \in Headers(d))
        BY <1>1, <1>2, PutOrigins
    <2> HIDE DEF e
    <2>2. \A i \in Headers(e) : i \in 1 .. Len(e) /\ e[i].kind = "table"
        BY <1>2, ToplevelIs
    <2>3. e[n + 1] = l
        <3>1. IsPut(d, e, n + 1, n, l)
            BY <1>2, PutIs DEF Fits
        <3> QED
            BY <3>1 DEF IsPut
    <2> QED
        BY <1>5, <2>1, <2>2, <2>3 DEF Tables
<1> QED
    BY <1>2, <1>3, <1>4, <1>5

LEMMA TableLines ==
    ASSUME NEW section \in PathNames
    PROVE  /\ GoodLine(Blank) /\ Blank.kind = "text" /\ GoodLine(Header(section))
           /\ Header(section).kind = "table" /\ Header(section).at = section
           /\ ~Header(section).off
<1>1. GoodLine(Blank) /\ Blank.kind = "text"
    BY DEF Blank, WithText, Text, GoodLine, WellFormed, Line, Kinds
<1>2. section # <<>> /\ section \in Seq(STRING)
    BY DEF PathNames
<1> DEFINE h == Header(section)
<1>3. h = [kind |-> "table", at |-> section, off |-> FALSE, open |-> 0, text |-> 0]
    BY DEF Header, WithText, Table
<1> HIDE DEF h
<1>4. GoodLine(h) /\ h.kind = "table" /\ h.at = section /\ ~h.off
    BY <1>2, <1>3 DEF GoodLine, WellFormed, Line, Kinds
<1> QED
    BY <1>1, <1>4 DEF h

\* A new table at the end, with one assignment in it.
LEMMA TabledBrackets ==
    ASSUME NEW d \in Docs, BracketsMatch(d), NEW section \in PathNames,
           NEW line, GoodLine(line)
    PROVE  Tabled(d, section, line) \in Docs /\ BracketsMatch(Tabled(d, section, line))
<1> DEFINE d1 == Append(d, Blank)
           d2 == Append(d1, Header(section))
           d3 == Append(d2, Blank)
<1>1. d1 \in Docs /\ BracketsMatch(d1)
    BY TableLines, EndIs
<1> HIDE DEF d1
<1>2. d2 \in Docs /\ BracketsMatch(d2)
    BY <1>1, TableLines, EndIs
<1> HIDE DEF d2
<1>3. d3 \in Docs /\ BracketsMatch(d3)
    BY <1>2, TableLines, EndIs
<1> HIDE DEF d3
<1>4. Append(d3, line) \in Docs /\ BracketsMatch(Append(d3, line))
    BY <1>3, EndIs
<1> QED
    BY <1>4 DEF Tabled, d1, d2, d3

LEMMA TabledLive ==
    ASSUME NEW d \in Docs, IsToml(d), NEW section \in PathNames, section \notin Tables(d),
           NEW l, GoodLine(l), l.kind = "key",
           NEW p, section \o l.at = p, \A x \in Live(d) : x.path # p
    PROVE  Takes(d, Tabled(d, section, l), p, l)
<1> DEFINE d1 == Append(d, Blank)
           d2 == Append(d1, Header(section))
           d3 == Append(d2, Blank)
           n == Len(d3)
           m == n + 1
<1>1. d1 \in Docs /\ IsToml(d1) /\ Live(d1) = Live(d) /\ section \notin Tables(d1)
    BY TableLines, EndOther
<1> HIDE DEF d1
<1>2. d2 \in Docs /\ IsToml(d2) /\ Live(d2) = Live(d) /\ SectionAt(d2, Len(d2)) = section
    BY <1>1, TableLines, EndOther
<1> HIDE DEF d2
<1>3. d3 \in Docs /\ IsToml(d3) /\ Live(d3) = Live(d) /\ SectionAt(d3, n) = section
    BY <1>2, TableLines, EndOther
<1> HIDE DEF d3
<1>4. Fits(d3, m, n, l) /\ Put(d3, m, n, l) = Append(d3, l)
    BY <1>3, EndIs DEF IsToml
<1>5. n \in Nat
    BY <1>3, DocIs
<1>6. SectionAt(d3, m - 1) \o l.at = p
    <2>1. m - 1 = n
        BY <1>5
    <2> QED
        BY <1>3, <2>1
<1>7. Only(d3, m, n, p)
    <2>1. \A i \in Assignments(d3) : LiveItem(d3, i) \in Live(d)
        BY <1>3, LiveIs
    <2>2. \A i \in Assignments(d3) : LivePath(d3, i) # p
        BY <2>1 DEF LiveItem
    <2>3. m .. n = {}
        BY <1>5
    <2> QED
        BY <2>2, <2>3 DEF Only
<1> HIDE DEF n, m
<1>8. Takes(d3, Append(d3, l), p, l)
    <2>1. Takes(d3, Put(d3, m, n, l), p, l)
        BY <1>3, <1>4, <1>6, <1>7, PutKey
    <2> QED
        BY <1>4, <2>1
<1> QED
    BY <1>3, <1>8 DEF Takes, Tabled, d1, d2, d3

\* Where applyPatch puts its line.
LEMMA PatchedCases ==
    ASSUME NEW d \in Docs, BracketsMatch(d), NEW path \in PathNames, NEW enabled \in BOOLEAN,
           NEW n \in Nat
    PROVE  LET l == Assignment(path, enabled, n)
               a == Find(d, path)
               i == SectionInsertIndex(d, Front(path))
           IN  \/ /\ a \in SpansAt(d, path) /\ Fits(d, a, EndOf(d, a), l)
                  /\ Patched(d, path, enabled, n) = Put(d, a, EndOf(d, a), l)
               \/ /\ SpansAt(d, path) = {} /\ i # 0 /\ Fits(d, i, i - 1, l)
                  /\ Patched(d, path, enabled, n) = Put(d, i, i - 1, l)
               \/ /\ SpansAt(d, path) = {} /\ i = 0
                  /\ Front(path) \in PathNames /\ Front(path) \notin Tables(d)
                  /\ Patched(d, path, enabled, n) = Tabled(d, Front(path), l)
<1> DEFINE l == Assignment(path, enabled, n)
           a == Find(d, path)
           section == Front(path)
           i == SectionInsertIndex(d, section)
           e == Patched(d, path, enabled, n)
<1>1. GoodLine(l) /\ l.kind = "key" /\ section \in Seq(STRING)
    BY AssignmentIs
<1>2. e = IF a # 0 THEN ReplaceSpan(d, a, l) ELSE InsertInSection(d, section, l)
    BY DEF Patched
<1>3. CASE SpansAt(d, path) # {}
    <2>1. a \in SpansAt(d, path) /\ a # 0
        BY <1>3, FindIs
    <2>2. a \in Spans(d)
        BY <2>1 DEF SpansAt
    <2> HIDE DEF a, l, e
    <2>3. Fits(d, a, EndOf(d, a), l)
        BY <1>1, <2>2, SpanFits
    <2>4. e = Put(d, a, EndOf(d, a), l)
        BY <1>2, <2>1 DEF ReplaceSpan, Put
    <2> QED
        BY <2>1, <2>3, <2>4 DEF a, l, e
<1>4. CASE SpansAt(d, path) = {}
    <2>1. e = InsertInSection(d, section, l)
        BY <1>2, <1>4, FindIs
    <2> HIDE DEF a, l, e, section
    <2>2. CASE i # 0
        <3>1. Fits(d, i, i - 1, l)
            BY <1>1, <2>2, IndexFits
        <3>2. e = Put(d, i, i - 1, l)
            BY <2>1, <2>2 DEF InsertInSection, Put
        <3> QED
            BY <1>4, <2>2, <3>1, <3>2 DEF l, e, section
    <2>3. CASE i = 0
        <3>1. section # <<>> /\ \A h \in Headers(d) : d[h].at # section
            BY <2>3, IndexIs DEF Index
        <3>2. section \in PathNames /\ section \notin Tables(d)
            BY <1>1, <3>1 DEF PathNames, Tables
        <3>3. e = Tabled(d, section, l)
            BY <1>1, <2>1, <2>3, <3>2, TabledIs
        <3> QED
            BY <1>4, <2>3, <3>2, <3>3 DEF l, e, section
    <2> QED
        BY <2>2, <2>3
<1> QED
    BY <1>3, <1>4

LEMMA PatchedBrackets ==
    ASSUME NEW d \in Docs, BracketsMatch(d), NEW path \in PathNames, NEW enabled \in BOOLEAN,
           NEW n \in Nat
    PROVE  /\ Patched(d, path, enabled, n) \in Docs
           /\ BracketsMatch(Patched(d, path, enabled, n))
<1> DEFINE l == Assignment(path, enabled, n)
           e == Patched(d, path, enabled, n)
<1>1. GoodLine(l) /\ l.kind = "key"
    BY AssignmentIs
<1>2. ASSUME NEW a, NEW b, Fits(d, a, b, l), e = Put(d, a, b, l)
      PROVE  e \in Docs /\ BracketsMatch(e)
    <2>1. Place(d, a, b)
        BY <1>2 DEF Fits
    <2> HIDE DEF l, e
    <2>2. IsPut(d, e, a, b, l) /\ BracketsMatch(e)
        BY <1>1, <1>2, <2>1, PutIs, PutBrackets
    <2> QED
        BY <2>2 DEF IsPut
<1>3. ASSUME Front(path) \in PathNames, e = Tabled(d, Front(path), l)
      PROVE  e \in Docs /\ BracketsMatch(e)
    BY <1>1, <1>3, TabledBrackets
<1> QED
    BY <1>2, <1>3, PatchedCases

LEMMA FrontOf ==
    ASSUME NEW S, NEW s \in Seq(S), NEW t \in Seq(S), Len(t) = 1
    PROVE  Front(s \o t) = s
<1> DEFINE whole == s \o t
           m == Len(s)
           front == SubSeq(whole, 1, Len(whole) - 1)
<1>1. /\ m \in Nat /\ whole \in Seq(S) /\ Len(whole) = m + 1
      /\ \A i \in 1 .. m : whole[i] = s[i]
    <2>1. m \in Nat
        BY LenProperties
    <2>2. /\ whole \in Seq(S) /\ Len(whole) = m + Len(t)
          /\ \A i \in 1 .. m + Len(t) : whole[i] = IF i <= m THEN s[i] ELSE t[i - m]
        BY ConcatProperties
    <2> HIDE DEF whole
    <2> QED
        BY <2>1, <2>2
<1> HIDE DEF whole
<1>2. front = SubSeq(whole, 1, m) /\ \A i \in 1 .. m : whole[i] \in S
    BY <1>1
<1>3. front \in Seq(S) /\ Len(front) = m /\ \A i \in 1 .. m : front[i] = s[i]
    <2> HIDE DEF front
    <2> QED
        BY <1>1, <1>2
<1>4. front = s
    <2> HIDE DEF front
    <2> QED
        BY <1>3, SeqEqual
<1>5. Front(whole) = front
    BY DEF Front
<1> QED
    BY <1>4, <1>5 DEF whole

\* A patch of a clear path takes effect as toml reads the document, and nothing else
\* does.
LEMMA PatchedLive ==
    ASSUME NEW d \in Docs, IsToml(d), NEW path \in PathNames, NEW enabled \in BOOLEAN,
           NEW n \in Nat, Clear(d, path)
    PROVE  Takes(d, Patched(d, path, enabled, n), path, Assignment(path, enabled, n))
<1> DEFINE l == Assignment(path, enabled, n)
           e == Patched(d, path, enabled, n)
           a == Find(d, path)
           b == EndOf(d, a)
           section == Front(path)
           i == SectionInsertIndex(d, section)
<1>1. GoodLine(l) /\ l.kind = "key" /\ section \o l.at = path /\ BracketsMatch(d)
    BY AssignmentIs DEF IsToml
<1>2. /\ Assignments(d) = {j \in Spans(d) : ~d[j].off}
      /\ \A j \in Spans(d) : /\ PathOf(d, j) = SectionAt(d, j) \o d[j].at
                             /\ SectionAt(d, j) = SectionAt(d, j - 1)
    BY <1>1, LiveSpans
<1>3. \A j \in Assignments(d) : LivePath(d, j) = path <=> j \in SpansAt(d, path)
    BY <1>2 DEF LivePath, SpansAt
<1>4. ASSUME a \in SpansAt(d, path), Fits(d, a, b, l), e = Put(d, a, b, l)
      PROVE  Takes(d, e, path, l)
    <2>1. a \in Spans(d) /\ PathOf(d, a) = path
        BY <1>4 DEF SpansAt
    <2>2. SectionAt(d, a - 1) \o l.at = path
        <3> DEFINE above == Scan(d)[a].section
        <3>1. a \in 1 .. Len(d) /\ d[a].kind = "key" /\ Len(d) \in Nat
            BY <2>1, SpanStarts, DocIs
        <3>2. d[a].at \in Seq(STRING) /\ Len(d[a].at) = 1
            BY <3>1, DocIs DEF Line, WellFormed
        <3>3. above \in Seq(STRING)
            BY <3>1, ScanType DEF States
        <3>4. above = SectionAt(d, a - 1)
            <4>1. a \in 0 .. Len(d)
                BY <3>1
            <4>2. above = SectionAt(d, a)
                BY <1>1, <4>1, ScanAgrees DEF Agrees
            <4> QED
                BY <1>2, <2>1, <4>2
        <3>5. above \o d[a].at = path
            BY <2>1 DEF PathOf
        <3>6. section = above
            <4> HIDE DEF above
            <4> QED
                BY <3>2, <3>3, <3>5, FrontOf
        <3> QED
            BY <1>1, <3>4, <3>6
    <2>3. Only(d, a, b, path)
        <3>1. a \in a .. b
            BY <2>1, SpanLines
        <3>2. \A j \in a + 1 .. b : j \notin Assignments(d)
            BY <1>1, <2>1, SpanIsClosed DEF Assignments
        <3>3. \A j \in SpansAt(d, path) : ~d[j].off => j = a
            BY DEF Clear
        <3>4. \A j \in Assignments(d) : j \in Spans(d) /\ ~d[j].off /\ j \in Int
            <4>1. \A j \in Assignments(d) : j \in 1 .. Len(d)
                BY ToplevelIs
            <4> QED
                BY <1>2, <4>1
        <3> HIDE DEF a, b
        <3>5. ASSUME NEW j \in Assignments(d), j \in a .. b PROVE LivePath(d, j) = path
            <4>1. j = a
                BY <3>1, <3>2, <3>4, <3>5
            <4> QED
                BY <1>3, <1>4, <4>1 DEF a
        <3>6. ASSUME NEW j \in Assignments(d), LivePath(d, j) = path PROVE j \in a .. b
            BY <1>3, <3>1, <3>3, <3>4, <3>6
        <3> QED
            BY <3>5, <3>6 DEF Only
    <2> HIDE DEF l, e, a, b
    <2> QED
        BY <1>1, <1>4, <2>2, <2>3, PutKey
<1>5. ASSUME SpansAt(d, path) = {} PROVE \A j \in Assignments(d) : LivePath(d, j) # path
    BY <1>3, <1>5
<1>6. ASSUME SpansAt(d, path) = {}, i # 0, Fits(d, i, i - 1, l), e = Put(d, i, i - 1, l)
      PROVE  Takes(d, e, path, l)
    <2>1. SectionAt(d, i - 1) \o l.at = path
        <3>1. section # <<>> =>
                \A j \in DOMAIN d : d[j].kind = "table" => ~IsStrictPrefix(section, d[j].at)
            BY <1>6 DEF Clear
        <3>2. SectionAt(d, i - 1) = section
            <4> HIDE DEF section
            <4> QED
                BY <1>6, <3>1, IndexSection
        <3> QED
            BY <1>1, <3>2
    <2>2. Only(d, i, i - 1, path)
        <3>1. i \in Int
            BY <1>6 DEF Fits, Place
        <3> HIDE DEF i
        <3>2. i .. i - 1 = {}
            BY <3>1
        <3> QED
            BY <1>5, <1>6, <3>2 DEF Only
    <2> HIDE DEF l, e, i
    <2> QED
        BY <1>1, <1>6, <2>1, <2>2, PutKey
<1>7. ASSUME SpansAt(d, path) = {}, section \in PathNames, section \notin Tables(d),
             e = Tabled(d, section, l)
      PROVE  Takes(d, e, path, l)
    <2>1. \A x \in Live(d) : x.path # path
        BY <1>5, <1>7, LiveIs DEF LiveItem
    <2> HIDE DEF l, e, section
    <2> QED
        BY <1>1, <1>7, <2>1, TabledLive
<1> QED
    BY <1>1, <1>4, <1>6, <1>7, PatchedCases

\* The lines of a patched document: the ones that were there, and those of the patch.
LEMMA PatchedLines ==
    ASSUME NEW d \in Docs, BracketsMatch(d), NEW path \in PathNames, NEW enabled \in BOOLEAN,
           NEW n \in Nat
    PROVE  LET e == Patched(d, path, enabled, n)
           IN  \A i \in 1 .. Len(e) :
                 \/ \E j \in 1 .. Len(d) : e[i] = d[j]
                 \/ e[i] = Assignment(path, enabled, n)
                 \/ e[i] = Blank
                 \/ Front(path) \in PathNames /\ e[i] = Header(Front(path))
<1> DEFINE l == Assignment(path, enabled, n)
           e == Patched(d, path, enabled, n)
           section == Front(path)
           m == Len(d)
<1>1. GoodLine(l) /\ l.kind = "key" /\ l \in Line /\ m \in Nat /\ d \in Seq(Line)
    BY AssignmentIs, DocIs DEF GoodLine
<1> HIDE DEF l
<1>2. ASSUME NEW a, NEW b, Fits(d, a, b, l), e = Put(d, a, b, l), NEW i \in 1 .. Len(e)
      PROVE  (\E j \in 1 .. m : e[i] = d[j]) \/ e[i] = l
    <2>1. IsPut(d, e, a, b, l) /\ a \in 1 .. m + 1 /\ b \in a - 1 .. m
        BY <1>2, PutIs DEF Fits, Place
    <2> HIDE DEF e
    <2>2. i \in 1 .. m + (a - b)
        BY <1>2, <2>1 DEF IsPut
    <2>3. i \in 1 .. a - 1 \/ i = a \/ \E j \in b + 1 .. m : i = j + (a - b)
        BY <1>1, <2>1, <2>2, PutCases
    <2>4. \A j \in 1 .. a - 1 : j \in 1 .. m
        BY <1>1, <2>1
    <2>5. \A j \in b + 1 .. m : j \in 1 .. m
        BY <1>1, <2>1
    <2> QED
        BY <2>1, <2>3, <2>4, <2>5 DEF IsPut
<1>3. ASSUME section \in PathNames, e = Tabled(d, section, l), NEW i \in 1 .. Len(e)
      PROVE  (\E j \in 1 .. m : e[i] = d[j]) \/ e[i] \in {Blank, Header(section), l}
    <2> DEFINE h == Header(section)
    <2>1. Blank \in Line /\ h \in Line
        BY <1>3, TableLines DEF GoodLine
    <2> HIDE DEF h
    <2>2. e = Append(Append(Append(Append(d, Blank), h), Blank), l)
        BY <1>3 DEF Tabled, h
    <2> HIDE DEF e
    <2>3. Len(e) = m + 4 /\ (\A j \in 1 .. m : e[j] = d[j])
        BY <1>1, <2>1, <2>2
    <2>4. e[m + 1] = Blank /\ e[m + 2] = h /\ e[m + 3] = Blank /\ e[m + 4] = l
        BY <1>1, <2>1, <2>2
    <2>5. i \in 1 .. m \/ i \in {m + 1, m + 2, m + 3, m + 4}
        BY <1>1, <1>3, <2>3
    <2> QED
        BY <2>3, <2>4, <2>5 DEF h
<1> QED
    BY <1>2, <1>3, PatchedCases DEF l

-----------------------------------------------------------------------------
(* The calls *)

\* The invariant with which the types are inductive.
TypeInv == TypeOK /\ BracketsMatch(doc)

LEMMA DocsOf ==
    ASSUME TypeOK
    PROVE  src \in Docs /\ doc \in Docs /\ Paths \subseteq PathNames
<1>1. \A l \in DocLines : l \in Line /\ WellFormed(l)
    BY BoundsAssumption DEF DocLines, Line
<1>2. Paths \subseteq PathNames
    BY BoundsAssumption DEF PathNames
<1>3. ASSUME NEW d \in Seq(DocLines) PROVE d \in Docs
    <2>1. d \in Seq(Line)
        BY <1>1
    <2>2. \A i \in DOMAIN d : d[i] \in DocLines
        OBVIOUS
    <2> QED
        BY <1>1, <2>1, <2>2 DEF Docs
<1> QED
    BY <1>2, <1>3 DEF TypeOK

LEMMA InitDoc ==
    ASSUME Init
    PROVE  src \in Seq(DocLines) /\ Len(src) <= MaxLines
<1>1. PICK d \in Documents : src = [i \in DOMAIN d |-> WithText(d[i], i)]
    BY DEF Init
<1>2. PICK n \in 0 .. MaxLines : d \in [1 .. n -> Lines]
    BY <1>1 DEF Documents
<1>3. n \in Nat /\ n <= MaxLines /\ MaxLines \in Nat /\ MaxPatches \in Nat
    BY <1>2, BoundsAssumption
<1>4. ASSUME NEW i \in 1 .. n PROVE WithText(d[i], i) \in DocLines
    <2> DEFINE l == d[i]
    <2>1. /\ l \in [kind : Kinds, at : Seq(STRING), off : BOOLEAN, open : Int]
          /\ WellFormed(l) /\ i \in 0 .. MaxLines + MaxPatches
        BY <1>2, <1>3, <1>4, BoundsAssumption
    <2> HIDE DEF l
    <2>2. WithText(l, i) \in DocLines
        BY <2>1 DEF WithText, DocLines, WellFormed
    <2> QED
        BY <2>2 DEF l
<1>5. src = [i \in 1 .. n |-> WithText(d[i], i)]
    BY <1>1, <1>2
<1>6. src \in [1 .. n -> DocLines]
    BY <1>4, <1>5
<1> QED
    BY <1>3, <1>6

LEMMA PatchDoc ==
    ASSUME TypeInv, NEW path \in Paths, NEW enabled \in BOOLEAN, Len(done) < MaxPatches
    PROVE  LET n == MaxLines + Len(done) + 1
           IN  /\ n \in Nat /\ path \in PathNames /\ doc \in Docs
               /\ Patched(doc, path, enabled, n) \in Seq(DocLines)
               /\ BracketsMatch(Patched(doc, path, enabled, n))
<1> DEFINE n == MaxLines + Len(done) + 1
           e == Patched(doc, path, enabled, n)
           l == Assignment(path, enabled, n)
<1>1. /\ n \in 0 .. MaxLines + MaxPatches /\ 0 \in 0 .. MaxLines + MaxPatches /\ n \in Nat
    BY BoundsAssumption DEF TypeInv, TypeOK
<1>2. doc \in Docs /\ path \in PathNames /\ BracketsMatch(doc) /\ doc \in Seq(DocLines)
    BY DocsOf DEF TypeInv, TypeOK
<1> HIDE DEF n
<1>3. e \in Docs /\ BracketsMatch(e)
    BY <1>1, <1>2, PatchedBrackets
<1>4. ASSUME NEW k \in Line, WellFormed(k), k.text \in 0 .. MaxLines + MaxPatches
      PROVE  k \in DocLines
    BY <1>4 DEF Line, DocLines
<1>5. l \in DocLines
    <2>1. GoodLine(l) /\ l.text = n
        BY <1>1, <1>2, AssignmentIs
    <2> HIDE DEF l
    <2> QED
        BY <1>1, <1>4, <2>1 DEF GoodLine
<1>6. Blank \in DocLines /\ \A section \in PathNames : Header(section) \in DocLines
    <2>1. ASSUME NEW section \in PathNames PROVE Blank \in DocLines /\ Header(section) \in DocLines
        <3>1. GoodLine(Blank) /\ GoodLine(Header(section))
            BY TableLines
        <3>2. Blank.text = 0 /\ Header(section).text = 0
            BY DEF Blank, Header, WithText
        <3> QED
            BY <1>1, <1>4, <3>1, <3>2 DEF GoodLine
    <2> QED
        BY <1>2, <2>1
<1>7. ASSUME NEW i \in 1 .. Len(e) PROVE e[i] \in DocLines
    <2>1. \A j \in 1 .. Len(doc) : doc[j] \in DocLines
        BY <1>2
    <2> HIDE DEF e, l
    <2>2. \/ \E j \in 1 .. Len(doc) : e[i] = doc[j]
          \/ e[i] = l
          \/ e[i] = Blank
          \/ Front(path) \in PathNames /\ e[i] = Header(Front(path))
        BY <1>1, <1>2, PatchedLines DEF e, l
    <2> QED
        BY <1>5, <1>6, <2>1, <2>2
<1>8. e \in Seq(DocLines)
    <2> HIDE DEF e
    <2>1. e \in Seq(Line) /\ Len(e) \in Nat
        BY <1>3, DocIs
    <2> QED
        BY <1>7, <2>1
<1> QED
    BY <1>1, <1>2, <1>3, <1>8 DEF n

\* The lines of the document stay lines, the brackets of its values match after
\* every patch, and a refused call leaves the document as it was.
THEOREM TypeCorrect == Spec => [](TypeOK /\ BracketsMatch(doc))
<1>1. Init => TypeInv
    <2> SUFFICES ASSUME Init PROVE TypeInv
        OBVIOUS
    <2>1. src \in Seq(DocLines) /\ Len(src) <= MaxLines
        BY InitDoc
    <2>2. IsToml(src) /\ BracketsMatch(src) /\ doc = src /\ done = <<>> /\ refused = FALSE
        BY DEF Init, IsToml
    <2>3. /\ done \in Seq([path : Paths, enabled : BOOLEAN, text : Nat, clear : BOOLEAN])
          /\ Len(done) <= MaxPatches
        BY <2>2, BoundsAssumption
    <2>4. doc \in Seq(DocLines)
        BY <2>1, <2>2
    <2> HIDE DEF Init
    <2> QED
        BY <2>1, <2>2, <2>3, <2>4 DEF TypeInv, TypeOK
<1>2. TypeInv /\ [Next]_vars => TypeInv'
    <2> SUFFICES ASSUME TypeInv, [Next]_vars PROVE TypeInv'
        OBVIOUS
    <2> USE DEF TypeInv
    <2>1. CASE UNCHANGED vars
        BY <2>1 DEF vars, TypeOK, DocLines
    <2>2. CASE Refuse
        <3>1. doc' = src /\ done' = <<>> /\ src' = src /\ refused' = TRUE
            BY <2>2 DEF Refuse
        <3>2. BracketsMatch(doc')
            BY <3>1 DEF TypeOK, IsToml
        <3>3. MaxPatches \in Nat
            BY BoundsAssumption
        <3> QED
            BY <3>1, <3>2, <3>3 DEF TypeOK
    <2>3. ASSUME NEW path \in Paths, NEW enabled \in BOOLEAN, ApplyPatch(path, enabled)
          PROVE  TypeInv'
        <3> DEFINE n == MaxLines + Len(done) + 1
                   patch == [path |-> path, enabled |-> enabled, text |-> n,
                             clear |-> Clear(doc, path)]
                   Patches == [path : Paths, enabled : BOOLEAN, text : Nat, clear : BOOLEAN]
        <3>1. /\ ~refused /\ Len(done) < MaxPatches /\ doc' = Patched(doc, path, enabled, n)
              /\ done' = Append(done, patch) /\ src' = src /\ refused' = refused
            BY <2>3 DEF ApplyPatch
        <3>2. n \in Nat /\ doc' \in Seq(DocLines) /\ BracketsMatch(doc')
            BY <3>1, PatchDoc
        <3>3. patch \in Patches
            <4>1. Clear(doc, path) \in BOOLEAN
                BY DEF Clear
            <4> QED
                BY <3>2, <4>1
        <3>4. done \in Seq(Patches) /\ Len(done) \in Nat
            BY DEF TypeOK
        <3> HIDE DEF n, patch
        <3>5. done' \in Seq(Patches) /\ Len(done') <= MaxPatches
            <4>1. MaxPatches \in Nat
                BY BoundsAssumption
            <4> HIDE DEF Patches
            <4> QED
                BY <3>1, <3>3, <3>4, <4>1
        <3> QED
            BY <3>1, <3>2, <3>5 DEF TypeOK
    <2> QED
        BY <2>1, <2>2, <2>3 DEF Next
<1> QED
    BY <1>1, <1>2, PTL DEF Spec, TypeInv

\* CurrentValues shows a key as present exactly when toml reads it, at every path that
\* the scan meets once.
THEOREM ShownOnce == Spec => []CurrentIsLiveOnce
<1>1. TypeInv => CurrentIsLiveOnce
    BY DocsOf, ShownIsLive DEF TypeInv, CurrentIsLiveOnce
<1> QED
    BY <1>1, TypeCorrect, PTL DEF TypeInv

\* What the patches made so far have to do with what toml reads is inductive, once
\* the brackets match.
LiveInv == TypeInv /\ PatchTakesEffect /\ OthersKept

LEMMA TakesAt ==
    ASSUME NEW d, NEW e, NEW p, NEW l, Takes(d, e, p, l)
    PROVE  /\ LiveAt(e, p) = IF l.off THEN {} ELSE {<<l>>}
           /\ \A q : q # p => LiveAt(e, q) = LiveAt(d, q)
<1>1. Live(e) = {x \in Live(d) : x.path # p}
                   \cup (IF l.off THEN {} ELSE {[path |-> p, lines |-> <<l>>]})
    BY DEF Takes
<1>2. ASSUME NEW q, q # p PROVE LiveAt(e, q) = LiveAt(d, q)
    <2>1. {b \in Live(e) : b.path = q} = {b \in Live(d) : b.path = q}
        BY <1>1, <1>2
    <2> QED
        BY <2>1 DEF LiveAt
<1>3. LiveAt(e, p) = IF l.off THEN {} ELSE {<<l>>}
    <2>1. CASE l.off
        <3>1. {b \in Live(e) : b.path = p} = {}
            BY <1>1, <2>1
        <3> QED
            BY <2>1, <3>1 DEF LiveAt
    <2>2. CASE ~l.off
        <3> DEFINE new == [path |-> p, lines |-> <<l>>]
        <3>1. {b \in Live(e) : b.path = p} = {new}
            BY <1>1, <2>2
        <3>2. new.lines = <<l>>
            OBVIOUS
        <3> HIDE DEF new
        <3> QED
            BY <2>2, <3>1, <3>2 DEF LiveAt
    <2> QED
        BY <2>1, <2>2
<1> QED
    BY <1>2, <1>3

LEMMA LiveStep ==
    ASSUME LiveInv, NEW path \in Paths, NEW enabled \in BOOLEAN, ApplyPatch(path, enabled),
           AllClear'
    PROVE  PatchTakesEffect' /\ OthersKept'
<1> DEFINE n == MaxLines + Len(done) + 1
           patch == [path |-> path, enabled |-> enabled, text |-> n, clear |-> Clear(doc, path)]
           l == Assignment(path, enabled, n)
           m == Len(done)
<1>1. /\ Len(done) < MaxPatches /\ doc' = Patched(doc, path, enabled, n)
      /\ done' = Append(done, patch) /\ src' = src
    BY DEF ApplyPatch
<1>2. n \in Nat /\ path \in PathNames /\ doc \in Docs
    BY <1>1, PatchDoc DEF LiveInv
<1>3. /\ m \in Nat /\ DOMAIN done = 1 .. m /\ DOMAIN done' = 1 .. m + 1
      /\ done'[m + 1] = patch /\ \A k \in 1 .. m : done'[k] = done[k]
    BY <1>1 DEF LiveInv, TypeInv, TypeOK
<1>4. /\ patch.path = path /\ patch.enabled = enabled /\ patch.text = n
      /\ patch.clear = Clear(doc, path)
    OBVIOUS
<1> HIDE DEF patch
<1>5. AllClear /\ Clear(doc, path)
    BY <1>3, <1>4 DEF AllClear
<1>6. IsToml(doc)
    BY <1>5 DEF LiveInv, OthersKept
<1>7. Takes(doc, doc', path, l)
    <2> HIDE DEF n, l
    <2> QED
        BY <1>1, <1>2, <1>5, <1>6, PatchedLive DEF l
<1>8. l.off = ~enabled /\ (enabled => l = WithText(Key(<<Last(path)>>, 0), n))
    <2>1. l.off = ~enabled
        <3> HIDE DEF n
        <3> QED
            BY <1>2, AssignmentIs
    <2> QED
        BY <2>1 DEF Assignment
<1> HIDE DEF l
<1>9. PatchedPaths' = PatchedPaths \cup {path}
    <2>1. PatchedPaths' = {done'[k].path : k \in DOMAIN done'}
        BY DEF PatchedPaths
    <2> QED
        BY <1>3, <1>4, <2>1 DEF PatchedPaths
<1>10. /\ LiveAt(doc', path) = IF l.off THEN {} ELSE {<<l>>}
       /\ \A q : q # path => LiveAt(doc', q) = LiveAt(doc, q)
    BY <1>7, TakesAt
<1> DEFINE Of(p) == IF p.enabled THEN {<< WithText(Key(<<Last(p.path)>>, 0), p.text) >>} ELSE {}
<1>11. ASSUME NEW k \in DOMAIN done', \A j \in k + 1 .. Len(done') : done'[j].path # done'[k].path
       PROVE  LiveAt(doc', done'[k].path) = Of(done'[k])
    <2>1. Len(done') = m + 1
        BY <1>1, <1>3 DEF LiveInv, TypeInv, TypeOK
    <2>2. CASE k = m + 1
        BY <1>3, <1>4, <1>8, <1>10, <2>2
    <2>3. CASE k # m + 1
        <3>1. k \in 1 .. m /\ done'[k] = done[k]
            BY <1>3, <1>11, <2>3
        <3>2. done[k].path # path
            <4>1. m + 1 \in k + 1 .. Len(done')
                BY <1>3, <2>1, <3>1
            <4> QED
                BY <1>3, <1>4, <1>11, <3>1, <4>1
        <3>3. \A j \in k + 1 .. Len(done) : done[j].path # done[k].path
            BY <1>3, <1>11, <2>1, <3>1
        <3>4. LiveAt(doc, done[k].path) = Of(done[k])
            BY <1>3, <1>5, <3>1, <3>3 DEF LiveInv, PatchTakesEffect
        <3> QED
            BY <1>10, <3>1, <3>2, <3>4
    <2> QED
        BY <2>2, <2>3
<1>12. PatchTakesEffect'
    BY <1>11 DEF PatchTakesEffect
<1>13. {a \in Live(doc') : a.path \notin PatchedPaths'} = {a \in Live(src') : a.path \notin PatchedPaths'}
    <2>1. {a \in Live(doc) : a.path \notin PatchedPaths} = {a \in Live(src) : a.path \notin PatchedPaths}
        BY <1>5 DEF LiveInv, OthersKept
    <2>2. Live(doc') = {x \in Live(doc) : x.path # path}
                          \cup (IF l.off THEN {} ELSE {[path |-> path, lines |-> <<l>>]})
        BY <1>7 DEF Takes
    <2>3. ASSUME NEW a, a.path \notin PatchedPaths' PROVE a \in Live(doc') <=> a \in Live(src)
        <3>1. a.path # path /\ a.path \notin PatchedPaths
            BY <1>9, <2>3
        <3>2. a \in Live(doc') <=> a \in Live(doc)
            BY <2>2, <3>1
        <3> QED
            BY <2>1, <3>1, <3>2
    <2> QED
        BY <1>1, <2>3
<1>14. IsToml(doc')
    BY <1>7 DEF Takes
<1> QED
    BY <1>12, <1>13, <1>14 DEF OthersKept

LEMMA LiveInvariant == Spec => [](PatchTakesEffect /\ OthersKept)
<1>1. Init => PatchTakesEffect /\ OthersKept
    BY DEF Init, PatchTakesEffect, OthersKept
<1>2. TypeInv /\ TypeInv' /\ PatchTakesEffect /\ OthersKept /\ [Next]_vars
        => PatchTakesEffect' /\ OthersKept'
    <2> SUFFICES ASSUME LiveInv, TypeInv', [Next]_vars PROVE PatchTakesEffect' /\ OthersKept'
        BY DEF LiveInv
    <2>1. CASE UNCHANGED vars
        <3>1. doc' = doc /\ src' = src /\ done' = done
            BY <2>1 DEF vars
        <3> QED
            BY <3>1 DEF LiveInv, PatchTakesEffect, OthersKept, AllClear, PatchedPaths
    <2>2. CASE Refuse
        <3>1. doc' = src /\ done' = <<>> /\ src' = src
            BY <2>2 DEF Refuse
        <3>2. IsToml(src)
            BY DEF LiveInv, TypeInv, TypeOK
        <3> QED
            BY <3>1, <3>2 DEF PatchTakesEffect, OthersKept
    <2>3. ASSUME NEW path \in Paths, NEW enabled \in BOOLEAN, ApplyPatch(path, enabled)
          PROVE  PatchTakesEffect' /\ OthersKept'
        <3>1. CASE AllClear'
            BY <2>3, <3>1, LiveStep
        <3>2. CASE ~AllClear'
            BY <3>2 DEF PatchTakesEffect, OthersKept
        <3> QED
            BY <3>1, <3>2
    <2> QED
        BY <2>1, <2>2, <2>3 DEF Next
<1> QED
    BY <1>1, <1>2, TypeCorrect, PTL DEF Spec, TypeInv

\* ApplyPatches on documents dnscrypt-proxy can read, when every path is clear: each
\* patch takes effect.
THEOREM PatchesTakeEffect == Spec => []PatchTakesEffect
BY LiveInvariant, PTL

\* ApplyPatches under the same premise: every other key keeps its section and its
\* value in a document that can be read still.
THEOREM OthersStay == Spec => []OthersKept
BY LiveInvariant, PTL

-----------------------------------------------------------------------------
(* What the scan makes of the lines after a line was put *)

Quiet(d, i) == Scan(d)[i].open <= 0

\* Every value of a document ends, those that are commented out too.
Closed(d) ==
    /\ \A i \in 1 .. Len(d) : Starts(d, i) => Quiet(d, i - 1)
    /\ Quiet(d, Len(d))

\* Where a line can be put so that the values around it stay whole as the scan reads
\* them, and the lines below in their section.
Calm(d, a, b, l) ==
    /\ Slot(Len(d), a, b) /\ GoodLine(l)
    /\ Quiet(d, a - 1) /\ Quiet(d, b)
    /\ b # Len(d) => /\ Scan(d)[b].section = Scan(d)[a - 1].section
                     /\ l.kind # "table" \/ l.off

\* Line j of the old document is line j + t of the new one, with the same value.
Shifted(d, e, b, t, j) ==
    LET s == Scan(d)[j]
        r == Scan(e)[j + t]
    IN  /\ r.section = s.section /\ r.open = s.open
        /\ s.key = 0 => r.key = 0
        /\ s.key # 0 => s.key \in b + 1 .. j /\ r.key = s.key + t

LEMMA ShiftStep ==
    ASSUME NEW d \in Docs, NEW e, NEW a, NEW b, NEW l, Slot(Len(d), a, b),
           IsPut(d, e, a, b, l), NEW j \in b + 2 .. Len(d), Shifted(d, e, b, a - b, j - 1)
    PROVE  /\ Shifted(d, e, b, a - b, j)
           /\ Starts(e, j + (a - b)) <=> Starts(d, j)
<1> DEFINE n == Len(d)
           t == a - b
           i == j + t
           s == Scan(d)[j - 1]
           r == Scan(e)[i - 1]
<1>1. /\ n \in Nat /\ a \in Nat /\ b \in Nat /\ t \in Int /\ i \in Int
      /\ j \in 1 .. n /\ j - 1 \in b + 1 .. n /\ i - 1 = (j - 1) + t
      /\ i \in 1 .. n + t
    BY DEF Slot
<1>2. e \in Docs /\ Len(e) = n + t /\ \A k \in b + 1 .. n : e[k + t] = d[k]
    BY DEF IsPut
<1>3. e[i] = d[j] /\ i \in 1 .. Len(e)
    BY <1>1, <1>2
<1>4. /\ r.section = s.section /\ r.open = s.open
      /\ s.key = 0 => r.key = 0
      /\ s.key # 0 => s.key \in b + 1 .. j - 1 /\ r.key = s.key + t
    BY <1>1 DEF Shifted
<1>5. s.key = 0 => s.open = 0
    <2>1. j - 1 \in 0 .. n
        BY <1>1
    <2> QED
        BY <2>1, ScanReads DEF Read
<1>6. s.key # 0 => e[r.key] = d[s.key]
    <2>1. s.key # 0 => s.key \in b + 1 .. n
        BY <1>1, <1>4
    <2> QED
        BY <1>2, <1>4, <2>1
<1> DEFINE onE == GoesOn(e, r, i)
           onD == GoesOn(d, s, j)
<1>7. onE <=> onD
    BY <1>3, <1>4, <1>5, <1>6 DEF GoesOn
<1>8. Starts(e, i) <=> Starts(d, j)
    BY <1>7 DEF Starts
<1>9. CASE onD
    <2>1. /\ Scan(e)[i].section = r.section /\ Scan(e)[i].key = r.key
          /\ Scan(e)[i].open = r.open + Opens(e[i], e[r.key].off)
        <3>1. GoesOn(e, Scan(e)[i - 1], i)
            BY <1>7, <1>9
        <3> HIDE DEF i
        <3> QED
            BY <1>2, <1>3, <3>1, ScanStep
    <2>2. /\ Scan(d)[j].section = s.section /\ Scan(d)[j].key = s.key
          /\ Scan(d)[j].open = s.open + Opens(d[j], d[s.key].off)
        BY <1>1, <1>9, ScanStep
    <2>3. s.open > 0
        BY <1>9 DEF GoesOn
    <2>4. s.key # 0
        BY <1>5, <2>3
    <2>5. Scan(e)[i].open = Scan(d)[j].open
        BY <1>3, <1>4, <1>6, <2>1, <2>2, <2>4
    <2> HIDE DEF s, r
    <2>6. s.key \in b + 1 .. j
        BY <1>1, <1>4, <2>4
    <2>7. Shifted(d, e, b, t, j)
        BY <1>4, <2>1, <2>2, <2>4, <2>5, <2>6 DEF Shifted
    <2> QED
        BY <1>8, <2>7
<1>10. CASE ~onD /\ d[j].kind = "key"
    <2>1. Scan(e)[i].section = r.section /\ Scan(e)[i].key = i /\ Scan(e)[i].open = e[i].open
        <3>1. ~GoesOn(e, Scan(e)[i - 1], i) /\ e[i].kind = "key"
            BY <1>3, <1>7, <1>10
        <3> HIDE DEF i
        <3> QED
            BY <1>2, <1>3, <3>1, ScanStep
    <2>2. Scan(d)[j].section = s.section /\ Scan(d)[j].key = j /\ Scan(d)[j].open = d[j].open
        BY <1>1, <1>10, ScanStep
    <2>3. j \in b + 1 .. j /\ j # 0
        BY <1>1
    <2> HIDE DEF s, r
    <2>4. Shifted(d, e, b, t, j)
        BY <1>3, <1>4, <2>1, <2>2, <2>3 DEF Shifted
    <2> QED
        BY <1>8, <2>4
<1>11. CASE ~onD /\ d[j].kind # "key"
    <2>1. /\ Scan(e)[i].section = IF e[i].kind = "table" /\ ~e[i].off THEN e[i].at ELSE r.section
          /\ Scan(e)[i].key = 0 /\ Scan(e)[i].open = 0
        <3> HIDE DEF i
        <3> QED
            BY <1>2, <1>3, <1>7, <1>11, ScanStep
    <2>2. /\ Scan(d)[j].section = IF d[j].kind = "table" /\ ~d[j].off THEN d[j].at ELSE s.section
          /\ Scan(d)[j].key = 0 /\ Scan(d)[j].open = 0
        BY <1>1, <1>11, ScanStep
    <2> HIDE DEF s, r
    <2>3. Shifted(d, e, b, t, j)
        BY <1>3, <1>4, <2>1, <2>2 DEF Shifted
    <2> QED
        BY <1>8, <2>3
<1> QED
    BY <1>9, <1>10, <1>11

LEMMA ScanLineSame ==
    ASSUME NEW d, NEW e, NEW s, NEW i, e[i] = d[i],
           s.key = 0 => s.open = 0, s.key # 0 => e[s.key] = d[s.key]
    PROVE  ScanLine(e, s, i) = ScanLine(d, s, i) /\ (GoesOn(e, s, i) <=> GoesOn(d, s, i))
<1>1. GoesOn(e, s, i) <=> GoesOn(d, s, i)
    BY DEF GoesOn
<1>2. CASE GoesOn(d, s, i)
    <2>1. s.key # 0
        BY <1>2 DEF GoesOn
    <2> QED
        BY <1>1, <1>2, <2>1 DEF ScanLine
<1>3. CASE ~GoesOn(d, s, i)
    BY <1>1, <1>3 DEF ScanLine
<1> QED
    BY <1>1, <1>2, <1>3

Above(d, e, a) ==
    /\ \A j \in 0 .. a - 1 : Scan(e)[j] = Scan(d)[j]
    /\ \A j \in 1 .. a - 1 : Starts(e, j) <=> Starts(d, j)

LEMMA PutAbove ==
    ASSUME NEW d \in Docs, NEW e, NEW a, NEW b, NEW l, Slot(Len(d), a, b),
           IsPut(d, e, a, b, l)
    PROVE  Above(d, e, a)
<1> DEFINE n == Len(d)
           S == {j \in 0 .. a - 1 : Scan(e)[j] = Scan(d)[j]}
<1>1. /\ n \in Nat /\ a \in 1 .. n + 1 /\ b \in a - 1 .. n /\ a - 1 \in Nat
      /\ \A j \in 1 .. a - 1 : j \in 1 .. n /\ j - 1 \in 0 .. n /\ j \in 1 .. n + (a - b)
    BY DEF Slot
<1>2. e \in Docs /\ Len(e) = n + (a - b) /\ \A j \in 1 .. a - 1 : e[j] = d[j]
    BY DEF IsPut
<1>3. ASSUME NEW j \in 1 .. a - 1, Scan(e)[j - 1] = Scan(d)[j - 1]
      PROVE  Scan(e)[j] = Scan(d)[j] /\ (Starts(e, j) <=> Starts(d, j))
    <2> DEFINE s == Scan(d)[j - 1]
    <2>1. s.key \in 0 .. j - 1 /\ (s.key = 0 => s.open = 0)
        BY <1>1, ScanReads DEF Read
    <2>2. s.key # 0 => e[s.key] = d[s.key]
        <3>1. s.key # 0 => s.key \in 1 .. a - 1
            BY <1>1, <2>1
        <3> QED
            BY <1>2, <3>1
    <2>3. e[j] = d[j]
        BY <1>2
    <2> HIDE DEF s
    <2>4. ScanLine(e, s, j) = ScanLine(d, s, j) /\ (GoesOn(e, s, j) <=> GoesOn(d, s, j))
        BY <2>1, <2>2, <2>3, ScanLineSame
    <2>5. Scan(e)[j] = ScanLine(e, Scan(e)[j - 1], j) /\ Scan(d)[j] = ScanLine(d, s, j)
        <3>1. j \in 1 .. Len(e) /\ j \in 1 .. Len(d)
            BY <1>1, <1>2
        <3> QED
            BY <1>2, <3>1, ScanIs DEF s
    <2> QED
        BY <1>3, <2>4, <2>5 DEF Starts, s
<1>4. \A j \in 0 .. a - 1 : j \in S
    <2>1. 0 \in S
        BY <1>1, <1>2, ScanIs
    <2>2. ASSUME NEW j \in 0 + 1 .. a - 1, j - 1 \in S PROVE j \in S
        <3>1. j \in 1 .. a - 1
            OBVIOUS
        <3> QED
            BY <1>1, <1>3, <2>2, <3>1
    <2> HIDE DEF S
    <2> QED
        BY <1>1, <2>1, <2>2, IntervalInduction
<1>5. ASSUME NEW j \in 1 .. a - 1 PROVE Starts(e, j) <=> Starts(d, j)
    <2>1. j - 1 \in S
        BY <1>1, <1>4, <1>5
    <2> QED
        BY <1>3, <2>1
<1> QED
    BY <1>4, <1>5 DEF Above

Below(d, e, a, b) ==
    /\ Starts(e, a) /\ Scan(e)[a].open = 0 /\ Scan(e)[a].key \in {0, a}
    /\ \A j \in b + 1 .. Len(d) : Shifted(d, e, b, a - b, j)
    /\ \A j \in b + 2 .. Len(d) : Starts(e, j + (a - b)) <=> Starts(d, j)

LEMMA PutBelow ==
    ASSUME NEW d \in Docs, NEW e, NEW a, NEW b, NEW l, Calm(d, a, b, l),
           IsPut(d, e, a, b, l)
    PROVE  Below(d, e, a, b)
<1> DEFINE n == Len(d)
           t == a - b
           S == {j \in b + 1 .. n : Shifted(d, e, b, t, j)}
<1>1. /\ Slot(n, a, b) /\ GoodLine(l) /\ Quiet(d, a - 1) /\ Quiet(d, b)
      /\ b # n => /\ Scan(d)[b].section = Scan(d)[a - 1].section
                  /\ l.kind # "table" \/ l.off
    BY DEF Calm
<1>2. /\ n \in Nat /\ a \in 1 .. n + 1 /\ b \in a - 1 .. n /\ b + 1 \in Nat
      /\ a \in 1 .. n + t /\ b \in 0 .. n
    BY <1>1 DEF Slot
<1>3. /\ e \in Docs /\ Len(e) = n + t /\ e[a] = l
      /\ \A j \in b + 1 .. n : e[j + t] = d[j]
    BY DEF IsPut
<1>4. Scan(e)[a - 1] = Scan(d)[a - 1]
    <2>1. Above(d, e, a)
        BY <1>1, PutAbove
    <2>2. a - 1 \in 0 .. a - 1
        BY <1>2
    <2> QED
        BY <2>1, <2>2 DEF Above
<1>5. Starts(e, a)
    <2>1. Scan(d)[a - 1] \in States
        <3>1. a - 1 \in 0 .. n
            BY <1>2
        <3> QED
            BY <3>1, ScanType
    <2> QED
        BY <1>1, <1>4, <2>1 DEF Starts, Quiet, GoesOn, States
<1>6. /\ Scan(e)[a].open = 0 /\ Scan(e)[a].key \in {0, a}
      /\ b # n => Scan(e)[a].section = Scan(d)[b].section
    <2>1. a \in 1 .. Len(e) /\ ~GoesOn(e, Scan(e)[a - 1], a)
        BY <1>2, <1>3, <1>5 DEF Starts
    <2>2. l.open = 0
        BY <1>1 DEF GoodLine
    <2>3. CASE l.kind = "key"
        <3>1. /\ Scan(e)[a].section = Scan(e)[a - 1].section /\ Scan(e)[a].key = a
              /\ Scan(e)[a].open = e[a].open
            BY <1>3, <2>1, <2>3, ScanStep
        <3> QED
            BY <1>1, <1>3, <1>4, <2>2, <3>1
    <2>4. CASE l.kind # "key"
        <3>1. /\ Scan(e)[a].section = IF e[a].kind = "table" /\ ~e[a].off
                                        THEN e[a].at ELSE Scan(e)[a - 1].section
              /\ Scan(e)[a].key = 0 /\ Scan(e)[a].open = 0
            BY <1>3, <2>1, <2>4, ScanStep
        <3> QED
            BY <1>1, <1>3, <1>4, <3>1
    <2> QED
        BY <2>3, <2>4
<1>7. ASSUME b # n PROVE Shifted(d, e, b, t, b + 1)
    <2> DEFINE j == b + 1
               i == a + 1
    <2>1. /\ j \in 1 .. n /\ i \in 1 .. Len(e) /\ i - 1 = a /\ j - 1 = b /\ j + t = i
          /\ j \in b + 1 .. j /\ j # 0
        BY <1>2, <1>3, <1>7
    <2>2. e[i] = d[j]
        <3>1. j \in b + 1 .. n
            BY <1>2, <1>7
        <3> HIDE DEF i, j
        <3> QED
            BY <1>3, <2>1, <3>1
    <2> HIDE DEF i, j, t
    <2>3. ~GoesOn(e, Scan(e)[i - 1], i)
        BY <1>6, <2>1 DEF GoesOn
    <2>4. ~GoesOn(d, Scan(d)[j - 1], j)
        <3>1. Scan(d)[b] \in States
            BY <1>2, ScanType
        <3> QED
            BY <1>1, <2>1, <3>1 DEF GoesOn, Quiet, States
    <2>5. Scan(e)[i - 1].section = Scan(d)[j - 1].section
        BY <1>6, <1>7, <2>1
    <2>6. CASE d[j].kind = "key"
        <3>1. /\ Scan(e)[i].section = Scan(e)[i - 1].section /\ Scan(e)[i].key = i
              /\ Scan(e)[i].open = e[i].open
            BY <1>3, <2>1, <2>2, <2>3, <2>6, ScanStep
        <3>2. /\ Scan(d)[j].section = Scan(d)[j - 1].section /\ Scan(d)[j].key = j
              /\ Scan(d)[j].open = d[j].open
            BY <2>1, <2>4, <2>6, ScanStep
        <3>3. Shifted(d, e, b, t, j)
            BY <2>1, <2>2, <2>5, <3>1, <3>2 DEF Shifted
        <3> QED
            BY <3>3 DEF j
    <2>7. CASE d[j].kind # "key"
        <3>1. /\ Scan(e)[i].section = IF e[i].kind = "table" /\ ~e[i].off
                                        THEN e[i].at ELSE Scan(e)[i - 1].section
              /\ Scan(e)[i].key = 0 /\ Scan(e)[i].open = 0
            BY <1>3, <2>1, <2>2, <2>3, <2>7, ScanStep
        <3>2. /\ Scan(d)[j].section = IF d[j].kind = "table" /\ ~d[j].off
                                        THEN d[j].at ELSE Scan(d)[j - 1].section
              /\ Scan(d)[j].key = 0 /\ Scan(d)[j].open = 0
            BY <2>1, <2>4, <2>7, ScanStep
        <3>3. Shifted(d, e, b, t, j)
            BY <2>1, <2>2, <2>5, <3>1, <3>2 DEF Shifted
        <3> QED
            BY <3>3 DEF j
    <2> QED
        BY <2>6, <2>7
<1>8. ASSUME b # n PROVE \A j \in b + 1 .. n : j \in S
    <2>1. b + 1 \in S
        BY <1>2, <1>7, <1>8
    <2>2. ASSUME NEW j \in (b + 1) + 1 .. n, j - 1 \in S PROVE j \in S
        <3>1. j \in b + 2 .. n /\ j \in b + 1 .. n
            BY <1>2
        <3>2. Shifted(d, e, b, t, j)
            BY <1>1, <2>2, <3>1, ShiftStep
        <3> QED
            BY <3>1, <3>2
    <2> HIDE DEF S
    <2> QED
        BY <1>2, <2>1, <2>2, IntervalInduction
<1>9. \A j \in b + 1 .. n : j \in S
    <2>1. CASE b = n
        BY <1>2, <2>1
    <2> QED
        BY <1>8, <2>1
<1>10. ASSUME NEW j \in b + 2 .. n PROVE Starts(e, j + t) <=> Starts(d, j)
    <2>1. j - 1 \in b + 1 .. n
        BY <1>2
    <2>2. Shifted(d, e, b, t, j - 1)
        BY <1>9, <2>1
    <2> QED
        BY <1>1, <2>2, ShiftStep
<1> QED
    BY <1>5, <1>6, <1>9, <1>10 DEF Below

LEMMA PutClosed ==
    ASSUME NEW d \in Docs, NEW e, NEW a, NEW b, NEW l, Calm(d, a, b, l),
           IsPut(d, e, a, b, l), Closed(d)
    PROVE  Closed(e)
<1> DEFINE n == Len(d)
           t == a - b
<1>1. /\ n \in Nat /\ a \in 1 .. n + 1 /\ b \in a - 1 .. n /\ Slot(n, a, b)
      /\ Quiet(d, a - 1) /\ Quiet(d, b)
    BY DEF Calm, Slot
<1>2. e \in Docs /\ Len(e) = n + t
    BY DEF IsPut
<1>3. /\ \A j \in 0 .. a - 1 : Scan(e)[j] = Scan(d)[j]
      /\ \A j \in 1 .. a - 1 : Starts(e, j) <=> Starts(d, j)
    BY <1>1, PutAbove DEF Above
<1>4. /\ Starts(e, a) /\ Scan(e)[a].open = 0
      /\ \A j \in b + 1 .. n : Shifted(d, e, b, t, j)
      /\ \A j \in b + 2 .. n : Starts(e, j + t) <=> Starts(d, j)
    BY PutBelow DEF Below
<1>5. Quiet(e, a)
    BY <1>4 DEF Quiet
<1>6. \A j \in 0 .. a - 1 : Quiet(e, j) <=> Quiet(d, j)
    BY <1>3 DEF Quiet
<1>7. \A j \in b + 1 .. n : Quiet(e, j + t) <=> Quiet(d, j)
    BY <1>4 DEF Quiet, Shifted
<1>8. \A j \in 1 .. n : Starts(d, j) => Quiet(d, j - 1)
    BY DEF Closed
<1>9. ASSUME NEW i \in 1 .. n + t, Starts(e, i) PROVE Quiet(e, i - 1)
    <2>1. CASE i \in 1 .. a - 1
        <3>1. i - 1 \in 0 .. a - 1 /\ i \in 1 .. n
            BY <1>1, <2>1
        <3> QED
            BY <1>3, <1>6, <1>8, <1>9, <2>1, <3>1
    <2>2. CASE i = a
        <3>1. a - 1 \in 0 .. a - 1
            BY <1>1
        <3> QED
            BY <1>1, <1>6, <2>2, <3>1
    <2>3. ASSUME NEW j \in b + 1 .. n, i = j + t PROVE Quiet(e, i - 1)
        <3>1. CASE j = b + 1
            <4>1. i - 1 = a
                BY <1>1, <2>3, <3>1
            <4> QED
                BY <1>5, <4>1
        <3>2. CASE j # b + 1
            <4>1. /\ j \in b + 2 .. n /\ j - 1 \in b + 1 .. n /\ j \in 1 .. n
                  /\ i - 1 = (j - 1) + t
                BY <1>1, <2>3, <3>2
            <4>2. Starts(d, j)
                BY <1>4, <1>9, <2>3, <4>1
            <4>3. Quiet(d, j - 1)
                BY <1>8, <4>1, <4>2
            <4> HIDE DEF t
            <4> QED
                BY <1>7, <4>1, <4>3
        <3> QED
            BY <3>1, <3>2
    <2> QED
        BY <1>1, <2>1, <2>2, <2>3, PutCases
<1>10. Quiet(e, n + t)
    <2>1. CASE b = n
        <3>1. n + t = a
            BY <1>1, <2>1
        <3> QED
            BY <1>5, <3>1
    <2>2. CASE b # n
        <3>1. n \in b + 1 .. n
            BY <1>1, <2>2
        <3> HIDE DEF t
        <3> QED
            BY <1>7, <3>1 DEF Closed
    <2> QED
        BY <2>1, <2>2
<1> HIDE DEF t
<1> QED
    BY <1>2, <1>9, <1>10 DEF Closed

\* The path of the value that a line belongs to.
PathAt(d, i) ==
    LET k == Scan(d)[i].key
    IN  IF k = 0 THEN <<>> ELSE PathOf(d, k)

LEMMA PathAtIs ==
    ASSUME NEW d \in Docs, NEW i \in 0 .. Len(d)
    PROVE  /\ Scan(d)[i].key = 0 => PathAt(d, i) = <<>>
           /\ Scan(d)[i].key # 0 =>
                PathAt(d, i) = Scan(d)[i].section \o d[Scan(d)[i].key].at
<1>1. Read(d, i)
    BY ScanReads
<1> QED
    BY <1>1 DEF Read, PathAt, PathOf

LEMMA PutPaths ==
    ASSUME NEW d \in Docs, NEW e, NEW a, NEW b, NEW l, Calm(d, a, b, l),
           IsPut(d, e, a, b, l)
    PROVE  /\ \A i \in 1 .. a - 1 : PathAt(e, i) = PathAt(d, i)
           /\ \A j \in b + 1 .. Len(d) : PathAt(e, j + (a - b)) = PathAt(d, j)
<1> DEFINE n == Len(d)
           t == a - b
<1>1. n \in Nat /\ a \in 1 .. n + 1 /\ b \in a - 1 .. n /\ Slot(n, a, b)
    BY DEF Calm, Slot
<1>2. /\ e \in Docs /\ Len(e) = n + t
      /\ \A j \in 1 .. a - 1 : e[j] = d[j]
      /\ \A j \in b + 1 .. n : e[j + t] = d[j]
    BY DEF IsPut
<1>3. ASSUME NEW i \in 1 .. a - 1 PROVE PathAt(e, i) = PathAt(d, i)
    <2> DEFINE s == Scan(d)[i]
    <2>1. i \in 0 .. a - 1 /\ i \in 0 .. n /\ i \in 0 .. Len(e)
        BY <1>1, <1>2
    <2>2. Scan(e)[i] = s
        BY <1>1, <2>1, PutAbove DEF Above
    <2>3. s.key \in 0 .. i
        BY <2>1, ScanReads DEF Read
    <2>4. s.key # 0 => s.key \in 1 .. a - 1
        BY <1>1, <2>1, <2>3
    <2>5. /\ s.key = 0 => PathAt(d, i) = <<>> /\ PathAt(e, i) = <<>>
          /\ s.key # 0 => /\ PathAt(d, i) = s.section \o d[s.key].at
                          /\ PathAt(e, i) = s.section \o e[s.key].at
        BY <1>2, <2>1, <2>2, PathAtIs
    <2> HIDE DEF s
    <2>6. s.key # 0 => e[s.key] = d[s.key]
        BY <1>2, <2>4
    <2>7. CASE s.key = 0
        BY <2>5, <2>7
    <2>8. CASE s.key # 0
        <3> DEFINE from == d[s.key]
                   to == e[s.key]
        <3>1. PathAt(d, i) = s.section \o from.at /\ PathAt(e, i) = s.section \o to.at
            BY <2>5, <2>8
        <3>2. to = from
            BY <2>6, <2>8
        <3> HIDE DEF from, to
        <3> QED
            BY <3>1, <3>2
    <2> QED
        BY <2>7, <2>8
<1>4. ASSUME NEW j \in b + 1 .. n PROVE PathAt(e, j + t) = PathAt(d, j)
    <2> DEFINE i == j + t
               s == Scan(d)[j]
               r == Scan(e)[i]
    <2>1. j \in 0 .. n /\ i \in 0 .. Len(e)
        BY <1>1, <1>2
    <2>2. Shifted(d, e, b, t, j)
        BY PutBelow DEF Below
    <2>3. /\ r.section = s.section /\ (s.key = 0 => r.key = 0)
          /\ s.key # 0 => s.key \in b + 1 .. j /\ r.key = s.key + t
        BY <2>2 DEF Shifted
    <2> HIDE DEF i
    <2>4. /\ s.key = 0 => PathAt(d, j) = <<>>
          /\ s.key # 0 => PathAt(d, j) = s.section \o d[s.key].at
          /\ r.key = 0 => PathAt(e, i) = <<>>
          /\ r.key # 0 => PathAt(e, i) = r.section \o e[r.key].at
        BY <1>2, <2>1, PathAtIs
    <2> HIDE DEF s, r
    <2>5. s.key # 0 => r.key # 0 /\ e[r.key] = d[s.key]
        <3>1. s.key # 0 => s.key \in b + 1 .. n /\ s.key + t # 0
            BY <1>1, <2>3
        <3> QED
            BY <1>2, <2>3, <3>1
    <2>6. PathAt(e, i) = PathAt(d, j)
        BY <2>3, <2>4, <2>5
    <2> QED
        BY <2>6 DEF i
<1> QED
    BY <1>3, <1>4

-----------------------------------------------------------------------------
(* Which lines stay *)

Old(l) == l.text \in 1 .. MaxLines

\* Document d has the lines of s as they were and in their order, and those outside the
\* values of the paths of P are all there.
Keeps(s, d, P) ==
    /\ \A j \in 1 .. Len(d) : Old(d[j]) =>
          /\ d[j].text \in 1 .. Len(s) /\ d[j] = s[d[j].text]
          /\ PathAt(d, j) = PathAt(s, d[j].text)
    /\ \A j, k \in 1 .. Len(d) : j < k /\ Old(d[j]) /\ Old(d[k]) => d[j].text < d[k].text
    /\ \A i \in 1 .. Len(s) : PathAt(s, i) \notin P => \E j \in 1 .. Len(d) : d[j].text = i

\* The lines of the new document are old ones in their order, but for line a.
From(d, e, a, b) ==
    /\ \A i \in 1 .. Len(e) : i # a =>
          /\ Origin(a, b, i) \in 1 .. Len(d)
          /\ e[i] = d[Origin(a, b, i)] /\ PathAt(e, i) = PathAt(d, Origin(a, b, i))
    /\ \A i, k \in 1 .. Len(e) : i # a /\ k # a /\ i < k => Origin(a, b, i) < Origin(a, b, k)
    /\ \A k \in 1 .. Len(d) : k \notin a .. b =>
          \E i \in 1 .. Len(e) : i # a /\ Origin(a, b, i) = k

LEMMA PutFrom ==
    ASSUME NEW d \in Docs, NEW e, NEW a, NEW b, NEW l, Calm(d, a, b, l),
           IsPut(d, e, a, b, l)
    PROVE  From(d, e, a, b)
<1> DEFINE n == Len(d)
           t == a - b
           o(i) == Origin(a, b, i)
<1>1. n \in Nat /\ a \in 1 .. n + 1 /\ b \in a - 1 .. n /\ Slot(n, a, b)
    BY DEF Calm, Slot
<1>2. /\ Len(e) = n + t
      /\ \A j \in 1 .. a - 1 : e[j] = d[j]
      /\ \A j \in b + 1 .. n : e[j + t] = d[j]
    BY DEF IsPut
<1>3. /\ \A i \in 1 .. a - 1 : PathAt(e, i) = PathAt(d, i)
      /\ \A j \in b + 1 .. n : PathAt(e, j + t) = PathAt(d, j)
    BY PutPaths
<1>4. /\ \A i \in 1 .. n + t : i # a => \/ o(i) \in 1 .. a - 1 /\ o(i) = i
                                        \/ o(i) \in b + 1 .. n /\ i = o(i) + t
      /\ \A k \in 1 .. n : k \notin a .. b => \E i \in 1 .. n + t : i # a /\ o(i) = k
    <2>1. Origins(n, a, b)
        BY <1>1, OriginIs
    <2> QED
        BY <2>1 DEF Origins
<1>5. \A i, k \in 1 .. n + t : i # a /\ k # a /\ i < k => o(i) < o(k)
    BY <1>1 DEF Origin
<1>6. ASSUME NEW i \in 1 .. n + t, i # a
      PROVE  o(i) \in 1 .. n /\ e[i] = d[o(i)] /\ PathAt(e, i) = PathAt(d, o(i))
    <2>1. CASE o(i) \in 1 .. a - 1 /\ o(i) = i
        <3>1. i \in 1 .. a - 1 /\ i \in 1 .. n
            BY <1>1, <2>1
        <3> HIDE DEF o
        <3> QED
            BY <1>2, <1>3, <2>1, <3>1
    <2>2. CASE o(i) \in b + 1 .. n /\ i = o(i) + t
        <3> HIDE DEF o
        <3>1. o(i) \in 1 .. n
            BY <1>1, <2>2
        <3> HIDE DEF t
        <3> QED
            BY <1>2, <1>3, <2>2, <3>1
    <2> QED
        BY <1>4, <1>6, <2>1, <2>2
<1> HIDE DEF t, o
<1>7. /\ \A i \in 1 .. Len(e) : i # a =>
            o(i) \in 1 .. n /\ e[i] = d[o(i)] /\ PathAt(e, i) = PathAt(d, o(i))
      /\ \A i, k \in 1 .. Len(e) : i # a /\ k # a /\ i < k => o(i) < o(k)
      /\ \A k \in 1 .. n : k \notin a .. b => \E i \in 1 .. Len(e) : i # a /\ o(i) = k
    BY <1>2, <1>4, <1>5, <1>6
<1> QED
    BY <1>7 DEF From, o

LEMMA PutKeeps ==
    ASSUME NEW s, Len(s) \in 0 .. MaxLines,
           NEW d \in Docs, NEW e, NEW a, NEW b, NEW l, Calm(d, a, b, l),
           IsPut(d, e, a, b, l), ~Old(l),
           NEW P, Keeps(s, d, P), NEW Q, P \subseteq Q,
           \A j \in a .. b : PathAt(d, j) \in Q
    PROVE  Keeps(s, e, Q)
<1> DEFINE o(i) == Origin(a, b, i)
<1>1. /\ \A i \in 1 .. Len(e) : i # a =>
            o(i) \in 1 .. Len(d) /\ e[i] = d[o(i)] /\ PathAt(e, i) = PathAt(d, o(i))
      /\ \A i, k \in 1 .. Len(e) : i # a /\ k # a /\ i < k => o(i) < o(k)
      /\ \A k \in 1 .. Len(d) : k \notin a .. b => \E i \in 1 .. Len(e) : i # a /\ o(i) = k
    BY PutFrom DEF From
<1>2. \A i \in 1 .. Len(e) : Old(e[i]) => i # a
    BY DEF IsPut
<1> HIDE DEF o
<1>3. ASSUME NEW i \in 1 .. Len(e), Old(e[i])
      PROVE  /\ e[i].text \in 1 .. Len(s) /\ e[i] = s[e[i].text]
             /\ PathAt(e, i) = PathAt(s, e[i].text)
    <2>1. o(i) \in 1 .. Len(d) /\ e[i] = d[o(i)] /\ PathAt(e, i) = PathAt(d, o(i))
        BY <1>1, <1>2, <1>3
    <2>2. /\ d[o(i)].text \in 1 .. Len(s) /\ d[o(i)] = s[d[o(i)].text]
          /\ PathAt(d, o(i)) = PathAt(s, d[o(i)].text)
        BY <1>3, <2>1 DEF Keeps
    <2> QED
        BY <2>1, <2>2
<1>4. ASSUME NEW i \in 1 .. Len(e), NEW k \in 1 .. Len(e), i < k, Old(e[i]), Old(e[k])
      PROVE  e[i].text < e[k].text
    <2>1. /\ o(i) \in 1 .. Len(d) /\ o(k) \in 1 .. Len(d) /\ o(i) < o(k)
          /\ e[i] = d[o(i)] /\ e[k] = d[o(k)]
        BY <1>1, <1>2, <1>4
    <2> QED
        BY <1>4, <2>1 DEF Keeps
<1>5. ASSUME NEW i \in 1 .. Len(s), PathAt(s, i) \notin Q
      PROVE  \E j \in 1 .. Len(e) : e[j].text = i
    <2>1. PICK k \in 1 .. Len(d) : d[k].text = i
        BY <1>5 DEF Keeps
    <2>2. CASE k \in a .. b
        <3>1. Old(d[k])
            BY <2>1, BoundsAssumption DEF Old
        <3>2. PathAt(d, k) = PathAt(s, i)
            BY <2>1, <3>1 DEF Keeps
        <3> QED
            BY <1>5, <2>2, <3>2
    <2>3. CASE k \notin a .. b
        BY <1>1, <2>1, <2>3
    <2> QED
        BY <2>2, <2>3
<1> QED
    BY <1>3, <1>4, <1>5 DEF Keeps

\* The span of a key is such a place.
LEMMA SpanCalm ==
    ASSUME NEW d \in Docs, Closed(d), NEW a \in Spans(d), NEW l, GoodLine(l), l.kind = "key"
    PROVE  Calm(d, a, EndOf(d, a), l) /\ \A j \in a .. EndOf(d, a) : PathAt(d, j) = PathOf(d, a)
<1> DEFINE n == Len(d)
           b == EndOf(d, a)
<1>1. /\ n \in Nat /\ a \in 1 .. n /\ b \in a .. n
      /\ \A j \in 1 .. n : Scan(d)[j].key = a <=> j \in a .. b
      /\ b < n => Starts(d, b + 1)
    BY SpanLines, DocIs
<1>2. Starts(d, a) /\ d[a].kind = "key"
    BY SpanStarts
<1> HIDE DEF b
<1>3. a \in 1 .. n + 1 /\ b \in a - 1 .. n /\ b \in 1 .. n
    BY <1>1
<1>4. Quiet(d, a - 1)
    BY <1>1, <1>2 DEF Closed
<1>5. Quiet(d, b)
    <2>1. CASE b = n
        BY <2>1 DEF Closed
    <2>2. CASE b # n
        <3>1. b + 1 \in 1 .. n /\ (b + 1) - 1 = b /\ Starts(d, b + 1)
            BY <1>1, <2>2
        <3>2. Quiet(d, (b + 1) - 1)
            BY <3>1 DEF Closed
        <3> QED
            BY <3>1, <3>2
    <2> QED
        BY <2>1, <2>2
<1>6. Scan(d)[b].section = Scan(d)[a - 1].section
    <2>1. Scan(d)[a].section = Scan(d)[a - 1].section
        BY <1>1, <1>2, ScanStep DEF Starts
    <2>2. Scan(d)[b].key = a /\ a # 0 /\ b \in 0 .. n
        BY <1>1, <1>3
    <2>3. Scan(d)[a].section = Scan(d)[b].section
        BY <2>2, ScanReads DEF Read
    <2> QED
        BY <2>1, <2>3
<1>7. Calm(d, a, b, l)
    BY <1>1, <1>3, <1>4, <1>5, <1>6 DEF Calm, Slot
<1>8. ASSUME NEW j \in a .. b PROVE PathAt(d, j) = PathOf(d, a)
    <2>1. Scan(d)[j].key = a /\ a # 0
        BY <1>1
    <2> QED
        BY <2>1 DEF PathAt
<1> QED
    BY <1>7, <1>8 DEF b

\* And so is any line between values.
LEMMA BetweenCalm ==
    ASSUME NEW d \in Docs, NEW i \in 1 .. Len(d) + 1, Quiet(d, i - 1),
           NEW l, GoodLine(l), l.kind = "key" \/ i = Len(d) + 1
    PROVE  Calm(d, i, i - 1, l)
<1>1. Len(d) \in Nat
    BY DocIs
<1>2. i - 1 \in i - 1 .. Len(d) /\ (i = Len(d) + 1 => i - 1 = Len(d))
    BY <1>1
<1>3. Slot(Len(d), i, i - 1)
    BY <1>1, <1>2 DEF Slot
<1> QED
    BY <1>2, <1>3 DEF Calm

LEMMA IndexCalm ==
    ASSUME NEW d \in Docs, BracketsMatch(d), Closed(d), NEW section,
           NEW l, GoodLine(l), l.kind = "key", SectionInsertIndex(d, section) # 0
    PROVE  LET i == SectionInsertIndex(d, section)
           IN  Calm(d, i, i - 1, l) /\ i .. i - 1 = {}
<1> DEFINE n == Len(d)
           i == SectionInsertIndex(d, section)
<1>1. i \in 1 .. n + 1 /\ i \in {0, 1, n + 1} \cup Headers(d) /\ n \in Nat
    <2>1. Index(d, section)
        BY IndexIs
    <2> QED
        BY <2>1, DocIs DEF Index
<1> HIDE DEF i
<1>2. CASE i = 1
    <2>1. Scan(d)[0].open = 0 /\ i - 1 = 0
        BY <1>2, ScanIs DEF Between
    <2>2. Quiet(d, i - 1)
        BY <2>1 DEF Quiet
    <2> QED
        BY <1>1, <2>2, BetweenCalm DEF i
<1>3. CASE i = n + 1
    <2>1. i - 1 = n
        BY <1>1, <1>3
    <2>2. Quiet(d, i - 1)
        BY <2>1 DEF Closed
    <2> QED
        BY <1>1, <2>2, BetweenCalm DEF i
<1>4. CASE i \in Headers(d)
    <2>1. i \in 1 .. n /\ ~d[i].off /\ Depth(d, i - 1) = 0
        BY <1>4, ToplevelIs
    <2>2. Starts(d, i)
        BY <2>1, StartsOutside
    <2>3. Quiet(d, i - 1)
        BY <2>1, <2>2 DEF Closed
    <2> QED
        BY <1>1, <2>3, BetweenCalm DEF i
<1>5. i # 0
    BY <1>1
<1> QED
    BY <1>1, <1>2, <1>3, <1>4, <1>5

Sound(s, d, P) == d \in Docs /\ BracketsMatch(d) /\ Closed(d) /\ Keeps(s, d, P)

LEMMA PutSound ==
    ASSUME NEW s, Len(s) \in 0 .. MaxLines, NEW d, NEW P, Sound(s, d, P),
           NEW a, NEW b, NEW l, Fits(d, a, b, l), Calm(d, a, b, l), ~Old(l),
           NEW Q, P \subseteq Q, \A j \in a .. b : PathAt(d, j) \in Q
    PROVE  Sound(s, Put(d, a, b, l), Q)
<1> DEFINE e == Put(d, a, b, l)
<1>1. d \in Docs /\ BracketsMatch(d) /\ Closed(d) /\ Keeps(s, d, P)
    BY DEF Sound
<1>2. IsPut(d, e, a, b, l) /\ BracketsMatch(e)
    BY <1>1, PutIs, PutBrackets DEF Fits
<1> HIDE DEF e
<1>3. Closed(e)
    BY <1>1, <1>2, PutClosed
<1>4. Keeps(s, e, Q)
    BY <1>1, <1>2, PutKeeps
<1>5. e \in Docs
    BY <1>2 DEF IsPut
<1> QED
    BY <1>2, <1>3, <1>4, <1>5 DEF Sound, e

LEMMA EndSound ==
    ASSUME NEW s, Len(s) \in 0 .. MaxLines, NEW d, NEW P, Sound(s, d, P),
           NEW l, GoodLine(l), ~Old(l)
    PROVE  Sound(s, Append(d, l), P)
<1> DEFINE n == Len(d)
           a == n + 1
<1>1. d \in Docs /\ BracketsMatch(d) /\ Closed(d) /\ n \in Nat
    BY DocIs DEF Sound
<1>2. Fits(d, a, n, l) /\ Put(d, a, n, l) = Append(d, l)
    BY <1>1, EndIs
<1>3. a - 1 = n /\ a \in 1 .. Len(d) + 1 /\ a .. n = {}
    BY <1>1
<1>4. Calm(d, a, n, l)
    <2>1. Quiet(d, a - 1)
        BY <1>1, <1>3 DEF Closed
    <2>2. a = Len(d) + 1
        OBVIOUS
    <2> HIDE DEF a, n
    <2>3. Calm(d, a, a - 1, l)
        BY <1>1, <1>3, <2>1, <2>2, BetweenCalm
    <2> QED
        BY <1>3, <2>3
<1> HIDE DEF a, n
<1>5. Sound(s, Put(d, a, n, l), P)
    BY <1>2, <1>3, <1>4, PutSound
<1> QED
    BY <1>2, <1>5

LEMMA PatchedSound ==
    ASSUME NEW s, Len(s) \in 0 .. MaxLines, NEW d, NEW P, Sound(s, d, P),
           NEW path \in PathNames, NEW enabled \in BOOLEAN, NEW n \in Nat, n > MaxLines
    PROVE  Sound(s, Patched(d, path, enabled, n), P \cup {path})
<1> DEFINE l == Assignment(path, enabled, n)
           e == Patched(d, path, enabled, n)
           Q == P \cup {path}
           section == Front(path)
           i == SectionInsertIndex(d, section)
           a == Find(d, path)
           b == EndOf(d, a)
<1>1. d \in Docs /\ BracketsMatch(d) /\ Closed(d) /\ Keeps(s, d, P) /\ P \subseteq Q /\ path \in Q
    BY DEF Sound
<1>2. GoodLine(l) /\ l.kind = "key" /\ ~Old(l)
    <2>1. GoodLine(l) /\ l.kind = "key" /\ l.text = n
        BY AssignmentIs
    <2> HIDE DEF l
    <2> QED
        BY <2>1, BoundsAssumption DEF Old
<1>3. ASSUME a \in SpansAt(d, path), Fits(d, a, b, l), e = Put(d, a, b, l)
      PROVE  Sound(s, e, Q)
    <2>1. a \in Spans(d) /\ PathOf(d, a) = path
        BY <1>3 DEF SpansAt
    <2> HIDE DEF l, e, a, Q
    <2>2. Calm(d, a, b, l) /\ \A j \in a .. b : PathAt(d, j) = PathOf(d, a)
        BY <1>1, <1>2, <2>1, SpanCalm
    <2>3. \A j \in a .. b : PathAt(d, j) \in Q
        BY <1>1, <2>1, <2>2
    <2> HIDE DEF b
    <2> QED
        BY <1>1, <1>2, <1>3, <2>2, <2>3, PutSound
<1>4. ASSUME i # 0, Fits(d, i, i - 1, l), e = Put(d, i, i - 1, l)
      PROVE  Sound(s, e, Q)
    <2> HIDE DEF l, e, Q, section
    <2>1. Calm(d, i, i - 1, l) /\ i .. i - 1 = {}
        BY <1>1, <1>2, <1>4, IndexCalm
    <2> HIDE DEF i
    <2> QED
        BY <1>1, <1>2, <1>4, <2>1, PutSound
<1>5. ASSUME section \in PathNames, e = Tabled(d, section, l)
      PROVE  Sound(s, e, Q)
    <2> DEFINE h == Header(section)
               d1 == Append(d, Blank)
               d2 == Append(d1, h)
               d3 == Append(d2, Blank)
    <2>1. GoodLine(Blank) /\ GoodLine(h)
        BY <1>5, TableLines
    <2>2. ~Old(Blank) /\ ~Old(h)
        BY DEF Old, Blank, Header, WithText
    <2>3. Sound(s, d, Q)
        <3>1. Keeps(s, d, Q)
            BY <1>1 DEF Keeps
        <3> QED
            BY <1>1, <3>1 DEF Sound
    <2> HIDE DEF h, l, Q
    <2>4. Sound(s, d1, Q)
        BY <2>1, <2>2, <2>3, EndSound
    <2> HIDE DEF d1
    <2>5. Sound(s, d2, Q)
        BY <2>1, <2>2, <2>4, EndSound
    <2> HIDE DEF d2
    <2>6. Sound(s, d3, Q)
        BY <2>1, <2>2, <2>5, EndSound
    <2> HIDE DEF d3
    <2>7. Sound(s, Append(d3, l), Q)
        BY <1>2, <2>6, EndSound
    <2> QED
        BY <1>5, <2>7 DEF Tabled, d1, d2, d3, h
<1> QED
    BY <1>1, <1>3, <1>4, <1>5, PatchedCases

\* In a document that toml accepts, in which the values that are commented out end,
\* every value ends as the scan reads it.
LEMMA AllClosed ==
    ASSUME NEW d \in Docs, BracketsMatch(d), CommentsMatch(d)
    PROVE  Closed(d)
<1> DEFINE n == Len(d)
<1>1. n \in Nat
    BY DocIs
<1>2. ASSUME NEW i \in 0 .. n, i < n => Starts(d, i + 1) PROVE Quiet(d, i)
    <2> DEFINE s == Scan(d)[i]
               k == s.key
    <2>1. Read(d, i) /\ Agrees(d, i)
        BY ScanReads, ScanAgrees
    <2>2. Depth(d, i) = 0
        <3>1. CASE i = n
            BY <3>1 DEF BracketsMatch
        <3>2. CASE i # n
            <4>1. i + 1 \in 1 .. n /\ (i + 1) - 1 = i /\ Starts(d, i + 1)
                BY <1>1, <1>2, <3>2
            <4>2. Depth(d, (i + 1) - 1) = 0
                BY <4>1, StartsOutside
            <4> QED
                BY <4>1, <4>2
        <3> QED
            BY <3>1, <3>2
    <2>3. CASE k = 0
        BY <2>1, <2>3 DEF Read, Quiet
    <2>4. CASE k # 0 /\ ~d[k].off
        <3>1. s.open = 0
            BY <2>1, <2>2, <2>4 DEF Agrees
        <3> QED
            BY <3>1 DEF Quiet
    <2>5. CASE k # 0 /\ d[k].off
        <3>1. i \in 1 .. n /\ k \in 1 .. n
            BY <1>1, <2>1, <2>5 DEF Read
        <3>2. k \in Spans(d)
            BY <2>1, <2>5, <3>1, DocIs DEF Read, Spans
        <3>3. EndOf(d, k) = i
            <4> DEFINE b == EndOf(d, k)
            <4>1. /\ b \in k .. n /\ i \in k .. b
                  /\ \A j \in k + 1 .. b : ~Starts(d, j)
                BY <3>1, <3>2, SpanLines
            <4> HIDE DEF b
            <4>2. ASSUME i # b PROVE FALSE
                <5>1. i + 1 \in k + 1 .. b /\ i < n
                    BY <1>1, <3>1, <4>1, <4>2
                <5> QED
                    BY <1>2, <4>1, <5>1
            <4> QED
                BY <4>2 DEF b
        <3>4. Scan(d)[EndOf(d, k)].open <= 0
            BY <2>5, <3>2 DEF CommentsMatch
        <3> QED
            BY <3>3, <3>4 DEF Quiet
    <2> QED
        BY <2>3, <2>4, <2>5
<1>3. ASSUME NEW i \in 1 .. n, Starts(d, i) PROVE Quiet(d, i - 1)
    <2>1. i - 1 \in 0 .. n /\ (i - 1) + 1 = i
        BY <1>1
    <2>2. i - 1 < n => Starts(d, (i - 1) + 1)
        BY <1>3, <2>1
    <2> QED
        BY <1>2, <2>1, <2>2
<1>4. Quiet(d, n)
    BY <1>1, <1>2
<1> QED
    BY <1>3, <1>4 DEF Closed

\* What stays is inductive when the ends of all values and the place of every line that
\* was there are part of it.
OutsideInv ==
    /\ TypeInv
    /\ \A i \in 1 .. Len(src) : src[i].text = i
    /\ CommentsMatch(src) => Sound(src, src, {}) /\ Sound(src, doc, PatchedPaths)

LEMMA InitTexts ==
    ASSUME Init
    PROVE  \A i \in 1 .. Len(src) : src[i].text = i
<1>1. PICK d \in Documents : src = [i \in DOMAIN d |-> WithText(d[i], i)]
    BY DEF Init
<1>2. PICK n \in 0 .. MaxLines : d \in [1 .. n -> Lines]
    BY <1>1 DEF Documents
<1>3. src = [i \in 1 .. n |-> WithText(d[i], i)] /\ n \in Nat
    BY <1>1, <1>2, BoundsAssumption
<1>4. Len(src) = n
    BY <1>3
<1> QED
    BY <1>3, <1>4 DEF WithText

LEMMA SourceSound ==
    ASSUME TypeOK, CommentsMatch(src), \A i \in 1 .. Len(src) : src[i].text = i
    PROVE  Sound(src, src, {})
<1>1. src \in Docs /\ BracketsMatch(src)
    BY DocsOf DEF TypeOK, IsToml
<1>2. Closed(src)
    BY <1>1, AllClosed
<1>3. \A i, j \in 1 .. Len(src) : i < j => src[i].text < src[j].text
    OBVIOUS
<1>4. Keeps(src, src, {})
    BY <1>3 DEF Keeps
<1> QED
    BY <1>1, <1>2, <1>4 DEF Sound

\* Comments, unknown keys and all else outside the spans patched are preserved, once
\* each and in their order, by any number of patches of any paths, in every document in
\* which commented values end.
THEOREM OutsideStays == Spec => []OutsidePreserved
<1>1. Init /\ TypeInv => OutsideInv
    <2> SUFFICES ASSUME Init, TypeInv PROVE OutsideInv
        OBVIOUS
    <2>1. doc = src /\ done = <<>>
        BY DEF Init
    <2>2. PatchedPaths = {}
        BY <2>1 DEF PatchedPaths
    <2> QED
        BY <2>1, <2>2, InitTexts, SourceSound DEF OutsideInv, TypeInv
<1>2. OutsideInv /\ TypeInv' /\ [Next]_vars => OutsideInv'
    <2> SUFFICES ASSUME OutsideInv, TypeInv', [Next]_vars PROVE OutsideInv'
        OBVIOUS
    <2>1. CASE UNCHANGED vars
        <3>1. doc' = doc /\ src' = src /\ done' = done
            BY <2>1 DEF vars
        <3> QED
            BY <3>1 DEF OutsideInv, PatchedPaths
    <2>2. CASE Refuse
        <3>1. doc' = src /\ done' = <<>> /\ src' = src
            BY <2>2 DEF Refuse
        <3>2. PatchedPaths' = {}
            BY <3>1 DEF PatchedPaths
        <3> QED
            BY <3>1, <3>2 DEF OutsideInv
    <2>3. ASSUME NEW path \in Paths, NEW enabled \in BOOLEAN, ApplyPatch(path, enabled)
          PROVE  OutsideInv'
        <3> DEFINE n == MaxLines + Len(done) + 1
                   patch == [path |-> path, enabled |-> enabled, text |-> n,
                             clear |-> Clear(doc, path)]
        <3>1. /\ Len(done) < MaxPatches /\ doc' = Patched(doc, path, enabled, n)
              /\ done' = Append(done, patch) /\ src' = src
            BY <2>3 DEF ApplyPatch
        <3>2. n \in Nat /\ path \in PathNames
            BY <3>1, PatchDoc DEF OutsideInv
        <3>3. n > MaxLines /\ Len(src) \in 0 .. MaxLines /\ Len(done) \in Nat
            BY BoundsAssumption DEF OutsideInv, TypeInv, TypeOK
        <3>4. PatchedPaths' = PatchedPaths \cup {path}
            <4> DEFINE m == Len(done)
            <4>1. patch.path = path
                OBVIOUS
            <4> HIDE DEF patch
            <4>2. /\ m \in Nat /\ DOMAIN done = 1 .. m /\ DOMAIN done' = 1 .. m + 1
                  /\ done'[m + 1] = patch /\ \A k \in 1 .. m : done'[k] = done[k]
                BY <3>1 DEF OutsideInv, TypeInv, TypeOK
            <4>3. PatchedPaths' = {done'[k].path : k \in DOMAIN done'}
                BY DEF PatchedPaths
            <4> QED
                BY <4>1, <4>2, <4>3 DEF PatchedPaths
        <3> HIDE DEF n, patch
        <3>5. Sound(src, doc, PatchedPaths) => Sound(src, doc', PatchedPaths \cup {path})
            BY <3>1, <3>2, <3>3, PatchedSound
        <3> QED
            BY <3>1, <3>4, <3>5 DEF OutsideInv
    <2> QED
        BY <2>1, <2>2, <2>3 DEF Next
<1>3. OutsideInv => OutsidePreserved
    <2> SUFFICES ASSUME OutsideInv, CommentsMatch(src)
                 PROVE  OutsidePreserved
        BY DEF OutsidePreserved
    <2> DEFINE outside == {i \in DOMAIN src : LET k == Scan(src)[i].key
                                              IN  k # 0 => PathOf(src, k) \notin PatchedPaths}
               kept == {j \in DOMAIN doc : doc[j].text \in outside}
    <2>1. /\ Keeps(src, doc, PatchedPaths) /\ src \in Docs /\ doc \in Docs
          /\ Len(src) \in 0 .. MaxLines /\ MaxLines \in Nat
        BY DocsOf, BoundsAssumption DEF OutsideInv, Sound, TypeInv, TypeOK
    <2>2. DOMAIN src = 1 .. Len(src) /\ DOMAIN doc = 1 .. Len(doc) /\ Len(src) \in Nat
        BY <2>1, DocIs
    <2>3. <<>> \notin PatchedPaths
        <3>1. \A k \in DOMAIN done : done[k].path \in PathNames
            <4>1. Paths \subseteq PathNames
                BY DocsOf DEF OutsideInv, TypeInv
            <4> DEFINE Patches == [path : Paths, enabled : BOOLEAN, text : Nat, clear : BOOLEAN]
            <4>2. done \in Seq(Patches)
                BY DEF OutsideInv, TypeInv, TypeOK
            <4>3. \A p \in Patches : p.path \in Paths
                OBVIOUS
            <4> HIDE DEF Patches
            <4>4. \A k \in DOMAIN done : done[k] \in Patches
                BY <4>2
            <4> QED
                BY <4>1, <4>3, <4>4
        <3> QED
            BY <3>1 DEF PatchedPaths, PathNames
    <2>4. \A i \in outside : i \in 1 .. Len(src) /\ PathAt(src, i) \notin PatchedPaths
        BY <2>2, <2>3 DEF PathAt
    <2> HIDE DEF outside
    <2>5. \A j \in kept : j \in 1 .. Len(doc) /\ doc[j].text \in outside /\ Old(doc[j])
        BY <2>1, <2>2, <2>4 DEF Old
    <2>6. ASSUME NEW i \in outside PROVE \E j \in kept : doc[j] = src[i]
        <3>1. PICK j \in 1 .. Len(doc) : doc[j].text = i
            BY <2>1, <2>4 DEF Keeps
        <3>2. j \in kept
            BY <2>2, <3>1
        <3>3. doc[j] = src[doc[j].text]
            BY <2>1, <2>5, <3>1, <3>2 DEF Keeps
        <3> QED
            BY <3>1, <3>2, <3>3
    <2>7. ASSUME NEW j \in kept, NEW k \in kept, j < k PROVE doc[j].text < doc[k].text
        BY <2>1, <2>5, <2>7 DEF Keeps
    <2> QED
        BY <2>6, <2>7 DEF OutsidePreserved, outside
<1> QED
    BY <1>1, <1>2, <1>3, TypeCorrect, PTL DEF Spec, TypeInv
=============================================================================
