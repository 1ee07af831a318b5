------------------------- MODULE CommandLine_proofs -------------------------
(***************************************************************************)
(* The command line of the elevated child for every string: what the       *)
(* parent writes, the child reads.                                         *)
(***************************************************************************)
EXTENDS CommandLine, Intervals, SequenceTheorems

-----------------------------------------------------------------------------
(* Sequences *)

LEMMA CharOf ==
    ASSUME NEW s \in Strings, NEW i \in 1 .. Len(s)
    PROVE  s[i] \in Chars
BY ElementOfSeq DEF Strings

LEMMA Characters ==
    /\ Blank \in Chars /\ Backslash \in Chars /\ Quote \in Chars
    /\ Blank # Backslash /\ Blank # Quote /\ Backslash # Quote
BY StringsAssumption DEF Blank, Backslash, Quote

\* One character more.
LEMMA AppendIs ==
    ASSUME NEW S, NEW s \in Seq(S), NEW c \in S
    PROVE  /\ Append(s, c) \in Seq(S) /\ Len(Append(s, c)) = Len(s) + 1
           /\ Append(s, c)[Len(s) + 1] = c
           /\ \A i \in 1 .. Len(s) : Append(s, c)[i] = s[i]
           /\ s \o <<c>> = Append(s, c)
<1>1. Append(s, c) \in Seq(S) /\ Len(Append(s, c)) = Len(s) + 1
      /\ Append(s, c)[Len(s) + 1] = c /\ (\A i \in 1 .. Len(s) : Append(s, c)[i] = s[i])
    BY AppendProperties
<1>2. s \o <<c>> = Append(s, c)
    BY AppendIsConcat
<1> QED
    BY <1>1, <1>2

LEMMA ConcatAppend ==
    ASSUME NEW S, NEW s \in Seq(S), NEW t \in Seq(S), NEW c \in S
    PROVE  s \o Append(t, c) = Append(s \o t, c)
<1>1. <<c>> \in Seq(S) /\ s \o t \in Seq(S)
    BY ConcatProperties
<1>2. (s \o t) \o <<c>> = s \o (t \o <<c>>)
    BY <1>1, ConcatAssociative
<1> QED
    BY <1>1, <1>2, AppendIs

LEMMA ConcatThree ==
    ASSUME NEW s \in Strings, NEW t \in Strings, NEW u \in Strings
    PROVE  (s \o t) \o u = s \o (t \o u)
BY ConcatAssociative DEF Strings

LEMMA BackslashesAre ==
    /\ Backslashes(0) = <<>>
    /\ \A n \in Nat : /\ Backslashes(n) \in Strings
                      /\ Backslashes(n + 1) = Append(Backslashes(n), Backslash)
<1>1. \A n \in Nat : Backslashes(n) \in Strings /\ Len(Backslashes(n)) = n
                     /\ \A i \in 1 .. n : Backslashes(n)[i] = Backslash
    BY Characters DEF Backslashes, Strings
<1>2. Backslashes(0) = <<>>
    <2>1. Backslashes(0) \in Strings /\ Len(Backslashes(0)) = 0
        BY <1>1
    <2> QED
        BY <2>1, EmptySeq DEF Strings
<1>3. ASSUME NEW n \in Nat PROVE Backslashes(n + 1) = Append(Backslashes(n), Backslash)
    <2> DEFINE a == Append(Backslashes(n), Backslash)
               b == Backslashes(n + 1)
    <2>1. a \in Strings /\ Len(a) = n + 1 /\ a[n + 1] = Backslash
          /\ \A i \in 1 .. n : a[i] = Backslash
        BY <1>1, AppendIs, Characters DEF Strings
    <2>2. n + 1 \in Nat /\ b \in Strings /\ Len(b) = n + 1 /\ \A i \in 1 .. n + 1 : b[i] = Backslash
        BY <1>1
    <2>3. \A i \in 1 .. Len(a) : a[i] = b[i]
        BY <2>1, <2>2
    <2> HIDE DEF a, b
    <2> QED
        BY <2>1, <2>2, <2>3, SeqEqual DEF Strings, a, b
<1> QED
    BY <1>1, <1>2, <1>3

LEMMA PrefixIs ==
    ASSUME NEW S, NEW s \in Seq(S)
    PROVE  /\ SubSeq(s, 1, 0) = <<>> /\ SubSeq(s, 1, Len(s)) = s
           /\ \A i \in 1 .. Len(s) : /\ SubSeq(s, 1, i - 1) \in Seq(S)
                                     /\ SubSeq(s, 1, i) = Append(SubSeq(s, 1, i - 1), s[i])
<1>1. SubSeq(s, 1, 0) = <<>>
    BY SubSeqEmpty
<1>2. SubSeq(s, 1, Len(s)) = s
    BY SubSeqFull
<1>3. ASSUME NEW i \in 1 .. Len(s)
      PROVE  /\ SubSeq(s, 1, i - 1) \in Seq(S)
             /\ SubSeq(s, 1, i) = Append(SubSeq(s, 1, i - 1), s[i])
    <2>1. Len(s) \in Nat /\ s[i] \in S /\ i \in Int /\ i - 1 \in Int /\ 1 \in 1 .. Len(s)
        BY LenProperties, ElementOfSeq
    <2>2. SubSeq(s, 1, i - 1) \in Seq(S)
        <3>1. \A j \in 1 .. i - 1 : s[j] \in S
            BY <2>1, ElementOfSeq
        <3> QED
            BY <2>1, <3>1, SubSeqProperties
    <2>3. SubSeq(s, 1, i) = SubSeq(s, 1, i - 1) \o <<s[i]>>
        BY <2>1, SubSeqRecursiveSecond
    <2> QED
        BY <2>1, <2>2, <2>3, AppendIs
<1> QED
    BY <1>1, <1>2, <1>3

-----------------------------------------------------------------------------
(* What is written: the recursions of Quoted and WindowsCommandLine, unrolled *)

Texts == [text : Strings, slashes : Nat]
NoText == [text |-> <<Quote>>, slashes |-> 0]

LEMMA EscapeCharType ==
    ASSUME NEW w \in Texts, NEW c \in Chars
    PROVE  EscapeChar(w, c) \in Texts
<1>1. w.text \in Strings /\ w.slashes \in Nat
    BY DEF Texts
<1>2. Append(w.text, c) \in Strings
    BY <1>1, AppendIs DEF Strings
<1>3. w.text \o Backslashes(w.slashes) \o <<Backslash, Quote>> \in Strings
    <2>1. <<Backslash, Quote>> \in Strings
        BY Characters DEF Strings
    <2>2. w.text \o Backslashes(w.slashes) \in Strings
        BY <1>1, BackslashesAre, ConcatProperties DEF Strings
    <2> QED
        BY <2>1, <2>2, ConcatProperties DEF Strings
<1> QED
    BY <1>1, <1>2, <1>3, Characters DEF EscapeChar, Texts

LEMMA QuotedIs ==
    ASSUME NEW s \in Strings
    PROVE  /\ Quoted(s)[0] = NoText
           /\ \A i \in 1 .. Len(s) : Quoted(s)[i] = EscapeChar(Quoted(s)[i - 1], s[i])
           /\ \A i \in 0 .. Len(s) : Quoted(s)[i] \in Texts
<1> DEFINE n == Len(s)
           Adds(w, i) == EscapeChar(w, s[i])
           step == [x \in Texts \X (1 .. n) |-> Adds(x[1], x[2])]
           Is(f) == f = [k \in 0 .. n |-> IF k = 0 THEN NoText ELSE Adds(f[k - 1], k)]
<1>1. n \in Nat /\ (\A i \in 1 .. n, w \in Texts : Adds(w, i) \in Texts)
    BY LenProperties, CharOf, EscapeCharType DEF Strings
<1> HIDE DEF n, Adds
<1>2. NoText \in Texts /\ step \in [Texts \X (1 .. n) -> Texts]
    BY <1>1, Characters DEF NoText, Texts, Strings
<1>3. PICK f : IsRun(f, n, Texts, NoText, step)
    <2> HIDE DEF step
    <2> QED
        BY <1>1, <1>2, RunExists
<1>4. f \in [0 .. n -> Texts] /\ f[0] = NoText
    BY <1>3 DEF IsRun
<1>5. ASSUME NEW i \in 1 .. n PROVE f[i] = Adds(f[i - 1], i)
    <2>1. f[i - 1] \in Texts
        BY <1>1, <1>4
    <2> QED
        BY <1>3, <2>1 DEF IsRun
<1>6. Is(f)
    BY <1>1, <1>4, <1>5
<1> DEFINE g == CHOOSE h : Is(h)
<1>7. Is(g)
    BY <1>6
<1>8. Quoted(s) = g
    BY DEF Quoted, NoText, Adds, n
<1> HIDE DEF g
<1>9. g[0] = NoText /\ \A i \in 1 .. n : g[i] = Adds(g[i - 1], i)
    BY <1>1, <1>7
<1>10. \A i \in 0 .. n : g[i] \in Texts
    <2> DEFINE S == {i \in 0 .. n : g[i] \in Texts}
    <2>1. 0 \in S
        BY <1>1, <1>2, <1>9
    <2>2. ASSUME NEW i \in 0 + 1 .. n, i - 1 \in S PROVE i \in S
        BY <2>2, <1>1, <1>9
    <2> HIDE DEF S
    <2>3. \A i \in 0 .. n : i \in S
        BY <1>1, <2>1, <2>2, IntervalInduction
    <2> QED
        BY <2>3 DEF S
<1> QED
    BY <1>8, <1>9, <1>10 DEF n, Adds

LEMMA EscapeType ==
    ASSUME NEW s \in Strings
    PROVE  EscapeWindowsArg(s) \in Strings
<1> DEFINE end == Quoted(s)[Len(s)]
<1>1. end \in Texts
    BY QuotedIs, LenProperties DEF Strings
<1>2. end.text \o Backslashes(end.slashes) \o <<Quote>> \in Strings
    <2>1. end.text \in Strings /\ end.slashes \in Nat /\ <<Quote>> \in Strings
        BY <1>1, Characters DEF Texts, Strings
    <2> HIDE DEF end
    <2>2. end.text \o Backslashes(end.slashes) \in Strings
        BY <2>1, BackslashesAre, ConcatProperties DEF Strings
    <2> QED
        BY <2>1, <2>2, ConcatProperties DEF Strings
<1> QED
    BY <1>2 DEF EscapeWindowsArg

LEMMA JoinType ==
    ASSUME NEW line \in Strings, NEW args \in Seq(Strings), NEW i \in 1 .. Len(args)
    PROVE  Join(line, args, i) \in Strings
<1>1. EscapeWindowsArg(args[i]) \in Strings
    BY EscapeType, ElementOfSeq
<1>2. Append(line, Blank) \in Strings
    BY AppendIs, Characters DEF Strings
<1> QED
    BY <1>1, <1>2, ConcatProperties DEF Join, Strings

LEMMA JoinedIs ==
    ASSUME NEW args \in Seq(Strings)
    PROVE  /\ Joined(args)[0] = <<>>
           /\ \A i \in 1 .. Len(args) : Joined(args)[i] = Join(Joined(args)[i - 1], args, i)
           /\ \A i \in 0 .. Len(args) : Joined(args)[i] \in Strings
<1> DEFINE n == Len(args)
           Adds(x, i) == Join(x, args, i)
           step == [x \in Strings \X (1 .. n) |-> Adds(x[1], x[2])]
           Is(f) == f = [k \in 0 .. n |-> IF k = 0 THEN <<>> ELSE Adds(f[k - 1], k)]
<1>1. n \in Nat /\ (\A i \in 1 .. n, x \in Strings : Adds(x, i) \in Strings)
    BY LenProperties, JoinType
<1> HIDE DEF n, Adds
<1>2. <<>> \in Strings /\ step \in [Strings \X (1 .. n) -> Strings]
    <2>1. <<>> \in Strings
        BY EmptySeq DEF Strings
    <2> QED
        BY <1>1, <2>1
<1>3. PICK f : IsRun(f, n, Strings, <<>>, step)
    <2> HIDE DEF step
    <2> QED
        BY <1>1, <1>2, RunExists
<1>4. f \in [0 .. n -> Strings] /\ f[0] = <<>>
    BY <1>3 DEF IsRun
<1>5. ASSUME NEW i \in 1 .. n PROVE f[i] = Adds(f[i - 1], i)
    <2>1. f[i - 1] \in Strings
        BY <1>1, <1>4
    <2> QED
        BY <1>3, <2>1 DEF IsRun
<1>6. Is(f)
    BY <1>1, <1>4, <1>5
<1> DEFINE g == CHOOSE h : Is(h)
<1>7. Is(g)
    BY <1>6
<1>8. Joined(args) = g
    BY DEF Joined, Adds, n
<1> HIDE DEF g
<1>9. g[0] = <<>> /\ \A i \in 1 .. n : g[i] = Adds(g[i - 1], i)
    BY <1>1, <1>7
<1>10. \A i \in 0 .. n : g[i] \in Strings
    <2> DEFINE S == {i \in 0 .. n : g[i] \in Strings}
    <2>1. 0 \in S
        BY <1>1, <1>2, <1>9
    <2>2. ASSUME NEW i \in 0 + 1 .. n, i - 1 \in S PROVE i \in S
        BY <2>2, <1>1, <1>9
    <2> HIDE DEF S
    <2>3. \A i \in 0 .. n : i \in S
        BY <1>1, <2>1, <2>2, IntervalInduction
    <2> QED
        BY <2>3 DEF S
<1> QED
    BY <1>8, <1>9, <1>10 DEF n, Adds

-----------------------------------------------------------------------------
(* What is read: the recursions of Read and Parsed, unrolled *)

Reads == [args : Seq(Strings), arg : Strings, begun : BOOLEAN, quoted : BOOLEAN,
          closed : BOOLEAN, slashes : Nat]

LEMMA ReadCharType ==
    ASSUME NEW r \in Reads, NEW c \in Chars
    PROVE  ReadChar(r, c) \in Reads
<1> DEFINE flush == r.arg \o Backslashes(r.slashes)
           half == r.arg \o Backslashes(r.slashes \div 2)
<1>1. /\ r.args \in Seq(Strings) /\ r.arg \in Strings /\ r.slashes \in Nat
      /\ r.begun \in BOOLEAN /\ r.quoted \in BOOLEAN /\ r.closed \in BOOLEAN
    BY DEF Reads
<1>2. r.slashes \div 2 \in Nat
    BY <1>1
<1>3. flush \in Strings /\ half \in Strings
    BY <1>1, <1>2, BackslashesAre, ConcatProperties DEF Strings
<1>4. half \o <<Quote>> \in Strings /\ flush \o <<c>> \in Strings
    <2> HIDE DEF half, flush
    <2> QED
        BY <1>3, Characters, AppendIs DEF Strings
<1>5. Append(r.args, flush) \in Seq(Strings)
    <2> HIDE DEF flush
    <2> QED
        BY <1>1, <1>3, AppendProperties
<1> HIDE DEF flush, half
<1>6. [r EXCEPT !.slashes = @ + 1, !.begun = TRUE, !.closed = FALSE] \in Reads
    <2>1. r.slashes + 1 \in Nat
        BY <1>1
    <2> QED
        BY <2>1 DEF Reads
<1>7. [r EXCEPT !.arg = half \o <<Quote>>, !.slashes = 0, !.closed = FALSE] \in Reads
    BY <1>1, <1>3, <1>4 DEF Reads
<1>8. [r EXCEPT !.arg = half \o <<Quote>>, !.closed = FALSE] \in Reads
    BY <1>4 DEF Reads
<1>9. [r EXCEPT !.arg = half, !.slashes = 0, !.begun = TRUE, !.quoted = ~@, !.closed = r.quoted] \in Reads
    BY <1>1, <1>3, <1>4 DEF Reads
<1>10. [r EXCEPT !.arg = flush \o <<c>>, !.slashes = 0, !.begun = TRUE, !.closed = FALSE] \in Reads
    BY <1>1, <1>3, <1>4 DEF Reads
<1>11. [NothingRead EXCEPT !.args = IF r.begun THEN Append(r.args, flush) ELSE r.args] \in Reads
    <2>1. <<>> \in Strings
        BY EmptySeq DEF Strings
    <2> QED
        BY <1>1, <1>5, <2>1 DEF Reads, NothingRead
<1> QED
    BY <1>6, <1>7, <1>8, <1>9, <1>10, <1>11 DEF ReadChar, flush, half

LEMMA ReadIs ==
    ASSUME NEW line \in Strings
    PROVE  /\ Read(line)[0] = NothingRead
           /\ \A i \in 1 .. Len(line) : Read(line)[i] = ReadChar(Read(line)[i - 1], line[i])
           /\ \A i \in 0 .. Len(line) : Read(line)[i] \in Reads
<1> DEFINE n == Len(line)
           Adds(x, i) == ReadChar(x, line[i])
           step == [x \in Reads \X (1 .. n) |-> Adds(x[1], x[2])]
           Is(f) == f = [k \in 0 .. n |-> IF k = 0 THEN NothingRead ELSE Adds(f[k - 1], k)]
<1>1. n \in Nat /\ (\A i \in 1 .. n, x \in Reads : Adds(x, i) \in Reads)
    BY LenProperties, CharOf, ReadCharType DEF Strings
<1> HIDE DEF n, Adds
<1>2. NothingRead \in Reads /\ step \in [Reads \X (1 .. n) -> Reads]
    <2>1. NothingRead \in Reads
        BY EmptySeq DEF NothingRead, Reads, Strings
    <2> QED
        BY <1>1, <2>1
<1>3. PICK f : IsRun(f, n, Reads, NothingRead, step)
    <2> HIDE DEF step
    <2> QED
        BY <1>1, <1>2, RunExists
<1>4. f \in [0 .. n -> Reads] /\ f[0] = NothingRead
    BY <1>3 DEF IsRun
<1>5. ASSUME NEW i \in 1 .. n PROVE f[i] = Adds(f[i - 1], i)
    <2>1. f[i - 1] \in Reads
        BY <1>1, <1>4
    <2> QED
        BY <1>3, <2>1 DEF IsRun
<1>6. Is(f)
    BY <1>1, <1>4, <1>5
<1> DEFINE g == CHOOSE h : Is(h)
<1>7. Is(g)
    BY <1>6
<1>8. Read(line) = g
    BY DEF Read, Adds, n
<1> HIDE DEF g
<1>9. g[0] = NothingRead /\ \A i \in 1 .. n : g[i] = Adds(g[i - 1], i)
    BY <1>1, <1>7
<1>10. \A i \in 0 .. n : g[i] \in Reads
    <2> DEFINE S == {i \in 0 .. n : g[i] \in Reads}
    <2>1. 0 \in S
        BY <1>1, <1>2, <1>9
    <2>2. ASSUME NEW i \in 0 + 1 .. n, i - 1 \in S PROVE i \in S
        BY <2>2, <1>1, <1>9
    <2> HIDE DEF S
    <2>3. \A i \in 0 .. n : i \in S
        BY <1>1, <2>1, <2>2, IntervalInduction
    <2> QED
        BY <2>3 DEF S
<1> QED
    BY <1>8, <1>9, <1>10 DEF n, Adds

\* What has been read of a whole line, and of a line with one character more.
Reading(line) == Read(line)[Len(line)]

LEMMA ReadingIs ==
    /\ Reading(<<>>) = NothingRead
    /\ \A line \in Strings, c \in Chars :
         Reading(Append(line, c)) = ReadChar(Reading(line), c)
<1>1. Reading(<<>>) = NothingRead
    BY ReadIs, EmptySeq DEF Reading, Strings
<1>2. ASSUME NEW line \in Strings, NEW c \in Chars
      PROVE  Reading(Append(line, c)) = ReadChar(Reading(line), c)
    <2> DEFINE more == Append(line, c)
               n == Len(line)
    <2>1. /\ n \in Nat /\ more \in Strings /\ Len(more) = n + 1 /\ more[n + 1] = c
          /\ \A i \in 1 .. n : more[i] = line[i]
        BY LenProperties, AppendIs DEF Strings
    <2>2. \A i \in 0 .. n : Read(more)[i] = Read(line)[i]
        <3> DEFINE S == {i \in 0 .. n : Read(more)[i] = Read(line)[i]}
        <3> HIDE DEF more
        <3>1. 0 \in S
            BY <2>1, ReadIs
        <3>2. ASSUME NEW i \in 0 + 1 .. n, i - 1 \in S PROVE i \in S
            <4>1. i \in 1 .. n /\ i \in 1 .. n + 1
                BY <2>1
            <4>2. Read(more)[i] = ReadChar(Read(more)[i - 1], more[i])
                BY <2>1, <4>1, ReadIs
            <4>3. Read(line)[i] = ReadChar(Read(line)[i - 1], line[i])
                BY <4>1, ReadIs
            <4> QED
                BY <2>1, <3>2, <4>1, <4>2, <4>3
        <3> HIDE DEF S
        <3>3. \A i \in 0 .. n : i \in S
            BY <2>1, <3>1, <3>2, IntervalInduction
        <3> QED
            BY <3>3 DEF S
    <2> HIDE DEF more
    <2>3. Read(more)[n + 1] = ReadChar(Read(more)[n], c)
        <3>1. n + 1 \in 1 .. Len(more) /\ n + 1 - 1 = n
            BY <2>1
        <3> QED
            BY <2>1, <3>1, ReadIs
    <2>4. Read(more)[n] = Read(line)[n]
        BY <2>1, <2>2
    <2> QED
        BY <2>1, <2>3, <2>4 DEF Reading, more
<1> QED
    BY <1>1, <1>2

\* The states of the reader that the parent's line leads through, but for the one
\* after a closing quote: between arguments, in one without quotes or in one with
\* quotes.
Places == {"between", "bare", "quoted"}
At(args, arg, place, n) ==
    [args |-> args, arg |-> arg, begun |-> place # "between", quoted |-> place = "quoted",
     closed |-> FALSE, slashes |-> n]
Inside(place) == IF place = "between" THEN "bare" ELSE place

LEMMA ReadBackslash ==
    ASSUME NEW A, NEW arg \in Strings, NEW p \in Places, NEW n \in Nat
    PROVE  ReadChar(At(A, arg, p, n), Backslash) = At(A, arg, Inside(p), n + 1)
<1> DEFINE r == At(A, arg, p, n)
<1>1. ReadChar(r, Backslash) = [r EXCEPT !.slashes = @ + 1, !.begun = TRUE, !.closed = FALSE]
    BY Characters DEF ReadChar
<1> QED
    BY <1>1 DEF At, Inside, Places

LEMMA ReadOther ==
    ASSUME NEW A, NEW arg \in Strings, NEW p \in Places, NEW n \in Nat, NEW c \in Chars,
           c \notin {Backslash, Quote}, p = "quoted" \/ c # Blank
    PROVE  ReadChar(At(A, arg, p, n), c) = At(A, Append(arg \o Backslashes(n), c), Inside(p), 0)
<1> DEFINE r == At(A, arg, p, n)
<1>1. r.arg = arg /\ r.slashes = n /\ r.quoted = (p = "quoted")
    BY DEF At
<1>2. ReadChar(r, c) = [r EXCEPT !.arg = (r.arg \o Backslashes(r.slashes)) \o <<c>>,
                                 !.slashes = 0, !.begun = TRUE, !.closed = FALSE]
    BY <1>1 DEF ReadChar
<1>3. (arg \o Backslashes(n)) \o <<c>> = Append(arg \o Backslashes(n), c)
    <2>1. arg \o Backslashes(n) \in Strings
        BY BackslashesAre, ConcatProperties DEF Strings
    <2> QED
        BY <2>1, AppendIs DEF Strings
<1> QED
    BY <1>1, <1>2, <1>3 DEF At, Inside, Places

LEMMA ReadBlank ==
    ASSUME NEW A, NEW arg \in Strings, NEW n \in Nat
    PROVE  /\ ReadChar(At(A, arg, "between", n), Blank) = At(A, <<>>, "between", 0)
           /\ ReadChar(At(A, arg, "bare", n), Blank) =
                At(Append(A, arg \o Backslashes(n)), <<>>, "between", 0)
<1>1. ASSUME NEW p \in {"between", "bare"}
      PROVE  ReadChar(At(A, arg, p, n), Blank) =
                At(IF p = "between" THEN A ELSE Append(A, arg \o Backslashes(n)), <<>>, "between", 0)
    <2> DEFINE r == At(A, arg, p, n)
    <2>1. r.quoted = FALSE /\ r.arg = arg /\ r.slashes = n /\ r.args = A /\ r.begun = (p = "bare")
        BY DEF At
    <2>2. ReadChar(r, Blank) =
            [NothingRead EXCEPT !.args = IF r.begun THEN Append(r.args, r.arg \o Backslashes(r.slashes))
                                                    ELSE r.args]
        BY <2>1, Characters DEF ReadChar
    <2> QED
        BY <2>1, <2>2 DEF At, NothingRead
<1> QED
    BY <1>1

\* A quote that opens, one that is a character, and one that closes.
LEMMA ReadQuote ==
    ASSUME NEW A, NEW arg \in Strings, NEW n \in Nat
    PROVE  /\ ReadChar(At(A, <<>>, "between", 0), Quote) = At(A, <<>>, "quoted", 0)
           /\ ReadChar(At(A, arg, "quoted", n + (n + 1)), Quote) =
                At(A, Append(arg \o Backslashes(n), Quote), "quoted", 0)
           /\ ReadChar(At(A, arg, "quoted", n + n), Quote) =
                [args |-> A, arg |-> arg \o Backslashes(n), begun |-> TRUE, quoted |-> FALSE,
                 closed |-> TRUE, slashes |-> 0]
<1>1. /\ (n + (n + 1)) % 2 = 1 /\ (n + (n + 1)) \div 2 = n /\ (n + n) % 2 = 0 /\ (n + n) \div 2 = n
      /\ 0 % 2 = 0 /\ 0 \div 2 = 0
    OBVIOUS
<1>2. ReadChar(At(A, arg, "quoted", n + (n + 1)), Quote) =
        At(A, Append(arg \o Backslashes(n), Quote), "quoted", 0)
    <2> DEFINE m == n + (n + 1)
               r == At(A, arg, "quoted", m)
    <2>1. m % 2 = 1 /\ m \div 2 = n
        BY <1>1
    <2> HIDE DEF m
    <2>2. r.arg = arg /\ r.slashes = m
        BY DEF At
    <2>3. ReadChar(r, Quote) = [r EXCEPT !.arg = (r.arg \o Backslashes(r.slashes \div 2)) \o <<Quote>>,
                                         !.slashes = 0, !.closed = FALSE]
        <3>1. r.slashes % 2 # 0 /\ Quote # Backslash /\ Quote # Blank
            BY <2>1, <2>2, Characters
        <3> QED
            BY <2>1, <2>2, <3>1 DEF ReadChar
    <2>4. (arg \o Backslashes(n)) \o <<Quote>> = Append(arg \o Backslashes(n), Quote)
        <3>1. arg \o Backslashes(n) \in Strings
            BY BackslashesAre, ConcatProperties DEF Strings
        <3> QED
            BY <3>1, Characters, AppendIs DEF Strings
    <2>5. ReadChar(r, Quote) = At(A, Append(arg \o Backslashes(n), Quote), "quoted", 0)
        BY <2>1, <2>2, <2>3, <2>4 DEF At
    <2> QED
        BY <2>5 DEF m
\* A quote after an even number of backslashes.
<1>3. ASSUME NEW p \in Places, NEW s \in Strings, NEW k \in Nat, NEW m \in Nat,
             m % 2 = 0, m \div 2 = k
      PROVE  /\ p = "quoted" => ReadChar(At(A, s, p, m), Quote) =
                   [args |-> A, arg |-> s \o Backslashes(k), begun |-> TRUE, quoted |-> FALSE,
                    closed |-> TRUE, slashes |-> 0]
             /\ p = "between" => ReadChar(At(A, s, p, m), Quote) =
                   [args |-> A, arg |-> s \o Backslashes(k), begun |-> TRUE, quoted |-> TRUE,
                    closed |-> FALSE, slashes |-> 0]
    <2> DEFINE r == At(A, s, p, m)
    <2>1. r.arg = s /\ r.slashes = m /\ r.closed = FALSE /\ r.quoted = (p = "quoted") /\ r.args = A
        BY DEF At
    <2>2. ReadChar(r, Quote) = [r EXCEPT !.arg = r.arg \o Backslashes(r.slashes \div 2), !.slashes = 0,
                                         !.begun = TRUE, !.quoted = ~@, !.closed = r.quoted]
        <3>1. r.slashes % 2 # 1 /\ r.slashes % 2 = 0 /\ Quote # Backslash /\ Quote # Blank
            BY <1>3, <2>1, Characters
        <3> QED
            BY <2>1, <3>1 DEF ReadChar
    <2> QED
        BY <1>3, <2>1, <2>2 DEF At
<1>4. ReadChar(At(A, arg, "quoted", n + n), Quote) =
        [args |-> A, arg |-> arg \o Backslashes(n), begun |-> TRUE, quoted |-> FALSE,
         closed |-> TRUE, slashes |-> 0]
    <2> DEFINE m == n + n
    <2>1. m \in Nat /\ m % 2 = 0 /\ m \div 2 = n
        BY <1>1
    <2> HIDE DEF m
    <2>2. ReadChar(At(A, arg, "quoted", m), Quote) =
            [args |-> A, arg |-> arg \o Backslashes(n), begun |-> TRUE, quoted |-> FALSE,
             closed |-> TRUE, slashes |-> 0]
        BY <1>3, <2>1 DEF Places
    <2> QED
        BY <2>2 DEF m
<1>5. ReadChar(At(A, <<>>, "between", 0), Quote) = At(A, <<>>, "quoted", 0)
    <2>1. <<>> \in Strings /\ <<>> \o Backslashes(0) = <<>>
        BY EmptySeq, ConcatEmptySeq, BackslashesAre DEF Strings
    <2>2. ReadChar(At(A, <<>>, "between", 0), Quote) =
            [args |-> A, arg |-> <<>> \o Backslashes(0), begun |-> TRUE, quoted |-> TRUE,
             closed |-> FALSE, slashes |-> 0]
        BY <1>1, <1>3, <2>1 DEF Places
    <2> QED
        BY <2>1, <2>2 DEF At
<1> QED
    BY <1>2, <1>4, <1>5

\* A run of backslashes is counted.
LEMMA ReadSlashes ==
    ASSUME NEW A, NEW arg \in Strings, NEW n \in Nat, NEW m \in Nat,
           NEW line \in Strings, Reading(line) = At(A, arg, "quoted", n)
    PROVE  Reading(line \o Backslashes(m)) = At(A, arg, "quoted", n + m)
<1> DEFINE S == {k \in 0 .. m : Reading(line \o Backslashes(k)) = At(A, arg, "quoted", n + k)}
<1>1. 0 \in S
    <2>1. line \o Backslashes(0) = line
        BY BackslashesAre, ConcatEmptySeq DEF Strings
    <2>2. n + 0 = n /\ 0 \in 0 .. m
        OBVIOUS
    <2>3. Reading(line \o Backslashes(0)) = At(A, arg, "quoted", n + 0)
        BY <2>1, <2>2, Zenon
    <2> QED
        BY <2>2, <2>3, Zenon
<1>2. ASSUME NEW k \in 0 + 1 .. m, k - 1 \in S PROVE k \in S
    <2>1. k - 1 \in Nat /\ (k - 1) + 1 = k /\ n + (k - 1) \in Nat /\ (n + (k - 1)) + 1 = n + k
        OBVIOUS
    <2>2. Backslashes(k) = Append(Backslashes(k - 1), Backslash) /\ Backslashes(k - 1) \in Strings
        BY <2>1, BackslashesAre
    <2>3. line \o Backslashes(k) = Append(line \o Backslashes(k - 1), Backslash)
        BY <2>2, Characters, ConcatAppend DEF Strings
    <2>4. line \o Backslashes(k - 1) \in Strings
        BY <2>2, ConcatProperties DEF Strings
    <2>5. Reading(line \o Backslashes(k)) = ReadChar(Reading(line \o Backslashes(k - 1)), Backslash)
        BY <2>3, <2>4, ReadingIs, Characters
    <2>6. ReadChar(At(A, arg, "quoted", n + (k - 1)), Backslash) = At(A, arg, "quoted", n + k)
        <3> DEFINE j == n + (k - 1)
        <3>1. j \in Nat /\ j + 1 = n + k
            BY <2>1
        <3> HIDE DEF j
        <3>2. "quoted" \in Places /\ Inside("quoted") = "quoted"
            BY DEF Inside, Places
        <3>3. ReadChar(At(A, arg, "quoted", j), Backslash) = At(A, arg, Inside("quoted"), j + 1)
            BY <3>1, <3>2, ReadBackslash
        <3> QED
            BY <3>1, <3>2, <3>3, Zenon DEF j
    <2> QED
        BY <1>2, <2>5, <2>6
<1> HIDE DEF S
<1>3. \A k \in 0 .. m : k \in S
    BY <1>1, <1>2, IntervalInduction
<1> QED
    BY <1>3 DEF S

-----------------------------------------------------------------------------
(* One argument *)

\* Between the quotes: what has been read, with the backslashes that are pending, is
\* what has been written.
Pending(s, i, arg, n) == arg \in Strings /\ arg \o Backslashes(n) = SubSeq(s, 1, i)

\* One character more, pending or not.
LEMMA PendingStep ==
    ASSUME NEW s \in Strings, NEW i \in 1 .. Len(s), NEW arg, NEW n \in Nat,
           Pending(s, i - 1, arg, n)
    PROVE  /\ s[i] = Backslash => Pending(s, i, arg, n + 1)
           /\ Pending(s, i, Append(arg \o Backslashes(n), s[i]), 0)
<1>1. arg \in Strings /\ Backslashes(n) \in Strings /\ s[i] \in Chars /\ arg \o Backslashes(n) \in Strings
    BY BackslashesAre, CharOf, ConcatProperties DEF Pending, Strings
<1>2. SubSeq(s, 1, i) = Append(arg \o Backslashes(n), s[i])
    BY PrefixIs DEF Pending, Strings
<1>3. ASSUME s[i] = Backslash PROVE Pending(s, i, arg, n + 1)
    <2>1. Backslashes(n + 1) = Append(Backslashes(n), Backslash)
        BY BackslashesAre
    <2>2. arg \o Append(Backslashes(n), Backslash) = Append(arg \o Backslashes(n), Backslash)
        BY <1>1, Characters, ConcatAppend DEF Strings
    <2> QED
        BY <1>1, <1>2, <1>3, <2>1, <2>2 DEF Pending
<1>4. Pending(s, i, Append(arg \o Backslashes(n), s[i]), 0)
    <2> DEFINE t == Append(arg \o Backslashes(n), s[i])
    <2>1. t \in Strings
        BY <1>1, AppendIs DEF Strings
    <2> HIDE DEF t
    <2>2. t \o Backslashes(0) = t
        BY <2>1, BackslashesAre, ConcatEmptySeq DEF Strings
    <2> QED
        BY <1>2, <2>1, <2>2 DEF Pending, t
<1> QED
    BY <1>3, <1>4

LEMMA PendingNone == \A s \in Strings : Pending(s, 0, <<>>, 0)
<1>1. <<>> \in Strings /\ <<>> \o <<>> = <<>>
    BY EmptySeq, ConcatEmptySeq DEF Strings
<1> QED
    BY <1>1, BackslashesAre, PrefixIs DEF Pending, Strings

\* An argument that needs no quotes is read as it is.
LEMMA ReadUnquoted ==
    ASSUME NEW A \in Seq(Strings), NEW line \in Strings, NEW s \in Strings, ~NeedsQuote(s),
           Reading(line) = At(A, <<>>, "between", 0)
    PROVE  Reading(Append(line \o s, Blank)) = At(Append(A, s), <<>>, "between", 0)
<1> DEFINE m == Len(s)
           upTo(i) == line \o SubSeq(s, 1, i)
           place(i) == IF i = 0 THEN "between" ELSE "bare"
           S == {i \in 0 .. m : \E arg \in Strings : \E n \in Nat :
                    /\ Pending(s, i, arg, n)
                    /\ Reading(upTo(i)) = At(A, arg, place(i), n)}
<1>1. m \in Nat \ {0} /\ \A i \in 1 .. m : s[i] \in Chars \ {Blank, Quote}
    BY EmptySeq, LenProperties, CharOf DEF NeedsQuote, Strings
<1>2. 0 \in S
    <2>1. upTo(0) = line
        BY PrefixIs, ConcatEmptySeq DEF Strings
    <2> QED
        <3>1. Pending(s, 0, <<>>, 0) /\ <<>> \in Strings
            BY PendingNone, EmptySeq DEF Strings
        <3>2. Reading(upTo(0)) = At(A, <<>>, place(0), 0)
            BY <2>1
        <3> QED
            BY <1>1, <3>1, <3>2
<1>3. ASSUME NEW i \in 0 + 1 .. m, i - 1 \in S PROVE i \in S
    <2>1. i \in 1 .. m
        BY <1>1
    <2>2. PICK arg \in Strings, n \in Nat : Pending(s, i - 1, arg, n)
                                /\ Reading(upTo(i - 1)) = At(A, arg, place(i - 1), n)
        BY <1>3
    <2>3. upTo(i) = Append(upTo(i - 1), s[i]) /\ upTo(i - 1) \in Strings
        <3>1. SubSeq(s, 1, i) = Append(SubSeq(s, 1, i - 1), s[i]) /\ SubSeq(s, 1, i - 1) \in Strings
            BY <2>1, PrefixIs DEF Strings
        <3>2. s[i] \in Chars
            BY <1>1, <2>1
        <3>3. line \o SubSeq(s, 1, i) = Append(line \o SubSeq(s, 1, i - 1), s[i])
            <4> DEFINE t == SubSeq(s, 1, i - 1)
            <4>1. t \in Seq(Chars) /\ line \in Seq(Chars)
                BY <3>1 DEF Strings
            <4> HIDE DEF t
            <4>2. line \o Append(t, s[i]) = Append(line \o t, s[i])
                BY <3>2, <4>1, ConcatAppend
            <4> QED
                BY <3>1, <4>2 DEF t
        <3> QED
            BY <3>1, <3>3, ConcatProperties DEF Strings
    <2>4. Reading(upTo(i)) = ReadChar(At(A, arg, place(i - 1), n), s[i])
        BY <1>1, <2>1, <2>2, <2>3, ReadingIs
    <2>5. arg \in Strings /\ place(i) = "bare" /\ Inside(place(i - 1)) = "bare" /\ place(i - 1) \in Places
        BY <2>1, <2>2 DEF Pending, Inside, Places
    <2> HIDE DEF upTo, place
    <2>6. CASE s[i] = Backslash
        <3>1. Reading(upTo(i)) = At(A, arg, "bare", n + 1)
            <4>1. ReadChar(At(A, arg, place(i - 1), n), Backslash) = At(A, arg, Inside(place(i - 1)), n + 1)
                BY <2>5, ReadBackslash
            <4> QED
                BY <2>4, <2>5, <2>6, <4>1
        <3>2. Pending(s, i, arg, n + 1)
            BY <2>1, <2>2, <2>6, PendingStep
        <3>3. n + 1 \in Nat /\ i \in 0 .. m
            BY <2>1
        <3> QED
            BY <2>5, <3>1, <3>2, <3>3
    <2>7. CASE s[i] # Backslash
        <3>1. Reading(upTo(i)) = At(A, Append(arg \o Backslashes(n), s[i]), "bare", 0)
            <4>1. s[i] \in Chars /\ s[i] \notin {Backslash, Quote} /\ s[i] # Blank
                BY <1>1, <2>1, <2>7
            <4>2. ReadChar(At(A, arg, place(i - 1), n), s[i]) =
                    At(A, Append(arg \o Backslashes(n), s[i]), Inside(place(i - 1)), 0)
                BY <2>5, <4>1, ReadOther
            <4> QED
                BY <2>4, <2>5, <4>2
        <3>2. Pending(s, i, Append(arg \o Backslashes(n), s[i]), 0)
            BY <2>1, <2>2, PendingStep
        <3>3. i \in 0 .. m /\ Append(arg \o Backslashes(n), s[i]) \in Strings
            BY <2>1, <3>2 DEF Pending
        <3> QED
            BY <2>5, <3>1, <3>2, <3>3
    <2> QED
        BY <2>6, <2>7
<1>4. m \in S
    <2> HIDE DEF S
    <2>1. \A i \in 0 .. m : i \in S
        BY <1>1, <1>2, <1>3, IntervalInduction
    <2> QED
        BY <1>1, <2>1
<1>5. PICK arg \in Strings, n \in Nat : Pending(s, m, arg, n)
                            /\ Reading(upTo(m)) = At(A, arg, place(m), n)
    BY <1>4
<1>6. upTo(m) = line \o s /\ line \o s \in Strings /\ arg \o Backslashes(n) = s /\ arg \in Strings
    BY <1>5, PrefixIs, ConcatProperties DEF Pending, Strings
<1>7. Reading(line \o s) = At(A, arg, "bare", n)
    BY <1>1, <1>5, <1>6
<1>8. ReadChar(At(A, arg, "bare", n), Blank) = At(Append(A, s), <<>>, "between", 0)
    BY <1>6, ReadBlank
<1> QED
    BY <1>6, <1>7, <1>8, ReadingIs, Characters

\* One that needs them is written so that it is read as it is: n backslashes before
\* a quote become 2n + 1, and 2n at the end.
LEMMA EscapeCharIs ==
    ASSUME NEW line \in Strings, NEW w \in Texts, NEW c \in Chars
    PROVE  /\ c # Quote => line \o EscapeChar(w, c).text = Append(line \o w.text, c)
           /\ c = Quote => line \o EscapeChar(w, c).text =
                             Append(Append((line \o w.text) \o Backslashes(w.slashes), Backslash), Quote)
           /\ EscapeChar(w, c).slashes = IF c = Backslash THEN w.slashes + 1 ELSE 0
<1> DEFINE t == w.text
           b == Backslashes(w.slashes)
<1>1. t \in Strings /\ w.slashes \in Nat /\ b \in Strings
    BY BackslashesAre DEF Texts
<1> HIDE DEF t, b
<1>2. c # Quote => EscapeChar(w, c).text = Append(t, c)
    BY Characters DEF EscapeChar, t
<1>3. c # Quote => line \o EscapeChar(w, c).text = Append(line \o t, c)
    <2>1. line \o Append(t, c) = Append(line \o t, c)
        BY <1>1, ConcatAppend DEF Strings
    <2> QED
        BY <1>2, <2>1
<1>4. (t \o b) \o <<Backslash, Quote>> = Append(Append(t \o b, Backslash), Quote)
    <2> DEFINE u == t \o b
    <2>1. u \in Strings /\ Append(u, Backslash) \in Strings
        BY <1>1, Characters, AppendIs, ConcatProperties DEF Strings
    <2> HIDE DEF u
    <2>2. <<Backslash>> \in Strings /\ <<Backslash, Quote>> = Append(<<Backslash>>, Quote)
        BY Characters DEF Strings
    <2>3. u \o Append(<<Backslash>>, Quote) = Append(u \o <<Backslash>>, Quote)
        BY <2>1, <2>2, Characters, ConcatAppend DEF Strings
    <2>4. u \o <<Backslash>> = Append(u, Backslash)
        BY <2>1, Characters, AppendIs DEF Strings
    <2> QED
        BY <2>2, <2>3, <2>4 DEF u
<1>5. c = Quote => EscapeChar(w, c).text = Append(Append(t \o b, Backslash), Quote)
    <2>1. c = Quote => EscapeChar(w, c).text = (t \o b) \o <<Backslash, Quote>>
        BY Characters DEF EscapeChar, t, b
    <2> QED
        BY <1>4, <2>1
<1>6. line \o Append(Append(t \o b, Backslash), Quote) = Append(Append((line \o t) \o b, Backslash), Quote)
    <2> DEFINE u == t \o b
    <2>1. u \in Strings /\ Append(u, Backslash) \in Strings
        BY <1>1, Characters, AppendIs, ConcatProperties DEF Strings
    <2>2. line \o u = (line \o t) \o b
        BY <1>1, ConcatAssociative DEF Strings
    <2> HIDE DEF u
    <2>3. line \o Append(Append(u, Backslash), Quote) = Append(line \o Append(u, Backslash), Quote)
        BY <2>1, Characters, ConcatAppend DEF Strings
    <2>4. line \o Append(u, Backslash) = Append(line \o u, Backslash)
        BY <2>1, Characters, ConcatAppend DEF Strings
    <2> QED
        BY <2>2, <2>3, <2>4 DEF u
<1>7. EscapeChar(w, c).slashes = IF c = Backslash THEN w.slashes + 1 ELSE 0
    BY Characters DEF EscapeChar
<1> QED
    BY <1>3, <1>5, <1>6, <1>7 DEF t, b

LEMMA ReadQuoted ==
    ASSUME NEW A \in Seq(Strings), NEW line \in Strings, NEW s \in Strings,
           Reading(line) = At(A, <<>>, "between", 0)
    PROVE  \A i \in 0 .. Len(s) : \E arg \in Strings :
              /\ Pending(s, i, arg, Quoted(s)[i].slashes)
              /\ Reading(line \o Quoted(s)[i].text) = At(A, arg, "quoted", Quoted(s)[i].slashes)
<1> DEFINE m == Len(s)
           w(i) == Quoted(s)[i]
           upTo(i) == line \o w(i).text
           S == {i \in 0 .. m : \E arg \in Strings :
                    /\ Pending(s, i, arg, w(i).slashes)
                    /\ Reading(upTo(i)) = At(A, arg, "quoted", w(i).slashes)}
<1>1. /\ m \in Nat
      /\ \A i \in 0 .. m : w(i) \in Texts /\ w(i).text \in Strings /\ w(i).slashes \in Nat
      /\ \A i \in 0 .. m : upTo(i) \in Strings
    BY LenProperties, QuotedIs, ConcatProperties DEF Texts, Strings
<1>2. 0 \in S
    <2>1. w(0).text = <<Quote>> /\ w(0).slashes = 0
        BY QuotedIs DEF NoText
    <2>2. upTo(0) = Append(line, Quote)
        BY <2>1, Characters, AppendIs DEF Strings
    <2>3. Reading(upTo(0)) = ReadChar(At(A, <<>>, "between", 0), Quote)
        BY <2>2, ReadingIs, Characters
    <2>4. Pending(s, 0, <<>>, 0) /\ <<>> \in Strings
        BY PendingNone, EmptySeq DEF Strings
    <2> HIDE DEF w, upTo
    <2>5. Reading(upTo(0)) = At(A, <<>>, "quoted", 0)
        BY <2>3, <2>4, ReadQuote
    <2> QED
        BY <1>1, <2>1, <2>4, <2>5
<1>3. ASSUME NEW i \in 0 + 1 .. m, i - 1 \in S PROVE i \in S
    <2> DEFINE v == w(i - 1)
               n == v.slashes
               before == upTo(i - 1)
               c == s[i]
    <2>1. i \in 1 .. m /\ i - 1 \in 0 .. m /\ i \in 0 .. m
        BY <1>1
    <2>2. PICK arg \in Strings : Pending(s, i - 1, arg, n) /\ Reading(before) = At(A, arg, "quoted", n)
        BY <1>3
    <2>3. w(i) = EscapeChar(v, c) /\ v \in Texts /\ n \in Nat /\ c \in Chars /\ before \in Strings
        BY <1>1, <2>1, QuotedIs, CharOf
    <2>4. /\ c # Quote => upTo(i) = Append(before, c)
          /\ c = Quote => upTo(i) = Append(Append(before \o Backslashes(n), Backslash), Quote)
          /\ w(i).slashes = IF c = Backslash THEN n + 1 ELSE 0
        <3> HIDE DEF w, v, c
        <3>1. /\ c # Quote => line \o EscapeChar(v, c).text = Append(line \o v.text, c)
              /\ c = Quote => line \o EscapeChar(v, c).text =
                   Append(Append((line \o v.text) \o Backslashes(v.slashes), Backslash), Quote)
              /\ EscapeChar(v, c).slashes = IF c = Backslash THEN v.slashes + 1 ELSE 0
            BY <2>3, EscapeCharIs
        <3>2. w(i) = EscapeChar(v, c)
            BY <2>3
        <3>3. w(i - 1) = v
            BY DEF v
        <3> QED
            BY <3>1, <3>2, <3>3
    <2>5. /\ c = Backslash => Pending(s, i, arg, n + 1)
          /\ Pending(s, i, Append(arg \o Backslashes(n), c), 0)
        BY <2>1, <2>2, <2>3, PendingStep
    <2>6. "quoted" \in Places /\ Inside("quoted") = "quoted"
        BY DEF Places, Inside
    <2> HIDE DEF w, upTo, v, n, before, c
    <2>7. CASE c = Backslash
        <3>1. Reading(upTo(i)) = ReadChar(At(A, arg, "quoted", n), Backslash)
            BY <2>2, <2>3, <2>4, <2>7, Characters, ReadingIs
        <3>2. ReadChar(At(A, arg, "quoted", n), Backslash) = At(A, arg, Inside("quoted"), n + 1)
            BY <2>3, <2>6, ReadBackslash
        <3>3. Reading(upTo(i)) = At(A, arg, "quoted", w(i).slashes) /\ Pending(s, i, arg, w(i).slashes)
            BY <2>4, <2>5, <2>6, <2>7, <3>1, <3>2
        <3> QED
            BY <2>1, <3>3
    <2>8. CASE c \notin {Backslash, Quote}
        <3> DEFINE t == Append(arg \o Backslashes(n), c)
        <3>1. Reading(upTo(i)) = ReadChar(At(A, arg, "quoted", n), c)
            BY <2>2, <2>3, <2>4, <2>8, ReadingIs
        <3>2. ReadChar(At(A, arg, "quoted", n), c) = At(A, t, Inside("quoted"), 0)
            BY <2>3, <2>6, <2>8, ReadOther
        <3>3. Reading(upTo(i)) = At(A, t, "quoted", w(i).slashes) /\ Pending(s, i, t, w(i).slashes)
            BY <2>4, <2>5, <2>6, <2>8, <3>1, <3>2
        <3>4. t \in Strings
            BY <2>5 DEF Pending
        <3> QED
            BY <2>1, <3>3, <3>4
    <2>9. CASE c = Quote
        <3> DEFINE t == Append(arg \o Backslashes(n), Quote)
                   slashed == before \o Backslashes(n)
        <3>1. slashed \in Strings /\ Append(slashed, Backslash) \in Strings
            BY <2>3, BackslashesAre, Characters, AppendIs, ConcatProperties DEF Strings
        <3>2. Reading(slashed) = At(A, arg, "quoted", n + n)
            <4>1. Reading(before) = At(A, arg, "quoted", n) /\ n \in Nat /\ before \in Strings
                BY <2>2, <2>3
            <4> QED
                BY <4>1, ReadSlashes
        <3>3. Reading(Append(slashed, Backslash)) = At(A, arg, "quoted", n + (n + 1))
            <4> DEFINE j == n + n
            <4>1. j \in Nat /\ j + 1 = n + (n + 1)
                BY <2>3
            <4> HIDE DEF slashed
            <4>2. Reading(Append(slashed, Backslash)) = ReadChar(At(A, arg, "quoted", j), Backslash)
                BY <3>1, <3>2, Characters, ReadingIs
            <4> HIDE DEF j
            <4>3. ReadChar(At(A, arg, "quoted", j), Backslash) = At(A, arg, Inside("quoted"), j + 1)
                BY <2>6, <4>1, ReadBackslash
            <4> QED
                BY <2>6, <4>1, <4>2, <4>3, Zenon
        <3>4. Reading(upTo(i)) = ReadChar(At(A, arg, "quoted", n + (n + 1)), Quote)
            BY <2>4, <2>9, <3>1, <3>3, Characters, ReadingIs
        <3>5. ReadChar(At(A, arg, "quoted", n + (n + 1)), Quote) = At(A, t, "quoted", 0)
            BY <2>3, ReadQuote
        <3>6. w(i).slashes = 0 /\ Pending(s, i, t, 0) /\ t \in Strings
            BY <2>4, <2>5, <2>9, Characters DEF Pending
        <3> QED
            BY <2>1, <3>4, <3>5, <3>6
    <2> QED
        BY <2>7, <2>8, <2>9
<1> HIDE DEF S
<1>4. \A i \in 0 .. m : i \in S
    BY <1>1, <1>2, <1>3, IntervalInduction
<1> QED
    BY <1>4 DEF S

LEMMA ReadArgument ==
    ASSUME NEW A \in Seq(Strings), NEW line \in Strings, NEW s \in Strings,
           Reading(line) = At(A, <<>>, "between", 0)
    PROVE  Reading(Append(line \o EscapeWindowsArg(s), Blank)) = At(Append(A, s), <<>>, "between", 0)
<1>1. CASE ~NeedsQuote(s)
    <2>1. EscapeWindowsArg(s) = s
        BY <1>1 DEF EscapeWindowsArg
    <2> QED
        BY <1>1, <2>1, ReadUnquoted
<1>2. CASE NeedsQuote(s)
    <2> DEFINE w == Quoted(s)[Len(s)]
               b == Backslashes(w.slashes)
               open == line \o w.text
               slashed == open \o b
               closed == Append(slashed, Quote)
    <2>1. w \in Texts /\ w.text \in Strings /\ w.slashes \in Nat /\ b \in Strings
        <3>1. Len(s) \in 0 .. Len(s)
            BY LenProperties DEF Strings
        <3>2. w \in Texts
            BY <3>1, QuotedIs
        <3> HIDE DEF w
        <3> QED
            BY <3>2, BackslashesAre DEF Texts
    <2>2. PICK arg \in Strings : Pending(s, Len(s), arg, w.slashes)
                                 /\ Reading(open) = At(A, arg, "quoted", w.slashes)
        <3>1. Len(s) \in 0 .. Len(s)
            BY LenProperties DEF Strings
        <3> QED
            BY <3>1, ReadQuoted
    <2>3. arg \o b = s
        BY <2>2, PrefixIs DEF Pending, Strings
    <2>4. open \in Strings /\ slashed \in Strings /\ closed \in Strings
        BY <2>1, Characters, AppendIs, ConcatProperties DEF Strings
    <2>5. line \o EscapeWindowsArg(s) = closed
        <3> HIDE DEF w, b
        <3>1. EscapeWindowsArg(s) = (w.text \o b) \o <<Quote>>
            BY <1>2 DEF EscapeWindowsArg, w, b
        <3>2. w.text \o b \in Strings
            BY <2>1, ConcatProperties DEF Strings
        <3>3. (w.text \o b) \o <<Quote>> = Append(w.text \o b, Quote)
            BY <3>2, Characters, AppendIs DEF Strings
        <3>4. line \o Append(w.text \o b, Quote) = Append(line \o (w.text \o b), Quote)
            <4> DEFINE u == w.text \o b
            <4>1. u \in Strings
                BY <3>2
            <4> HIDE DEF u
            <4>2. line \o Append(u, Quote) = Append(line \o u, Quote)
                BY <4>1, Characters, ConcatAppend DEF Strings
            <4> QED
                BY <4>2 DEF u
        <3>5. line \o (w.text \o b) = slashed
            <4> DEFINE u == w.text
            <4>1. u \in Strings /\ b \in Strings
                BY <2>1
            <4> HIDE DEF u
            <4>2. (line \o u) \o b = line \o (u \o b)
                BY <4>1, ConcatThree
            <4> QED
                BY <4>2 DEF u
        <3> QED
            BY <3>1, <3>3, <3>4, <3>5
    <2> DEFINE n == w.slashes
    <2>6. Reading(slashed) = At(A, arg, "quoted", n + n)
        <3> HIDE DEF w, open
        <3>1. n \in Nat /\ open \in Strings /\ Reading(open) = At(A, arg, "quoted", n)
            BY <2>1, <2>2, <2>4
        <3> QED
            BY <3>1, ReadSlashes
    <2> HIDE DEF w, open, slashed, closed, b, n
    <2>7. Reading(closed) = ReadChar(At(A, arg, "quoted", n + n), Quote)
        BY <2>4, <2>6, Characters, ReadingIs DEF closed
    <2>8. ReadChar(At(A, arg, "quoted", n + n), Quote) =
            [args |-> A, arg |-> s, begun |-> TRUE, quoted |-> FALSE, closed |-> TRUE, slashes |-> 0]
        <3>1. n \in Nat
            BY <2>1 DEF n
        <3>2. arg \o Backslashes(n) = s
            BY <2>3 DEF b, n
        <3> QED
            BY <3>1, <3>2, ReadQuote
    <2>9. Reading(Append(closed, Blank)) = ReadChar(Reading(closed), Blank)
        BY <2>4, Characters, ReadingIs
    <2> DEFINE r == [args |-> A, arg |-> s, begun |-> TRUE, quoted |-> FALSE, closed |-> TRUE, slashes |-> 0]
    <2>10. ReadChar(r, Blank) = At(Append(A, s), <<>>, "between", 0)
        <3>1. ReadChar(r, Blank) = [NothingRead EXCEPT !.args = Append(A, s \o Backslashes(0))]
            BY Characters DEF ReadChar
        <3>2. s \o Backslashes(0) = s
            BY BackslashesAre, ConcatEmptySeq DEF Strings
        <3> QED
            BY <3>1, <3>2 DEF At, NothingRead
    <2> QED
        BY <2>5, <2>7, <2>8, <2>9, <2>10
<1> QED
    BY <1>1, <1>2

\* The child is given the arguments that its parent wrote, whatever strings they are
\* (windowsCommandLine, and commandLineToArgv of package os).
THEOREM ArgumentsArrive ==
    \A args \in Seq(Strings) : CommandLineToArgv(WindowsCommandLine(args)) = args
<1> SUFFICES ASSUME NEW args \in Seq(Strings)
             PROVE  CommandLineToArgv(WindowsCommandLine(args)) = args
    OBVIOUS
<1> DEFINE m == Len(args)
           joined(i) == Joined(args)[i]
           before(i) == IF i = 0 THEN <<>> ELSE Append(joined(i), Blank)
           S == {i \in 0 .. m : Reading(before(i)) = At(SubSeq(args, 1, i), <<>>, "between", 0)}
<1>1. m \in Nat /\ joined(0) = <<>> /\ \A i \in 0 .. m : joined(i) \in Strings
    BY LenProperties, JoinedIs
<1>2. 0 \in S
    <2>1. Reading(before(0)) = NothingRead
        BY ReadingIs
    <2>2. NothingRead = At(<<>>, <<>>, "between", 0)
        BY DEF NothingRead, At
    <2> QED
        <3>1. SubSeq(args, 1, 0) = <<>> /\ 0 \in 0 .. m
            BY <1>1, PrefixIs
        <3>2. Reading(before(0)) = At(SubSeq(args, 1, 0), <<>>, "between", 0)
            BY <2>1, <2>2, <3>1
        <3> HIDE DEF before
        <3> QED
            BY <3>1, <3>2
<1>3. ASSUME NEW i \in 0 + 1 .. m, i - 1 \in S PROVE i \in S
    <2>1. i \in 1 .. m /\ i - 1 \in 0 .. m /\ i # 0 /\ i \in 0 .. m /\ (i - 1 = 0 <=> i = 1)
        BY <1>1
    <2>2. joined(i) = before(i - 1) \o EscapeWindowsArg(args[i])
        <3>1. joined(i) = Join(joined(i - 1), args, i)
            BY <2>1, JoinedIs
        <3> HIDE DEF joined
        <3>2. CASE i = 1
            BY <1>1, <2>1, <3>1, <3>2 DEF Join
        <3>3. CASE i # 1
            BY <2>1, <3>1, <3>3 DEF Join
        <3> QED
            BY <3>2, <3>3
    <2>3. before(i - 1) \in Strings
        BY <1>1, <2>1, EmptySeq, Characters, AppendIs DEF Strings
    <2>4. Reading(before(i - 1)) = At(SubSeq(args, 1, i - 1), <<>>, "between", 0)
        BY <1>3
    <2>5. /\ args[i] \in Strings /\ SubSeq(args, 1, i - 1) \in Seq(Strings)
          /\ SubSeq(args, 1, i) = Append(SubSeq(args, 1, i - 1), args[i])
        BY <2>1, ElementOfSeq, PrefixIs
    <2>6. before(i) = Append(before(i - 1) \o EscapeWindowsArg(args[i]), Blank)
        BY <2>1, <2>2
    <2> HIDE DEF before
    <2>7. Reading(before(i)) = At(Append(SubSeq(args, 1, i - 1), args[i]), <<>>, "between", 0)
        BY <2>3, <2>4, <2>5, <2>6, ReadArgument
    <2> QED
        BY <2>1, <2>5, <2>7
<1>4. Reading(before(m)) = At(args, <<>>, "between", 0)
    <2> HIDE DEF S
    <2>1. \A i \in 0 .. m : i \in S
        BY <1>1, <1>2, <1>3, IntervalInduction
    <2>2. Reading(before(m)) = At(SubSeq(args, 1, m), <<>>, "between", 0)
        BY <1>1, <2>1 DEF S
    <2> QED
        BY <2>2, PrefixIs
<1> DEFINE line == joined(m)
<1>5. WindowsCommandLine(args) = line /\ line \in Strings
    BY <1>1 DEF WindowsCommandLine
<1>6. CommandLineToArgv(line) = Reading(Append(line, Blank)).args
    <2> HIDE DEF line
    <2>1. Len(Append(line, Blank)) = Len(line) + 1
        BY <1>5, Characters, AppendIs DEF Strings
    <2> QED
        BY <2>1 DEF CommandLineToArgv, Reading
<1>7. Reading(Append(line, Blank)).args = args
    <2>1. CASE m = 0
        <3>1. line = <<>> /\ args = <<>>
            BY <1>1, <2>1, EmptySeq
        <3>2. Reading(Append(line, Blank)) = ReadChar(NothingRead, Blank)
            BY <1>5, <3>1, Characters, ReadingIs
        <3>3. NothingRead = At(<<>>, <<>>, "between", 0) /\ <<>> \in Strings
            BY EmptySeq DEF NothingRead, At, Strings
        <3>4. ReadChar(NothingRead, Blank) = NothingRead
            BY <3>3, ReadBlank
        <3> QED
            BY <3>1, <3>2, <3>4 DEF NothingRead
    <2>2. CASE m # 0
        <3>1. before(m) = Append(line, Blank)
            BY <2>2
        <3> QED
            BY <1>4, <3>1 DEF At
    <2> QED
        BY <2>1, <2>2
<1> QED
    BY <1>5, <1>6, <1>7

-----------------------------------------------------------------------------
(* The options *)

Parses == [flags : SUBSET ((Valued \cup Switches) \X Strings), next : Valued \cup {""},
           ended : BOOLEAN]

\* The three things that happen at an argument, when no flag waits for its value.
FlagsRead(F) == [flags |-> F, next |-> "", ended |-> FALSE]

LEMMA FlagKinds == "" \notin Valued /\ Valued \cap Switches = {}
BY DEF Valued, Switches

LEMMA FlagWaits ==
    ASSUME NEW F, NEW f \in Valued
    PROVE  ParseFlag(FlagsRead(F), <<f>>) = [flags |-> F, next |-> f, ended |-> FALSE]
BY FlagKinds DEF ParseFlag, FlagsRead

LEMMA FlagGets ==
    ASSUME NEW F, NEW f \in Valued, NEW v
    PROVE  ParseFlag([flags |-> F, next |-> f, ended |-> FALSE], v) = FlagsRead(F \cup {<<f, v>>})
BY FlagKinds DEF ParseFlag, FlagsRead

LEMMA FlagSwitches ==
    ASSUME NEW F, NEW f \in Switches
    PROVE  ParseFlag(FlagsRead(F), <<f>>) = FlagsRead(F \cup {<<f, <<>>>>})
<1>1. \A g \in Valued : <<f>> # <<g>>
    BY FlagKinds
<1> QED
    BY <1>1 DEF ParseFlag, FlagsRead

LEMMA ParseFlagType ==
    ASSUME NEW r \in Parses, NEW arg \in Strings
    PROVE  ParseFlag(r, arg) \in Parses
<1> DEFINE Pairs == (Valued \cup Switches) \X Strings
<1>1. /\ r = [flags |-> r.flags, next |-> r.next, ended |-> r.ended]
      /\ r.flags \in SUBSET Pairs /\ r.next \in Valued \cup {""} /\ r.ended \in BOOLEAN
    BY DEF Parses
<1>2. ASSUME r.next # "" PROVE [r EXCEPT !.flags = @ \cup {<<r.next, arg>>}, !.next = ""] \in Parses
    <2> DEFINE F == r.flags \cup {<<r.next, arg>>}
    <2>1. <<r.next, arg>> \in Pairs
        BY <1>1, <1>2
    <2>2. F \in SUBSET Pairs
        BY <1>1, <2>1
    <2> HIDE DEF F, Pairs
    <2>3. [r EXCEPT !.flags = F, !.next = ""] \in Parses
        BY <1>1, <2>2 DEF Parses, Pairs
    <2> QED
        BY <2>3 DEF F
<1>3. ASSUME NEW f \in Valued, arg = <<f>> PROVE [r EXCEPT !.next = arg[1]] \in Parses
    <2>1. arg[1] \in Valued
        BY <1>3
    <2> QED
        BY <2>1 DEF Parses
<1>4. ASSUME NEW f \in Switches, arg = <<f>>
      PROVE  [r EXCEPT !.flags = @ \cup {<<arg[1], <<>>>>}] \in Parses
    <2> DEFINE F == r.flags \cup {<<arg[1], <<>>>>}
    <2>1. <<arg[1], <<>>>> \in Pairs
        <3>1. <<>> \in Strings
            BY EmptySeq DEF Strings
        <3>2. arg[1] \in Switches
            BY <1>4
        <3> QED
            BY <3>1, <3>2
    <2>2. F \in SUBSET Pairs
        BY <1>1, <2>1
    <2> HIDE DEF F, Pairs
    <2>3. [r EXCEPT !.flags = F] \in Parses
        BY <1>1, <2>2 DEF Parses, Pairs
    <2> QED
        BY <2>3 DEF F
<1>5. [r EXCEPT !.ended = TRUE] \in Parses
    BY DEF Parses
<1> QED
    BY <1>2, <1>3, <1>4, <1>5 DEF ParseFlag

LEMMA ParsedIs ==
    ASSUME NEW argv \in Seq(Strings)
    PROVE  /\ Parsed(argv)[0] = NoFlags
           /\ \A i \in 1 .. Len(argv) : Parsed(argv)[i] = ParseFlag(Parsed(argv)[i - 1], argv[i])
           /\ \A i \in 0 .. Len(argv) : Parsed(argv)[i] \in Parses
<1> DEFINE n == Len(argv)
           Adds(x, i) == ParseFlag(x, argv[i])
           step == [x \in Parses \X (1 .. n) |-> Adds(x[1], x[2])]
           Is(f) == f = [k \in 0 .. n |-> IF k = 0 THEN NoFlags ELSE Adds(f[k - 1], k)]
<1>1. n \in Nat /\ (\A i \in 1 .. n, x \in Parses : Adds(x, i) \in Parses)
    BY LenProperties, ElementOfSeq, ParseFlagType
<1> HIDE DEF n, Adds
<1>2. NoFlags \in Parses /\ step \in [Parses \X (1 .. n) -> Parses]
    <2>1. NoFlags \in Parses
        BY DEF NoFlags, Parses
    <2> QED
        BY <1>1, <2>1
<1>3. PICK f : IsRun(f, n, Parses, NoFlags, step)
    <2> HIDE DEF step
    <2> QED
        BY <1>1, <1>2, RunExists
<1>4. f \in [0 .. n -> Parses] /\ f[0] = NoFlags
    BY <1>3 DEF IsRun
<1>5. ASSUME NEW i \in 1 .. n PROVE f[i] = Adds(f[i - 1], i)
    <2>1. f[i - 1] \in Parses
        BY <1>1, <1>4
    <2> QED
        BY <1>3, <2>1 DEF IsRun
<1>6. Is(f)
    BY <1>1, <1>4, <1>5
<1> DEFINE g == CHOOSE h : Is(h)
<1>7. Is(g)
    BY <1>6
<1>8. Parsed(argv) = g
    BY DEF Parsed, Adds, n
<1> HIDE DEF g
<1>9. g[0] = NoFlags /\ \A i \in 1 .. n : g[i] = Adds(g[i - 1], i)
    BY <1>1, <1>7
<1>10. \A i \in 0 .. n : g[i] \in Parses
    <2> DEFINE S == {i \in 0 .. n : g[i] \in Parses}
    <2>1. 0 \in S
        BY <1>1, <1>2, <1>9
    <2>2. ASSUME NEW i \in 0 + 1 .. n, i - 1 \in S PROVE i \in S
        BY <2>2, <1>1, <1>9
    <2> HIDE DEF S
    <2>3. \A i \in 0 .. n : i \in S
        BY <1>1, <2>1, <2>2, IntervalInduction
    <2> QED
        BY <2>3 DEF S
<1> QED
    BY <1>8, <1>9, <1>10 DEF n, Adds

\* What has been read of all arguments, and with one argument more.
Parsing(argv) == Parsed(argv)[Len(argv)]

LEMMA ParsingIs ==
    /\ Parsing(<<>>) = NoFlags
    /\ \A argv \in Seq(Strings), arg \in Strings :
         Parsing(Append(argv, arg)) = ParseFlag(Parsing(argv), arg)
<1>1. Parsing(<<>>) = NoFlags
    BY ParsedIs, EmptySeq DEF Parsing
<1>2. ASSUME NEW argv \in Seq(Strings), NEW arg \in Strings
      PROVE  Parsing(Append(argv, arg)) = ParseFlag(Parsing(argv), arg)
    <2> DEFINE more == Append(argv, arg)
               n == Len(argv)
    <2>1. /\ n \in Nat /\ more \in Seq(Strings) /\ Len(more) = n + 1 /\ more[n + 1] = arg
          /\ \A i \in 1 .. n : more[i] = argv[i]
        BY LenProperties, AppendIs 
    <2>2. \A i \in 0 .. n : Parsed(more)[i] = Parsed(argv)[i]
        <3> DEFINE S == {i \in 0 .. n : Parsed(more)[i] = Parsed(argv)[i]}
        <3> HIDE DEF more
        <3>1. 0 \in S
            BY <2>1, ParsedIs
        <3>2. ASSUME NEW i \in 0 + 1 .. n, i - 1 \in S PROVE i \in S
            <4>1. i \in 1 .. n /\ i \in 1 .. n + 1
                BY <2>1
            <4>2. Parsed(more)[i] = ParseFlag(Parsed(more)[i - 1], more[i])
                BY <2>1, <4>1, ParsedIs
            <4>3. Parsed(argv)[i] = ParseFlag(Parsed(argv)[i - 1], argv[i])
                BY <4>1, ParsedIs
            <4> QED
                BY <2>1, <3>2, <4>1, <4>2, <4>3
        <3> HIDE DEF S
        <3>3. \A i \in 0 .. n : i \in S
            BY <2>1, <3>1, <3>2, IntervalInduction
        <3> QED
            BY <3>3 DEF S
    <2> HIDE DEF more
    <2>3. Parsed(more)[n + 1] = ParseFlag(Parsed(more)[n], arg)
        <3>1. n + 1 \in 1 .. Len(more) /\ n + 1 - 1 = n
            BY <2>1
        <3> QED
            BY <2>1, <3>1, ParsedIs
    <2>4. Parsed(more)[n] = Parsed(argv)[n]
        BY <2>1, <2>2
    <2> QED
        BY <2>1, <2>3, <2>4 DEF Parsing, more
<1> QED
    BY <1>1, <1>2

\* A flag is read together with its value.
LEMMA FlagString ==
    ASSUME NEW f \in Valued \cup Switches
    PROVE  <<f>> \in Strings
BY StringsAssumption DEF Strings

LEMMA SwitchRead ==
    ASSUME NEW argv \in Seq(Strings), NEW F, Parsing(argv) = FlagsRead(F), NEW f \in Switches
    PROVE  /\ argv \o <<<<f>>>> \in Seq(Strings)
           /\ Parsing(argv \o <<<<f>>>>) = FlagsRead(F \cup {<<f, <<>>>>})
<1> DEFINE arg == <<f>>
<1>1. arg \in Strings
    BY FlagString
<1>2. ParseFlag(FlagsRead(F), arg) = FlagsRead(F \cup {<<f, <<>>>>})
    BY FlagSwitches
<1> HIDE DEF arg
<1>3. argv \o <<arg>> = Append(argv, arg) /\ Append(argv, arg) \in Seq(Strings)
    BY <1>1, AppendIs
<1>4. Parsing(Append(argv, arg)) = ParseFlag(FlagsRead(F), arg)
    BY <1>1, ParsingIs
<1> QED
    BY <1>2, <1>3, <1>4 DEF arg

LEMMA ValueRead ==
    ASSUME NEW argv \in Seq(Strings), NEW F, Parsing(argv) = FlagsRead(F), NEW f \in Valued,
           NEW v \in Strings
    PROVE  /\ argv \o <<<<f>>, v>> \in Seq(Strings)
           /\ Parsing(argv \o <<<<f>>, v>>) = FlagsRead(F \cup {<<f, v>>})
<1> DEFINE arg == <<f>>
           waits == [flags |-> F, next |-> f, ended |-> FALSE]
           more == Append(argv, arg)
<1>1. arg \in Strings
    BY FlagString
<1>2. ParseFlag(FlagsRead(F), arg) = waits /\ ParseFlag(waits, v) = FlagsRead(F \cup {<<f, v>>})
    <2>1. ParseFlag(FlagsRead(F), <<f>>) = [flags |-> F, next |-> f, ended |-> FALSE]
        BY FlagWaits
    <2>2. ParseFlag([flags |-> F, next |-> f, ended |-> FALSE], v) = FlagsRead(F \cup {<<f, v>>})
        BY FlagGets
    <2> QED
        BY <2>1, <2>2
<1> HIDE DEF arg, waits
<1>3. more \in Seq(Strings) /\ argv \o <<arg>> = more
    BY <1>1, AppendIs
<1>4. Append(more, v) \in Seq(Strings) /\ argv \o <<arg, v>> = Append(more, v)
    <2>1. <<arg>> \in Seq(Strings) /\ <<arg, v>> = Append(<<arg>>, v)
        BY <1>1
    <2>2. argv \o Append(<<arg>>, v) = Append(argv \o <<arg>>, v)
        BY <2>1, ConcatAppend
    <2> QED
        BY <1>3, <2>1, <2>2, AppendIs
<1> HIDE DEF more
<1>5. Parsing(more) = waits
    <2>1. Parsing(Append(argv, arg)) = ParseFlag(FlagsRead(F), arg)
        BY <1>1, ParsingIs
    <2> QED
        BY <1>2, <2>1 DEF more
<1>6. Parsing(Append(more, v)) = ParseFlag(waits, v)
    BY <1>3, <1>5, ParsingIs
<1> QED
    BY <1>2, <1>4, <1>6 DEF arg

LEMMA FourArguments ==
    ASSUME NEW S, NEW a \in S, NEW b \in S, NEW c \in S, NEW d \in S
    PROVE  ((<<>> \o <<a>>) \o <<b>>) \o <<c, d>> = <<a, b, c, d>>
<1>1. <<a>> \in Seq(S) /\ <<a, b>> \in Seq(S) /\ <<c>> \in Seq(S) /\ <<a, b, c>> \in Seq(S)
    OBVIOUS
<1>2. /\ <<a, b>> = Append(<<a>>, b) /\ <<a, b, c>> = Append(<<a, b>>, c)
      /\ <<a, b, c, d>> = Append(<<a, b, c>>, d) /\ <<c, d>> = Append(<<c>>, d)
    OBVIOUS
<1>3. <<>> \o <<a>> = <<a>>
    BY <1>1, ConcatEmptySeq
<1>4. <<a>> \o <<b>> = <<a, b>>
    <2> DEFINE s == <<a>>
    <2>1. s \in Seq(S)
        BY <1>1
    <2> HIDE DEF s
    <2>2. s \o <<b>> = Append(s, b)
        BY <2>1, AppendIs
    <2> QED
        BY <1>2, <2>2 DEF s
<1>5. <<a, b>> \o <<c>> = <<a, b, c>>
    <2> DEFINE s == <<a, b>>
    <2>1. s \in Seq(S)
        BY <1>1
    <2> HIDE DEF s
    <2>2. s \o <<c>> = Append(s, c)
        BY <2>1, AppendIs
    <2> QED
        BY <1>2, <2>2 DEF s
<1>6. <<a, b>> \o Append(<<c>>, d) = Append(<<a, b>> \o <<c>>, d)
    BY <1>1, ConcatAppend
<1> QED
    BY <1>2, <1>3, <1>4, <1>5, <1>6

\* The flags of a child, from the arguments its parent gives it.
FlagsOf(configDNS, o) ==
    {<<"-install", <<>>>>, <<"-quiet", <<>>>>, <<"-config", ConfigPath>>}
    \cup (IF InstallSetsSystemDNS(configDNS, o) THEN {} ELSE {<<"-no-dns", <<>>>>})
    \cup (IF o.dir = <<>> THEN {} ELSE {<<"-install-dir", o.dir>>})
    \cup (IF o.current THEN {<<"-current-version", <<"v">>>>} ELSE {})

LEMMA FlagsArrive ==
    ASSUME NEW o \in InstallOptions, NEW dns \in BOOLEAN
    PROVE  /\ ElevatedInstallArgs(dns, o) \in Seq(Strings)
           /\ ParseFlags(ElevatedInstallArgs(dns, o)) = FlagsOf(dns, o)
<1> DEFINE e == <<>>
           a1 == e \o <<<<"-install">>>>
           a2 == a1 \o <<<<"-quiet">>>>
           a3 == a2 \o <<<<"-config">>, ConfigPath>>
           a4 == a3 \o (IF InstallSetsSystemDNS(dns, o) THEN <<>> ELSE <<<<"-no-dns">>>>)
           a5 == a4 \o (IF o.dir = <<>> THEN <<>> ELSE <<<<"-install-dir">>, o.dir>>)
           a6 == a5 \o (IF o.current THEN <<<<"-current-version">>, <<"v">>>> ELSE <<>>)
           F1 == {} \cup {<<"-install", <<>>>>}
           F2 == F1 \cup {<<"-quiet", <<>>>>}
           F3 == F2 \cup {<<"-config", ConfigPath>>}
           F4 == F3 \cup (IF InstallSetsSystemDNS(dns, o) THEN {} ELSE {<<"-no-dns", <<>>>>})
           F5 == F4 \cup (IF o.dir = <<>> THEN {} ELSE {<<"-install-dir", o.dir>>})
           F6 == F5 \cup (IF o.current THEN {<<"-current-version", <<"v">>>>} ELSE {})
<1>1. e \in Seq(Strings) /\ Parsing(e) = FlagsRead({})
    BY EmptySeq, ParsingIs DEF NoFlags, FlagsRead
<1>2. /\ "-install" \in Switches /\ "-quiet" \in Switches /\ "-no-dns" \in Switches
      /\ "-config" \in Valued /\ "-install-dir" \in Valued /\ "-current-version" \in Valued
    BY DEF Switches, Valued
<1>3. ConfigPath \in Strings /\ o.dir \in Strings /\ <<"v">> \in Strings
    BY StringsAssumption DEF InstallOptions, Strings
<1>4. a1 \in Seq(Strings) /\ Parsing(a1) = FlagsRead(F1)
    BY <1>1, <1>2, SwitchRead
<1>5. a2 \in Seq(Strings) /\ Parsing(a2) = FlagsRead(F2)
    <2> HIDE DEF a1, F1
    <2> QED
        BY <1>2, <1>4, SwitchRead
<1>6. a3 \in Seq(Strings) /\ Parsing(a3) = FlagsRead(F3)
    <2> DEFINE v == ConfigPath
               f == "-config"
    <2>1. v \in Strings /\ f \in Valued
        BY <1>2, <1>3
    <2> HIDE DEF a2, F2, v, f
    <2>2. a2 \o <<<<f>>, v>> \in Seq(Strings) /\ Parsing(a2 \o <<<<f>>, v>>) = FlagsRead(F2 \cup {<<f, v>>})
        BY <1>5, <2>1, ValueRead
    <2> QED
        BY <2>2 DEF f, v
<1>7. a4 \in Seq(Strings) /\ Parsing(a4) = FlagsRead(F4)
    <2> HIDE DEF a3, F3
    <2>1. CASE InstallSetsSystemDNS(dns, o)
        <3>1. a4 = a3 /\ F4 = F3
            BY <1>6, <2>1, ConcatEmptySeq
        <3> QED
            BY <1>6, <3>1
    <2>2. CASE ~InstallSetsSystemDNS(dns, o)
        <3>1. a4 = a3 \o <<<<"-no-dns">>>> /\ F4 = F3 \cup {<<"-no-dns", <<>>>>}
            BY <2>2
        <3> QED
            <4>1. /\ a3 \o <<<<"-no-dns">>>> \in Seq(Strings)
                  /\ Parsing(a3 \o <<<<"-no-dns">>>>) = FlagsRead(F3 \cup {<<"-no-dns", <<>>>>})
                BY <1>2, <1>6, SwitchRead
            <4> QED
                BY <3>1, <4>1
    <2> QED
        BY <2>1, <2>2
<1>8. a5 \in Seq(Strings) /\ Parsing(a5) = FlagsRead(F5)
    <2> HIDE DEF a4, F4
    <2>1. CASE o.dir = <<>>
        <3>1. a5 = a4 /\ F5 = F4
            BY <1>7, <2>1, ConcatEmptySeq
        <3> QED
            BY <1>7, <3>1
    <2>2. CASE o.dir # <<>>
        <3>1. a5 = a4 \o <<<<"-install-dir">>, o.dir>> /\ F5 = F4 \cup {<<"-install-dir", o.dir>>}
            BY <2>2
        <3> QED
            <4> DEFINE v == o.dir
                       f == "-install-dir"
            <4>1. v \in Strings /\ f \in Valued
                BY <1>2, <1>3
            <4> HIDE DEF v, f
            <4>2. /\ a4 \o <<<<f>>, v>> \in Seq(Strings)
                  /\ Parsing(a4 \o <<<<f>>, v>>) = FlagsRead(F4 \cup {<<f, v>>})
                BY <1>7, <4>1, ValueRead
            <4> QED
                BY <3>1, <4>2 DEF f, v
    <2> QED
        BY <2>1, <2>2
<1>9. a6 \in Seq(Strings) /\ Parsing(a6) = FlagsRead(F6)
    <2> HIDE DEF a5, F5
    <2>1. CASE ~o.current
        <3>1. a6 = a5 /\ F6 = F5
            BY <1>8, <2>1, ConcatEmptySeq
        <3> QED
            BY <1>8, <3>1
    <2>2. CASE o.current
        <3>1. a6 = a5 \o <<<<"-current-version">>, <<"v">>>>
              /\ F6 = F5 \cup {<<"-current-version", <<"v">>>>}
            BY <2>2
        <3> QED
            <4>1. /\ a5 \o <<<<"-current-version">>, <<"v">>>> \in Seq(Strings)
                  /\ Parsing(a5 \o <<<<"-current-version">>, <<"v">>>>) = FlagsRead(F5 \cup {<<"-current-version", <<"v">>>>})
                BY <1>2, <1>3, <1>8, ValueRead
            <4> QED
                BY <3>1, <4>1
    <2> QED
        BY <2>1, <2>2
<1>10. a3 = <<<<"-install">>, <<"-quiet">>, <<"-config">>, ConfigPath>>
    <2>1. <<"-install">> \in Strings /\ <<"-quiet">> \in Strings /\ <<"-config">> \in Strings
        BY <1>2, StringsAssumption DEF Strings
    <2> QED
        BY <1>3, <2>1, FourArguments
<1>11. ElevatedInstallArgs(dns, o) = a6
    <2> HIDE DEF a3
    <2> QED
        BY <1>10 DEF ElevatedInstallArgs
<1>12. F6 = FlagsOf(dns, o)
    BY DEF FlagsOf
<1> HIDE DEF a6, F6
<1>13. ParseFlags(a6) = F6
    <2>1. FlagsRead(F6).flags = F6
        BY DEF FlagsRead
    <2> QED
        BY <1>9, <2>1 DEF ParseFlags, Parsing
<1> QED
    BY <1>9, <1>11, <1>12, <1>13

\* The child is given its parent's arguments and installs as its parent would
\* (elevatedInstallArgs, run and Install).
THEOREM InstallsAsParent == InstallsAsAsked
<1> SUFFICES ASSUME NEW o \in InstallOptions, NEW parentDNS \in BOOLEAN, NEW childDNS \in BOOLEAN
             PROVE  LET args == ElevatedInstallArgs(parentDNS, o)
                        line == WindowsCommandLine(args)
                        child == ChildOptions(line)
                    IN  /\ CommandLineToArgv(line) = args
                        /\ child.dir = o.dir /\ child.current = o.current
                        /\ InstallSetsSystemDNS(childDNS, child)
                             = (childDNS /\ InstallSetsSystemDNS(parentDNS, o))
    BY DEF InstallsAsAsked
<1> DEFINE args == ElevatedInstallArgs(parentDNS, o)
           line == WindowsCommandLine(args)
           child == ChildOptions(line)
           flags == FlagsOf(parentDNS, o)
<1>1. args \in Seq(Strings) /\ ParseFlags(args) = flags
    BY FlagsArrive
<1> HIDE DEF args
<1>2. CommandLineToArgv(line) = args
    BY <1>1, ArgumentsArrive
<1> HIDE DEF line
<1>3. ParseFlags(CommandLineToArgv(line)) = flags
    BY <1>1, <1>2
<1>4. o.dir \in Dirs /\ o.current \in BOOLEAN /\ o.noDNS \in BOOLEAN
    BY DEF InstallOptions
<1>5. /\ (\E f \in {"-no-dns", "-no-system-dns"} : <<f, <<>>>> \in flags)
           <=> ~InstallSetsSystemDNS(parentDNS, o)
      /\ <<"-current-version", <<"v">>>> \in flags <=> o.current
      /\ \A v \in Dirs : <<"-install-dir", v>> \in flags <=> o.dir # <<>> /\ v = o.dir
    BY DEF FlagsOf
<1> HIDE DEF flags
<1> DEFINE noDNS == \E f \in {"-no-dns", "-no-system-dns"} : <<f, <<>>>> \in flags
<1> DEFINE dir == IF \E v \in Dirs : <<"-install-dir", v>> \in flags
                    THEN CHOOSE v \in Dirs : <<"-install-dir", v>> \in flags ELSE <<>>
<1>6. dir = o.dir
    <2>1. CASE o.dir = <<>>
        BY <1>5, <2>1
    <2>2. CASE o.dir # <<>>
        <3>1. <<"-install-dir", o.dir>> \in flags /\ \E v \in Dirs : <<"-install-dir", v>> \in flags
            BY <1>4, <1>5, <2>2
        <3>2. \A v \in Dirs : <<"-install-dir", v>> \in flags => v = o.dir
            BY <1>5
        <3> QED
            BY <1>4, <3>1, <3>2
    <2> QED
        BY <2>1, <2>2
<1>7. child = [noDNS |-> noDNS, dir |-> dir,
               current |-> <<"-current-version", <<"v">>>> \in flags]
    BY <1>3 DEF ChildOptions
<1>8. noDNS = ~InstallSetsSystemDNS(parentDNS, o)
    BY <1>4, <1>5 DEF InstallSetsSystemDNS
<1> HIDE DEF dir, noDNS
<1>9. child.dir = o.dir
    BY <1>6, <1>7
<1>10. child.current = o.current
    BY <1>4, <1>5, <1>7
<1>11. InstallSetsSystemDNS(childDNS, child) = (childDNS /\ InstallSetsSystemDNS(parentDNS, o))
    BY <1>4, <1>7, <1>8 DEF InstallSetsSystemDNS
<1> QED
    BY <1>2, <1>9, <1>10, <1>11 DEF line, args
=============================================================================
