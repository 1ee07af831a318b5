----------------------------- MODULE TomlPatch -----------------------------
(***************************************************************************)
(* Editing dnscrypt-proxy.toml in place (proxyconf/patch.go, parse.go):    *)
(* ApplyPatches finds the lines of a key by scanning, without a toml       *)
(* parser, and replaces or inserts lines.                                  *)
(*                                                                         *)
(* A document is a sequence of lines.  A line is a table header, an        *)
(* assignment or any other text, commented out or not; it opens or closes  *)
(* brackets; what else is in it is its text, a number.  The path of a key  *)
(* is the sequence of the names that dots separate.  Lines end in a        *)
(* newline, and inside a value none looks like a table header.             *)
(*                                                                         *)
(* Headers and keys are written as the scan expects them: tableHeader does *)
(* not see a header that is followed by a comment or has blanks inside,    *)
(* nor readKey a quoted or dotted key, all of which TOML reads.  Documents *)
(* with those are not modelled.                                            *)
(***************************************************************************)
EXTENDS Integers, Sequences, SequencesExt, FiniteSetsExt

CONSTANTS
    Lines,      \* the lines of the documents to edit, without their text
    Paths,      \* the paths patched
    MaxLines,   \* the length of a document before it is edited (a bound)
    MaxPatches  \* the number of patches of one call (a bound)

Kinds == {"table", "key", "text"}
Table(names) == [kind |-> "table", at |-> names, off |-> FALSE, open |-> 0]
Key(names, open) == [kind |-> "key", at |-> names, off |-> FALSE, open |-> open]
Text(open) == [kind |-> "text", at |-> <<>>, off |-> FALSE, open |-> open]
Commented(line) == [line EXCEPT !.off = TRUE]
\* formatAssignment and encodePatchValue write an assignment on one line; how the
\* value is written is its text.
WithText(line, n) == [kind |-> line.kind, at |-> line.at, off |-> line.off,
                      open |-> line.open, text |-> n]

\* A key has one name, and the brackets of a table header match, on a line with
\* nothing else on it.
WellFormed(l) == /\ l.kind = "key" => Len(l.at) = 1
                 /\ l.kind = "table" => l.at # <<>> /\ l.open = 0

ASSUME BoundsAssumption ==
    /\ MaxLines \in Nat /\ MaxPatches \in Nat
    /\ Lines \subseteq [kind : Kinds, at : Seq(STRING), off : BOOLEAN, open : Int]
    /\ \A l \in Lines : WellFormed(l)
    /\ Paths \subseteq Seq(STRING) \ {<<>>}

VARIABLES
    src,     \* the document before it is edited, its i-th line has text i
    doc,     \* the document as edited so far
    done,    \* the patches made, and whether the path of each was Clear
    refused  \* a patch had no path or a value that is not JSON

vars == <<src, doc, done, refused>>

-----------------------------------------------------------------------------
(* What TOML makes of a document: the reference, independent of the scan.  *)

\* The brackets open after line i, of the lines that are not commented out.
Depth(d, i) ==
    LET depth[k \in 0 .. Len(d)] ==
          IF k = 0 THEN 0 ELSE depth[k - 1] + IF d[k].off THEN 0 ELSE d[k].open
    IN  depth[i]

Toplevel(d) == {i \in DOMAIN d : ~d[i].off /\ Depth(d, i - 1) = 0}
Headers(d) == {i \in Toplevel(d) : d[i].kind = "table"}
Assignments(d) == {i \in Toplevel(d) : d[i].kind = "key"}

SectionAt(d, i) ==
    LET above == {h \in Headers(d) : h <= i}
    IN  IF above = {} THEN <<>> ELSE d[Max(above)].at
LastLine(d, i) == Min({j \in i .. Len(d) : Depth(d, j) = 0})

\* The assignments of a document: the path, and the lines of the assignment, with
\* the comments between them.
LivePath(d, i) == SectionAt(d, i) \o d[i].at
Live(d) == {[path |-> LivePath(d, i), lines |-> SubSeq(d, i, LastLine(d, i))] : i \in Assignments(d)}

\* Brackets match, and values and nothing else have more than one line.
BracketsMatch(d) ==
    /\ \A i \in DOMAIN d : Depth(d, i) >= 0
    /\ Depth(d, Len(d)) = 0
    /\ \A i \in DOMAIN d : d[i].kind = "table" /\ ~d[i].off => i \in Toplevel(d)
    /\ \A i \in Toplevel(d) : d[i].kind = "text" => d[i].open = 0

\* Documents dnscrypt-proxy can read: no table or key is there twice either.
IsToml(d) ==
    /\ BracketsMatch(d)
    /\ \A i, j \in Headers(d) : i # j => d[i].at # d[j].at
    /\ \A i, j \in Assignments(d) : i # j => LivePath(d, i) # LivePath(d, j)

-----------------------------------------------------------------------------
(* The scan *)

\* Where the scan is after a line: the section, the line of the key whose value it
\* has read last, 0 for none, and the brackets that are open in it.
Between(section) == [section |-> section, key |-> 0, open |-> 0]

\* What a line adds to the brackets open in a value: in a value that is not
\* commented out, stripInlineComment leaves nothing of a comment.
Opens(line, off) == IF line.off /\ ~off THEN 0 ELSE line.open

\* A bug: a value that is commented out goes on over lines that are not.
GoesOn_Swallows(d, s, i) == s.open > 0
\* readValue: whether line i belongs to the value that the scan is in.
GoesOn(d, s, i) == s.open > 0 /\ (d[s.key].off => d[i].off)

\* A bug: a commented table header begins a section.
ScanLine_CommentedTable(d, s, i) ==
    IF GoesOn(d, s, i) THEN [s EXCEPT !.open = @ + Opens(d[i], d[s.key].off)]
    ELSE IF d[i].kind = "key" THEN [section |-> s.section, key |-> i, open |-> d[i].open]
    ELSE Between(IF d[i].kind = "table" THEN d[i].at ELSE s.section)

\* parseDoc, one line.
ScanLine(d, s, i) ==
    IF GoesOn(d, s, i) THEN [s EXCEPT !.open = @ + Opens(d[i], d[s.key].off)]
    ELSE IF d[i].kind = "key" THEN [section |-> s.section, key |-> i, open |-> d[i].open]
    ELSE Between(IF d[i].kind = "table" /\ ~d[i].off THEN d[i].at ELSE s.section)

Scan(d) ==
    LET scan[i \in 0 .. Len(d)] ==
          IF i = 0 THEN Between(<<>>) ELSE ScanLine(d, scan[i - 1], i)
    IN  scan

\* The spans, by their first lines: the path of one, its last line, those of a path.
Spans(d) == {i \in DOMAIN d : Scan(d)[i].key = i}
PathOf(d, i) == Scan(d)[i].section \o d[i].at
EndOf(d, i) == Max({j \in DOMAIN d : Scan(d)[j].key = i})
SpansAt(d, path) == {i \in Spans(d) : PathOf(d, i) = path}

\* find: the first span of a path, 0 for none.
Find(d, path) ==
    LET spans == SpansAt(d, path)
    IN  IF spans = {} THEN 0 ELSE Min(spans)

\* values: what the page is shown as the live keys; a later span of a path
\* replaces an earlier one.
Present(d, path) ==
    LET spans == SpansAt(d, path)
    IN  spans # {} /\ ~d[Max(spans)].off

-----------------------------------------------------------------------------
(* ApplyPatches *)

\* A bug: a new key of no section goes below the tables.
SectionInsertIndex_RootLast(d, section) ==
    LET headers == {i \in DOMAIN d : d[i].kind = "table" /\ ~d[i].off /\ d[i].at = section}
    IN  IF section # <<>> /\ headers = {} THEN 0 ELSE Len(d) + 1

\* sectionInsertIndex: before which line a new key of a section goes; 0 if the
\* section is not there.
SectionInsertIndex(d, section) ==
    LET tables  == {i \in DOMAIN d : d[i].kind = "table" /\ ~d[i].off}
        headers == {i \in tables : d[i].at = section}
        after   == {i \in tables : /\ \E h \in headers : h < i
                                   /\ d[i].at # section
                                   /\ ~IsStrictPrefix(section, d[i].at)}
        before(lines, none) == IF lines = {} THEN none ELSE Min(lines)
    IN  IF section = <<>> THEN before(tables, 1)
        ELSE IF headers = {} THEN 0
        ELSE before(after, Len(d) + 1)

\* Lines first to last of a document, none if last is before first, are replaced.
Splice(d, first, last, lines) ==
    SubSeq(d, 1, first - 1) \o lines \o SubSeq(d, last + 1, Len(d))

InsertInSection(d, section, line) ==
    LET i == SectionInsertIndex(d, section)
        table == << WithText(Text(0), 0), WithText(Table(section), 0), WithText(Text(0), 0) >>
    IN  IF i = 0 THEN Splice(d, Len(d) + 1, Len(d), table \o <<line>>)
                 ELSE Splice(d, i, i - 1, <<line>>)

\* A bug: off by one, the line after the span is lost.
ReplaceSpan_LosesNext(d, i, line) == Splice(d, i, EndOf(d, i) + 1, <<line>>)
ReplaceSpan(d, i, line) == Splice(d, i, EndOf(d, i), <<line>>)

\* applyPatch, with the text n for the value.
Assignment(path, enabled, n) ==
    LET key == WithText(Key(<<Last(path)>>, 0), n)
    IN  IF enabled THEN key ELSE Commented(key)
Patched(d, path, enabled, n) ==
    LET line == Assignment(path, enabled, n)
        i    == Find(d, path)
    IN  IF i # 0 THEN ReplaceSpan(d, i, line) ELSE InsertInSection(d, Front(path), line)

\* The code edits by position.  A path is clear when the position is right: the
\* first span of the path is the one TOML reads, if it reads any; and a new key
\* goes to a section without sub-tables.
Clear(d, path) ==
    /\ \A i \in SpansAt(d, path) : ~d[i].off => i = Find(d, path)
    /\ SpansAt(d, path) = {} /\ Front(path) # <<>> =>
         \A i \in DOMAIN d : d[i].kind = "table" => ~IsStrictPrefix(Front(path), d[i].at)

Documents == UNION {[1 .. n -> Lines] : n \in 0 .. MaxLines}

Init ==
    /\ \E d \in Documents : src = [i \in DOMAIN d |-> WithText(d[i], i)]
    /\ IsToml(src)
    /\ doc = src
    /\ done = <<>>
    /\ refused = FALSE

\* A bug: the patches that follow one that is refused are made.
ApplyPatch_GoesOn(path, enabled) ==
    LET n == MaxLines + Len(done) + 1
    IN  /\ Len(done) < MaxPatches
        /\ doc' = Patched(doc, path, enabled, n)
        /\ done' = Append(done, [path |-> path, enabled |-> enabled, text |-> n,
                                 clear |-> Clear(doc, path)])
        /\ UNCHANGED <<src, refused>>

ApplyPatch(path, enabled) ==
    LET n == MaxLines + Len(done) + 1
    IN  /\ ~refused /\ Len(done) < MaxPatches
        /\ doc' = Patched(doc, path, enabled, n)
        /\ done' = Append(done, [path |-> path, enabled |-> enabled, text |-> n,
                                 clear |-> Clear(doc, path)])
        /\ UNCHANGED <<src, refused>>

\* A path that is empty, a value that is not JSON: nothing is returned.
Refuse ==
    /\ ~refused /\ Len(done) < MaxPatches
    /\ refused' = TRUE
    /\ doc' = src /\ done' = <<>>
    /\ UNCHANGED src

Next == Refuse \/ \E path \in Paths, enabled \in BOOLEAN : ApplyPatch(path, enabled)
Spec == Init /\ [][Next]_vars

-----------------------------------------------------------------------------
(* Properties *)

DocLines == {l \in [kind : Kinds, at : Seq(STRING), off : BOOLEAN, open : Int,
                   text : 0 .. MaxLines + MaxPatches] : WellFormed(l)}
TypeOK ==
    /\ src \in Seq(DocLines) /\ Len(src) <= MaxLines /\ IsToml(src)
    /\ doc \in Seq(DocLines)
    /\ done \in Seq([path : Paths, enabled : BOOLEAN, text : Nat, clear : BOOLEAN])
    /\ Len(done) <= MaxPatches
    /\ refused \in BOOLEAN /\ (refused => doc = src /\ done = <<>>)

AllClear == \A k \in DOMAIN done : done[k].clear
PatchedPaths == {done[k].path : k \in DOMAIN done}
LiveAt(d, path) == {a.lines : a \in {b \in Live(d) : b.path = path}}

\* The last patch of a path takes effect in the document as TOML reads it: the
\* key has the value of the patch and no other, or is not there.
PatchTakesEffect ==
    AllClear =>
        \A k \in DOMAIN done :
            (\A j \in k + 1 .. Len(done) : done[j].path # done[k].path) =>
                LiveAt(doc, done[k].path) =
                    IF done[k].enabled
                      THEN {<< WithText(Key(<<Last(done[k].path)>>, 0), done[k].text) >>}
                      ELSE {}

\* A key that is not patched keeps its section and its value, and the document
\* stays one that can be read.
OthersKept ==
    AllClear =>
        /\ LET others(d) == {a \in Live(d) : a.path \notin PatchedPaths}
           IN  others(doc) = others(src)
        /\ IsToml(doc)

\* The brackets of a value that is commented out match on its lines.
CommentsMatch(d) == \A i \in Spans(d) : d[i].off => Scan(d)[EndOf(d, i)].open <= 0

\* Comments, unknown keys and all else outside the spans patched are preserved,
\* once each and in their order, in every document in which commented values end.
OutsidePreserved ==
    LET outside == {i \in DOMAIN src : LET k == Scan(src)[i].key
                                       IN  k # 0 => PathOf(src, k) \notin PatchedPaths}
        kept == {j \in DOMAIN doc : doc[j].text \in outside}
    IN  CommentsMatch(src) =>
          /\ \A i \in outside : \E j \in kept : doc[j] = src[i]
          /\ \A j, k \in kept : j < k => doc[j].text < doc[k].text

\* CurrentValues reads live toml keys: a key is shown as present exactly when TOML
\* reads it.
CurrentIsLive ==
    LET live == {LivePath(doc, i) : i \in Assignments(doc)}
    IN  \A path \in Paths : Present(doc, path) <=> path \in live

\* The same of the paths that the scan meets once.
CurrentIsLiveOnce ==
    LET live == {LivePath(doc, i) : i \in Assignments(doc)}
    IN  \A path \in Paths :
          (\A i, j \in SpansAt(doc, path) : i = j) => (Present(doc, path) <=> path \in live)
=============================================================================
