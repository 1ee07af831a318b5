---------------------------- MODULE MCConfigFile ----------------------------
(***************************************************************************)
(* Small instances of ConfigFile: three processes, so that a tray, its     *)
(* elevated child and one more run at once, and directories of up to three *)
(* characters.                                                             *)
(***************************************************************************)
EXTENDS ConfigFile, TLC

CONSTANTS a, b, c

Three == {a, b, c}
Symmetric == Permutations(Three)

\* The characters that command lines treat in a way of their own, and one more.
Characters == {"x", Blank, Backslash, Quote}
MCDirs == {<<>>} \cup
    {s \in UNION {[1 .. n -> Characters] : n \in 1 .. 3} : \E i \in DOMAIN s : s[i] # Blank}
MCChars == Characters \cup {"v"} \cup Valued \cup Switches
MCPath == <<"x", Backslash, Blank, "x">>

AllFaults == FaultKinds
=============================================================================
