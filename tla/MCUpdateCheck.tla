--------------------------- MODULE MCUpdateCheck ---------------------------
(***************************************************************************)
(* Small instances of UpdateCheck, with the releases v2.2-beta.9,          *)
(* v2.2.0-beta.30 and v2.2.0: cores of different lengths, a prerelease     *)
(* before its release, and, for an int of 20 at most, a number that does   *)
(* not fit and is compared as text, in which "30" comes before "9".        *)
(***************************************************************************)
EXTENDS UpdateCheck

Beta == [digits |-> FALSE, num |-> 0, text |-> 3]
Nine == [digits |-> TRUE, num |-> 9, text |-> 2]
Thirty == [digits |-> TRUE, num |-> 30, text |-> 1]
ThreeVersions ==
    << [core |-> <<2, 2>>, pre |-> <<Beta, Nine>>],
       [core |-> <<2, 2, 0>>, pre |-> <<Beta, Thirty>>],
       [core |-> <<2, 2, 0>>, pre |-> <<>>] >>
TwoVersions == SubSeq(ThreeVersions, 1, 2)

Tray == {"poller", "clicker"}
OnlyTimer == {"poller"}

\* What the timer may meet while the process lasts.
Lasting == {"unsigned", "fetch", "toast"}
AllFaults == FaultKinds
OnlyUnsigned == {"unsigned"}
=============================================================================
