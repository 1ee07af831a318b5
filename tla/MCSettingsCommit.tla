-------------------------- MODULE MCSettingsCommit --------------------------
(***************************************************************************)
(* Small instances of SettingsCommit: the toml (file 1) and                *)
(* forwarding-rules.txt (file 2, listed after it), two contents each.  The *)
(* toml of content v2 goes with the rules of content v2 only, so a         *)
(* half-written save of it is a configuration -check refuses.              *)
(***************************************************************************)
EXTENDS SettingsCommit

CONSTANTS a, b, v1, v2

MCContents == {v1, v2}

MCAccepted ==
    {c \in [1 .. 2 -> {v1, v2, Absent}] :
        c[1] = v1 \/ (c[1] = v2 /\ c[2] = v2)}

One == {a}
Other == {b}

AllFaults == FaultKinds
\* What a save is undone from as if it had not been: neither the process nor its
\* elevated child is killed, the service stops when told to, a copy back from a
\* backup succeeds and the queue is written whole.
Recoverable == {"write", "start", "disconnect"}
OnlyStop == {"stop"}
NoFaults == {}
=============================================================================
