----------------------------- MODULE ConfigFile -----------------------------
(***************************************************************************)
(* The processes of this program over one config.json: the tray behind its *)
(* single-instance lock, the one-shot modes that skip the lock, and the    *)
(* elevated child that installs for its parent (main.go, the instance and  *)
(* config packages, and NewRuntime, Skip and Install of app/runtime.go).   *)
(*                                                                         *)
(* Of config.json the model keeps the skipped tag, the path of the binary  *)
(* and whether it holds the value of a flag that was given for one run.    *)
(* Writing it is what writeJSON does: a copy is truncated, filled and      *)
(* renamed over the file, under one name for all processes.                *)
(***************************************************************************)
EXTENDS FiniteSets, CommandLine

CONSTANTS
    Procs,       \* processes, one of which is started again when it has ended
    NoProc,      \* nobody
    Modes,       \* the modes the user starts, see ModeKinds
    Flags,       \* whether with a flag that NewRuntime puts into rt.cfg
    CanElevate,  \* Windows, and the user's processes are not elevated
    Absent,      \* a file that is not there
    Empty,       \* one that has just been truncated
    Torn,        \* one that does not hold one document
    Apart,       \* see chosen
    Faults       \* what the environment may do, see FaultKinds

ModeKinds ==
    { "tray",       \* the tray, which takes the lock
      "stub",       \* the same in a build without a tray
      "configure",  \* -configure, the settings page alone, which takes the lock
      "install",    \* -install
      "oneshot" }   \* -check-once, -apply-config, -apply-pending

FaultKinds ==
    { "save",       \* config.json cannot be written or renamed
      "noHandle",   \* ShellExecuteEx starts the child without a handle to wait for
      "apply",      \* an install fails
      "crash" }     \* a process is killed

ASSUME ProcessesAssumption ==
    /\ NoProc \notin Procs
    /\ Modes \subseteq ModeKinds /\ Flags \subseteq BOOLEAN
    /\ CanElevate \in BOOLEAN /\ Faults \subseteq FaultKinds

Docs == [skip : BOOLEAN, binary : BOOLEAN, flagged : BOOLEAN]
DefaultFile == [skip |-> FALSE, binary |-> FALSE, flagged |-> FALSE]

Unreadable == {Empty, Torn}

ASSUME FilesAssumption ==
    /\ Absent \notin Docs \cup Unreadable
    /\ Unreadable \cap Docs = {}
    /\ Empty # Torn
    /\ Apart \notin Docs

VARIABLES
    lock,    \* who holds the single-instance lock
    file,    \* config.json
    tmp,     \* config.json.tmp
    fd,      \* the file each process is writing to: a later rename moves it along
    pc,      \* where each process is
    mode,    \* what it was started for
    flagged, \* whether with such a flag
    mem,     \* its rt.cfg
    next,    \* what it saves rt.cfg for
    parent,  \* the process that waits for it, if it is an elevated child
    chosen   \* what has been saved, by the program and the user, in all, or Apart
             \* once two processes could save without knowing of the other's save

disk == <<file, tmp, fd>>
process == <<mode, flagged, parent>>
vars == <<lock, disk, pc, process, mem, next, chosen>>

PCs == {"off", "load", "stat", "ready", "menu", "open", "write", "rename",
        "wait", "reload", "refused", "apply", "installed"}

Live == {p \in Procs : pc[p] # "off"}
Interactive == {"tray", "stub", "configure"}

TypeOK ==
    /\ lock \in Procs \cup {NoProc}
    /\ file \in Docs \cup {Absent} \cup Unreadable
    /\ tmp \in Docs \cup {Absent} \cup Unreadable
    /\ fd \in [Procs -> {"none", "tmp", "file", "lost"}]
    /\ pc \in [Procs -> PCs]
    /\ mode \in [Procs -> ModeKinds \cup {"none", "child"}]
    /\ flagged \in [Procs -> BOOLEAN]
    /\ mem \in [Procs -> Docs]
    /\ next \in [Procs -> {"none", "ready", "menu", "installed"}]
    /\ parent \in [Procs -> Procs \cup {NoProc}]
    /\ chosen \in Docs \cup {Apart}
    /\ \A p \in Procs :
         /\ fd[p] # "none" => pc[p] = "write"
         /\ next[p] = "none" <=> pc[p] \notin {"open", "write", "rename"}
         /\ parent[p] # NoProc => pc[p] # "off" /\ pc[parent[p]] = "wait"
         /\ \A q \in Procs : parent[p] = parent[q] => p = q \/ parent[p] = NoProc

Init ==
    /\ lock = NoProc
    /\ file \in {Absent, DefaultFile} /\ chosen = DefaultFile
    /\ tmp = Absent
    /\ fd = [p \in Procs |-> "none"]
    /\ pc = [p \in Procs |-> "off"]
    /\ mode = [p \in Procs |-> "none"]
    /\ flagged = [p \in Procs |-> FALSE]
    /\ mem = [p \in Procs |-> DefaultFile]
    /\ next = [p \in Procs |-> "none"]
    /\ parent = [p \in Procs |-> NoProc]

-----------------------------------------------------------------------------
(* main, and the single-instance lock *)

Goto(p, label) == pc' = [pc EXCEPT ![p] = label]

\* The modes that write config.json once it exists; "child" is the elevated
\* -install -quiet.
Savers == {"tray", "install", "child"}
StartsApart(m) ==
    \/ file = Absent /\ Live # {}
    \/ m \in Savers /\ \E q \in Live : mode[q] \in Savers
    \/ \E q \in Live : next[q] = "ready"

\* A second interactive launch does not get the lock; it says so and ends.  A
\* bug: -configure is taken for one of the modes that skip it.
SkipsLock_Configure(m) == m \in {"install", "oneshot", "configure"}
SkipsLock(m) == m \in {"install", "oneshot"}
Acquire(p, m) ==
    IF SkipsLock(m) THEN UNCHANGED lock ELSE lock = NoProc /\ lock' = p

Start(p, m, f) ==
    /\ pc[p] = "off"
    /\ Acquire(p, m)
    /\ mode' = [mode EXCEPT ![p] = m]
    /\ flagged' = [flagged EXCEPT ![p] = f]
    /\ m \notin Savers => ~f
    /\ chosen' = IF StartsApart(m) THEN Apart ELSE chosen
    /\ Goto(p, "load")
    /\ UNCHANGED <<disk, parent, mem, next>>

\* The copy a process leaves behind counts as long as others are writing it; the
\* next save truncates it.
Leaves(p, copy) ==
    tmp' = IF \E q \in Procs \ {p} : pc[q] \in {"write", "rename"} THEN copy ELSE Absent

\* A process ends, on its own or killed, at any step: the system gives back its
\* lock, and a parent that waits for the exit code goes on to reload or refused.
Ends(p, after) ==
    /\ lock' = IF lock = p THEN NoProc ELSE lock
    /\ fd' = [fd EXCEPT ![p] = "none"]
    /\ pc' = [q \in Procs |-> IF q = p THEN "off"
                              ELSE IF q = parent[p] THEN after
                              ELSE pc[q]]
    /\ mode' = [mode EXCEPT ![p] = "none"]
    /\ flagged' = [flagged EXCEPT ![p] = FALSE]
    /\ parent' = [q \in Procs |-> IF p \in {q, parent[q]} THEN NoProc ELSE parent[q]]
    /\ mem' = [mem EXCEPT ![p] = DefaultFile]
    /\ next' = [next EXCEPT ![p] = "none"]

Exits(p, after) == Ends(p, after) /\ Leaves(p, tmp) /\ UNCHANGED <<file, chosen>>

\* The parent of a child that is killed after its save does not look at it.
Crash(p) ==
    /\ "crash" \in Faults /\ pc[p] # "off"
    /\ Ends(p, "refused")
    /\ chosen' = IF pc[p] = "installed" /\ parent[p] # NoProc THEN Apart ELSE chosen
    /\ Leaves(p, tmp)
    /\ UNCHANGED file

\* After an install, the tray's menu is served again; -install ends.
Returns(p, after) ==
    IF mode[p] = "tray"
      THEN Goto(p, "menu") /\ UNCHANGED <<lock, disk, process, mem, next, chosen>>
      ELSE Exits(p, after)

-----------------------------------------------------------------------------
(* NewRuntime *)

\* A file that cannot be read as a document ends the process.
Load(p) ==
    /\ pc[p] = "load"
    /\ IF file \in Unreadable
         THEN Exits(p, "refused")
         ELSE /\ mem' = [mem EXCEPT ![p] = IF file = Absent THEN DefaultFile ELSE file]
              /\ Goto(p, "stat")
              /\ UNCHANGED <<lock, disk, process, next, chosen>>

\* The first run writes the defaults, before the flags are put into rt.cfg.
Stat(p) ==
    /\ pc[p] = "stat"
    /\ IF file = Absent
         THEN Goto(p, "open") /\ next' = [next EXCEPT ![p] = "ready"]
         ELSE Goto(p, "ready") /\ UNCHANGED next
    /\ UNCHANGED <<lock, disk, process, mem, chosen>>

\* The flags given for this run, and the mode.  A build without a tray gives
\* the lock back and polls once; those that never save do not need rt.cfg here.
WithFlags(p) == [mem[p] EXCEPT !.flagged = @ \/ flagged[p]]
Ready(p) ==
    /\ pc[p] = "ready"
    /\ mem' = [mem EXCEPT ![p] = IF mode[p] \in Savers THEN WithFlags(p) ELSE DefaultFile]
    /\ lock' = IF mode[p] = "stub" THEN NoProc ELSE lock
    /\ Goto(p, "menu")
    /\ UNCHANGED <<disk, process, next, chosen>>

\* One-shot modes end, the tray and -configure are quit.
Quit(p) ==
    /\ pc[p] = "menu"
    /\ mode[p] \notin {"install", "child"}
    /\ Exits(p, "reload")

-----------------------------------------------------------------------------
(* writeJSON *)

\* A save that fails is logged, but for that of the first run.
SaveFails(p) ==
    /\ "save" \in Faults
    /\ IF next[p] = "ready"
         THEN Ends(p, "refused")
         ELSE /\ Goto(p, next[p])
              /\ next' = [next EXCEPT ![p] = "none"]
              /\ fd' = [fd EXCEPT ![p] = "none"]
              /\ UNCHANGED <<lock, process, mem>>
    /\ UNCHANGED chosen

\* A bug: the file itself is opened and truncated.
OpenTmp_InPlace(p) ==
    /\ pc[p] = "open"
    /\ \/ /\ file' = Empty
          /\ tmp' = mem[p]
          /\ fd' = [fd EXCEPT ![p] = "file"]
          /\ Goto(p, "write")
          /\ UNCHANGED <<lock, process, mem, next, chosen>>
       \/ SaveFails(p) /\ Leaves(p, tmp) /\ UNCHANGED file

OpenTmp(p) ==
    /\ pc[p] = "open"
    /\ \/ /\ tmp' = Empty
          /\ fd' = [fd EXCEPT ![p] = "tmp"]
          /\ Goto(p, "write")
          /\ UNCHANGED <<file, lock, process, mem, next, chosen>>
       \/ SaveFails(p) /\ Leaves(p, tmp) /\ UNCHANGED file

\* Over a longer document of somebody else a rest of it stays.
Written(old, new) == IF old = Empty THEN {new} ELSE {new, Torn}
WriteTmp(p) ==
    /\ pc[p] = "write"
    /\ \/ /\ IF fd[p] = "tmp" THEN tmp' \in Written(tmp, mem[p]) ELSE UNCHANGED tmp
          /\ IF fd[p] = "file" THEN file' \in Written(file, mem[p]) ELSE UNCHANGED file
          /\ fd' = [fd EXCEPT ![p] = "none"]
          /\ Goto(p, "rename")
          /\ UNCHANGED <<lock, process, mem, next, chosen>>
       \/ /\ SaveFails(p)
          /\ Leaves(p, IF fd[p] = "tmp" THEN Torn ELSE tmp)
          /\ file' = IF fd[p] = "file" THEN Torn ELSE file

Saved(p) ==
    chosen' = IF chosen = Apart THEN Apart
              ELSE [chosen EXCEPT !.skip = @ \/ mem[p].skip, !.binary = @ \/ mem[p].binary]

Moved(p) ==
    /\ tmp # Absent
    /\ file' = tmp
    /\ tmp' = Absent
    /\ fd' = [q \in Procs |-> CASE fd[q] = "tmp"  -> "file"
                                [] fd[q] = "file" -> "lost"
                                [] OTHER          -> fd[q]]
    /\ Saved(p)
    /\ Goto(p, next[p])
    /\ next' = [next EXCEPT ![p] = "none"]
    /\ UNCHANGED <<lock, process, mem>>

\* There may be nothing left to rename: another process has renamed it.
Rename(p) ==
    /\ pc[p] = "rename"
    /\ \/ Moved(p)
       \/ /\ tmp = Absent /\ next[p] # "ready"
          /\ Goto(p, next[p])
          /\ next' = [next EXCEPT ![p] = "none"]
          /\ UNCHANGED <<disk, lock, process, mem, chosen>>
       \/ tmp = Absent /\ next[p] = "ready" /\ Exits(p, "refused")
       \/ SaveFails(p) /\ Leaves(p, tmp) /\ UNCHANGED file

-----------------------------------------------------------------------------
(* The menu: Skip, and Install in the tray or by -install *)

\* Snooze is the same with another field.
Skip(p) ==
    /\ pc[p] = "menu" /\ mode[p] = "tray"
    /\ mem' = [mem EXCEPT ![p].skip = TRUE]
    /\ next' = [next EXCEPT ![p] = "menu"]
    /\ Goto(p, "open")
    /\ UNCHANGED <<lock, disk, process, chosen>>

\* RelaunchElevated.  A bug: it does not wait.
Relaunch_NoWait(p, q) ==
    /\ pc[q] = "off"
    /\ pc' = [pc EXCEPT ![p] = "reload", ![q] = "load"]
    /\ mode' = [mode EXCEPT ![q] = "child"]
    /\ flagged' = [flagged EXCEPT ![q] = flagged[p]]
    /\ parent' = [parent EXCEPT ![q] = p]
    /\ UNCHANGED <<lock, disk, mem, next, chosen>>
Relaunch(p, q) ==
    /\ pc[q] = "off"
    /\ mode' = [mode EXCEPT ![q] = "child"]
    /\ flagged' = [flagged EXCEPT ![q] = flagged[p]]
    /\ \/ /\ pc' = [pc EXCEPT ![p] = "wait", ![q] = "load"]
          /\ parent' = [parent EXCEPT ![q] = p]
          /\ UNCHANGED chosen
       \/ /\ "noHandle" \in Faults
          /\ pc' = [pc EXCEPT ![p] = "reload", ![q] = "load"]
          /\ chosen' = Apart
          /\ UNCHANGED parent
    /\ UNCHANGED <<lock, disk, mem, next>>

\* Install polls, and installs itself or relaunches this program elevated and
\* waits for it, with the flags of its own (CommandLine).  The prompt may be
\* declined.
Install(p) ==
    /\ pc[p] = "menu" /\ mode[p] \in Savers
    /\ \/ CanElevate /\ mode[p] # "child" /\ Returns(p, "refused")
       \/ CanElevate /\ mode[p] # "child" /\ \E q \in Procs : Relaunch(p, q)
       \/ /\ ~CanElevate \/ mode[p] = "child"
          /\ Goto(p, "apply")
          /\ UNCHANGED <<lock, disk, process, mem, next, chosen>>

\* The install itself, of ProxyInstall; its binary_path is saved with the rest of
\* rt.cfg.
Apply(p) ==
    /\ pc[p] = "apply"
    /\ \/ /\ mem' = [mem EXCEPT ![p].binary = TRUE]
          /\ next' = [next EXCEPT ![p] = "installed"]
          /\ Goto(p, "open")
          /\ UNCHANGED <<lock, disk, process, chosen>>
       \/ "apply" \in Faults /\ Returns(p, "refused")

Installed(p) == pc[p] = "installed" /\ Returns(p, "reload")
Refused(p) == pc[p] = "refused" /\ Returns(p, "refused")

\* A bug: the parent goes on with the configuration it had.
Reload_Not(p) ==
    /\ pc[p] = "reload"
    /\ Goto(p, "installed")
    /\ UNCHANGED <<lock, disk, mem, process, next, chosen>>

\* The parent reads what the child has saved, if it can be read.
Reload(p) ==
    /\ pc[p] = "reload"
    /\ mem' = [mem EXCEPT ![p] = CASE file = Absent        -> DefaultFile
                                   [] file \in Unreadable  -> @
                                   [] OTHER                -> file]
    /\ Goto(p, "installed")
    /\ UNCHANGED <<lock, disk, process, next, chosen>>

Step(p) ==
    \/ Load(p) \/ Stat(p) \/ Ready(p) \/ OpenTmp(p) \/ WriteTmp(p) \/ Rename(p)
    \/ Apply(p) \/ Installed(p) \/ Refused(p) \/ Reload(p)

Next ==
    \/ \E p \in Procs :
         \/ \E m \in Modes, f \in Flags : Start(p, m, f)
         \/ Step(p) \/ Skip(p) \/ Install(p) \/ Quit(p) \/ Crash(p)

Spec == Init /\ [][Next]_vars

-----------------------------------------------------------------------------
(* Properties *)

\* One tray or settings page of its own at a time, whoever crashes, is started
\* again or installs next to it (instance.Acquire, SkipsLock).
OneTray ==
    \A p, q \in Procs :
        (/\ {mode[p], mode[q]} \subseteq {"tray", "configure"}
         /\ "off" \notin {pc[p], pc[q]}) => p = q

\* As long as processes that save config.json do not run at once, other than a
\* parent and its elevated child, it is a whole document, wherever a process is
\* killed: the next start can read it.
FileIsWhole == chosen # Apart => file \notin Unreadable

\* And what was saved in it stays: neither the child's save nor the parent's next
\* one undoes a skip or a binary_path (Install's reload).
SavedIsKept ==
    chosen # Apart /\ file \in Docs =>
        /\ chosen.skip => file.skip
        /\ chosen.binary => file.binary

\* "manual local version override for this run": the value of a flag does not
\* get into config.json.
FlagsAreForThisRun == file \in Docs => ~file.flagged

\* An elevated child that runs has been started with the options of its parent,
\* whichever they are.
ChildInstallsAsAsked == \A p \in Procs : mode[p] = "child" => InstallsAsAsked
=============================================================================
