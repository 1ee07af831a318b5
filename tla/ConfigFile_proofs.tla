-------------------------- MODULE ConfigFile_proofs --------------------------
(***************************************************************************)
(* Proofs about ConfigFile for every number of processes, every set of     *)
(* modes and flags and every set of faults.                                *)
(***************************************************************************)
EXTENDS ConfigFile, CommandLine_proofs, TLAPS

-----------------------------------------------------------------------------
(* Types                                                                   *)

LEMMA DocTypes ==
    ASSUME NEW d \in Docs
    PROVE  /\ [d EXCEPT !.skip = TRUE] \in Docs
           /\ [d EXCEPT !.binary = TRUE] \in Docs
  BY DEF Docs

LEMMA FlaggedType ==
    ASSUME NEW d \in Docs, NEW b \in BOOLEAN
    PROVE  [d EXCEPT !.flagged = @ \/ b] \in Docs
  BY DEF Docs

LEMMA ChosenType ==
    ASSUME NEW d \in Docs, NEW e \in Docs
    PROVE  [d EXCEPT !.skip = @ \/ e.skip, !.binary = @ \/ e.binary] \in Docs
  BY DEF Docs

LEMMA DefaultType == DefaultFile \in Docs
  BY DEF Docs, DefaultFile

FileTypeOK ==
    /\ file \in Docs \cup {Absent} \cup Unreadable
    /\ tmp \in Docs \cup {Absent} \cup Unreadable
    /\ fd \in [Procs -> {"none", "tmp", "file", "lost"}]
    /\ chosen \in Docs \cup {Apart}

ProcessTypeOK ==
    /\ lock \in Procs \cup {NoProc}
    /\ pc \in [Procs -> PCs]
    /\ mode \in [Procs -> ModeKinds \cup {"none", "child"}]
    /\ flagged \in [Procs -> BOOLEAN]
    /\ mem \in [Procs -> Docs]
    /\ next \in [Procs -> {"none", "ready", "menu", "installed"}]
    /\ parent \in [Procs -> Procs \cup {NoProc}]

\* A process writes to a file when it is about to, and has a parent that waits.
RolesTypeOK ==
    \A p \in Procs :
      /\ fd[p] # "none" => pc[p] = "write"
      /\ next[p] = "none" <=> pc[p] \notin {"open", "write", "rename"}
      /\ parent[p] # NoProc => pc[p] # "off" /\ pc[parent[p]] = "wait"
      /\ \A q \in Procs : parent[p] = parent[q] => p = q \/ parent[p] = NoProc

LEMMA TypeParts == TypeOK <=> FileTypeOK /\ ProcessTypeOK /\ RolesTypeOK
  BY DEF TypeOK, FileTypeOK, ProcessTypeOK, RolesTypeOK

LEMMA TypeInit == Init => TypeOK
  <1> SUFFICES ASSUME Init PROVE TypeOK
    OBVIOUS
  <1>1. FileTypeOK
    BY DefaultType DEF Init, FileTypeOK
  <1>2. ProcessTypeOK
    BY DefaultType DEF Init, ProcessTypeOK, PCs
  <1>3. RolesTypeOK
    BY DEF Init, RolesTypeOK
  <1>4. QED
    BY <1>1, <1>2, <1>3, TypeParts

LEMMA EndsType ==
    ASSUME TypeOK, NEW p \in Procs, pc[p] # "off", NEW after \in {"reload", "refused"}, Ends(p, after)
    PROVE  ProcessTypeOK' /\ RolesTypeOK' /\ fd' \in [Procs -> {"none", "tmp", "file", "lost"}]
  <1>1. pc' \in [Procs -> PCs]
    BY DEF TypeOK, Ends, PCs
  <1>2. mem' \in [Procs -> Docs]
    BY DefaultType DEF TypeOK, Ends
  <1>3. parent' \in [Procs -> Procs \cup {NoProc}]
    BY DEF TypeOK, Ends
  <1>4. ProcessTypeOK'
    BY <1>1, <1>2, <1>3 DEF TypeOK, Ends, ProcessTypeOK
  <1>5. RolesTypeOK'
    <2>1. SUFFICES ASSUME NEW q \in Procs
                   PROVE  /\ fd'[q] # "none" => pc'[q] = "write"
                          /\ next'[q] = "none" <=> pc'[q] \notin {"open", "write", "rename"}
                          /\ parent'[q] # NoProc => pc'[q] # "off" /\ pc'[parent'[q]] = "wait"
                          /\ \A r \in Procs : parent'[q] = parent'[r] => q = r \/ parent'[q] = NoProc
      BY DEF RolesTypeOK
    <2>2. /\ fd'[q] # "none" => pc'[q] = "write"
          /\ next'[q] = "none" <=> pc'[q] \notin {"open", "write", "rename"}
      BY ProcessesAssumption DEF TypeOK, Ends
    <2>3. \A r \in Procs : parent'[r] # NoProc => p # r /\ parent'[r] = parent[r] /\ parent[r] # p
      BY DEF Ends
    <2>4. ASSUME parent'[q] # NoProc
          PROVE  pc'[q] # "off" /\ pc'[parent'[q]] = "wait"
      <3>1. p # q /\ parent'[q] = parent[q] /\ parent[q] # p /\ parent[q] \in Procs
        BY <2>3, <2>4 DEF TypeOK
      <3>2. pc[q] # "off" /\ pc[parent[q]] = "wait" /\ parent[q] # parent[p]
        BY <2>4, <3>1 DEF TypeOK
      <3>3. QED
        BY <3>1, <3>2 DEF TypeOK, Ends
    <2>5. \A r \in Procs : parent'[q] = parent'[r] => q = r \/ parent'[q] = NoProc
      BY <2>3 DEF TypeOK
    <2>6. QED
      BY <2>2, <2>4, <2>5
  <1>6. QED
    BY <1>4, <1>5 DEF TypeOK, Ends

LEMMA LeavesType ==
    ASSUME TypeOK, NEW p \in Procs, NEW copy \in Docs \cup {Absent} \cup Unreadable, Leaves(p, copy)
    PROVE  tmp' \in Docs \cup {Absent} \cup Unreadable
  BY DEF Leaves

\* The actions that fail, or end a process.
LEMMA ExitsType ==
    ASSUME TypeOK, NEW p \in Procs, pc[p] # "off", NEW after \in {"reload", "refused"}, Exits(p, after)
    PROVE  TypeOK'
  <1>1. ProcessTypeOK' /\ RolesTypeOK' /\ fd' \in [Procs -> {"none", "tmp", "file", "lost"}]
    BY EndsType DEF Exits
  <1>2. FileTypeOK'
    BY <1>1, LeavesType DEF Exits, TypeOK, FileTypeOK
  <1>3. QED
    BY <1>1, <1>2 DEF TypeOK, FileTypeOK, ProcessTypeOK, RolesTypeOK

LEMMA ReturnsType ==
    ASSUME TypeOK, NEW p \in Procs, pc[p] \in {"menu", "apply", "installed", "refused"},
           NEW after \in {"reload", "refused"}, Returns(p, after)
    PROVE  TypeOK'
  <1>1. CASE mode[p] = "tray"
    BY <1>1 DEF Returns, TypeOK, Goto, PCs, disk, process
  <1>2. CASE mode[p] # "tray"
    BY <1>2, ExitsType DEF Returns
  <1>3. QED
    BY <1>1, <1>2

LEMMA SaveFailsType ==
    ASSUME TypeOK, NEW p \in Procs, pc[p] \in {"open", "write", "rename"}, SaveFails(p)
    PROVE  /\ ProcessTypeOK' /\ RolesTypeOK' /\ UNCHANGED chosen
           /\ fd' \in [Procs -> {"none", "tmp", "file", "lost"}]
  <1>1. CASE next[p] = "ready"
    BY <1>1, EndsType DEF SaveFails
  <1>2. CASE next[p] # "ready"
    BY <1>2 DEF SaveFails, TypeOK, ProcessTypeOK, RolesTypeOK, Goto, PCs, process
  <1>3. QED
    BY <1>1, <1>2 DEF SaveFails

LEMMA TypeStep == TypeOK /\ [Next]_vars => TypeOK'
  <1> SUFFICES ASSUME TypeOK, [Next]_vars
               PROVE  TypeOK'
    OBVIOUS
  <1> USE DEF disk, process
  <1>a. ASSUME FileTypeOK', ProcessTypeOK', RolesTypeOK'
        PROVE  TypeOK'
    BY <1>a DEF TypeOK, FileTypeOK, ProcessTypeOK, RolesTypeOK
  \* A process that goes on inside the program.
  <1>b. ASSUME NEW p \in Procs, NEW label \in PCs, Goto(p, label),
               pc[p] \notin {"off", "wait", "write"}, label # "off",
               UNCHANGED <<lock, process, fd>>, mem' \in [Procs -> Docs],
               next' \in [Procs -> {"none", "ready", "menu", "installed"}],
               \A q \in Procs \ {p} : next'[q] = next[q],
               next'[p] = "none" <=> label \notin {"open", "write", "rename"}
        PROVE  ProcessTypeOK' /\ RolesTypeOK'
    <2>1. pc' \in [Procs -> PCs] /\ pc'[p] = label /\ \A q \in Procs \ {p} : pc'[q] = pc[q]
      BY <1>b DEF TypeOK, Goto
    <2>2. ProcessTypeOK'
      BY <1>b, <2>1 DEF TypeOK, ProcessTypeOK
    <2>3. RolesTypeOK'
      BY <1>b, <2>1, ProcessesAssumption DEF TypeOK, RolesTypeOK
    <2>4. QED
      BY <2>2, <2>3
  <1>1. ASSUME NEW p \in Procs, NEW m \in Modes, NEW f \in Flags, Start(p, m, f) PROVE TypeOK'
    BY <1>1, ProcessesAssumption DEF Start, Acquire, Goto, PCs, TypeOK
  <1>2. ASSUME NEW p \in Procs, Load(p) PROVE TypeOK'
    <2>1. CASE Exits(p, "refused")
      BY <1>2, <2>1, ExitsType DEF Load
    <2>2. CASE /\ file \notin Unreadable
               /\ mem' = [mem EXCEPT ![p] = IF file = Absent THEN DefaultFile ELSE file]
               /\ Goto(p, "stat")
               /\ UNCHANGED <<lock, disk, process, next, chosen>>
      <3>1. mem' \in [Procs -> Docs]
        BY <2>2, DefaultType DEF TypeOK
      <3>2. ProcessTypeOK' /\ RolesTypeOK'
        BY <1>2, <2>2, <3>1, <1>b DEF Load, TypeOK, PCs
      <3>3. QED
        BY <1>a, <2>2, <3>2 DEF TypeOK, FileTypeOK
    <2>3. QED
      BY <1>2, <2>1, <2>2 DEF Load
  <1>c. ASSUME UNCHANGED <<disk, chosen>> PROVE FileTypeOK'
    BY <1>c DEF TypeOK, FileTypeOK
  <1>3. ASSUME NEW p \in Procs, Stat(p) PROVE TypeOK'
    <2>1. ProcessTypeOK' /\ RolesTypeOK'
      BY <1>3, <1>b DEF Stat, TypeOK, PCs
    <2>2. FileTypeOK'
      BY <1>3, <1>c DEF Stat
    <2>3. QED
      BY <1>a, <2>1, <2>2
  <1>4. ASSUME NEW p \in Procs, Ready(p) PROVE TypeOK'
    <2>1. mem' \in [Procs -> Docs]
      <3>1. mem[p] \in Docs /\ flagged[p] \in BOOLEAN
        BY DEF TypeOK
      <3>2. WithFlags(p) \in Docs
        BY <3>1, FlaggedType DEF WithFlags
      <3>3. QED
        BY <1>4, <3>2, DefaultType DEF Ready, TypeOK
    <2>2. ProcessTypeOK'
      BY <1>4, <2>1 DEF Ready, Goto, PCs, TypeOK, ProcessTypeOK
    <2>3. RolesTypeOK'
      BY <1>4, ProcessesAssumption DEF Ready, Goto, TypeOK, RolesTypeOK
    <2>4. FileTypeOK'
      BY <1>4, <1>c DEF Ready
    <2>5. QED
      BY <1>a, <2>2, <2>3, <2>4
  <1>5. ASSUME NEW p \in Procs, OpenTmp(p) PROVE TypeOK'
    <2>1. CASE /\ tmp' = Empty
               /\ fd' = [fd EXCEPT ![p] = "tmp"]
               /\ Goto(p, "write")
               /\ UNCHANGED <<file, lock, process, mem, next, chosen>>
      BY <1>5, <2>1, ProcessesAssumption DEF OpenTmp, Goto, PCs, TypeOK, Unreadable
    <2>2. CASE SaveFails(p) /\ Leaves(p, tmp) /\ UNCHANGED file
      <3>1. tmp' \in Docs \cup {Absent} \cup Unreadable
        BY <2>2, LeavesType DEF TypeOK
      <3>2. QED
        BY <1>5, <1>a, <2>2, <3>1, SaveFailsType DEF OpenTmp, TypeOK, FileTypeOK
    <2>3. QED
      BY <1>5, <2>1, <2>2 DEF OpenTmp
  <1>6. ASSUME NEW p \in Procs, WriteTmp(p) PROVE TypeOK'
    <2>0. mem[p] \in Docs /\ Torn \in Unreadable
      BY DEF TypeOK, Unreadable
    <2>1. CASE /\ IF fd[p] = "tmp" THEN tmp' \in Written(tmp, mem[p]) ELSE UNCHANGED tmp
               /\ IF fd[p] = "file" THEN file' \in Written(file, mem[p]) ELSE UNCHANGED file
               /\ fd' = [fd EXCEPT ![p] = "none"]
               /\ Goto(p, "rename")
               /\ UNCHANGED <<lock, process, mem, next, chosen>>
      <3>1. FileTypeOK'
        BY <2>0, <2>1 DEF Written, TypeOK, FileTypeOK
      <3>2. ProcessTypeOK'
        BY <2>1 DEF Goto, PCs, TypeOK, ProcessTypeOK
      <3>3. RolesTypeOK'
        BY <1>6, <2>1, ProcessesAssumption DEF WriteTmp, Goto, TypeOK, RolesTypeOK
      <3>4. QED
        BY <1>a, <3>1, <3>2, <3>3
    <2>2. CASE /\ SaveFails(p)
               /\ Leaves(p, IF fd[p] = "tmp" THEN Torn ELSE tmp)
               /\ file' = IF fd[p] = "file" THEN Torn ELSE file
      <3>1. tmp' \in Docs \cup {Absent} \cup Unreadable
        BY <2>0, <2>2, LeavesType DEF TypeOK
      <3>2. QED
        BY <1>6, <1>a, <2>0, <2>2, <3>1, SaveFailsType DEF WriteTmp, TypeOK, FileTypeOK
    <2>3. QED
      BY <1>6, <2>1, <2>2 DEF WriteTmp
  <1>7. ASSUME NEW p \in Procs, Rename(p) PROVE TypeOK'
    <2>0. next[p] # "none" /\ next[p] \in PCs /\ pc[p] = "rename"
      BY <1>7 DEF Rename, TypeOK, PCs
    <2>1. CASE Moved(p)
      <3>1. chosen' \in Docs \cup {Apart}
        BY <2>1, ChosenType DEF Moved, Saved, TypeOK
      <3>2. fd' \in [Procs -> {"none", "tmp", "file", "lost"}]
            /\ \A q \in Procs : fd'[q] # "none" => fd[q] # "none"
        BY <2>1 DEF Moved, TypeOK
      <3>3. ProcessTypeOK'
        BY <2>0, <2>1 DEF Moved, Goto, TypeOK, ProcessTypeOK
      <3>4. RolesTypeOK'
        BY <2>0, <2>1, <3>2, ProcessesAssumption DEF Moved, Goto, TypeOK, RolesTypeOK
      <3>5. QED
        BY <1>a, <2>1, <3>1, <3>2, <3>3, <3>4 DEF Moved, TypeOK, FileTypeOK
    <2>2. CASE /\ tmp = Absent /\ next[p] # "ready"
               /\ Goto(p, next[p])
               /\ next' = [next EXCEPT ![p] = "none"]
               /\ UNCHANGED <<disk, lock, process, mem, chosen>>
      <3>1. ProcessTypeOK' /\ RolesTypeOK'
        BY <2>0, <2>2, <1>b DEF TypeOK
      <3>2. QED
        BY <1>a, <1>c, <2>2, <3>1
    <2>3. CASE tmp = Absent /\ next[p] = "ready" /\ Exits(p, "refused")
      BY <2>0, <2>3, ExitsType
    <2>4. CASE SaveFails(p) /\ Leaves(p, tmp) /\ UNCHANGED file
      <3>1. tmp' \in Docs \cup {Absent} \cup Unreadable
        BY <2>4, LeavesType DEF TypeOK
      <3>2. QED
        BY <2>0, <1>a, <2>4, <3>1, SaveFailsType DEF TypeOK, FileTypeOK
    <2>5. QED
      BY <1>7, <2>1, <2>2, <2>3, <2>4 DEF Rename
  <1>8. ASSUME NEW p \in Procs, Skip(p) PROVE TypeOK'
    <2>1. mem' \in [Procs -> Docs]
      <3>1. [mem[p] EXCEPT !.skip = TRUE] \in Docs
        BY DocTypes DEF TypeOK
      <3>2. mem' = [mem EXCEPT ![p] = [mem[p] EXCEPT !.skip = TRUE]]
        BY <1>8 DEF Skip
      <3>3. QED
        BY <3>1, <3>2 DEF TypeOK
    <2>2. ProcessTypeOK' /\ RolesTypeOK'
      <3>1. /\ pc[p] = "menu" /\ Goto(p, "open") /\ next' = [next EXCEPT ![p] = "menu"]
            /\ UNCHANGED <<lock, process, fd>>
        BY <1>8 DEF Skip
      <3>2. QED
        BY <2>1, <3>1, <1>b DEF TypeOK, PCs
    <2>3. FileTypeOK'
      BY <1>8, <1>c DEF Skip
    <2>4. QED
      BY <1>a, <2>2, <2>3
  <1>9. ASSUME NEW p \in Procs, Install(p) PROVE TypeOK'
    <2>0. pc[p] = "menu"
      BY <1>9 DEF Install
    <2>1. CASE Returns(p, "refused")
      BY <2>0, <2>1, ReturnsType
    <2>2. ASSUME NEW q \in Procs, Relaunch(p, q) PROVE TypeOK'
      <3>1. p # q /\ pc[q] = "off" /\ next[q] = "none" /\ parent[q] = NoProc /\ fd[q] = "none"
        BY <2>0, <2>2 DEF Relaunch, TypeOK
      <3>2. FileTypeOK'
        BY <2>2 DEF Relaunch, TypeOK, FileTypeOK
      <3>3. /\ pc' \in [Procs -> PCs] /\ pc'[q] = "load" /\ pc'[p] \in {"wait", "reload"}
            /\ \A r \in Procs \ {p, q} : pc'[r] = pc[r]
        BY <2>2, <3>1 DEF Relaunch, TypeOK, PCs
      <3>4. ProcessTypeOK'
        BY <2>2, <3>3 DEF Relaunch, TypeOK, ProcessTypeOK
      <3>5. \A r \in Procs : parent[r] # p
        BY <2>0, ProcessesAssumption DEF TypeOK
      <3>6. CASE pc'[p] = "wait" /\ parent' = [parent EXCEPT ![q] = p]
        BY <2>0, <2>2, <3>1, <3>3, <3>5, <3>6, ProcessesAssumption DEF Relaunch, TypeOK, RolesTypeOK
      <3>7. CASE UNCHANGED parent
        BY <2>0, <2>2, <3>1, <3>3, <3>5, <3>7, ProcessesAssumption DEF Relaunch, TypeOK, RolesTypeOK
      <3>8. (pc'[p] = "wait" /\ parent' = [parent EXCEPT ![q] = p]) \/ UNCHANGED parent
        BY <2>2, <3>1 DEF Relaunch, TypeOK
      <3>9. QED
        BY <1>a, <3>2, <3>4, <3>6, <3>7, <3>8
    <2>3. CASE Goto(p, "apply") /\ UNCHANGED <<lock, disk, process, mem, next, chosen>>
      <3>1. ProcessTypeOK' /\ RolesTypeOK'
        BY <2>0, <2>3, <1>b DEF TypeOK, PCs
      <3>2. QED
        BY <1>a, <1>c, <2>3, <3>1
    <2>4. QED
      BY <1>9, <2>1, <2>2, <2>3 DEF Install
  <1>10. ASSUME NEW p \in Procs, Apply(p) PROVE TypeOK'
    <2>1. CASE /\ mem' = [mem EXCEPT ![p].binary = TRUE]
               /\ next' = [next EXCEPT ![p] = "installed"]
               /\ Goto(p, "open")
               /\ UNCHANGED <<lock, disk, process, chosen>>
      <3>1. mem' \in [Procs -> Docs]
        <4>1. [mem[p] EXCEPT !.binary = TRUE] \in Docs
          <5>1. mem[p] \in Docs
            BY DEF TypeOK
          <5>2. QED
            BY <5>1, DocTypes
        <4>2. mem' = [mem EXCEPT ![p] = [mem[p] EXCEPT !.binary = TRUE]]
          BY <2>1
        <4>3. QED
          BY <4>1, <4>2 DEF TypeOK
      <3>2. ProcessTypeOK' /\ RolesTypeOK'
        <4>1. /\ pc[p] = "apply" /\ Goto(p, "open") /\ next' = [next EXCEPT ![p] = "installed"]
              /\ UNCHANGED <<lock, process, fd>>
          BY <1>10, <2>1 DEF Apply
        <4>2. QED
          BY <3>1, <4>1, <1>b DEF TypeOK, PCs
      <3>3. QED
        BY <1>a, <1>c, <2>1, <3>2
    <2>2. CASE Returns(p, "refused")
      BY <1>10, <2>2, ReturnsType DEF Apply
    <2>3. QED
      BY <1>10, <2>1, <2>2 DEF Apply
  <1>11. ASSUME NEW p \in Procs, Installed(p) PROVE TypeOK'
    BY <1>11, ReturnsType DEF Installed
  <1>12. ASSUME NEW p \in Procs, Refused(p) PROVE TypeOK'
    BY <1>12, ReturnsType DEF Refused
  <1>13. ASSUME NEW p \in Procs, Reload(p) PROVE TypeOK'
    <2>1. mem' \in [Procs -> Docs]
      <3>1. mem'[p] \in Docs /\ mem' = [mem EXCEPT ![p] = mem'[p]]
        BY <1>13, DefaultType DEF Reload, TypeOK
      <3>2. QED
        BY <3>1 DEF TypeOK
    <2>2. ProcessTypeOK' /\ RolesTypeOK'
      BY <1>13, <2>1, <1>b DEF Reload, TypeOK, PCs
    <2>3. FileTypeOK'
      BY <1>13, <1>c DEF Reload
    <2>4. QED
      BY <1>a, <2>2, <2>3
  <1>14. ASSUME NEW p \in Procs, Quit(p) PROVE TypeOK'
    BY <1>14, ExitsType DEF Quit
  <1>15. ASSUME NEW p \in Procs, Crash(p) PROVE TypeOK'
    <2>1. ProcessTypeOK' /\ RolesTypeOK' /\ fd' \in [Procs -> {"none", "tmp", "file", "lost"}]
      BY <1>15, EndsType DEF Crash
    <2>2. tmp' \in Docs \cup {Absent} \cup Unreadable
      BY <1>15, LeavesType DEF Crash, TypeOK
    <2>3. QED
      BY <1>15, <1>a, <2>1, <2>2 DEF Crash, TypeOK, FileTypeOK
  <1>16. CASE UNCHANGED vars
    BY <1>16 DEF vars, TypeOK
  <1>17. QED
    BY <1>1, <1>2, <1>3, <1>4, <1>5, <1>6, <1>7, <1>8, <1>9, <1>10, <1>11, <1>12, <1>13, <1>14, <1>15, <1>16 DEF Next, Step

\* The type invariant, for any number of processes and any fault.
THEOREM TypeCorrect == Spec => []TypeOK
  BY TypeInit, TypeStep, PTL DEF Spec

-----------------------------------------------------------------------------
(* The single-instance lock                                                *)

\* The tray and -configure hold the lock, a build without a tray until it has
\* found out.
Holds(p) == mode[p] \in {"tray", "configure"} \/ (mode[p] = "stub" /\ pc[p] # "menu")
LockInv == \A p \in Procs : Holds(p) => lock = p

LEMMA LockInit == Init => LockInv
  BY DEF Init, LockInv, Holds

LEMMA LockStep == TypeOK /\ LockInv /\ [Next]_vars => LockInv'
  <1> SUFFICES ASSUME TypeOK, LockInv, [Next]_vars
               PROVE  LockInv'
    OBVIOUS
  <1> USE DEF disk, process
  \* A step inside the program.
  <1>a. ASSUME NEW p \in Procs, UNCHANGED <<lock, mode>>, pc[p] = "menu" => mode[p] # "stub",
               \A q \in Procs \ {p} : pc'[q] = pc[q]
        PROVE  LockInv'
    BY <1>a DEF LockInv, Holds
  <1>b. ASSUME NEW p \in Procs, NEW label, Goto(p, label), UNCHANGED <<lock, mode>>,
               pc[p] = "menu" => mode[p] # "stub"
        PROVE  LockInv'
    BY <1>a, <1>b DEF Goto, TypeOK
  <1>c. ASSUME NEW p \in Procs, NEW after, Ends(p, after)
        PROVE  LockInv'
    <2>1. SUFFICES ASSUME NEW q \in Procs, Holds(q)'
                   PROVE  lock' = q
      BY DEF LockInv
    <2>2. q # p /\ mode'[q] = mode[q]
      BY <1>c, <2>1 DEF Ends, Holds, TypeOK
    <2>3. CASE q = parent[p]
      <3>1. pc[q] = "wait"
        BY <2>3, ProcessesAssumption DEF TypeOK
      <3>2. QED
        BY <1>c, <2>1, <2>2, <3>1 DEF Ends, Holds, LockInv
    <2>4. CASE q # parent[p]
      BY <1>c, <2>1, <2>2, <2>4 DEF Ends, Holds, LockInv
    <2>5. QED
      BY <2>3, <2>4
  <1>d. ASSUME NEW p \in Procs, NEW after, Returns(p, after) PROVE LockInv'
    BY <1>b, <1>c, <1>d DEF Returns, Exits
  <1>e. ASSUME NEW p \in Procs, pc[p] # "menu", SaveFails(p) PROVE LockInv'
    BY <1>b, <1>c, <1>e DEF SaveFails
  <1>1. ASSUME NEW p \in Procs, NEW m \in Modes, NEW f \in Flags, Start(p, m, f) PROVE LockInv'
    <2>1. /\ mode' = [mode EXCEPT ![p] = m] /\ pc'[p] = "load"
          /\ \A q \in Procs \ {p} : pc'[q] = pc[q]
      BY <1>1 DEF Start, Goto, TypeOK
    <2>2. CASE SkipsLock(m)
      BY <1>1, <2>1, <2>2 DEF Start, Acquire, SkipsLock, LockInv, Holds, TypeOK
    <2>3. CASE ~SkipsLock(m)
      BY <1>1, <2>1, <2>3, ProcessesAssumption DEF Start, Acquire, LockInv, Holds, TypeOK
    <2>4. QED
      BY <2>2, <2>3
  <1>2. ASSUME NEW p \in Procs, Load(p) PROVE LockInv'
    BY <1>2, <1>b, <1>c DEF Load, Exits
  <1>3. ASSUME NEW p \in Procs, Stat(p) PROVE LockInv'
    BY <1>3, <1>b DEF Stat
  <1>4. ASSUME NEW p \in Procs, Ready(p) PROVE LockInv'
    BY <1>4 DEF Ready, Goto, LockInv, Holds, TypeOK
  <1>5. ASSUME NEW p \in Procs, OpenTmp(p) PROVE LockInv'
    BY <1>5, <1>b, <1>e DEF OpenTmp
  <1>6. ASSUME NEW p \in Procs, WriteTmp(p) PROVE LockInv'
    BY <1>6, <1>b, <1>e DEF WriteTmp
  <1>7. ASSUME NEW p \in Procs, Rename(p) PROVE LockInv'
    <2>1. pc[p] = "rename"
      BY <1>7 DEF Rename
    <2>2. CASE Moved(p)
      BY <2>1, <2>2, <1>b DEF Moved
    <2>3. CASE Goto(p, next[p]) /\ UNCHANGED <<lock, process>>
      BY <2>1, <2>3, <1>b
    <2>4. CASE Exits(p, "refused")
      BY <2>4, <1>c DEF Exits
    <2>5. CASE SaveFails(p)
      BY <2>1, <2>5, <1>e
    <2>6. QED
      BY <1>7, <2>2, <2>3, <2>4, <2>5 DEF Rename
  <1>8. ASSUME NEW p \in Procs, Skip(p) PROVE LockInv'
    <2>1. Goto(p, "open") /\ UNCHANGED <<lock, mode>> /\ mode[p] = "tray"
      BY <1>8 DEF Skip
    <2>2. QED
      BY <2>1, <1>b
  <1>9. ASSUME NEW p \in Procs, Install(p) PROVE LockInv'
    <2>1. pc[p] = "menu" /\ mode[p] # "stub"
      BY <1>9 DEF Install, Savers
    <2>2. CASE Returns(p, "refused")
      BY <2>2, <1>d
    <2>3. ASSUME NEW q \in Procs, Relaunch(p, q) PROVE LockInv'
      <3>1. /\ UNCHANGED lock /\ mode' = [mode EXCEPT ![q] = "child"]
            /\ \A r \in Procs \ {p, q} : pc'[r] = pc[r]
        BY <2>3 DEF Relaunch, TypeOK
      <3>2. QED
        BY <2>1, <3>1 DEF LockInv, Holds, TypeOK
    <2>4. CASE Goto(p, "apply") /\ UNCHANGED <<lock, process>>
      BY <2>1, <2>4, <1>b
    <2>5. QED
      BY <1>9, <2>2, <2>3, <2>4 DEF Install
  <1>10. ASSUME NEW p \in Procs, Apply(p) PROVE LockInv'
    <2>1. CASE Goto(p, "open") /\ UNCHANGED <<lock, mode>>
      BY <1>10, <2>1, <1>b DEF Apply
    <2>2. CASE Returns(p, "refused")
      BY <2>2, <1>d
    <2>3. QED
      BY <1>10, <2>1, <2>2 DEF Apply
  <1>11. ASSUME NEW p \in Procs, Installed(p) PROVE LockInv'
    BY <1>11, <1>d DEF Installed
  <1>12. ASSUME NEW p \in Procs, Refused(p) PROVE LockInv'
    BY <1>12, <1>d DEF Refused
  <1>13. ASSUME NEW p \in Procs, Reload(p) PROVE LockInv'
    BY <1>13, <1>b DEF Reload
  <1>14. ASSUME NEW p \in Procs, Quit(p) PROVE LockInv'
    BY <1>14, <1>c DEF Quit, Exits
  <1>15. ASSUME NEW p \in Procs, Crash(p) PROVE LockInv'
    BY <1>15, <1>c DEF Crash
  <1>16. CASE UNCHANGED vars
    BY <1>16 DEF vars, LockInv, Holds
  <1>17. QED
    BY <1>1, <1>2, <1>3, <1>4, <1>5, <1>6, <1>7, <1>8, <1>9, <1>10, <1>11, <1>12, <1>13, <1>14, <1>15, <1>16 DEF Next, Step

\* One tray, however many are started, killed and started again.
THEOREM OneTrayOnly == Spec => []OneTray
  <1>1. LockInv => OneTray
    BY DEF LockInv, Holds, OneTray
  <1>2. QED
    BY <1>1, TypeInit, TypeStep, LockInit, LockStep, PTL DEF Spec

-----------------------------------------------------------------------------
(* Who may save at once                                                    *)

Writers == {"open", "write", "rename"}

\* Where a process can be, by what it was started for and what it saves for.
RoleOf(p) ==
    /\ mode[p] = "none" <=> pc[p] = "off"
    /\ next[p] = "menu" => mode[p] = "tray"
    /\ pc[p] \in {"apply", "wait", "reload", "refused", "installed"} => mode[p] \in Savers
    /\ pc[p] \in Writers => mode[p] \in Savers \/ next[p] = "ready"
    /\ pc[p] = "wait" => mode[p] # "child"
    /\ parent[p] # NoProc => mode[p] = "child"
    /\ file = Absent => pc[p] \in {"off", "load", "stat"} \/ next[p] = "ready"
RolesInv == \A p \in Procs : RoleOf(p)

LEMMA RolesInit == Init => RolesInv
  BY DEF Init, RolesInv, RoleOf, Writers

LEMMA RolesStep == TypeOK /\ RolesInv /\ [Next]_vars => RolesInv'
  <1> SUFFICES ASSUME TypeOK, RolesInv, [Next]_vars
               PROVE  RolesInv'
    OBVIOUS
  <1> USE DEF disk, process, Writers
  <1>a. ASSUME NEW p \in Procs, UNCHANGED <<mode, parent>>, file' = Absent => file = Absent,
               \A q \in Procs \ {p} : pc'[q] = pc[q] /\ next'[q] = next[q],
               RoleOf(p)'
        PROVE  RolesInv'
    BY <1>a DEF RolesInv, RoleOf
  \* A step inside the program, to a place the process may be at.
  <1>b. ASSUME NEW p \in Procs, NEW label, Goto(p, label), UNCHANGED <<mode, parent>>,
               pc[p] # "off", label # "off", label # "wait",
               file' = Absent => file = Absent,
               \A q \in Procs \ {p} : next'[q] = next[q],
               next'[p] = "menu" => mode[p] = "tray",
               label \in {"apply", "reload", "refused", "installed"} => mode[p] \in Savers,
               label \in Writers => mode[p] \in Savers \/ next'[p] = "ready",
               file' = Absent => label \in {"load", "stat"} \/ next'[p] = "ready"
        PROVE  RolesInv'
    <2>1. pc'[p] = label /\ \A q \in Procs \ {p} : pc'[q] = pc[q]
      BY <1>b DEF Goto, TypeOK
    <2>2. RoleOf(p)'
      BY <1>b, <2>1 DEF RolesInv, RoleOf
    <2>3. QED
      BY <1>a, <1>b, <2>1, <2>2
  <1>c. ASSUME NEW p \in Procs, NEW after \in {"reload", "refused"}, Ends(p, after),
               file' = Absent => file = Absent
        PROVE  RolesInv'
    <2>1. SUFFICES ASSUME NEW q \in Procs
                   PROVE  RoleOf(q)'
      BY DEF RolesInv
    <2>2. CASE q = p
      BY <1>c, <2>2 DEF Ends, RoleOf, TypeOK
    <2>3. CASE q # p /\ q = parent[p]
      <3>1. pc[q] = "wait" /\ next[q] = "none"
        BY <2>3, ProcessesAssumption DEF TypeOK
      <3>2. pc'[q] = after /\ mode'[q] = mode[q] /\ next'[q] = next[q]
        BY <1>c, <2>3 DEF Ends, TypeOK
      <3>3. mode[q] \in Savers /\ mode[q] # "child" /\ parent[q] = NoProc /\ file # Absent
        BY <3>1, ProcessesAssumption DEF RolesInv, RoleOf, TypeOK
      <3>4. parent'[q] = NoProc
        BY <1>c, <3>3 DEF Ends
      <3>5. QED
        BY <1>c, <3>1, <3>2, <3>3, <3>4 DEF RoleOf, Savers
    <2>4. CASE q # p /\ q # parent[p]
      <3>1. /\ pc'[q] = pc[q] /\ mode'[q] = mode[q] /\ next'[q] = next[q]
            /\ parent'[q] \in {NoProc, parent[q]}
        BY <1>c, <2>4 DEF Ends, TypeOK
      <3>2. QED
        BY <1>c, <3>1 DEF RolesInv, RoleOf
    <2>5. QED
      BY <2>2, <2>3, <2>4
  <1>d. ASSUME NEW p \in Procs, NEW after \in {"reload", "refused"}, Returns(p, after),
               pc[p] \in {"menu", "apply", "installed", "refused"}
        PROVE  RolesInv'
    <2>1. CASE mode[p] = "tray"
      <3>1. next[p] = "none" /\ file # Absent
        BY <1>d DEF RolesInv, RoleOf, TypeOK
      <3>2. QED
        BY <1>b, <1>d, <2>1, <3>1 DEF Returns
    <2>2. CASE mode[p] # "tray"
      BY <1>c, <1>d, <2>2 DEF Returns, Exits
    <2>3. QED
      BY <2>1, <2>2
  <1>e. ASSUME NEW p \in Procs, pc[p] \in Writers, SaveFails(p), file' = Absent => file = Absent
        PROVE  RolesInv'
    <2>1. CASE next[p] = "ready"
      BY <1>c, <1>e, <2>1 DEF SaveFails
    <2>2. CASE next[p] # "ready"
      <3>1. next[p] \in {"menu", "installed"} /\ mode[p] \in Savers /\ file # Absent
        BY <1>e, <2>2 DEF RolesInv, RoleOf, TypeOK
      <3>2. /\ Goto(p, next[p]) /\ UNCHANGED <<mode, parent>>
            /\ next'[p] = "none" /\ \A q \in Procs \ {p} : next'[q] = next[q]
        BY <1>e, <2>2 DEF SaveFails, TypeOK
      <3>3. QED
        BY <1>b, <1>e, <3>1, <3>2
    <2>3. QED
      BY <2>1, <2>2
  <1>1. ASSUME NEW p \in Procs, NEW m \in Modes, NEW f \in Flags, Start(p, m, f) PROVE RolesInv'
    <2>1. /\ pc[p] = "off" /\ pc'[p] = "load" /\ mode'[p] = m /\ UNCHANGED <<file, parent, next>>
          /\ \A q \in Procs \ {p} : pc'[q] = pc[q] /\ mode'[q] = mode[q]
      BY <1>1 DEF Start, Goto, TypeOK
    <2>2. m # "none" /\ m # "child" /\ parent[p] = NoProc /\ next[p] = "none"
      BY <2>1, ProcessesAssumption DEF ModeKinds, TypeOK
    <2>3. QED
      BY <2>1, <2>2 DEF RolesInv, RoleOf
  <1>2. ASSUME NEW p \in Procs, Load(p) PROVE RolesInv'
    <2>1. CASE Exits(p, "refused")
      BY <1>c, <2>1 DEF Exits
    <2>2. CASE Goto(p, "stat") /\ UNCHANGED <<disk, process, next>>
      BY <1>2, <1>b, <2>2 DEF Load, RolesInv, RoleOf
    <2>3. QED
      BY <1>2, <2>1, <2>2 DEF Load
  <1>3. ASSUME NEW p \in Procs, Stat(p) PROVE RolesInv'
    <2>1. pc[p] = "stat" /\ next[p] = "none" /\ UNCHANGED <<file, mode, parent>>
      BY <1>3 DEF Stat, TypeOK
    <2>2. CASE file = Absent /\ Goto(p, "open") /\ next' = [next EXCEPT ![p] = "ready"]
      <3>1. next'[p] = "ready" /\ \A q \in Procs \ {p} : next'[q] = next[q]
        BY <2>2 DEF TypeOK
      <3>2. QED
        BY <1>b, <2>1, <2>2, <3>1
    <2>3. CASE file # Absent /\ Goto(p, "ready") /\ UNCHANGED next
      BY <1>b, <2>1, <2>3
    <2>4. QED
      BY <1>3, <2>2, <2>3 DEF Stat
  <1>4. ASSUME NEW p \in Procs, Ready(p) PROVE RolesInv'
    <2>1. next[p] = "none" /\ file # Absent
      BY <1>4 DEF Ready, RolesInv, RoleOf, TypeOK
    <2>2. pc[p] = "ready" /\ Goto(p, "menu") /\ UNCHANGED <<file, mode, parent, next>>
      BY <1>4 DEF Ready
    <2>3. QED
      BY <1>b, <2>1, <2>2
  <1>5. ASSUME NEW p \in Procs, OpenTmp(p) PROVE RolesInv'
    <2>1. pc[p] = "open" /\ UNCHANGED file
      BY <1>5 DEF OpenTmp
    <2>2. CASE Goto(p, "write") /\ UNCHANGED <<process, next>>
      BY <1>b, <2>1, <2>2 DEF RolesInv, RoleOf
    <2>3. CASE SaveFails(p)
      BY <1>e, <2>1, <2>3
    <2>4. QED
      BY <1>5, <2>2, <2>3 DEF OpenTmp
  <1>6. ASSUME NEW p \in Procs, WriteTmp(p) PROVE RolesInv'
    <2>1. pc[p] = "write"
      BY <1>6 DEF WriteTmp
    <2>2. file' = Absent => file = Absent
      <3>1. mem[p] # Absent /\ Torn # Absent
        BY FilesAssumption DEF Unreadable, TypeOK
      <3>2. QED
        BY <1>6, <3>1 DEF WriteTmp, Written
    <2>3. CASE Goto(p, "rename") /\ UNCHANGED <<process, next>>
      BY <1>b, <2>1, <2>2, <2>3 DEF RolesInv, RoleOf
    <2>4. CASE SaveFails(p)
      BY <1>e, <2>1, <2>2, <2>4
    <2>5. QED
      BY <1>6, <2>3, <2>4 DEF WriteTmp
  <1>7. ASSUME NEW p \in Procs, Rename(p) PROVE RolesInv'
    <2>1. pc[p] = "rename" /\ next[p] # "none"
      BY <1>7 DEF Rename, TypeOK
    <2>2. CASE Moved(p) \/ (/\ next[p] # "ready" /\ Goto(p, next[p])
                            /\ next' = [next EXCEPT ![p] = "none"]
                            /\ UNCHANGED <<file, process>>)
      <3>1. /\ Goto(p, next[p]) /\ UNCHANGED <<mode, parent>>
            /\ next'[p] = "none" /\ \A q \in Procs \ {p} : next'[q] = next[q]
        BY <2>2 DEF Moved, TypeOK
      <3>2. file' # Absent
        BY <2>1, <2>2 DEF Moved, RolesInv, RoleOf
      <3>3. next[p] = "ready" \/ mode[p] \in Savers
        BY <2>1 DEF RolesInv, RoleOf
      <3>4. next[p] \in {"ready", "menu", "installed"}
        BY <2>1 DEF TypeOK
      <3>5. QED
        BY <1>b, <2>1, <3>1, <3>2, <3>3, <3>4
    <2>3. CASE Exits(p, "refused")
      BY <2>3, <1>c DEF Exits
    <2>4. CASE SaveFails(p) /\ UNCHANGED file
      BY <2>1, <2>4, <1>e
    <2>5. QED
      BY <1>7, <2>2, <2>3, <2>4 DEF Rename
  <1>8. ASSUME NEW p \in Procs, Skip(p) PROVE RolesInv'
    <2>1. /\ pc[p] = "menu" /\ Goto(p, "open") /\ mode[p] = "tray" /\ UNCHANGED <<file, mode, parent>>
          /\ next' = [next EXCEPT ![p] = "menu"]
      BY <1>8 DEF Skip
    <2>2. file # Absent /\ \A q \in Procs \ {p} : next'[q] = next[q]
      BY <2>1 DEF RolesInv, RoleOf, TypeOK
    <2>3. QED
      BY <1>b, <2>1, <2>2 DEF Savers
  <1>9. ASSUME NEW p \in Procs, Install(p) PROVE RolesInv'
    <2>1. pc[p] = "menu" /\ mode[p] \in Savers /\ next[p] = "none" /\ file # Absent
      BY <1>9 DEF Install, RolesInv, RoleOf, TypeOK
    <2>2. CASE Returns(p, "refused")
      BY <2>1, <2>2, <1>d
    <2>3. ASSUME NEW q \in Procs, mode[p] # "child", Relaunch(p, q) PROVE RolesInv'
      <3>1. /\ p # q /\ UNCHANGED <<file, next>> /\ mode' = [mode EXCEPT ![q] = "child"]
            /\ pc'[q] = "load" /\ pc'[p] \in {"wait", "reload"}
            /\ \A r \in Procs \ {p, q} : pc'[r] = pc[r]
            /\ \A r \in Procs \ {q} : parent'[r] = parent[r]
        BY <2>1, <2>3 DEF Relaunch, TypeOK
      <3>2. RoleOf(q)'
        BY <2>1, <2>3, <3>1 DEF Relaunch, RoleOf, TypeOK
      <3>3. RoleOf(p)'
        BY <2>1, <2>3, <3>1 DEF RoleOf, RolesInv, TypeOK
      <3>4. QED
        BY <3>1, <3>2, <3>3 DEF RolesInv, RoleOf, TypeOK
    <2>4. CASE Goto(p, "apply") /\ UNCHANGED <<disk, process, next>>
      BY <2>1, <2>4, <1>b
    <2>5. QED
      BY <1>9, <2>2, <2>3, <2>4 DEF Install
  <1>10. ASSUME NEW p \in Procs, Apply(p) PROVE RolesInv'
    <2>1. pc[p] = "apply" /\ mode[p] \in Savers /\ next[p] = "none" /\ file # Absent
      BY <1>10 DEF Apply, RolesInv, RoleOf, TypeOK
    <2>2. CASE /\ Goto(p, "open") /\ UNCHANGED <<disk, process>>
               /\ next' = [next EXCEPT ![p] = "installed"]
      <3>1. next'[p] = "installed" /\ \A q \in Procs \ {p} : next'[q] = next[q]
        BY <2>2 DEF TypeOK
      <3>2. QED
        BY <1>b, <2>1, <2>2, <3>1
    <2>3. CASE Returns(p, "refused")
      BY <2>1, <2>3, <1>d
    <2>4. QED
      BY <1>10, <2>2, <2>3 DEF Apply
  <1>11. ASSUME NEW p \in Procs, Installed(p) PROVE RolesInv'
    BY <1>11, <1>d DEF Installed
  <1>12. ASSUME NEW p \in Procs, Refused(p) PROVE RolesInv'
    BY <1>12, <1>d DEF Refused
  <1>13. ASSUME NEW p \in Procs, Reload(p) PROVE RolesInv'
    <2>1. pc[p] = "reload" /\ Goto(p, "installed") /\ UNCHANGED <<file, mode, parent, next>>
      BY <1>13 DEF Reload
    <2>2. mode[p] \in Savers /\ next[p] = "none" /\ file # Absent
      BY <2>1 DEF RolesInv, RoleOf, TypeOK
    <2>3. QED
      BY <1>b, <2>1, <2>2
  <1>14. ASSUME NEW p \in Procs, Quit(p) PROVE RolesInv'
    BY <1>14, <1>c DEF Quit, Exits
  <1>15. ASSUME NEW p \in Procs, Crash(p) PROVE RolesInv'
    BY <1>15, <1>c DEF Crash
  <1>16. CASE UNCHANGED vars
    BY <1>16 DEF vars, RolesInv, RoleOf
  <1>17. QED
    BY <1>1, <1>2, <1>3, <1>4, <1>5, <1>6, <1>7, <1>8, <1>9, <1>10, <1>11, <1>12, <1>13, <1>14, <1>15, <1>16 DEF Next, Step

\* Those who know of each other's saves: one process, and the parent that waits
\* for it; in the first run one process at all.
Alone ==
    /\ \A p, q \in Procs :
         /\ {mode[p], mode[q]} \subseteq Savers => p = q \/ parent[p] = q \/ parent[q] = p
         /\ file = Absent /\ "off" \notin {pc[p], pc[q]} => p = q
    /\ \A p \in Procs : next[p] = "ready" => file = Absent
AloneInv == chosen # Apart => Alone

\* The only writer fills a copy of its own, and the file stays whole.
Whole ==
    /\ file \notin Unreadable
    /\ \A p \in Procs :
         /\ pc[p] = "write" => fd[p] = "tmp" /\ tmp = Empty
         /\ pc[p] = "rename" => tmp = mem[p]
WholeInv == chosen # Apart => Whole

LEMMA AloneInit == Init => AloneInv
  BY DEF Init, AloneInv, Alone, Savers

\* Once apart, for ever apart.
LEMMA StaysApart == [Next]_vars /\ chosen = Apart => chosen' = Apart
  BY DEF Next, Step, vars, Start, Load, Stat, Ready, OpenTmp, WriteTmp, Rename, Moved, Saved,
     SaveFails, Skip, Install, Relaunch, Apply, Installed, Refused, Reload, Returns, Exits, Quit,
     Crash

LEMMA AloneStep == TypeOK /\ RolesInv /\ AloneInv /\ WholeInv /\ [Next]_vars => AloneInv'
  <1> SUFFICES ASSUME TypeOK, RolesInv, Alone, Whole, chosen' # Apart, [Next]_vars
               PROVE  Alone'
    BY StaysApart DEF AloneInv, WholeInv
  <1> USE DEF disk, process
  \* A step inside the program.
  <1>a. ASSUME NEW p \in Procs, NEW label, Goto(p, label), pc[p] # "off",
               UNCHANGED <<file, mode, parent>>,
               \A q \in Procs : next'[q] # next[q] => next'[q] # "ready"
        PROVE  Alone'
    BY <1>a DEF Alone, Goto, TypeOK
  <1>b. ASSUME NEW p \in Procs, NEW after, Ends(p, after), UNCHANGED file
        PROVE  Alone'
    <2>1. /\ mode'[p] = "none" /\ pc'[p] = "off" /\ next'[p] = "none"
          /\ \A q \in Procs \ {p} : mode'[q] = mode[q] /\ next'[q] = next[q]
      BY <1>b DEF Ends, TypeOK
    <2>2. \A q \in Procs \ {p} : pc'[q] # "off" => pc[q] # "off"
      <3>1. SUFFICES ASSUME NEW q \in Procs \ {p}, pc[q] = "off"
                     PROVE  pc'[q] = "off"
        OBVIOUS
      <3>2. q # parent[p]
        BY <3>1, ProcessesAssumption DEF TypeOK
      <3>3. QED
        BY <1>b, <3>1, <3>2 DEF Ends
    <2>3. \A q, r \in Procs \ {p} : parent[q] = r => parent'[q] = r
      BY <1>b DEF Ends
    <2>4. QED
      BY <1>b, <2>1, <2>2, <2>3 DEF Alone, Savers
  <1>c. ASSUME NEW p \in Procs, NEW after, Returns(p, after), pc[p] # "off" PROVE Alone'
    BY <1>a, <1>b, <1>c DEF Returns, Exits
  <1>d. ASSUME NEW p \in Procs, pc[p] # "off", SaveFails(p), UNCHANGED file PROVE Alone'
    <2>1. CASE next[p] = "ready"
      BY <1>b, <1>d, <2>1 DEF SaveFails
    <2>2. CASE next[p] # "ready"
      BY <1>a, <1>d, <2>2 DEF SaveFails, TypeOK
    <2>3. QED
      BY <2>1, <2>2
  <1>1. ASSUME NEW p \in Procs, NEW m \in Modes, NEW f \in Flags, Start(p, m, f) PROVE Alone'
    <2>1. /\ pc[p] = "off" /\ mode'[p] = m /\ UNCHANGED <<file, parent, next>>
          /\ \A q \in Procs \ {p} : pc'[q] = pc[q] /\ mode'[q] = mode[q]
      BY <1>1 DEF Start, Goto, TypeOK
    <2>2. ~StartsApart(m)
      BY <1>1 DEF Start
    <2>3. file = Absent => \A q \in Procs : pc[q] = "off"
      BY <2>2 DEF StartsApart, Live
    <2>4. m \in Savers => \A q \in Procs : mode[q] \notin Savers
      BY <2>2 DEF StartsApart, Live, RolesInv, RoleOf, Savers
    <2>5. QED
      BY <2>1, <2>3, <2>4 DEF Alone
  <1>2. ASSUME NEW p \in Procs, Load(p) PROVE Alone'
    BY <1>2, <1>a, <1>b DEF Load, Exits
  <1>3. ASSUME NEW p \in Procs, Stat(p) PROVE Alone'
    <2>1. CASE file = Absent /\ Goto(p, "open") /\ next' = [next EXCEPT ![p] = "ready"]
      BY <1>3, <2>1 DEF Stat, Goto, Alone, TypeOK
    <2>2. CASE Goto(p, "ready") /\ UNCHANGED next
      BY <1>3, <1>a, <2>2 DEF Stat
    <2>3. QED
      BY <1>3, <2>1, <2>2 DEF Stat
  <1>4. ASSUME NEW p \in Procs, Ready(p) PROVE Alone'
    <2>1. pc[p] = "ready" /\ Goto(p, "menu") /\ UNCHANGED <<file, mode, parent, next>>
      BY <1>4 DEF Ready
    <2>2. QED
      BY <2>1, <1>a
  <1>5. ASSUME NEW p \in Procs, OpenTmp(p) PROVE Alone'
    BY <1>5, <1>a, <1>d DEF OpenTmp
  <1>6. ASSUME NEW p \in Procs, WriteTmp(p) PROVE Alone'
    <2>1. fd[p] = "tmp" /\ pc[p] = "write"
      BY <1>6 DEF WriteTmp, Whole
    <2>2. UNCHANGED file
      BY <1>6, <2>1 DEF WriteTmp
    <2>3. QED
      BY <1>6, <1>a, <1>d, <2>1, <2>2 DEF WriteTmp
  <1>7. ASSUME NEW p \in Procs, Rename(p) PROVE Alone'
    <2>1. pc[p] = "rename" /\ next[p] # "none" /\ tmp = mem[p]
      BY <1>7 DEF Rename, Whole, TypeOK
    <2>2. tmp # Absent
      BY <2>1, FilesAssumption DEF TypeOK
    <2>3. CASE Moved(p)
      <3>1. /\ file' # Absent /\ UNCHANGED <<mode, parent>> /\ next'[p] = "none"
            /\ \A q \in Procs \ {p} : next'[q] = next[q]
        BY <2>3 DEF Moved, TypeOK
      <3>2. \A q \in Procs \ {p} : next[q] # "ready"
        <4>1. SUFFICES ASSUME NEW q \in Procs, next[q] = "ready"
                       PROVE  q = p
          OBVIOUS
        <4>2. file = Absent /\ pc[q] # "off"
          BY <4>1 DEF Alone, TypeOK
        <4>3. QED
          BY <2>1, <4>2 DEF Alone
      <3>3. QED
        BY <3>1, <3>2 DEF Alone
    <2>4. CASE SaveFails(p) /\ UNCHANGED file
      BY <2>1, <2>4, <1>d
    <2>5. QED
      BY <1>7, <2>2, <2>3, <2>4 DEF Rename
  <1>8. ASSUME NEW p \in Procs, Skip(p) PROVE Alone'
    <2>1. /\ pc[p] = "menu" /\ Goto(p, "open") /\ UNCHANGED <<file, mode, parent>>
          /\ next' = [next EXCEPT ![p] = "menu"]
      BY <1>8 DEF Skip
    <2>2. QED
      BY <2>1, <1>a DEF TypeOK
  <1>9. ASSUME NEW p \in Procs, Install(p) PROVE Alone'
    <2>1. pc[p] = "menu" /\ mode[p] \in Savers /\ next[p] = "none" /\ file # Absent
      BY <1>9 DEF Install, RolesInv, RoleOf, TypeOK
    <2>2. CASE Returns(p, "refused")
      BY <2>1, <2>2, <1>c
    <2>3. ASSUME NEW q \in Procs, mode[p] # "child", Relaunch(p, q) PROVE Alone'
      <3>1. /\ p # q /\ UNCHANGED <<file, next>> /\ mode' = [mode EXCEPT ![q] = "child"]
            /\ parent' = [parent EXCEPT ![q] = p]
        BY <2>1, <2>3 DEF Relaunch
      <3>2. \A r \in Procs : mode[r] \in Savers => r = p
        <4>1. SUFFICES ASSUME NEW r \in Procs, mode[r] \in Savers, r # p
                       PROVE  FALSE
          OBVIOUS
        <4>2. parent[p] = r \/ parent[r] = p
          BY <2>1, <4>1 DEF Alone
        <4>3. parent[p] = NoProc
          BY <2>3 DEF RolesInv, RoleOf
        <4>4. parent[r] # p
          BY <2>1, ProcessesAssumption DEF TypeOK
        <4>5. QED
          BY <4>2, <4>3, <4>4, ProcessesAssumption
      <3>3. QED
        BY <2>1, <3>1, <3>2 DEF Alone, TypeOK
    <2>4. CASE Goto(p, "apply") /\ UNCHANGED <<disk, process, next>>
      BY <2>1, <2>4, <1>a
    <2>5. QED
      BY <1>9, <2>2, <2>3, <2>4 DEF Install
  <1>10. ASSUME NEW p \in Procs, Apply(p) PROVE Alone'
    <2>1. CASE /\ Goto(p, "open") /\ UNCHANGED <<disk, process>>
               /\ next' = [next EXCEPT ![p] = "installed"]
      <3>1. pc[p] # "off" /\ \A q \in Procs : next'[q] # next[q] => next'[q] # "ready"
        BY <1>10, <2>1 DEF Apply, TypeOK
      <3>2. QED
        BY <2>1, <3>1, <1>a
    <2>2. CASE Returns(p, "refused")
      BY <1>10, <2>2, <1>c DEF Apply
    <2>3. QED
      BY <1>10, <2>1, <2>2 DEF Apply
  <1>11. ASSUME NEW p \in Procs, Installed(p) PROVE Alone'
    BY <1>11, <1>c DEF Installed
  <1>12. ASSUME NEW p \in Procs, Refused(p) PROVE Alone'
    BY <1>12, <1>c DEF Refused
  <1>13. ASSUME NEW p \in Procs, Reload(p) PROVE Alone'
    <2>1. pc[p] = "reload" /\ Goto(p, "installed") /\ UNCHANGED <<file, mode, parent, next>>
      BY <1>13 DEF Reload
    <2>2. QED
      BY <1>a, <2>1
  <1>14. ASSUME NEW p \in Procs, Quit(p) PROVE Alone'
    BY <1>14, <1>b DEF Quit, Exits
  <1>15. ASSUME NEW p \in Procs, Crash(p) PROVE Alone'
    BY <1>15, <1>b DEF Crash
  <1>16. CASE UNCHANGED vars
    BY <1>16 DEF vars, Alone
  <1>17. QED
    BY <1>1, <1>2, <1>3, <1>4, <1>5, <1>6, <1>7, <1>8, <1>9, <1>10, <1>11, <1>12, <1>13, <1>14, <1>15, <1>16 DEF Next, Step

LEMMA OneWriter ==
    ASSUME TypeOK, RolesInv, Alone, NEW p \in Procs, NEW q \in Procs,
           pc[p] \in Writers, pc[q] \in Writers
    PROVE  p = q
  <1>1. CASE next[p] = "ready" \/ next[q] = "ready"
    <2>1. file = Absent /\ "off" \notin {pc[p], pc[q]}
      BY <1>1 DEF Alone, Writers
    <2>2. QED
      BY <2>1 DEF Alone
  <1>2. CASE next[p] # "ready" /\ next[q] # "ready"
    <2>1. mode[p] \in Savers /\ mode[q] \in Savers
      BY <1>2 DEF RolesInv, RoleOf
    <2>2. parent[p] # q /\ parent[q] # p
      BY ProcessesAssumption DEF TypeOK, Writers
    <2>3. QED
      BY <2>1, <2>2 DEF Alone
  <1>3. QED
    BY <1>1, <1>2

LEMMA WholeInit == Init => WholeInv
  BY FilesAssumption, DefaultType DEF Init, WholeInv, Whole, Unreadable

LEMMA WholeStep == TypeOK /\ RolesInv /\ AloneInv /\ WholeInv /\ [Next]_vars => WholeInv'
  <1> SUFFICES ASSUME TypeOK, RolesInv, Alone, Whole, chosen' # Apart, [Next]_vars
               PROVE  Whole'
    BY StaysApart DEF AloneInv, WholeInv
  <1> USE DEF disk, process
  \* A step inside the program that writes nothing.
  <1>a. ASSUME NEW p \in Procs, UNCHANGED <<file, tmp, fd>>, pc'[p] \notin {"write", "rename"},
               \A q \in Procs \ {p} : pc'[q] = pc[q] /\ mem'[q] = mem[q]
        PROVE  Whole'
    BY <1>a DEF Whole, Unreadable
  <1>b. ASSUME NEW p \in Procs, NEW label, label \notin {"write", "rename"}, Goto(p, label),
               UNCHANGED <<file, tmp, fd>>, \A q \in Procs \ {p} : mem'[q] = mem[q]
        PROVE  Whole'
    BY <1>a, <1>b DEF Goto, TypeOK
  \* A writer that goes on or ends, the only one.
  <1>c. ASSUME NEW p \in Procs, pc[p] \in Writers, pc'[p] \notin {"write", "rename"},
               file' \notin Unreadable,
               \A q \in Procs \ {p} : pc'[q] \in {"write", "rename"} => pc[q] \in Writers
        PROVE  Whole'
    <2>1. \A q \in Procs : pc'[q] \notin {"write", "rename"}
      BY <1>c, OneWriter
    <2>2. QED
      BY <1>c, <2>1 DEF Whole, Unreadable
  <1>d. ASSUME NEW p \in Procs, NEW after \in {"reload", "refused"}, Ends(p, after)
        PROVE  pc'[p] = "off" /\ \A q \in Procs : pc'[q] \in {"write", "rename"} => pc'[q] = pc[q] /\ q # p
    BY <1>d DEF Ends
  <1>e. ASSUME NEW p \in Procs, NEW after \in {"reload", "refused"}, Ends(p, after),
               Leaves(p, tmp), UNCHANGED file
        PROVE  Whole'
    <2>1. SUFFICES ASSUME NEW q \in Procs, pc'[q] \in {"write", "rename"}
                   PROVE  pc[q] = pc'[q] /\ fd'[q] = fd[q] /\ tmp' = tmp /\ mem'[q] = mem[q]
      BY <1>e DEF Whole, Unreadable
    <2>2. pc[q] = pc'[q] /\ q # p
      BY <1>d, <1>e, <2>1
    <2>3. tmp' = tmp
      BY <1>e, <2>1, <2>2 DEF Leaves
    <2>4. QED
      BY <1>e, <2>2, <2>3 DEF Ends, TypeOK
  <1>f. ASSUME NEW p \in Procs, NEW after \in {"reload", "refused"}, Returns(p, after) PROVE Whole'
    BY <1>b, <1>e, <1>f DEF Returns, Exits
  <1>g. ASSUME NEW p \in Procs, pc[p] \in Writers, SaveFails(p), UNCHANGED file PROVE Whole'
    <2>1. CASE next[p] = "ready"
      BY <1>c, <1>d, <1>g, <2>1 DEF SaveFails, Whole, Writers
    <2>2. CASE next[p] # "ready"
      <3>1. /\ pc'[p] \in {"menu", "installed"}
            /\ \A q \in Procs \ {p} : pc'[q] = pc[q]
        BY <1>g, <2>2 DEF SaveFails, Goto, TypeOK, Writers
      <3>2. QED
        BY <1>c, <1>g, <3>1 DEF Whole, Writers
    <2>3. QED
      BY <2>1, <2>2
  <1>1. ASSUME NEW p \in Procs, NEW m \in Modes, NEW f \in Flags, Start(p, m, f) PROVE Whole'
    BY <1>1, <1>b DEF Start
  <1>2. ASSUME NEW p \in Procs, Load(p) PROVE Whole'
    <2>1. CASE Exits(p, "refused")
      BY <1>e, <2>1 DEF Exits
    <2>2. CASE Goto(p, "stat") /\ UNCHANGED disk /\ \A q \in Procs \ {p} : mem'[q] = mem[q]
      BY <1>b, <2>2
    <2>3. QED
      BY <1>2, <2>1, <2>2 DEF Load, TypeOK
  <1>3. ASSUME NEW p \in Procs, Stat(p) PROVE Whole'
    BY <1>3, <1>b DEF Stat
  <1>4. ASSUME NEW p \in Procs, Ready(p) PROVE Whole'
    BY <1>4, <1>b DEF Ready, TypeOK
  <1>5. ASSUME NEW p \in Procs, OpenTmp(p) PROVE Whole'
    <2>1. pc[p] = "open" /\ UNCHANGED file
      BY <1>5 DEF OpenTmp
    <2>2. CASE tmp' = Empty /\ fd' = [fd EXCEPT ![p] = "tmp"] /\ Goto(p, "write")
      <3>1. \A q \in Procs \ {p} : pc'[q] \notin {"write", "rename"}
        BY <2>1, <2>2, OneWriter DEF Goto, Writers, TypeOK
      <3>2. pc'[p] = "write" /\ fd'[p] = "tmp"
        BY <2>2 DEF Goto, TypeOK
      <3>3. QED
        BY <2>1, <2>2, <3>1, <3>2 DEF Whole, Unreadable
    <2>3. CASE SaveFails(p)
      BY <1>g, <2>1, <2>3 DEF Writers
    <2>4. QED
      BY <1>5, <2>2, <2>3 DEF OpenTmp
  <1>6. ASSUME NEW p \in Procs, WriteTmp(p) PROVE Whole'
    <2>1. pc[p] = "write" /\ fd[p] = "tmp" /\ tmp = Empty
      BY <1>6 DEF WriteTmp, Whole
    <2>2. UNCHANGED file
      BY <1>6, <2>1 DEF WriteTmp
    <2>3. CASE tmp' \in Written(tmp, mem[p]) /\ Goto(p, "rename") /\ UNCHANGED mem
      <3>1. \A q \in Procs \ {p} : pc'[q] \notin {"write", "rename"}
        BY <2>1, <2>3, OneWriter DEF Goto, Writers, TypeOK
      <3>2. pc'[p] = "rename" /\ tmp' = mem'[p]
        BY <2>1, <2>3 DEF Goto, Written, TypeOK
      <3>3. QED
        BY <2>2, <3>1, <3>2 DEF Whole, Unreadable
    <2>4. CASE SaveFails(p)
      BY <1>g, <2>1, <2>2, <2>4 DEF Writers
    <2>5. QED
      BY <1>6, <2>1, <2>3, <2>4 DEF WriteTmp
  <1>7. ASSUME NEW p \in Procs, Rename(p) PROVE Whole'
    <2>1. pc[p] = "rename" /\ tmp \in Docs /\ next[p] \in {"ready", "menu", "installed"}
      BY <1>7 DEF Rename, Whole, TypeOK
    <2>2. tmp # Absent
      BY <2>1, FilesAssumption
    <2>3. CASE Moved(p)
      <3>1. file' \notin Unreadable
        BY <2>1, <2>3, FilesAssumption DEF Moved
      <3>2. /\ pc'[p] \notin {"write", "rename"}
            /\ \A q \in Procs \ {p} : pc'[q] = pc[q]
        BY <2>1, <2>3 DEF Moved, Goto, TypeOK
      <3>3. QED
        BY <1>c, <2>1, <3>1, <3>2 DEF Writers
    <2>4. CASE SaveFails(p) /\ UNCHANGED file
      BY <1>g, <2>1, <2>4 DEF Writers
    <2>5. QED
      BY <1>7, <2>2, <2>3, <2>4 DEF Rename
  <1>8. ASSUME NEW p \in Procs, Skip(p) PROVE Whole'
    <2>1. Goto(p, "open") /\ UNCHANGED disk /\ \A q \in Procs \ {p} : mem'[q] = mem[q]
      BY <1>8 DEF Skip, TypeOK
    <2>2. QED
      BY <2>1, <1>b
  <1>9. ASSUME NEW p \in Procs, Install(p) PROVE Whole'
    <2>1. CASE Returns(p, "refused")
      BY <2>1, <1>f
    <2>2. ASSUME NEW q \in Procs, Relaunch(p, q) PROVE Whole'
      <3>1. /\ UNCHANGED <<disk, mem>>
            /\ \A r \in Procs : pc'[r] \in {"write", "rename"} => pc'[r] = pc[r]
        BY <2>2 DEF Relaunch, TypeOK
      <3>2. QED
        BY <3>1 DEF Whole, Unreadable
    <2>3. CASE Goto(p, "apply") /\ UNCHANGED <<disk, mem>>
      BY <2>3, <1>b
    <2>4. QED
      BY <1>9, <2>1, <2>2, <2>3 DEF Install
  <1>10. ASSUME NEW p \in Procs, Apply(p) PROVE Whole'
    <2>1. CASE Goto(p, "open") /\ UNCHANGED disk /\ \A q \in Procs \ {p} : mem'[q] = mem[q]
      BY <2>1, <1>b
    <2>2. CASE Returns(p, "refused")
      BY <2>2, <1>f
    <2>3. QED
      BY <1>10, <2>1, <2>2 DEF Apply, TypeOK
  <1>11. ASSUME NEW p \in Procs, Installed(p) PROVE Whole'
    BY <1>11, <1>f DEF Installed
  <1>12. ASSUME NEW p \in Procs, Refused(p) PROVE Whole'
    BY <1>12, <1>f DEF Refused
  <1>13. ASSUME NEW p \in Procs, Reload(p) PROVE Whole'
    BY <1>13, <1>b DEF Reload, TypeOK
  <1>14. ASSUME NEW p \in Procs, Quit(p) PROVE Whole'
    BY <1>14, <1>e DEF Quit, Exits
  <1>15. ASSUME NEW p \in Procs, Crash(p) PROVE Whole'
    BY <1>15, <1>e DEF Crash
  <1>16. CASE UNCHANGED vars
    BY <1>16 DEF vars, Whole, Unreadable
  <1>17. QED
    BY <1>1, <1>2, <1>3, <1>4, <1>5, <1>6, <1>7, <1>8, <1>9, <1>10, <1>11, <1>12, <1>13, <1>14, <1>15, <1>16 DEF Next, Step

\* config.json can be read whenever a process looks, wherever others are killed.
THEOREM FileStaysWhole == Spec => []FileIsWhole
  <1>1. WholeInv => FileIsWhole
    BY DEF WholeInv, Whole, FileIsWhole
  <1>2. TypeOK /\ RolesInv /\ AloneInv /\ WholeInv /\ [Next]_vars
          => (TypeOK /\ RolesInv /\ AloneInv /\ WholeInv)'
    BY TypeStep, RolesStep, AloneStep, WholeStep
  <1>3. Init => TypeOK /\ RolesInv /\ AloneInv /\ WholeInv
    BY TypeInit, RolesInit, AloneInit, WholeInit
  <1>4. QED
    BY <1>1, <1>2, <1>3, PTL DEF Spec

-----------------------------------------------------------------------------
(* What has been saved                                                     *)

Has(d) == (chosen.skip => d.skip) /\ (chosen.binary => d.binary)

\* What p saves next has all that has been saved; a parent that waits may not, once
\* its child has saved, and reads it then.
Keeps(p) ==
    /\ mode[p] \in Savers /\ pc[p] \notin {"load", "wait", "reload"} => Has(mem[p])
    /\ pc[p] = "wait" /\ (\A q \in Procs : parent[q] = p => pc[q] # "installed") => Has(mem[p])

Kept ==
    /\ file = Absent => ~chosen.skip /\ ~chosen.binary
    /\ file \in Docs => Has(file)
    /\ \A p \in Procs : Keeps(p)
KeptInv == chosen # Apart => Kept

LEMMA KeptInit == Init => KeptInv
  BY DEF Init, KeptInv, Kept, Keeps, Has, DefaultFile, Savers

LEMMA KeptStep ==
    TypeOK /\ RolesInv /\ AloneInv /\ WholeInv /\ KeptInv /\ [Next]_vars => KeptInv'
  <1> SUFFICES ASSUME TypeOK, RolesInv, Alone, Whole, Kept, chosen # Apart, chosen' # Apart,
                      [Next]_vars
               PROVE  Kept'
    BY StaysApart DEF AloneInv, WholeInv, KeptInv
  <1> USE DEF disk, process
  <1>0. file = Absent \/ file \in Docs
    BY DEF Whole, TypeOK
  \* A step inside the program.
  <1>a. ASSUME NEW p \in Procs, UNCHANGED <<file, chosen, mode, parent>>,
               \A q \in Procs \ {p} : pc'[q] = pc[q] /\ mem'[q] = mem[q],
               pc[p] # "installed" \/ parent[p] = NoProc,
               pc'[p] # "wait",
               mode[p] \in Savers /\ pc'[p] \notin {"load", "reload"} => Has(mem'[p])
        PROVE  Kept'
    <2>1. SUFFICES ASSUME NEW q \in Procs
                   PROVE  Keeps(q)'
      BY <1>a DEF Kept, Has
    <2>2. CASE q = p
      BY <1>a, <2>2 DEF Keeps, Has
    <2>3. CASE q # p
      <3>1. pc'[q] = pc[q] /\ mem'[q] = mem[q] /\ Keeps(q)
        BY <1>a, <2>3 DEF Kept
      <3>2. ASSUME pc[q] = "wait", \A r \in Procs : parent[r] = q => pc'[r] # "installed"
            PROVE  \A r \in Procs : parent[r] = q => pc[r] # "installed"
        BY <1>a, <3>2, ProcessesAssumption DEF TypeOK
      <3>3. QED
        BY <1>a, <3>1, <3>2 DEF Keeps, Has
    <2>4. QED
      BY <2>2, <2>3
  <1>b. ASSUME NEW p \in Procs, NEW label, Goto(p, label), label # "wait",
               UNCHANGED <<file, chosen, mode, parent>>,
               \A q \in Procs \ {p} : mem'[q] = mem[q],
               pc[p] # "installed" \/ parent[p] = NoProc,
               mode[p] \in Savers /\ label \notin {"load", "reload"} => Has(mem'[p])
        PROVE  Kept'
    <2>1. pc'[p] = label /\ \A q \in Procs \ {p} : pc'[q] = pc[q]
      BY <1>b DEF Goto, TypeOK
    <2>2. QED
      BY <1>a, <1>b, <2>1
  \* The end of a process, at which a parent that does not look again has all.
  <1>c. ASSUME NEW p \in Procs, NEW after \in {"reload", "refused"}, Ends(p, after),
               UNCHANGED <<file, chosen>>,
               after = "refused" => pc[p] # "installed" \/ parent[p] = NoProc
        PROVE  Kept'
    <2>1. SUFFICES ASSUME NEW q \in Procs
                   PROVE  Keeps(q)'
      BY <1>c DEF Kept, Has
    <2>2. CASE q = p
      BY <1>c, <2>2 DEF Ends, Keeps, Savers, TypeOK
    <2>3. CASE q # p /\ q = parent[p]
      <3>1. pc[q] = "wait" /\ \A r \in Procs : parent[r] = q => r = p
        BY <2>3, ProcessesAssumption DEF TypeOK
      <3>2. pc'[q] = after /\ mem'[q] = mem[q] /\ mode'[q] = mode[q]
        BY <1>c, <2>3 DEF Ends, TypeOK
      <3>3. after = "refused" => Has(mem[q])
        BY <1>c, <2>3, <3>1, ProcessesAssumption DEF Kept, Keeps
      <3>4. QED
        BY <1>c, <3>2, <3>3 DEF Keeps, Has
    <2>4. CASE q # p /\ q # parent[p]
      <3>1. pc'[q] = pc[q] /\ mem'[q] = mem[q] /\ mode'[q] = mode[q] /\ Keeps(q)
        BY <1>c, <2>4 DEF Ends, Kept, TypeOK
      <3>2. \A r \in Procs : parent[r] = q => r # p /\ parent'[r] = q
        BY <1>c, <2>4 DEF Ends
      <3>3. ASSUME pc[q] = "wait", \A r \in Procs : parent'[r] = q => pc'[r] # "installed"
            PROVE  \A r \in Procs : parent[r] = q => pc[r] # "installed"
        <4>1. SUFFICES ASSUME NEW r \in Procs, parent[r] = q
                       PROVE  pc[r] # "installed"
          OBVIOUS
        <4>2. r # p /\ parent'[r] = q /\ pc'[r] # "installed"
          BY <3>2, <3>3, <4>1
        <4>3. r = parent[p] => pc[r] = "wait"
          BY <4>1, ProcessesAssumption DEF TypeOK
        <4>4. r # parent[p] => pc'[r] = pc[r]
          BY <1>c, <4>2 DEF Ends
        <4>5. QED
          BY <4>2, <4>3, <4>4
      <3>4. QED
        BY <1>c, <3>1, <3>3 DEF Keeps, Has
    <2>5. QED
      BY <2>2, <2>3, <2>4
  <1>d. ASSUME NEW p \in Procs, NEW after \in {"reload", "refused"}, Returns(p, after),
               pc[p] \in {"menu", "apply", "installed", "refused"},
               after = "refused" => pc[p] # "installed"
        PROVE  Kept'
    <2>1. CASE mode[p] = "tray"
      <3>1. parent[p] = NoProc /\ Has(mem[p])
        BY <1>d, <2>1 DEF RolesInv, RoleOf, Kept, Keeps, Savers
      <3>2. QED
        BY <1>b, <1>d, <2>1, <3>1 DEF Returns
    <2>2. CASE mode[p] # "tray"
      BY <1>c, <1>d, <2>2 DEF Returns, Exits
    <2>3. QED
      BY <2>1, <2>2
  <1>e. ASSUME NEW p \in Procs, pc[p] \in Writers, SaveFails(p), UNCHANGED file
        PROVE  Kept'
    <2>1. CASE next[p] = "ready"
      BY <1>c, <1>e, <2>1 DEF SaveFails, Writers
    <2>2. CASE next[p] # "ready"
      <3>1. next[p] \in {"menu", "installed"} /\ Has(mem[p])
        BY <1>e, <2>2 DEF RolesInv, RoleOf, Kept, Keeps, Writers, TypeOK
      <3>2. /\ Goto(p, next[p]) /\ UNCHANGED <<chosen, mode, parent, mem>>
        BY <1>e, <2>2 DEF SaveFails
      <3>3. QED
        BY <1>b, <1>e, <3>1, <3>2 DEF Writers
    <2>3. QED
      BY <2>1, <2>2
  \* In the first run p is the only one, and what it saves has all.
  <1>f. ASSUME NEW p \in Procs, pc[p] \in Writers PROVE Has(mem[p])
    BY <1>f DEF RolesInv, RoleOf, Alone, Kept, Keeps, Has, Writers
  <1>1. ASSUME NEW p \in Procs, NEW m \in Modes, NEW f \in Flags, Start(p, m, f) PROVE Kept'
    <2>1. /\ pc[p] = "off" /\ pc'[p] = "load" /\ UNCHANGED <<file, chosen, mem, parent>>
          /\ \A q \in Procs \ {p} : pc'[q] = pc[q] /\ mode'[q] = mode[q]
      BY <1>1 DEF Start, Goto, TypeOK
    <2>2. QED
      BY <2>1 DEF Kept, Keeps, Has
  <1>2. ASSUME NEW p \in Procs, Load(p) PROVE Kept'
    <2>1. CASE Exits(p, "refused")
      BY <1>2, <1>c, <2>1 DEF Load, Exits
    <2>2. CASE /\ Goto(p, "stat") /\ UNCHANGED <<disk, process, chosen>>
               /\ mem' = [mem EXCEPT ![p] = IF file = Absent THEN DefaultFile ELSE file]
      <3>1. mem'[p] = (IF file = Absent THEN DefaultFile ELSE file)
            /\ \A q \in Procs \ {p} : mem'[q] = mem[q]
        BY <2>2 DEF TypeOK
      <3>2. Has(mem'[p])
        BY <1>0, <3>1 DEF Kept, Has
      <3>3. QED
        BY <1>2, <1>b, <2>2, <3>1, <3>2 DEF Load
    <2>3. QED
      BY <1>2, <2>1, <2>2 DEF Load
  <1>3. ASSUME NEW p \in Procs, Stat(p) PROVE Kept'
    <2>1. pc[p] = "stat" /\ UNCHANGED <<disk, process, mem, chosen>>
      BY <1>3 DEF Stat
    <2>2. mode[p] \in Savers => Has(mem[p])
      BY <2>1 DEF Kept, Keeps
    <2>3. Goto(p, "open") \/ Goto(p, "ready")
      BY <1>3 DEF Stat
    <2>4. QED
      BY <1>b, <2>1, <2>2, <2>3
  <1>4. ASSUME NEW p \in Procs, Ready(p) PROVE Kept'
    <2>1. /\ pc[p] = "ready" /\ Goto(p, "menu") /\ UNCHANGED <<disk, process, chosen>>
          /\ \A q \in Procs \ {p} : mem'[q] = mem[q]
          /\ mode[p] \in Savers => mem'[p] = WithFlags(p)
      BY <1>4 DEF Ready, TypeOK
    <2>2. WithFlags(p).skip = mem[p].skip /\ WithFlags(p).binary = mem[p].binary
      BY DEF WithFlags, TypeOK, Docs
    <2>3. mode[p] \in Savers => Has(mem'[p])
      BY <2>1, <2>2 DEF Kept, Keeps, Has
    <2>4. QED
      BY <1>b, <2>1, <2>3
  <1>5. ASSUME NEW p \in Procs, OpenTmp(p) PROVE Kept'
    <2>1. pc[p] = "open" /\ UNCHANGED file
      BY <1>5 DEF OpenTmp
    <2>2. CASE Goto(p, "write") /\ UNCHANGED <<process, mem, chosen>>
      BY <1>b, <1>f, <2>1, <2>2 DEF Writers
    <2>3. CASE SaveFails(p)
      BY <1>e, <2>1, <2>3 DEF Writers
    <2>4. QED
      BY <1>5, <2>2, <2>3 DEF OpenTmp
  <1>6. ASSUME NEW p \in Procs, WriteTmp(p) PROVE Kept'
    <2>1. pc[p] = "write" /\ UNCHANGED file
      BY <1>6 DEF WriteTmp, Whole
    <2>2. CASE Goto(p, "rename") /\ UNCHANGED <<process, mem, chosen>>
      BY <1>b, <1>f, <2>1, <2>2 DEF Writers
    <2>3. CASE SaveFails(p)
      BY <1>e, <2>1, <2>3 DEF Writers
    <2>4. QED
      BY <1>6, <2>2, <2>3 DEF WriteTmp
  <1>7. ASSUME NEW p \in Procs, Rename(p) PROVE Kept'
    <2>1. /\ pc[p] = "rename" /\ tmp = mem[p] /\ mem[p] \in Docs /\ chosen \in Docs
          /\ next[p] \in {"ready", "menu", "installed"}
      BY <1>7 DEF Rename, Whole, TypeOK
    <2>2. tmp # Absent /\ mem[p] # Absent
      BY <2>1, FilesAssumption
    <2>3. CASE Moved(p)
      <3>1. /\ chosen' = [chosen EXCEPT !.skip = @ \/ mem[p].skip, !.binary = @ \/ mem[p].binary]
            /\ file' = mem[p] /\ UNCHANGED <<mem, mode, parent>>
            /\ pc'[p] = next[p] /\ \A q \in Procs \ {p} : pc'[q] = pc[q]
        BY <2>1, <2>3 DEF Moved, Saved, Goto, TypeOK
      <3>2. chosen'.skip = (chosen.skip \/ mem[p].skip)
            /\ chosen'.binary = (chosen.binary \/ mem[p].binary)
        BY <2>1, <3>1 DEF Docs
      <3>3. /\ chosen'.skip => mem[p].skip
            /\ chosen'.binary => mem[p].binary
        BY <1>f, <2>1, <3>2 DEF Has, Writers
      <3>4. ASSUME NEW q \in Procs \ {p}, mode[q] \in Savers
            PROVE  pc[q] = "wait" /\ parent[p] = q /\ next[p] = "installed"
        <4>1. next[p] # "ready"
          <5>1. SUFFICES ASSUME next[p] = "ready" PROVE FALSE
            OBVIOUS
          <5>2. file = Absent /\ pc[q] # "off"
            BY <3>4, <5>1 DEF Alone, RolesInv, RoleOf, Savers
          <5>3. QED
            BY <2>1, <5>2 DEF Alone
        <4>2. mode[p] \in Savers
          BY <2>1, <4>1 DEF RolesInv, RoleOf, Writers
        <4>3. parent[q] # p
          BY <2>1, ProcessesAssumption DEF TypeOK
        <4>4. parent[p] = q
          BY <3>4, <4>2, <4>3 DEF Alone
        <4>5. pc[q] = "wait" /\ mode[p] # "tray"
          BY <4>4, ProcessesAssumption DEF TypeOK, RolesInv, RoleOf
        <4>6. QED
          BY <2>1, <4>1, <4>4, <4>5 DEF RolesInv, RoleOf
      <3>5. ASSUME NEW q \in Procs PROVE Keeps(q)'
        <4>1. CASE q = p
          BY <2>1, <3>1, <3>3, <4>1 DEF Keeps, Has
        <4>2. CASE q # p /\ mode[q] \in Savers
          BY <3>1, <3>4, <4>2 DEF Keeps
        <4>3. CASE q # p /\ mode[q] \notin Savers
          BY <3>1, <4>3 DEF Keeps, RolesInv, RoleOf
        <4>4. QED
          BY <4>1, <4>2, <4>3
      <3>6. QED
        BY <2>2, <3>1, <3>3, <3>5 DEF Kept, Has
    <2>4. CASE SaveFails(p) /\ UNCHANGED file
      BY <1>e, <2>1, <2>4 DEF Writers
    <2>5. QED
      BY <1>7, <2>2, <2>3, <2>4 DEF Rename
  <1>8. ASSUME NEW p \in Procs, Skip(p) PROVE Kept'
    <2>1. /\ pc[p] = "menu" /\ mode[p] = "tray" /\ Goto(p, "open")
          /\ UNCHANGED <<disk, process, chosen>>
          /\ mem' = [mem EXCEPT ![p] = [mem[p] EXCEPT !.skip = TRUE]]
      BY <1>8 DEF Skip
    <2>2. Has(mem[p]) /\ mem[p] \in Docs
      BY <2>1 DEF Kept, Keeps, Savers, TypeOK
    <2>3. [mem[p] EXCEPT !.skip = TRUE].skip /\ [mem[p] EXCEPT !.skip = TRUE].binary = mem[p].binary
      BY <2>2 DEF Docs
    <2>4. Has(mem'[p]) /\ \A q \in Procs \ {p} : mem'[q] = mem[q]
      BY <2>1, <2>2, <2>3 DEF Has, TypeOK
    <2>5. QED
      BY <1>b, <2>1, <2>4
  <1>9. ASSUME NEW p \in Procs, Install(p) PROVE Kept'
    <2>1. pc[p] = "menu" /\ mode[p] \in Savers /\ Has(mem[p])
      BY <1>9 DEF Install, Kept, Keeps
    <2>2. CASE Returns(p, "refused")
      BY <2>1, <2>2, <1>d
    <2>3. ASSUME NEW q \in Procs, mode[p] # "child", Relaunch(p, q) PROVE Kept'
      <3>1. /\ p # q /\ pc[q] = "off" /\ UNCHANGED <<file, chosen, mem>>
            /\ mode' = [mode EXCEPT ![q] = "child"]
            /\ pc'[p] = "wait" /\ pc'[q] = "load"
            /\ \A r \in Procs \ {p, q} : pc'[r] = pc[r]
            /\ \A r \in Procs \ {q} : parent'[r] = parent[r]
        BY <2>1, <2>3 DEF Relaunch, TypeOK
      <3>2. ASSUME NEW r \in Procs PROVE Keeps(r)'
        <4>1. CASE r = p
          BY <2>1, <3>1, <4>1 DEF Keeps, Has
        <4>2. CASE r = q
          BY <3>1, <4>2 DEF Keeps
        <4>3. CASE r \notin {p, q}
          <5>1. Keeps(r) /\ mode'[r] = mode[r] /\ pc'[r] = pc[r]
            BY <3>1, <4>3 DEF Kept, TypeOK
          <5>2. \A s \in Procs : parent[s] = r /\ pc[r] = "wait" =>
                    \/ parent'[s] = r /\ pc'[s] = pc[s]
                    \/ pc[s] # "installed"
            BY <2>1, <3>1, ProcessesAssumption DEF TypeOK
          <5>3. QED
            BY <3>1, <5>1, <5>2 DEF Keeps, Has
        <4>4. QED
          BY <4>1, <4>2, <4>3
      <3>3. QED
        BY <3>1, <3>2 DEF Kept, Has
    <2>4. CASE Goto(p, "apply") /\ UNCHANGED <<disk, process, mem, chosen>>
      BY <2>1, <2>4, <1>b
    <2>5. QED
      BY <1>9, <2>2, <2>3, <2>4 DEF Install
  <1>10. ASSUME NEW p \in Procs, Apply(p) PROVE Kept'
    <2>1. CASE /\ Goto(p, "open") /\ UNCHANGED <<disk, process, chosen>>
               /\ mem' = [mem EXCEPT ![p].binary = TRUE]
      <3>1. pc[p] = "apply" /\ mem' = [mem EXCEPT ![p] = [mem[p] EXCEPT !.binary = TRUE]]
        BY <1>10, <2>1 DEF Apply
      <3>2. Has(mem[p]) /\ mem[p] \in Docs
        BY <3>1 DEF RolesInv, RoleOf, Kept, Keeps, TypeOK
      <3>3. [mem[p] EXCEPT !.binary = TRUE].binary /\ [mem[p] EXCEPT !.binary = TRUE].skip = mem[p].skip
        BY <3>2 DEF Docs
      <3>4. Has(mem'[p]) /\ \A q \in Procs \ {p} : mem'[q] = mem[q]
        BY <3>1, <3>2, <3>3 DEF Has, TypeOK
      <3>5. Goto(p, "open") /\ UNCHANGED <<disk, process, chosen>>
        BY <2>1
      <3>6. QED
        BY <1>b, <3>1, <3>4, <3>5
    <2>2. CASE Returns(p, "refused")
      BY <1>10, <2>2, <1>d DEF Apply
    <2>3. QED
      BY <1>10, <2>1, <2>2 DEF Apply
  <1>11. ASSUME NEW p \in Procs, Installed(p) PROVE Kept'
    BY <1>11, <1>d DEF Installed
  <1>12. ASSUME NEW p \in Procs, Refused(p) PROVE Kept'
    BY <1>12, <1>d DEF Refused
  <1>13. ASSUME NEW p \in Procs, Reload(p) PROVE Kept'
    <2>1. /\ pc[p] = "reload" /\ Goto(p, "installed") /\ UNCHANGED <<disk, process, chosen>>
          /\ \A q \in Procs \ {p} : mem'[q] = mem[q]
      BY <1>13 DEF Reload, TypeOK
    <2>2. file \in Docs
      BY <1>0, <2>1 DEF RolesInv, RoleOf, TypeOK
    <2>3. mem'[p] = file
      BY <1>13, <2>2, FilesAssumption DEF Reload, TypeOK
    <2>4. QED
      BY <1>b, <2>1, <2>2, <2>3 DEF Kept
  <1>14. ASSUME NEW p \in Procs, Quit(p) PROVE Kept'
    BY <1>14, <1>c DEF Quit, Exits
  <1>15. ASSUME NEW p \in Procs, Crash(p) PROVE Kept'
    <2>1. /\ Ends(p, "refused") /\ UNCHANGED <<file, chosen>>
          /\ pc[p] # "installed" \/ parent[p] = NoProc
      BY <1>15 DEF Crash
    <2>2. QED
      BY <1>c, <2>1
  <1>16. CASE UNCHANGED vars
    BY <1>16 DEF vars, Kept, Keeps, Has
  <1>17. QED
    BY <1>1, <1>2, <1>3, <1>4, <1>5, <1>6, <1>7, <1>8, <1>9, <1>10, <1>11, <1>12, <1>13, <1>14, <1>15, <1>16 DEF Next, Step

\* What has been saved stays saved, over every install by an elevated child.
THEOREM SavedStays == Spec => []SavedIsKept
  <1>1. KeptInv => SavedIsKept
    BY DEF KeptInv, Kept, Has, SavedIsKept
  <1>2. TypeOK /\ RolesInv /\ AloneInv /\ WholeInv /\ KeptInv /\ [Next]_vars
          => (TypeOK /\ RolesInv /\ AloneInv /\ WholeInv /\ KeptInv)'
    BY TypeStep, RolesStep, AloneStep, WholeStep, KeptStep
  <1>3. Init => TypeOK /\ RolesInv /\ AloneInv /\ WholeInv /\ KeptInv
    BY TypeInit, RolesInit, AloneInit, WholeInit, KeptInit
  <1>4. QED
    BY <1>1, <1>2, <1>3, PTL DEF Spec

\* Every elevated child that runs was given the arguments of its parent and installs
\* as the parent would.
THEOREM ChildInstalls == Spec => []ChildInstallsAsAsked
  <1>1. ChildInstallsAsAsked
    BY InstallsAsParent DEF ChildInstallsAsAsked
  <1>2. QED
    BY <1>1, PTL
=============================================================================
