------------------------- MODULE ProxyInstall_proofs -------------------------
(***************************************************************************)
(* Proofs about ProxyInstall for every set of releases, every relation of  *)
(* which release accepts which configuration, and every set of faults.     *)
(***************************************************************************)
EXTENDS ProxyInstall, TLAPS

-----------------------------------------------------------------------------
(* Types *)

LEMMA GotoType ==
    ASSUME TypeOK, NEW p \in Jobs, NEW l \in PCs, Goto(p, l)
    PROVE  pc' \in [Jobs -> PCs]
  BY DEF TypeOK, Goto

LEMMA HappensType ==
    ASSUME TypeOK, NEW k \in Mishaps, Happens(k)
    PROVE  mishaps' \subseteq Mishaps \cap Faults
  BY DEF TypeOK, Happens

LEMMA StartServiceType ==
    ASSUME TypeOK, StartService
    PROVE  /\ svc' \in {"stopped", "stopping", "starting", "running"}
           /\ loaded' \in Versions \cup {Absent}
           /\ site' = site
  BY DEF TypeOK, StartService, service, Registered

LEMMA RestoreBackupType ==
    ASSUME TypeOK, NEW p \in Jobs, RestoreBackup(p)
    PROVE  /\ bin' \in Versions \cup {Absent}
           /\ mishaps' \subseteq Mishaps \cap Faults
           /\ UNCHANGED <<old, toml>>
  BY HappensType DEF TypeOK, RestoreBackup, Mishaps

LEMMA TypeInit == Init => TypeOK
  BY DEF Init, TypeOK, PCs, Registered, Mishaps

LEMMA TypeStep == TypeOK /\ [Next]_vars => TypeOK'
  <1> SUFFICES ASSUME TypeOK, [Next]_vars
               PROVE  TypeOK'
    OBVIOUS
  <1> USE DEF dir, service, local, proof
  <1>1. ASSUME NEW p \in Jobs, Install(p) PROVE TypeOK'
    BY <1>1, GotoType DEF Install, TypeOK, PCs
  <1>2. ASSUME NEW p \in Jobs, Prompt(p) PROVE TypeOK'
    BY <1>2, GotoType DEF Prompt, TypeOK, PCs
  <1>3. ASSUME NEW p \in Jobs, Download(p) PROVE TypeOK'
    <2>1. pc' \in [Jobs -> PCs]
      BY <1>3, GotoType DEF Download, PCs
    <2>2. QED
      BY <1>3, <2>1 DEF Download, TypeOK
  <1>4. ASSUME NEW p \in Jobs, PreCheck(p) PROVE TypeOK'
    BY <1>4, GotoType DEF PreCheck, TypeOK, PCs
  <1>5. ASSUME NEW p \in Jobs, Stop(p) PROVE TypeOK'
    <2>1. pc' \in [Jobs -> PCs]
      BY <1>5, GotoType DEF Stop, PCs
    <2>2. mishaps' \subseteq Mishaps \cap Faults
      BY <1>5, HappensType DEF Stop, TypeOK, Mishaps
    <2>3. svc' = svc \/ (svc = "running" /\ svc' \in {"stopped", "running", "stopping"})
      BY <1>5 DEF Stop
    <2>4. QED
      BY <1>5, <2>1, <2>2, <2>3 DEF Stop, TypeOK
  <1>6. ASSUME NEW p \in Jobs, BackUp(p) PROVE TypeOK'
    <2>1. pc' \in [Jobs -> PCs]
      BY <1>6, GotoType DEF BackUp, PCs
    <2>2. old' \in Versions \cup {Absent} /\ (old # Absent => old' # Absent)
      BY <1>6 DEF BackUp, TypeOK
    <2>3. backup' \in [Jobs -> BOOLEAN] /\ \A q \in Jobs : backup'[q] => old' # Absent
      BY <1>6, <2>2 DEF BackUp, SetBackup, TypeOK
    <2>4. QED
      BY <1>6, <2>1, <2>2, <2>3 DEF BackUp, SetBackup, TypeOK
  <1>7. ASSUME NEW p \in Jobs, WriteBinary(p) PROVE TypeOK'
    BY <1>7, GotoType DEF WriteBinary, TypeOK, PCs
  <1>8. ASSUME NEW p \in Jobs, CopyToml(p) PROVE TypeOK'
    <2>1. pc' \in [Jobs -> PCs]
      BY <1>8, GotoType DEF CopyToml, PCs
    <2>2. mishaps' \subseteq Mishaps \cap Faults
      BY <1>8, HappensType DEF CopyToml, TypeOK, Mishaps
    <2>3. QED
      BY <1>8, <2>1, <2>2 DEF CopyToml, TypeOK
  <1>9. ASSUME NEW p \in Jobs, PostCheck(p) PROVE TypeOK'
    <2>1. pc' \in [Jobs -> PCs]
      BY <1>9, GotoType DEF PostCheck, PCs
    <2>2. /\ bin' \in Versions \cup {Absent}
          /\ mishaps' \subseteq Mishaps \cap Faults
          /\ UNCHANGED <<old, toml>>
      BY <1>9, RestoreBackupType DEF PostCheck, TypeOK
    <2>3. QED
      BY <1>9, <2>1, <2>2 DEF PostCheck, TypeOK
  <1>10. ASSUME NEW p \in Jobs, Register(p) PROVE TypeOK'
    <2>1. pc' \in [Jobs -> PCs]
      BY <1>10, GotoType DEF Register, PCs
    <2>2. mishaps' \subseteq Mishaps \cap Faults
      BY <1>10, HappensType DEF Register, TypeOK, Mishaps
    <2>3. QED
      BY <1>10, <2>1, <2>2 DEF Register, TypeOK
  <1>11. ASSUME NEW p \in Jobs, Start(p) PROVE TypeOK'
    <2>1. pc' \in [Jobs -> PCs]
      BY <1>11, GotoType DEF Start, PCs
    <2>2. CASE StartService /\ UNCHANGED <<dir, mishaps>>
      BY <1>11, <2>1, <2>2, StartServiceType DEF Start, TypeOK
    <2>3. CASE StartServiceFails /\ RestoreBackup(p)
      BY <1>11, <2>1, <2>3, RestoreBackupType DEF Start, StartServiceFails, TypeOK
    <2>4. QED
      BY <1>11, <2>2, <2>3 DEF Start
  <1>12. ASSUME NEW p \in Jobs, Restart(p) PROVE TypeOK'
    <2>1. pc' \in [Jobs -> PCs]
      BY <1>12, GotoType DEF Restart, PCs
    <2>2. CASE StartService
      BY <1>12, <2>1, <2>2, StartServiceType DEF Restart, TypeOK
    <2>3. CASE StartServiceFails
      BY <1>12, <2>1, <2>3 DEF Restart, StartServiceFails, TypeOK
    <2>4. QED
      BY <1>12, <2>2, <2>3 DEF Restart
  <1>13. ASSUME NEW p \in Jobs, SetLoopback(p) PROVE TypeOK'
    BY <1>13, GotoType DEF SetLoopback, TypeOK, PCs
  <1>14. ASSUME NEW p \in Jobs, Done(p) PROVE TypeOK'
    <2>1. pc' \in [Jobs -> PCs]
      BY <1>14, GotoType DEF Done, PCs
    <2>2. QED
      BY <1>14, <2>1 DEF Done, TypeOK
  <1>15. ASSUME NEW p \in Jobs, Crash(p) PROVE TypeOK'
    <2>1. pc' \in [Jobs -> PCs]
      BY <1>15, GotoType DEF Crash, PCs
    <2>2. mishaps' \subseteq Mishaps \cap Faults
      BY <1>15, HappensType DEF Crash, Mishaps
    <2>3. QED
      BY <1>15, <2>1, <2>2 DEF Crash, TypeOK
  <1>16. CASE ServiceStops
    BY <1>16 DEF ServiceStops, TypeOK
  <1>17. CASE ServiceRuns
    BY <1>17 DEF ServiceRuns, TypeOK
  <1>18. CASE ServiceExits
    BY <1>18, HappensType DEF ServiceExits, Mishaps, TypeOK
  <1>19. CASE Edit
    <2>1. mishaps' \subseteq Mishaps \cap Faults
      BY <1>19, HappensType DEF Edit, Mishaps, TypeOK
    <2>2. QED
      BY <1>19, <2>1 DEF Edit, TypeOK
  <1>20. CASE UNCHANGED vars
    BY <1>20 DEF vars, TypeOK
  <1>21. QED
    BY <1>1, <1>2, <1>3, <1>4, <1>5, <1>6, <1>7, <1>8, <1>9, <1>10, <1>11, <1>12, <1>13, <1>14, <1>15, <1>16, <1>17, <1>18, <1>19, <1>20 DEF Next, Step

\* The type invariant, for any number of installs at once and any fault.
THEOREM TypeCorrect == Spec => []TypeOK
  BY TypeInit, TypeStep, PTL DEF Spec

-----------------------------------------------------------------------------
(* One install at a time.                                                  *)

\* Nothing in the code gives it: the tray serves one click after the other, and
\* -install runs next to the tray.
SingleJob == \A p, q \in Jobs : p = q

\* The steps between the first -check and the second.
Checked == {"stop", "backup", "write", "toml"}

\* A backup is of the binary that is replaced.  A binary that was written shows
\* that the service is down; from its start on, the service is on that binary.
ServedInv ==
    \A p \in Jobs :
      /\ pc[p] = "write" => IF bin = Absent THEN ~backup[p] ELSE backup[p] /\ old = bin
      /\ pc[p] \in Replaced => bin = ver[p] /\ ~Busy
      /\ LockedExe /\ Managed /\ site = "dest" /\ pc[p] \in {"dns", "done"} =>
           /\ loaded = ver[p]
           /\ svc \in {"starting", "running"} \/ "exit" \in mishaps

\* The binary accepts the toml, but for a new one that has not been through its
\* second check: then the .old copy does, or there is none and the first check
\* still holds.
AcceptInv ==
    ChecksReached =>
      /\ (\A p \in Jobs : pc[p] \notin {"toml", "postCheck"}) => Accepts(bin, toml)
      /\ \A p \in Jobs :
           /\ pc[p] \in Checked \cup {"preCheck"} => ver[p] # Absent
           /\ pc[p] \in {"stop", "backup", "write"} /\ bin = Absent => Accepts(ver[p], toml)
           /\ pc[p] \in Replaced =>
                IF backup[p] THEN toml # Absent /\ Accepts(old, toml) ELSE Accepts(bin, toml)
           /\ toml = Absent /\ pc[p] # "toml" => bin = Absent

\* The version last up is the binary that an install begins with, and then the
\* backup it makes; with no mishap the install gets back to there, or starts the
\* service on the new binary.
KeptInv ==
    site = "dest" =>
      /\ svc = "starting" => loaded = bin
      /\ ran # Absent =>
           /\ ran \in {bin, old} \/ unproven
           /\ \A p \in Jobs :
                /\ pc[p] = "write" /\ bin # Absent /\ ~unproven => ran = bin
                /\ pc[p] \in Replaced /\ backup[p] /\ ~unproven => ran = old
           /\ Managed /\ mishaps = {} =>
                /\ unproven => svc = "starting"
                /\ \A p \in Jobs :
                     IF pc[p] \in Replaced THEN backup[p] ELSE bin = ran \/ svc = "starting"

LEMMA ServedInit == Init => ServedInv
  BY DEF Init, ServedInv, Replaced

LEMMA AcceptInit == Init => AcceptInv
  BY DEF Init, AcceptInv, Accepts, Checked, Replaced

LEMMA KeptInit == Init => KeptInv
  BY DEF Init, KeptInv, Registered, Replaced

\* What a step of the only install does to where it is.
LEMMA GotoSingle ==
    ASSUME TypeOK, SingleJob, NEW p \in Jobs, NEW l, Goto(p, l)
    PROVE  pc'[p] = l /\ \A q \in Jobs : q = p
  BY DEF TypeOK, SingleJob, Goto

\* Mishaps are only added to.
LEMMA MishapsKept ==
    ASSUME [Next]_vars
    PROVE  mishaps \subseteq mishaps'
  BY DEF Next, Step, vars, Install, Prompt, Download, PreCheck, Stop, BackUp, WriteBinary,
     CopyToml, PostCheck, Register, Start, Restart, SetLoopback, Done, Crash, ServiceStops,
     ServiceRuns, ServiceExits, Edit, RestoreBackup, Happens

\* A binary that is taken back, or stays because there is none or by a mishap.
LEMMA RestoreBackupIs ==
    ASSUME NEW p \in Jobs, RestoreBackup(p), ~Busy
    PROVE  /\ UNCHANGED <<old, toml>>
           /\ \/ backup[p] /\ bin' = old /\ mishaps' = mishaps
              \/ ~backup[p] /\ bin' = bin /\ mishaps' = mishaps
              \/ bin' = bin /\ "restore" \in mishaps'
  BY DEF RestoreBackup, Happens

LEMMA ServedStep ==
    ASSUME SingleJob, TypeOK, ServedInv, [Next]_vars
    PROVE  ServedInv'
  <1> USE DEF dir, service, local, proof
  <1>0. mishaps \subseteq mishaps'
    BY MishapsKept
  <1>1. ASSUME NEW p \in Jobs, Install(p) PROVE ServedInv'
    BY <1>1, GotoSingle DEF Install, ServedInv, Replaced, Busy
  <1>2. ASSUME NEW p \in Jobs, Prompt(p) PROVE ServedInv'
    BY <1>2, GotoSingle DEF Prompt, ServedInv, Replaced, Busy
  <1>3. ASSUME NEW p \in Jobs, Download(p) PROVE ServedInv'
    BY <1>3, GotoSingle DEF Download, ServedInv, Replaced, Busy
  <1>4. ASSUME NEW p \in Jobs, PreCheck(p) PROVE ServedInv'
    BY <1>4, GotoSingle DEF PreCheck, ServedInv, Replaced, Busy
  <1>5. ASSUME NEW p \in Jobs, Stop(p) PROVE ServedInv'
    BY <1>5, GotoSingle DEF Stop, ServedInv, Replaced, Busy
  <1>6. ASSUME NEW p \in Jobs, BackUp(p) PROVE ServedInv'
    <2>1. /\ pc[p] = "backup" /\ pc'[p] \in {"write", "failed"} /\ \A q \in Jobs : q = p
          /\ bin' = bin
          /\ pc'[p] = "write" => (bin # Absent => old' = bin) /\ backup'[p] = (bin # Absent)
      BY <1>6, GotoSingle DEF BackUp, SetBackup, TypeOK
    <2>2. QED
      BY <2>1 DEF ServedInv, Replaced
  <1>7. ASSUME NEW p \in Jobs, WriteBinary(p) PROVE ServedInv'
    BY <1>7, GotoSingle DEF WriteBinary, Busy, TypeOK, ServedInv, Replaced
  <1>8. ASSUME NEW p \in Jobs, CopyToml(p) PROVE ServedInv'
    BY <1>8, GotoSingle DEF CopyToml, ServedInv, Replaced, Busy
  <1>9. ASSUME NEW p \in Jobs, PostCheck(p) PROVE ServedInv'
    BY <1>9, GotoSingle DEF PostCheck, ServedInv, Replaced, Busy
  <1>10. ASSUME NEW p \in Jobs, Register(p) PROVE ServedInv'
    <2>1. /\ pc[p] = "register" /\ pc'[p] \in {"start", "failed"} /\ \A q \in Jobs : q = p
          /\ UNCHANGED service \/ (svc = "none" /\ svc' = "stopped")
          /\ UNCHANGED <<bin, ver>>
      BY <1>10, GotoSingle DEF Register
    <2>2. QED
      BY <2>1 DEF ServedInv, Replaced, Busy
  <1>11. ASSUME NEW p \in Jobs, Start(p) PROVE ServedInv'
    <2>1. CASE StartService /\ Goto(p, "dns") /\ UNCHANGED <<dir, mishaps>>
      <3>1. /\ pc[p] = "start" /\ pc'[p] = "dns" /\ \A q \in Jobs : q = p
            /\ UNCHANGED <<bin, ver, site>>
        BY <1>11, <2>1, GotoSingle DEF Start, StartService
      <3>2. LockedExe /\ site = "dest" => svc' = "starting" /\ loaded' = ver[p]
        BY <2>1, <3>1 DEF ServedInv, Replaced, Busy, StartService, Registered, TypeOK
      <3>3. QED
        BY <3>1, <3>2 DEF ServedInv, Replaced
    <2>2. CASE Goto(p, IF backup[p] THEN "restart" ELSE "failed")
      <3>1. pc'[p] \in {"restart", "failed"} /\ \A q \in Jobs : q = p
        BY <2>2, GotoSingle
      <3>2. QED
        BY <3>1 DEF ServedInv, Replaced
    <2>3. QED
      BY <1>11, <2>1, <2>2 DEF Start
  <1>12. ASSUME NEW p \in Jobs, Restart(p) PROVE ServedInv'
    BY <1>12, GotoSingle DEF Restart, ServedInv, Replaced
  <1>13. ASSUME NEW p \in Jobs, SetLoopback(p) PROVE ServedInv'
    BY <1>13, GotoSingle DEF SetLoopback, ServedInv, Replaced
  <1>14. ASSUME NEW p \in Jobs, Done(p) PROVE ServedInv'
    BY <1>14, GotoSingle DEF Done, ServedInv, Replaced
  <1>15. ASSUME NEW p \in Jobs, Crash(p) PROVE ServedInv'
    BY <1>15, GotoSingle DEF Crash, ServedInv, Replaced
  <1>16. CASE ServiceStops
    BY <1>16 DEF ServiceStops, ServedInv, Replaced, Busy
  <1>17. CASE ServiceRuns
    BY <1>17 DEF ServiceRuns, ServedInv, Replaced, Busy
  <1>18. CASE ServiceExits
    BY <1>18 DEF ServiceExits, Happens, ServedInv, Replaced, Busy
  <1>19. CASE Edit
    BY <1>0, <1>19 DEF Edit, ServedInv, Replaced, Busy
  <1>20. CASE UNCHANGED vars
    BY <1>20 DEF vars, ServedInv, Replaced, Busy
  <1>21. QED
    BY <1>1, <1>2, <1>3, <1>4, <1>5, <1>6, <1>7, <1>8, <1>9, <1>10, <1>11, <1>12, <1>13, <1>14, <1>15, <1>16, <1>17, <1>18, <1>19, <1>20 DEF Next, Step

LEMMA AcceptStep == SingleJob /\ TypeOK /\ ServedInv /\ AcceptInv /\ [Next]_vars => AcceptInv'
  <1> SUFFICES ASSUME SingleJob, TypeOK, ServedInv, AcceptInv, [Next]_vars, ChecksReached'
               PROVE  AcceptInv'
    BY DEF AcceptInv
  <1> USE DEF dir, service, local, proof
  <1>0. ChecksReached
    BY MishapsKept DEF ChecksReached
  <1>1. ASSUME NEW p \in Jobs, Install(p) PROVE AcceptInv'
    BY <1>0, <1>1, GotoSingle DEF Install, AcceptInv, Checked, Replaced
  <1>2. ASSUME NEW p \in Jobs, Prompt(p) PROVE AcceptInv'
    BY <1>0, <1>2, GotoSingle DEF Prompt, AcceptInv, Checked, Replaced
  <1>3. ASSUME NEW p \in Jobs, Download(p) PROVE AcceptInv'
    <2>1. /\ pc[p] = "download" /\ pc'[p] \in {"preCheck", "failed"} /\ \A q \in Jobs : q = p
          /\ pc'[p] = "preCheck" => ver'[p] # Absent
      BY <1>3, GotoSingle, VersionsAssumption DEF Download, TypeOK
    <2>2. QED
      BY <1>0, <1>3, <2>1 DEF Download, AcceptInv, Checked, Replaced
  <1>4. ASSUME NEW p \in Jobs, PreCheck(p) PROVE AcceptInv'
    BY <1>0, <1>4, GotoSingle DEF PreCheck, AcceptInv, Checked, Checks, Replaced
  <1>5. ASSUME NEW p \in Jobs, Stop(p) PROVE AcceptInv'
    BY <1>0, <1>5, GotoSingle DEF Stop, AcceptInv, Checked, Replaced
  <1>6. ASSUME NEW p \in Jobs, BackUp(p) PROVE AcceptInv'
    BY <1>0, <1>6, GotoSingle DEF BackUp, SetBackup, AcceptInv, Checked, Replaced
  <1>7. ASSUME NEW p \in Jobs, WriteBinary(p) PROVE AcceptInv'
    <2>1. /\ pc[p] = "write" /\ \A q \in Jobs : q = p
          /\ UNCHANGED <<old, toml, ver, backup>>
          /\ \/ pc'[p] = "toml" /\ bin' = ver[p]
             \/ pc'[p] = "failed" /\ bin' = bin
      BY <1>7, GotoSingle DEF WriteBinary
    <2>2. IF bin = Absent THEN ~backup[p] /\ Accepts(ver[p], toml)
                          ELSE backup[p] /\ old = bin /\ toml # Absent /\ Accepts(bin, toml)
      BY <1>0, <2>1 DEF ServedInv, AcceptInv
    <2>3. QED
      BY <1>0, <2>1, <2>2 DEF AcceptInv, Checked, Replaced
  <1>8. ASSUME NEW p \in Jobs, CopyToml(p) PROVE AcceptInv'
    <2>1. /\ pc[p] = "toml" /\ pc'[p] = "postCheck" /\ \A q \in Jobs : q = p
          /\ toml' = IF toml = Absent THEN ver[p] ELSE toml
          /\ UNCHANGED <<bin, old, ver, backup>>
      BY <1>8, GotoSingle DEF CopyToml, Happens, ChecksReached
    <2>2. CASE toml # Absent
      BY <1>0, <2>1, <2>2 DEF AcceptInv, Checked, Replaced
    <2>3. CASE toml = Absent
      <3>1. bin = ver[p] /\ ver[p] # Absent /\ ~backup[p]
        BY <1>0, <2>1, <2>3 DEF ServedInv, AcceptInv, Checked, Replaced
      <3>2. Accepts(bin', toml') /\ toml' # Absent
        BY <2>1, <2>3, <3>1, CompatibleAssumption DEF TypeOK, Accepts
      <3>3. QED
        BY <2>1, <3>1, <3>2 DEF AcceptInv, Checked, Replaced
    <2>4. QED
      BY <2>2, <2>3
  <1>9. ASSUME NEW p \in Jobs, PostCheck(p) PROVE AcceptInv'
    <2>1. pc[p] = "postCheck" /\ ~Busy /\ UNCHANGED <<toml, old, ver, backup>>
      BY <1>9 DEF PostCheck, RestoreBackup, ServedInv, Replaced
    <2>2. /\ pc'[p] \in {"register", "dns", "failed"} /\ \A q \in Jobs : q = p
          /\ \/ bin' = bin /\ Accepts(bin, toml)
             \/ pc'[p] = "failed" /\ RestoreBackup(p)
      BY <1>9, GotoSingle DEF PostCheck, Checks
    <2>3. Accepts(bin', toml) /\ (toml = Absent => bin' = Absent)
      <3>1. IF backup[p] THEN toml # Absent /\ Accepts(old, toml) ELSE Accepts(bin, toml)
        BY <1>0, <2>1 DEF AcceptInv, Replaced
      <3>2. toml = Absent => bin = Absent
        BY <1>0, <2>1 DEF AcceptInv
      <3>3. CASE RestoreBackup(p)
        BY <2>1, <3>1, <3>2, <3>3, RestoreBackupIs DEF ChecksReached
      <3>4. QED
        BY <2>2, <3>2, <3>3
    <2>4. QED
      BY <1>0, <2>1, <2>2, <2>3 DEF AcceptInv, Checked, Replaced
  <1>10. ASSUME NEW p \in Jobs, Register(p) PROVE AcceptInv'
    BY <1>0, <1>10, GotoSingle DEF Register, AcceptInv, Checked, Replaced
  <1>11. ASSUME NEW p \in Jobs, Start(p) PROVE AcceptInv'
    <2>1. /\ pc[p] = "start" /\ pc'[p] \in {"dns", "restart", "failed"} /\ \A q \in Jobs : q = p
          /\ UNCHANGED <<old, toml, ver, backup>>
          /\ bin' = bin \/ (backup[p] /\ bin' = old)
      BY <1>11, GotoSingle DEF Start, RestoreBackup
    <2>2. QED
      BY <1>0, <2>1 DEF AcceptInv, Checked, Replaced
  <1>12. ASSUME NEW p \in Jobs, Restart(p) PROVE AcceptInv'
    BY <1>0, <1>12, GotoSingle DEF Restart, AcceptInv, Checked, Replaced
  <1>13. ASSUME NEW p \in Jobs, SetLoopback(p) PROVE AcceptInv'
    BY <1>0, <1>13, GotoSingle DEF SetLoopback, AcceptInv, Checked, Replaced
  <1>14. ASSUME NEW p \in Jobs, Done(p) PROVE AcceptInv'
    BY <1>0, <1>14, GotoSingle DEF Done, AcceptInv, Checked, Replaced
  <1>15. ASSUME NEW p \in Jobs, Crash(p) PROVE AcceptInv'
    BY <1>15 DEF Crash, Happens, ChecksReached
  <1>16. CASE ServiceStops
    BY <1>0, <1>16 DEF ServiceStops, AcceptInv, Checked, Replaced
  <1>17. CASE ServiceRuns
    BY <1>0, <1>17 DEF ServiceRuns, AcceptInv, Checked, Replaced
  <1>18. CASE ServiceExits
    BY <1>0, <1>18 DEF ServiceExits, AcceptInv, Checked, Replaced
  <1>19. CASE Edit
    <2>1. bin # Absent /\ toml' # Absent /\ Accepts(bin, toml') /\ \A p \in Jobs : pc[p] \notin Replaced
      BY <1>19, VersionsAssumption DEF Edit, Happens, ChecksReached
    <2>2. QED
      BY <1>0, <1>19, <2>1 DEF Edit, AcceptInv, Checked
  <1>20. CASE UNCHANGED vars
    BY <1>0, <1>20 DEF vars, AcceptInv, Checked, Replaced
  <1>21. QED
    BY <1>1, <1>2, <1>3, <1>4, <1>5, <1>6, <1>7, <1>8, <1>9, <1>10, <1>11, <1>12, <1>13, <1>14, <1>15, <1>16, <1>17, <1>18, <1>19, <1>20 DEF Next, Step

LEMMA KeptStep ==
    ASSUME SingleJob, LockedExe, TypeOK, ServedInv, KeptInv, [Next]_vars
    PROVE  KeptInv'
  <1> USE DEF dir, service, local, proof
  <1>0. mishaps \subseteq mishaps'
    BY MishapsKept
  \* A step that leaves the executables and the service alone, and does not begin
  \* or end the steps between the write of the binary and the start.
  <1>a. ASSUME NEW p \in Jobs, \A q \in Jobs : q = p,
               UNCHANGED <<bin, old, site, loaded, backup, proof>>,
               svc' = svc \/ (svc # "starting" /\ svc' # "starting"),
               pc'[p] # "write", pc[p] \in Replaced <=> pc'[p] \in Replaced
        PROVE  KeptInv'
    BY <1>0, <1>a DEF KeptInv, Replaced
  <1>1. ASSUME NEW p \in Jobs, Install(p) PROVE KeptInv'
    BY <1>1, <1>a, GotoSingle DEF Install, Replaced
  <1>2. ASSUME NEW p \in Jobs, Prompt(p) PROVE KeptInv'
    BY <1>2, <1>a, GotoSingle DEF Prompt, Replaced
  <1>3. ASSUME NEW p \in Jobs, Download(p) PROVE KeptInv'
    BY <1>3, <1>a, GotoSingle DEF Download, Replaced
  <1>4. ASSUME NEW p \in Jobs, PreCheck(p) PROVE KeptInv'
    BY <1>4, <1>a, GotoSingle DEF PreCheck, Replaced
  <1>5. ASSUME NEW p \in Jobs, Stop(p) PROVE KeptInv'
    BY <1>5, <1>a, GotoSingle DEF Stop, Replaced
  <1>6. ASSUME NEW p \in Jobs, BackUp(p) PROVE KeptInv'
    <2>1. /\ pc[p] = "backup" /\ \A q \in Jobs : q = p
          /\ UNCHANGED <<bin, service, ran, mishaps>>
          /\ \/ pc'[p] = "failed" /\ UNCHANGED <<old, unproven>>
             \/ /\ pc'[p] = "write"
                /\ IF bin = Absent THEN UNCHANGED <<old, unproven>>
                                   ELSE old' = bin /\ unproven' = (bin # ran)
      BY <1>6, GotoSingle DEF BackUp
    <2>2. QED
      BY <2>1 DEF KeptInv, Replaced
  <1>7. ASSUME NEW p \in Jobs, WriteBinary(p) PROVE KeptInv'
    <2>1. /\ pc[p] = "write" /\ \A q \in Jobs : q = p
          /\ UNCHANGED <<old, service, backup, proof, mishaps>>
          /\ \/ pc'[p] = "failed" /\ bin' = bin
             \/ pc'[p] = "toml" /\ bin' = ver[p] /\ ~Busy
      BY <1>7, GotoSingle DEF WriteBinary
    <2>2. IF bin = Absent THEN ~backup[p] ELSE backup[p] /\ old = bin
      BY <2>1 DEF ServedInv
    <2>3. QED
      BY <2>1, <2>2 DEF KeptInv, Replaced, Busy
  <1>8. ASSUME NEW p \in Jobs, CopyToml(p) PROVE KeptInv'
    <2>1. /\ pc[p] = "toml" /\ \A q \in Jobs : q = p
          /\ UNCHANGED <<bin, old, service, backup, proof>>
          /\ pc'[p] = "postCheck" \/ (pc'[p] = "failed" /\ mishaps' # {})
      BY <1>8, GotoSingle DEF CopyToml, Happens
    <2>2. QED
      BY <1>0, <2>1 DEF KeptInv, Replaced
  \* Taking back the backup leaves the version last up in place.
  <1>b. ASSUME NEW p \in Jobs, pc[p] \in Replaced, RestoreBackup(p), \A q \in Jobs : q = p,
               UNCHANGED <<service, backup, proof>>, pc'[p] \in {"failed", "restart"}
        PROVE  KeptInv'
    <2>1. ~Busy
      BY <1>b DEF ServedInv
    <2>2. /\ old' = old
          /\ \/ backup[p] /\ bin' = old
             \/ ~backup[p] /\ bin' = bin
             \/ bin' = bin /\ mishaps' # {}
      BY <1>b, <2>1, RestoreBackupIs
    <2>3. QED
      BY <1>0, <1>b, <2>1, <2>2 DEF KeptInv, Replaced, Busy
  <1>9. ASSUME NEW p \in Jobs, PostCheck(p) PROVE KeptInv'
    <2>1. /\ pc[p] = "postCheck" /\ \A q \in Jobs : q = p
          /\ UNCHANGED <<service, backup, proof>>
          /\ \/ /\ pc'[p] = IF Managed THEN "register" ELSE "dns"
                /\ UNCHANGED <<bin, old>>
             \/ pc'[p] = "failed" /\ RestoreBackup(p)
      BY <1>9, GotoSingle DEF PostCheck
    <2>2. CASE pc'[p] = "failed" /\ RestoreBackup(p)
      BY <1>b, <2>1, <2>2 DEF Replaced
    <2>3. CASE pc'[p] = (IF Managed THEN "register" ELSE "dns") /\ UNCHANGED <<bin, old>>
      BY <1>0, <2>1, <2>3 DEF KeptInv, Replaced
    <2>4. QED
      BY <2>1, <2>2, <2>3
  <1>10. ASSUME NEW p \in Jobs, Register(p) PROVE KeptInv'
    <2>1. /\ pc[p] = "register" /\ \A q \in Jobs : q = p
          /\ UNCHANGED <<bin, old, loaded, backup, proof>>
          /\ pc'[p] \in {"start", "failed"}
          /\ \/ svc = "none" /\ svc' # "starting"
             \/ UNCHANGED service /\ (pc'[p] = "start" \/ mishaps' # {})
      BY <1>10, GotoSingle DEF Register, Happens
    <2>2. svc = "none" => ran = Absent
      BY DEF TypeOK
    <2>3. QED
      BY <1>0, <2>1, <2>2 DEF KeptInv, Replaced
  <1>11. ASSUME NEW p \in Jobs, Start(p) PROVE KeptInv'
    <2>1. /\ pc[p] = "start" /\ UNCHANGED <<backup, proof>>
      BY <1>11 DEF Start
    <2>2. CASE StartService /\ Goto(p, "dns") /\ UNCHANGED <<dir, mishaps>>
      <3>1. pc'[p] = "dns" /\ (\A q \in Jobs : q = p) /\ UNCHANGED <<bin, old, site, mishaps>>
        BY <2>2, GotoSingle DEF StartService
      <3>2. site = "dest" => svc' = "starting" /\ loaded' = bin
        BY <2>1, <2>2 DEF StartService, Registered, ServedInv, Replaced, Busy, TypeOK
      <3>3. QED
        BY <2>1, <3>1, <3>2 DEF KeptInv, Replaced
    <2>3. CASE /\ StartServiceFails /\ RestoreBackup(p)
               /\ Goto(p, IF backup[p] THEN "restart" ELSE "failed")
      BY <1>b, <2>1, <2>3, GotoSingle DEF StartServiceFails, Replaced
    <2>4. QED
      BY <1>11, <2>2, <2>3 DEF Start
  <1>12. ASSUME NEW p \in Jobs, Restart(p) PROVE KeptInv'
    <2>1. /\ pc[p] = "restart" /\ pc'[p] = "failed" /\ \A q \in Jobs : q = p
          /\ UNCHANGED <<bin, old, site, backup, proof, mishaps>>
          /\ \/ UNCHANGED <<svc, loaded>>
             \/ svc' = "starting" /\ loaded' = Registered
      BY <1>12, GotoSingle DEF Restart, StartService, StartServiceFails
    <2>2. QED
      BY <2>1 DEF KeptInv, Registered, Replaced
  <1>13. ASSUME NEW p \in Jobs, SetLoopback(p) PROVE KeptInv'
    BY <1>13, <1>a, GotoSingle DEF SetLoopback, Replaced
  <1>14. ASSUME NEW p \in Jobs, Done(p) PROVE KeptInv'
    BY <1>14, GotoSingle DEF Done, KeptInv, Replaced
  <1>15. ASSUME NEW p \in Jobs, Crash(p) PROVE KeptInv'
    BY <1>15, GotoSingle DEF Crash, Happens, KeptInv, Replaced
  <1>16. CASE ServiceStops
    BY <1>16 DEF ServiceStops, KeptInv, Replaced
  <1>17. CASE ServiceRuns
    <2>1. /\ svc = "starting" /\ svc' = "running" /\ ran' = loaded /\ unproven' = (bin # loaded)
          /\ UNCHANGED <<bin, old, site, pc, backup, mishaps>>
      BY <1>17 DEF ServiceRuns
    <2>2. site = "dest" => Busy /\ loaded = bin
      BY <2>1 DEF KeptInv, Busy
    <2>3. \A p \in Jobs :
            /\ site = "dest" => pc[p] \notin Replaced
            /\ pc[p] = "write" => IF bin = Absent THEN ~backup[p] ELSE backup[p] /\ old = bin
      BY <2>2 DEF ServedInv
    <2>4. QED
      BY <2>1, <2>2, <2>3 DEF KeptInv
  <1>18. CASE ServiceExits
    BY <1>18 DEF ServiceExits, Happens, KeptInv, Replaced
  <1>19. CASE Edit
    BY <1>0, <1>19 DEF Edit, KeptInv, Replaced
  <1>20. CASE UNCHANGED vars
    BY <1>20 DEF vars, KeptInv, Replaced
  <1>21. QED
    BY <1>1, <1>2, <1>3, <1>4, <1>5, <1>6, <1>7, <1>8, <1>9, <1>10, <1>11, <1>12, <1>13, <1>14, <1>15, <1>16, <1>17, <1>18, <1>19, <1>20 DEF Next, Step

-----------------------------------------------------------------------------
(* What the runs check, for one install at a time.                         *)

LEMMA AcceptInvariant ==
    ASSUME SingleJob
    PROVE  Spec => [](TypeOK /\ ServedInv /\ AcceptInv)
  BY TypeInit, TypeStep, ServedInit, ServedStep, AcceptInit, AcceptStep, PTL DEF Spec

\* Between installs the binary in the install dir accepts the toml in it,
\* whatever fails but what ChecksReached names.
THEOREM AcceptedBinaryIsLeft ==
    ASSUME SingleJob
    PROVE  Spec => []LeavesAcceptedBinary
  <1>1. AcceptInv => LeavesAcceptedBinary
    BY DEF AcceptInv, LeavesAcceptedBinary
  <1>2. QED
    BY <1>1, AcceptInvariant, PTL

\* Nor is the service started on a binary that refuses the toml.
THEOREM AcceptedStarts ==
    ASSUME SingleJob
    PROVE  Spec => StartsAccepted
  <1> DEFINE Accepted ==
        ChecksReached' /\ site' = "dest" /\ svc # "starting" /\ svc' = "starting"
          => Accepts(loaded', toml')
  <1>1. TypeOK /\ AcceptInv /\ [Next]_vars => [Accepted]_vars
    <2> SUFFICES ASSUME TypeOK, AcceptInv, [Next]_vars,
                        ChecksReached', site' = "dest", svc # "starting", svc' = "starting"
                 PROVE  Accepts(loaded', toml')
      OBVIOUS
    <2>1. ChecksReached
      BY MishapsKept DEF ChecksReached
    <2>2. PICK p \in Jobs : Start(p) \/ Restart(p)
      BY DEF Next, Step, vars, Install, Prompt, Download, PreCheck, Stop, BackUp, WriteBinary,
         CopyToml, PostCheck, Register, SetLoopback, Done, Crash, ServiceStops, ServiceRuns,
         ServiceExits, Edit, service
    <2>3. pc[p] \in {"start", "restart"} /\ loaded' = bin /\ toml' = toml
      BY <2>2 DEF Start, Restart, StartService, StartServiceFails, Registered, service, dir
    <2>4. Accepts(bin, toml)
      BY <2>1, <2>3 DEF AcceptInv, SingleJob
    <2>5. QED
      BY <2>3, <2>4
  <1>2. QED
    BY <1>1, AcceptInvariant, PTL DEF Spec, StartsAccepted

LEMMA ServedInvariant ==
    ASSUME SingleJob
    PROVE  Spec => [](TypeOK /\ ServedInv)
  BY TypeInit, TypeStep, ServedInit, ServedStep, PTL DEF Spec

\* A reported install has started what it installed, where the executable of a
\* running service is locked: the lock is what shows that the service had stopped.
THEOREM InstalledIsRun ==
    ASSUME SingleJob, LockedExe
    PROVE  Spec => []InstalledRuns
  <1>1. ServedInv => InstalledRuns
    BY DEF ServedInv, InstalledRuns
  <1>2. QED
    BY <1>1, ServedInvariant, PTL

\* The version last up can be gone back to until a binary that was never up is
\* copied over it, and without a mishap none is: whatever fails, is killed or
\* exits, in install after install.
THEOREM PreviousIsKept ==
    ASSUME SingleJob, LockedExe
    PROVE  Spec => []PreviousKept
  <1>1. TypeOK /\ ServedInv /\ KeptInv /\ [Next]_vars => (TypeOK /\ ServedInv /\ KeptInv)'
    BY TypeStep, ServedStep, KeptStep
  <1>2. Init => TypeOK /\ ServedInv /\ KeptInv
    BY TypeInit, ServedInit, KeptInit
  <1>3. KeptInv => PreviousKept
    BY DEF KeptInv, PreviousKept
  <1>4. QED
    BY <1>1, <1>2, <1>3, PTL DEF Spec
=============================================================================
