------------------------ MODULE SettingsCommit_proofs ------------------------
(***************************************************************************)
(* Proofs about SettingsCommit for every number of files, contents, jobs   *)
(* and set of accepted configurations.                                     *)
(***************************************************************************)
EXTENDS SettingsCommit, TLAPS

-----------------------------------------------------------------------------
(* Types: what the helpers of the steps do to the variables.               *)

TxTypeOK ==
    /\ todo \in [Jobs -> SUBSET Files]
    /\ bak \in [Jobs -> Contents \cup {Absent}]
    /\ kept \in [Jobs -> [Files -> Contents \cup {Absent, NotKept}]]
    /\ err \in [Jobs -> Errors]

LEMMA ConfigTypes ==
    /\ Nothing \in Configs
    /\ NoneKept \in [Files -> Contents \cup {Absent, NotKept}]
    /\ \A c \in Configs, f \in Files : c[f] \in Contents \cup {Absent}
    /\ \A c \in Configs, f \in Files, x \in Contents \cup {Absent} :
          [c EXCEPT ![f] = x] \in Configs
  BY DEF Nothing, NoneKept, Configs

LEMMA StopServiceType ==
    ASSUME TypeOK, NEW p \in Jobs, StopService(p)
    PROVE  svc' \in {"running", "stopping", "stopped"} /\ loaded' = loaded
  BY DEF TypeOK, StopService

LEMMA StartServiceType ==
    ASSUME TypeOK, NEW p \in Jobs, StartService(p)
    PROVE  svc' \in {"running", "stopping", "stopped"} /\ loaded' \in {loaded, live}
  BY DEF TypeOK, StartService, service

LEMMA ClearPendingType ==
    ASSUME TypeOK, ClearPending
    PROVE  pending' \in Configs
  BY DEF TypeOK, ClearPending, Configs

LEMMA SourceType ==
    ASSUME TypeOK, NEW p \in Jobs
    PROVE  Source(p) \in Configs
  BY DEF TypeOK, Source

LEMMA GotoType ==
    ASSUME TypeOK, NEW p \in Jobs, NEW l \in PCs, Goto(p, l)
    PROVE  pc' \in [Jobs -> PCs]
  BY DEF TypeOK, Goto

LEMMA RequestType ==
    ASSUME TypeOK, NEW p \in Jobs, NEW r \in {"none", "save", "pending"},
           NEW c \in Configs, Request(p, r, c)
    PROVE  /\ route' \in [Jobs -> {"none", "save", "pending"}]
           /\ stage' \in [Jobs -> Configs]
           /\ elev' \in [Jobs -> BOOLEAN]
           /\ gone' \in [Jobs -> BOOLEAN]
  BY DEF TypeOK, Request

LEMMA ResetTxType ==
    ASSUME TypeOK, NEW p \in Jobs, NEW e \in Errors, ResetTx(p, e)
    PROVE  TxTypeOK'
  BY ConfigTypes DEF TypeOK, ResetTx, TxTypeOK

LEMMA SetErrType ==
    ASSUME TypeOK, NEW p \in Jobs, NEW e \in Errors, SetErr(p, e)
    PROVE  TxTypeOK'
  BY DEF TypeOK, SetErr, TxTypeOK

LEMMA FailsType ==
    ASSUME TypeOK, NEW p \in Jobs, NEW e \in Errors, Fails(p, e)
    PROVE  pc' \in [Jobs -> PCs] /\ TxTypeOK'
  <1>1. AfterFailure(p, e) \in PCs
    BY DEF AfterFailure, PCs
  <1>2. QED
    BY <1>1, GotoType, ResetTxType DEF Fails

LEMMA WriteFailsType ==
    ASSUME TypeOK, NEW p \in Jobs, NEW e \in Errors, WriteFails(p, e)
    PROVE  pc' \in [Jobs -> PCs] /\ TxTypeOK' /\ UNCHANGED <<live, backups>>
  BY GotoType, SetErrType DEF WriteFails, PCs, InCommit

LEMMA RetryAfterStopType ==
    ASSUME TypeOK, NEW p \in Jobs, NEW r, RetryAfterStop(p, r)
    PROVE  svc' \in {"running", "stopping", "stopped"} /\ loaded' = loaded
  BY StopServiceType DEF TypeOK, RetryAfterStop, service

LEMMA TypeStep == TypeOK /\ [Next]_vars => TypeOK'
  <1> SUFFICES ASSUME TypeOK, [Next]_vars
               PROVE  TypeOK'
    OBVIOUS
  <1> USE DEF disk
  <1>1. ASSUME NEW p \in Jobs, Save(p) PROVE TypeOK'
    <2>1. pc' \in [Jobs -> PCs]
      BY <1>1, GotoType DEF Save, PCs, InCommit
    <2>2. PICK c \in Configs : Request(p, "save", c)
      BY <1>1 DEF Save, TypeOK, Configs
    <2>3. (/\ route \in [Jobs -> {"none", "save", "pending"}]
          /\ stage \in [Jobs -> Configs]
          /\ elev \in [Jobs -> BOOLEAN]
          /\ gone \in [Jobs -> BOOLEAN])'
      BY <2>2, RequestType
    <2>4. QED
      BY <1>1, <2>1, <2>2, <2>3 DEF TypeOK, TxTypeOK, Save, service, job, tx
  <1>2. ASSUME NEW p \in Jobs, CheckStaging(p) PROVE TypeOK'
    <2>1. pc' \in [Jobs -> PCs] /\ TxTypeOK'
      BY <1>2, GotoType, SetErrType DEF CheckStaging, TypeOK, TxTypeOK, tx, PCs, InCommit, Errors
    <2>2. QED
      BY <1>2, <2>1 DEF TypeOK, TxTypeOK, CheckStaging, service, job, tx
  <1>3. ASSUME NEW p \in Jobs, ApplyPending(p) PROVE TypeOK'
    <2>1. pc' \in [Jobs -> PCs]
      BY <1>3, GotoType DEF ApplyPending, PCs, InCommit
    <2>2. (/\ route \in [Jobs -> {"none", "save", "pending"}]
          /\ stage \in [Jobs -> Configs]
          /\ elev \in [Jobs -> BOOLEAN]
          /\ gone \in [Jobs -> BOOLEAN])'
      BY <1>3, RequestType, ConfigTypes DEF ApplyPending
    <2>3. QED
      BY <1>3, <2>1, <2>2 DEF TypeOK, TxTypeOK, ApplyPending, service, job, tx
  <1>4. ASSUME NEW p \in Jobs, Elevate(p) PROVE TypeOK'
    <2>1. pc' \in [Jobs -> PCs]
      BY <1>4, GotoType DEF Elevate, PCs, InCommit
    <2>2. TxTypeOK'
      BY <1>4, ResetTxType DEF Elevate, Errors
    <2>3. (/\ route \in [Jobs -> {"none", "save", "pending"}]
          /\ stage \in [Jobs -> Configs]
          /\ elev \in [Jobs -> BOOLEAN]
          /\ gone \in [Jobs -> BOOLEAN])'
      BY <1>4 DEF Elevate, TypeOK, job
    <2>4. QED
      BY <1>4, <2>1, <2>2, <2>3 DEF TypeOK, TxTypeOK, Elevate, service, job, tx
  <1>5. ASSUME NEW p \in Jobs, CommitCheck(p) PROVE TypeOK'
    <2>1. pc' \in [Jobs -> PCs] /\ TxTypeOK'
      BY <1>5, GotoType, FailsType DEF CommitCheck, TypeOK, TxTypeOK, tx, PCs, InCommit, Errors
    <2>2. QED
      BY <1>5, <2>1 DEF TypeOK, TxTypeOK, CommitCheck, service, job, tx
  <1>6. ASSUME NEW p \in Jobs, CommitStop(p) PROVE TypeOK'
    <2>1. svc' \in {"running", "stopping", "stopped"} /\ loaded' \in Configs
      BY <1>6, StopServiceType DEF CommitStop, TypeOK, service
    <2>2. pc' \in [Jobs -> PCs] /\ TxTypeOK'
      BY <1>6, GotoType, FailsType DEF CommitStop, TypeOK, TxTypeOK, PCs, InCommit, Errors
    <2>3. QED
      BY <1>6, <2>1, <2>2 DEF TypeOK, TxTypeOK, CommitStop, service, job, tx
  <1>7. ASSUME NEW p \in Jobs, CommitBackup(p) PROVE TypeOK'
    <2>1. PICK f \in Files, r \in Copied \cup {"priv", "other"} :
            /\ RetryAfterStop(p, r)
            /\ IF r \in Copied THEN BackedUp(p, f) ELSE WriteFails(p, r)
      BY <1>7 DEF CommitBackup
    <2>2. svc' \in {"running", "stopping", "stopped"} /\ loaded' = loaded
      BY <2>1, RetryAfterStopType
    <2>3. CASE r \in Copied
      <3>1. BackedUp(p, f)
        BY <2>1, <2>3
      <3>2. pc' \in [Jobs -> PCs]
        BY <3>1, GotoType DEF BackedUp, PCs, InCommit
      <3>3. TxTypeOK'
        BY <3>1, ConfigTypes DEF BackedUp, TypeOK, TxTypeOK
      <3>4. backups' \in [Files -> SUBSET Contents]
        BY <3>1, ConfigTypes DEF BackedUp, TypeOK
      <3>5. QED
        BY <1>7, <2>2, <3>1, <3>2, <3>3, <3>4 DEF CommitBackup, BackedUp, TypeOK, TxTypeOK, job
    <2>4. CASE r \in {"priv", "other"}
      <3>1. pc' \in [Jobs -> PCs] /\ TxTypeOK' /\ UNCHANGED <<live, backups>>
        BY <2>1, <2>4, WriteFailsType DEF Copied, Errors
      <3>2. QED
        BY <1>7, <2>2, <3>1 DEF CommitBackup, TypeOK, TxTypeOK, job
    <2>5. QED
      BY <2>3, <2>4
  <1>8. ASSUME NEW p \in Jobs, CommitWrite(p) PROVE TypeOK'
    <2>1. PICK f \in Files, r \in Copied \cup {"priv", "other"} :
            /\ IF Source(p)[f] = Absent
                 THEN r = "other" /\ UNCHANGED service
                 ELSE RetryAfterStop(p, r)
            /\ IF r \in Copied THEN Written(p, f) ELSE WriteFails(p, r)
      BY <1>8 DEF CommitWrite
    <2>2. svc' \in {"running", "stopping", "stopped"} /\ loaded' = loaded
      BY <2>1, RetryAfterStopType DEF TypeOK, service
    <2>3. CASE r \in Copied
      <3>1. Written(p, f) /\ Source(p)[f] # Absent
        BY <2>1, <2>3 DEF Copied
      <3>2. pc' \in [Jobs -> PCs]
        BY <3>1, GotoType DEF Written, PCs, InCommit
      <3>3. TxTypeOK'
        BY <3>1, ConfigTypes DEF Written, TypeOK, TxTypeOK
      <3>4. live' \in Configs
        BY <3>1, ConfigTypes, SourceType DEF Written, TypeOK
      <3>5. QED
        BY <1>8, <2>2, <3>1, <3>2, <3>3, <3>4 DEF CommitWrite, Written, TypeOK, TxTypeOK, job
    <2>4. CASE r \in {"priv", "other"}
      <3>1. pc' \in [Jobs -> PCs] /\ TxTypeOK' /\ UNCHANGED <<live, backups>>
        BY <2>1, <2>4, WriteFailsType DEF Copied, Errors
      <3>2. QED
        BY <1>8, <2>2, <3>1 DEF CommitWrite, TypeOK, TxTypeOK, job
    <2>5. QED
      BY <2>3, <2>4
  <1>9. ASSUME NEW p \in Jobs, PostCheck(p) PROVE TypeOK'
    <2>1. pc' \in [Jobs -> PCs] /\ TxTypeOK'
      BY <1>9, GotoType, SetErrType DEF PostCheck, TypeOK, TxTypeOK, tx, PCs, InCommit, Errors
    <2>2. QED
      BY <1>9, <2>1 DEF TypeOK, TxTypeOK, PostCheck, service, job, tx
  <1>10. ASSUME NEW p \in Jobs, CommitStart(p) PROVE TypeOK'
    <2>1. svc' \in {"running", "stopping", "stopped"} /\ loaded' \in Configs
      BY <1>10, StartServiceType DEF CommitStart, TypeOK, service, StartServiceFails
    <2>2. pc' \in [Jobs -> PCs] /\ TxTypeOK'
      BY <1>10, GotoType, SetErrType DEF CommitStart, TypeOK, TxTypeOK, tx, PCs, InCommit, Errors
    <2>3. QED
      BY <1>10, <2>1, <2>2 DEF TypeOK, TxTypeOK, CommitStart, service, job, tx
  <1>11. ASSUME NEW p \in Jobs, RollbackFile(p) PROVE TypeOK'
    <2>1. PICK f \in Files :
            /\ kept[p][f] \in Contents
            /\ live' = [live EXCEPT ![f] = kept[p][f]] \/ UNCHANGED live
            /\ kept' = [kept EXCEPT ![p] = [@ EXCEPT ![f] = NotKept]]
      BY <1>11 DEF RollbackFile, LastFile, Replaced
    <2>2. live' \in Configs
      BY <2>1, ConfigTypes DEF TypeOK
    <2>3. kept' \in [Jobs -> [Files -> Contents \cup {Absent, NotKept}]]
      BY <2>1 DEF TypeOK
    <2>4. QED
      BY <1>11, <2>2, <2>3 DEF RollbackFile, TypeOK, service, job
  <1>12. ASSUME NEW p \in Jobs, RollbackDone(p) PROVE TypeOK'
    <2>1. svc' \in {"running", "stopping", "stopped"} /\ loaded' \in Configs
      BY <1>12, StartServiceType DEF RollbackDone, TypeOK, service, StartServiceFails
    <2>2. pc' \in [Jobs -> PCs] /\ TxTypeOK'
      BY <1>12, FailsType DEF RollbackDone, TypeOK
    <2>3. QED
      BY <1>12, <2>1, <2>2 DEF TypeOK, TxTypeOK, RollbackDone, service, job, tx
  <1>13. ASSUME NEW p \in Jobs, CommitClears(p) PROVE TypeOK'
    <2>1. pc' \in [Jobs -> PCs]
      BY <1>13, GotoType DEF CommitClears, PCs, InCommit
    <2>2. TxTypeOK'
      BY <1>13, ResetTxType DEF CommitClears, Errors
    <2>3. pending' \in Configs
      BY <1>13, ClearPendingType DEF CommitClears
    <2>4. QED
      BY <1>13, <2>1, <2>2, <2>3 DEF TypeOK, TxTypeOK, CommitClears, service, job, tx
  <1>14. ASSUME NEW p \in Jobs, SavePendingClears(p) PROVE TypeOK'
    <2>1. pc' \in [Jobs -> PCs]
      BY <1>14, GotoType DEF SavePendingClears, PCs, InCommit
    <2>2. TxTypeOK'
      BY <1>14 DEF SavePendingClears, TypeOK, TxTypeOK, tx
    <2>3. pending' \in Configs
      BY <1>14, ClearPendingType DEF SavePendingClears
    <2>4. QED
      BY <1>14, <2>1, <2>2, <2>3 DEF TypeOK, TxTypeOK, SavePendingClears, service, job, tx
  <1>15. ASSUME NEW p \in Jobs, SavePendingCopies(p) PROVE TypeOK'
    <2>1. pc' \in [Jobs -> PCs]
      BY <1>15, GotoType DEF SavePendingCopies, PCs, InCommit
    <2>2. TxTypeOK'
      BY <1>15 DEF SavePendingCopies, TypeOK, TxTypeOK, tx
    <2>3. \A f \in Files : stage[p][f] \in Contents \cup {Absent}
      BY ConfigTypes DEF TypeOK
    <2>4. pending' \in Configs
      BY <1>15, <2>3 DEF SavePendingCopies, TypeOK, tx, Configs
    <2>5. QED
      BY <1>15, <2>1, <2>2, <2>3, <2>4 DEF TypeOK, TxTypeOK, SavePendingCopies, service, job, tx
  <1>16. ASSUME NEW p \in Jobs, Done(p) PROVE TypeOK'
    <2>1. pc' \in [Jobs -> PCs]
      BY <1>16, GotoType DEF Done, PCs, InCommit
    <2>2. TxTypeOK'
      BY <1>16, ResetTxType DEF Done, Errors
    <2>3. (/\ route \in [Jobs -> {"none", "save", "pending"}]
          /\ stage \in [Jobs -> Configs]
          /\ elev \in [Jobs -> BOOLEAN]
          /\ gone \in [Jobs -> BOOLEAN])'
      BY <1>16, RequestType, ConfigTypes DEF Done
    <2>4. QED
      BY <1>16, <2>1, <2>2, <2>3 DEF TypeOK, TxTypeOK, Done, service, job, tx
  <1>17. ASSUME NEW p \in Jobs, Disconnect(p) PROVE TypeOK'
    BY <1>17 DEF TypeOK, Disconnect, service, tx
  <1>18. ASSUME NEW p \in Jobs, ChildDies(p) PROVE TypeOK'
    <2>1. pc' \in [Jobs -> PCs] /\ TxTypeOK'
      BY <1>18, FailsType DEF ChildDies, Errors
    <2>2. QED
      BY <1>18, <2>1 DEF TypeOK, TxTypeOK, ChildDies, service, job, tx
  <1>19. ASSUME NEW p \in Jobs, Crash(p) PROVE TypeOK'
    <2>1. pc' \in [Jobs -> PCs]
      BY <1>19, GotoType DEF Crash, PCs, InCommit
    <2>2. TxTypeOK'
      BY <1>19, ResetTxType DEF Crash, Errors
    <2>3. (/\ route \in [Jobs -> {"none", "save", "pending"}]
          /\ stage \in [Jobs -> Configs]
          /\ elev \in [Jobs -> BOOLEAN]
          /\ gone \in [Jobs -> BOOLEAN])'
      BY <1>19, RequestType, ConfigTypes DEF Crash
    <2>4. QED
      BY <1>19, <2>1, <2>2, <2>3 DEF TypeOK, TxTypeOK, Crash, service, job, tx
  <1>20. CASE DiscardPending
    BY <1>20, ClearPendingType DEF TypeOK, DiscardPending, service, job, tx
  <1>21. CASE ServiceStops
    BY <1>21 DEF TypeOK, ServiceStops, job, tx
  <1>22. CASE UNCHANGED vars
    BY <1>22 DEF TypeOK, vars, service, job, tx
  <1>23. QED
    BY <1>1, <1>2, <1>3, <1>4, <1>5, <1>6, <1>7, <1>8, <1>9, <1>10, <1>11, <1>12, <1>13, <1>14, <1>15, <1>16, <1>17, <1>18, <1>19, <1>20, <1>21, <1>22 DEF Next, Step

LEMMA TypeInit == Init => TypeOK
  BY AcceptedAssumption, ConfigTypes DEF Init, TypeOK, Errors, PCs, InCommit

\* Type correctness, for any number of savers and appliers and any fault.
THEOREM TypeCorrect == Spec => []TypeOK
  <1>1. QED
    BY TypeInit, TypeStep, PTL DEF Spec

-----------------------------------------------------------------------------
(* One job at a time.                                                      *)

\* One job runs at a time: what Server.mu gives the savers among themselves,
\* and what nothing gives a saver and an applier.
SingleJob == \A p, q \in Jobs : p = q

\* No process is killed and a copy back from a backup succeeds.
Reliable == Faults \cap {"rollback", "crash", "childDies"} = {}

\* Between the two copies of a file, its backup holds what it holds.
BackupInv ==
    \A p \in Jobs : pc[p] = "write" =>
        \A f \in Files : NextFile(f, todo[p]) =>
            bak[p] = live[f] /\ (live[f] # Absent => live[f] \in backups[f])

\* The install dir with the replaced files of job p put back.
Restored(p) ==
    [f \in Files |-> IF kept[p][f] = NotKept THEN live[f] ELSE kept[p][f]]

\* Taking the save in flight back gives an accepted configuration; without one
\* in flight, and after the second -check, the install dir itself is accepted.
AcceptInv ==
    /\ loaded \in Accepted
    /\ \A p \in Jobs :
         /\ ~InFlight(p) \/ pc[p] = "start" => live \in Accepted
         /\ InFlight(p) => Restored(p) \in Accepted
         /\ ~InFlight(p) /\ pc[p] # "committed" => kept[p] = NoneKept
         /\ pc[p] \in {"backup", "write"} => \A f \in todo[p] : kept[p][f] = NotKept

-----------------------------------------------------------------------------
(* What the helpers do to the job that takes the step.                      *)

LEMMA GotoAt ==
    ASSUME TypeOK, NEW p \in Jobs, NEW l, Goto(p, l)
    PROVE  pc'[p] = l
  BY DEF TypeOK, Goto

LEMMA ResetTxAt ==
    ASSUME TypeOK, NEW p \in Jobs, NEW e, ResetTx(p, e)
    PROVE  kept'[p] = NoneKept
  BY DEF TypeOK, ResetTx

LEMMA FailsAt ==
    ASSUME TypeOK, NEW p \in Jobs, NEW e, Fails(p, e)
    PROVE  pc'[p] \in {"failed", "queue", "uac"} /\ kept'[p] = NoneKept
  BY GotoAt, ResetTxAt DEF Fails, AfterFailure

-----------------------------------------------------------------------------
(* Every overwritten file has a backup.                                     *)

LEMMA BackupInit == Init => BackupInv
  BY DEF Init, BackupInv

\* Only BackedUp leads to "write".
LEMMA BackupStep ==
    ASSUME SingleJob, TypeOK, BackupInv, [Next]_vars
    PROVE  BackupInv'
  <1> SUFFICES ASSUME NEW p \in Jobs, (pc[p] = "write")',
                      NEW f \in Files, NextFile(f, todo[p])'
               PROVE  (bak[p] = live[f] /\ (live[f] # Absent => live[f] \in backups[f]))'
    BY DEF BackupInv
  <1>1. CASE UNCHANGED <<pc, live, backups, tx>>
    BY <1>1 DEF BackupInv, tx, NextFile
  <1>2. CASE CommitBackup(p)
    <2>1. PICK g \in Files, r \in Copied \cup {"priv", "other"} :
            /\ NextFile(g, todo[p])
            /\ IF r \in Copied THEN BackedUp(p, g) ELSE WriteFails(p, r)
      BY <1>2 DEF CommitBackup
    <2>2. BackedUp(p, g)
      BY <2>1, GotoAt DEF WriteFails
    <2>3. f = g
      BY <2>1, <2>2 DEF BackedUp, NextFile, Files
    <2>4. bak'[p] = live[f] /\ live' = live
      BY <2>2, <2>3 DEF BackedUp, TypeOK
    <2>5. live[f] # Absent => live[f] \in backups'[f]
      BY <2>2, <2>3 DEF BackedUp, TypeOK
    <2>6. QED
      BY <2>4, <2>5
  <1>3. Save(p) => FALSE
    BY GotoAt DEF Save
  <1>4. CheckStaging(p) => FALSE
    BY GotoAt DEF CheckStaging
  <1>5. ApplyPending(p) => FALSE
    BY GotoAt DEF ApplyPending
  <1>6. Elevate(p) => FALSE
    BY GotoAt DEF Elevate
  <1>7. CommitCheck(p) => FALSE
    BY GotoAt, FailsAt DEF CommitCheck
  <1>8. CommitStop(p) => FALSE
    BY GotoAt, FailsAt DEF CommitStop
  <1>9. CommitWrite(p) => FALSE
    BY GotoAt DEF CommitWrite, Written, WriteFails
  <1>10. PostCheck(p) => FALSE
    BY GotoAt DEF PostCheck
  <1>11. CommitStart(p) => FALSE
    BY GotoAt DEF CommitStart
  <1>12. RollbackFile(p) => FALSE
    BY DEF RollbackFile
  <1>13. RollbackDone(p) => FALSE
    BY FailsAt DEF RollbackDone
  <1>14. CommitClears(p) => FALSE
    BY GotoAt DEF CommitClears
  <1>15. SavePendingClears(p) => FALSE
    BY GotoAt DEF SavePendingClears
  <1>16. SavePendingCopies(p) => FALSE
    BY GotoAt DEF SavePendingCopies
  <1>17. Done(p) => FALSE
    BY GotoAt DEF Done
  <1>18. ChildDies(p) => FALSE
    BY FailsAt DEF ChildDies
  <1>19. Crash(p) => FALSE
    BY GotoAt DEF Crash
  <1>20. Disconnect(p) \/ DiscardPending \/ ServiceStops \/ UNCHANGED vars
            => UNCHANGED <<pc, live, backups, tx>>
    BY DEF Disconnect, DiscardPending, ServiceStops, vars, disk
  <1>21. QED
    BY <1>1, <1>2, <1>3, <1>4, <1>5, <1>6, <1>7, <1>8, <1>9, <1>10, <1>11,
       <1>12, <1>13, <1>14, <1>15, <1>16, <1>17, <1>18, <1>19, <1>20
       DEF Next, Step, SingleJob

\* Only CommitWrite and the rollback write to the install dir.
LEMMA OverwriteStep ==
    ASSUME TypeOK, BackupInv, [Next]_vars
    PROVE  [OverwriteIsBackedUp]_live
  <1> USE DEF disk
  <1>1. ASSUME NEW p \in Jobs, CommitWrite(p) PROVE [OverwriteIsBackedUp]_live
    <2>1. PICK g \in Files, r \in Copied \cup {"priv", "other"} :
            /\ NextFile(g, todo[p])
            /\ IF r \in Copied THEN Written(p, g) ELSE WriteFails(p, r)
      BY <1>1 DEF CommitWrite
    <2>2. CASE WriteFails(p, r)
      BY <2>2 DEF WriteFails
    <2>3. CASE Written(p, g)
      <3>1. live[g] # Absent => live[g] \in backups[g]
        BY <1>1, <2>1 DEF CommitWrite, BackupInv
      <3>2. \A f \in Files : f # g => live'[f] = live[f]
        BY <2>3 DEF Written, TypeOK, Configs
      <3>3. QED
        BY <3>1, <3>2 DEF OverwriteIsBackedUp
    <2>4. QED
      BY <2>1, <2>2, <2>3
  <1>2. ASSUME NEW p \in Jobs, RollbackFile(p) PROVE [OverwriteIsBackedUp]_live
    <2>1. PICK g \in Files :
            live' = [live EXCEPT ![g] = kept[p][g]] \/ UNCHANGED live
      BY <1>2 DEF RollbackFile
    <2>2. \A f \in Files : live'[f] = live[f] \/ live'[f] = kept[p][f]
      BY <2>1 DEF TypeOK, Configs
    <2>3. QED
      BY <1>2, <2>2 DEF RollbackFile, OverwriteIsBackedUp
  <1>3. ASSUME NEW p \in Jobs, CommitBackup(p) PROVE UNCHANGED live
    BY <1>3 DEF CommitBackup, BackedUp, WriteFails
  <1>4. ASSUME NEW p \in Jobs,
               \/ Save(p) \/ ApplyPending(p) \/ CheckStaging(p) \/ Elevate(p)
               \/ CommitCheck(p) \/ CommitStop(p) \/ PostCheck(p) \/ CommitStart(p)
               \/ CommitClears(p) \/ RollbackDone(p)
        PROVE  UNCHANGED live
    BY <1>4 DEF Save, ApplyPending, CheckStaging, Elevate, CommitCheck, CommitStop,
                PostCheck, CommitStart, CommitClears, RollbackDone
  <1>5. ASSUME NEW p \in Jobs,
               \/ SavePendingClears(p) \/ SavePendingCopies(p) \/ Done(p)
               \/ Disconnect(p) \/ ChildDies(p) \/ Crash(p)
        PROVE  UNCHANGED live
    BY <1>5 DEF SavePendingClears, SavePendingCopies, Done, Disconnect, ChildDies, Crash
  <1>6. DiscardPending \/ ServiceStops \/ UNCHANGED vars => UNCHANGED live
    BY DEF DiscardPending, ServiceStops, vars
  <1>7. QED
    BY <1>1, <1>2, <1>3, <1>4, <1>5, <1>6 DEF Next, Step

\* With one job at a time, whatever fails and whoever is killed, no step
\* overwrites a file of the install dir that has no backup.
THEOREM BackupsKept ==
    ASSUME SingleJob
    PROVE  Spec => OverwritesAreBackedUp
  <1>1. Spec => [](TypeOK /\ BackupInv)
    BY TypeInit, TypeStep, BackupInit, BackupStep, PTL DEF Spec
  <1>2. TypeOK /\ BackupInv /\ [Next]_vars => [OverwriteIsBackedUp]_live
    BY OverwriteStep
  <1>3. QED
    BY <1>1, <1>2, PTL DEF Spec, OverwritesAreBackedUp

-----------------------------------------------------------------------------
(* The service runs only on accepted configurations.                        *)

LEMMA AcceptInit == Init => AcceptInv
  BY DEF Init, AcceptInv, InFlight

\* A step before or after the part of Commit that touches the install dir.
LEMMA QuietStep ==
    ASSUME SingleJob, AcceptInv, NEW p \in Jobs, UNCHANGED <<live, loaded>>,
           ~InFlight(p), pc[p] # "committed" \/ kept'[p] = NoneKept,
           kept'[p] \in {kept[p], NoneKept},
           ~InFlight(p)', (pc[p] # "committed")'
    PROVE  AcceptInv'
  <1>1. (/\ loaded \in Accepted
        /\ live \in Accepted
        /\ kept[p] = NoneKept
        /\ pc[p] \notin {"backup", "write", "start"})'
    BY DEF AcceptInv, InFlight
  <1>2. QED
    BY <1>1 DEF AcceptInv, SingleJob

\* A Commit that has not replaced a file, or has taken all of them back but
\* those that did not exist, leaves an accepted configuration.
LEMMA RolledBackIsAccepted ==
    ASSUME TypeOK, AcceptInv, NEW p \in Jobs, InFlight(p), Replaced(p) = {}
    PROVE  live \in Accepted
  <1>1. Restored(p) \in Accepted /\ live \in Configs
    BY DEF AcceptInv, TypeOK
  <1>2. \A f \in Files : Restored(p)[f] \in {Absent, live[f]}
    BY DEF Restored, Replaced, TypeOK
  <1>3. QED
    BY <1>1, <1>2, AcceptedAssumption

LEMMA AcceptWritten ==
    ASSUME SingleJob, TypeOK, BackupInv, AcceptInv, NEW p \in Jobs, pc[p] = "write",
           NEW f \in Files, NextFile(f, todo[p]), Written(p, f), UNCHANGED loaded
    PROVE  AcceptInv'
  <1>1. pc'[p] \in {"postCheck", "backup"}
    BY GotoAt DEF Written
  <1>2. bak[p] = live[f] /\ kept[p][f] = NotKept
    BY DEF BackupInv, AcceptInv, NextFile
  <1>3. \A g \in Files : /\ kept'[p][g] = IF g = f THEN live[f] ELSE kept[p][g]
                         /\ g # f => live'[g] = live[g]
    BY <1>2 DEF Written, TypeOK, Configs
  <1>4. live[f] # NotKept
    BY ContentsAssumption DEF TypeOK, Configs
  <1>5. Restored(p)' = Restored(p)
    BY <1>2, <1>3, <1>4 DEF Restored
  <1>6. \A g \in todo'[p] : g \in todo[p] /\ g # f /\ g \in Files
    BY DEF Written, TypeOK
  <1>7. \A g \in todo'[p] : kept'[p][g] = NotKept
    BY <1>3, <1>6 DEF AcceptInv
  <1>8. Restored(p) \in Accepted /\ loaded \in Accepted
    BY DEF AcceptInv, InFlight
  <1>9. QED
    BY <1>1, <1>5, <1>7, <1>8 DEF AcceptInv, InFlight, SingleJob

\* What a step inside Commit keeps when it writes to no file.
LEMMA AcceptInside ==
    ASSUME SingleJob, AcceptInv, NEW p \in Jobs, InFlight(p), UNCHANGED <<live, kept>>,
           loaded' \in Accepted,
           (pc[p] \in {"backup", "write", "undo", "undoRestart"})'
             \/ (live \in Accepted /\ (pc[p] \in {"start", "committed"})'),
           (pc[p] \in {"backup", "write"})' => pc[p] \in {"backup", "write"} /\ UNCHANGED todo
    PROVE  AcceptInv'
  <1>1. Restored(p)' = Restored(p) /\ Restored(p) \in Accepted
    BY DEF AcceptInv, Restored
  <1>2. (pc[p] \in {"backup", "write"} => \A f \in todo[p] : kept[p][f] = NotKept)'
    BY DEF AcceptInv
  <1>3. QED
    BY <1>1, <1>2 DEF AcceptInv, InFlight, SingleJob

\* A service is started on the install dir, or left on what it runs.
LEMMA LoadedAt ==
    ASSUME AcceptInv, NEW p \in Jobs, live \in Accepted \/ ~StartService(p),
           StartService(p) \/ StartServiceFails(p) \/ UNCHANGED service
    PROVE  loaded' \in Accepted
  BY DEF AcceptInv, StartService, StartServiceFails, service

LEMMA StopLeavesLoaded ==
    ASSUME NEW p \in Jobs, NEW r,
           StopService(p) \/ RetryAfterStop(p, r) \/ UNCHANGED service
    PROVE  UNCHANGED loaded
  BY DEF StopService, RetryAfterStop, service

LEMMA AcceptStep ==
    ASSUME SingleJob, Reliable, TypeOK, BackupInv, AcceptInv, [Next]_vars
    PROVE  AcceptInv'
  <1> USE DEF disk
  <1>1. ASSUME NEW p \in Jobs,
               Save(p) \/ ApplyPending(p) \/ CheckStaging(p) \/ Elevate(p) \/ CommitCheck(p)
        PROVE  AcceptInv'
    <2>1. ~InFlight(p) /\ pc[p] # "committed" /\ UNCHANGED <<live, loaded>>
      BY <1>1 DEF Save, ApplyPending, CheckStaging, Elevate, CommitCheck, InFlight, service
    <2>2. (~InFlight(p) /\ pc[p] # "committed")' /\ kept'[p] \in {kept[p], NoneKept}
      <3>1. CASE Save(p)
        BY <3>1, GotoAt DEF Save, InFlight, tx
      <3>2. CASE ApplyPending(p)
        BY <3>2, GotoAt DEF ApplyPending, InFlight, tx
      <3>3. CASE CheckStaging(p)
        BY <3>3, GotoAt DEF CheckStaging, InFlight, SetErr, tx
      <3>4. CASE Elevate(p)
        BY <3>4, GotoAt, ResetTxAt DEF Elevate, InFlight
      <3>5. CASE CommitCheck(p)
        BY <3>5, GotoAt, FailsAt DEF CommitCheck, InFlight, tx
      <3>6. QED
        BY <1>1, <3>1, <3>2, <3>3, <3>4, <3>5
    <2>3. QED
      BY <2>1, <2>2, QuietStep
  <1>2. ASSUME NEW p \in Jobs, CommitStop(p) PROVE AcceptInv'
    <2>1. ~InFlight(p) /\ pc[p] = "stop" /\ UNCHANGED <<live, loaded>>
      BY <1>2, StopLeavesLoaded DEF CommitStop, InFlight, service
    <2>2. CASE Fails(p, "other")
      BY <2>1, <2>2, FailsAt, QuietStep DEF InFlight
    <2>3. CASE Goto(p, "backup") /\ UNCHANGED kept
      <3>1. kept[p] = NoneKept /\ live \in Accepted
        BY <2>1 DEF AcceptInv
      <3>2. Restored(p)' = live
        BY <2>1, <2>3, <3>1 DEF Restored, NoneKept, TypeOK, Configs
      <3>3. todo'[p] \subseteq Files
        BY <1>2, <2>3, GotoAt, FailsAt DEF CommitStop, TypeOK
      <3>4. QED
        BY <2>1, <2>3, <3>1, <3>2, <3>3, GotoAt DEF AcceptInv, SingleJob, NoneKept
    <2>4. QED
      BY <1>2, <2>2, <2>3 DEF CommitStop
  <1>3. ASSUME NEW p \in Jobs, CommitBackup(p) \/ CommitWrite(p) PROVE AcceptInv'
    <2>1. UNCHANGED loaded /\ InFlight(p) /\ pc[p] \in {"backup", "write"}
      BY <1>3, StopLeavesLoaded DEF CommitBackup, CommitWrite, InFlight, service
    <2>2. \/ \E f \in Files : BackedUp(p, f)
          \/ \E e : WriteFails(p, e)
          \/ pc[p] = "write" /\ \E f \in Files : NextFile(f, todo[p]) /\ Written(p, f)
      BY <1>3 DEF CommitBackup, CommitWrite
    <2>3. CASE \E f \in Files : BackedUp(p, f)
      BY <2>1, <2>3, GotoAt, AcceptInside DEF BackedUp, AcceptInv
    <2>4. CASE \E e : WriteFails(p, e)
      BY <2>1, <2>4, GotoAt, AcceptInside DEF WriteFails, SetErr, AcceptInv
    <2>5. CASE pc[p] = "write" /\ \E f \in Files : NextFile(f, todo[p]) /\ Written(p, f)
      BY <2>1, <2>5, AcceptWritten
    <2>6. QED
      BY <2>2, <2>3, <2>4, <2>5
  <1>4. ASSUME NEW p \in Jobs, PostCheck(p) PROVE AcceptInv'
    <2>1. InFlight(p) /\ UNCHANGED <<live, kept, loaded>>
      BY <1>4 DEF PostCheck, InFlight, SetErr, tx, service
    <2>2. \/ (pc[p] = "undoRestart")'
          \/ live \in Accepted /\ (pc[p] = "start")'
      BY <1>4, GotoAt DEF PostCheck, CheckPasses
    <2>3. QED
      BY <2>1, <2>2, AcceptInside DEF AcceptInv
  <1>5. ASSUME NEW p \in Jobs, CommitStart(p) PROVE AcceptInv'
    <2>1. InFlight(p) /\ UNCHANGED <<live, kept>> /\ live \in Accepted
      BY <1>5 DEF CommitStart, InFlight, SetErr, tx, AcceptInv
    <2>2. loaded' \in Accepted
      BY <1>5, <2>1, LoadedAt DEF CommitStart
    <2>3. (pc[p] \in {"undoRestart", "committed"})'
      BY <1>5, GotoAt DEF CommitStart
    <2>4. QED
      BY <2>1, <2>2, <2>3, AcceptInside
  <1>6. ASSUME NEW p \in Jobs, RollbackFile(p) PROVE AcceptInv'
    <2>1. PICK f \in Files :
            /\ kept[p][f] \in Contents
            /\ live' = [live EXCEPT ![f] = kept[p][f]]
            /\ kept' = [kept EXCEPT ![p] = [@ EXCEPT ![f] = NotKept]]
      BY <1>6 DEF RollbackFile, LastFile, Replaced, Reliable
    <2>2. \A g \in Files :
            /\ live'[g] = IF g = f THEN kept[p][f] ELSE live[g]
            /\ kept'[p][g] = IF g = f THEN NotKept ELSE kept[p][g]
      BY <2>1 DEF TypeOK, Configs
    <2>3. Restored(p)' = Restored(p)
      BY <2>1, <2>2, ContentsAssumption DEF Restored
    <2>4. InFlight(p) /\ Restored(p) \in Accepted /\ loaded \in Accepted
      BY <1>6 DEF RollbackFile, AcceptInv, InFlight
    <2>5. UNCHANGED <<pc, loaded>> /\ pc[p] \in {"undo", "undoRestart"}
      BY <1>6 DEF RollbackFile, service
    <2>6. QED
      BY <2>3, <2>4, <2>5 DEF AcceptInv, SingleJob, InFlight
  <1>7. ASSUME NEW p \in Jobs, RollbackDone(p) PROVE AcceptInv'
    <2>1. InFlight(p) /\ UNCHANGED live /\ Replaced(p) = {}
      BY <1>7 DEF RollbackDone, InFlight
    <2>2. live \in Accepted
      BY <2>1, RolledBackIsAccepted
    <2>3. loaded' \in Accepted
      BY <1>7, <2>2, LoadedAt DEF RollbackDone
    <2>4. (pc[p] \in {"failed", "queue", "uac"})' /\ kept'[p] = NoneKept
      BY <1>7, FailsAt DEF RollbackDone
    <2>5. QED
      BY <2>1, <2>2, <2>3, <2>4 DEF AcceptInv, SingleJob, InFlight
  <1>8. ASSUME NEW p \in Jobs, CommitClears(p) \/ Done(p) PROVE AcceptInv'
    <2>1. ~InFlight(p) /\ UNCHANGED <<live, loaded>>
      BY <1>8 DEF CommitClears, Done, InFlight, service
    <2>2. (pc[p] \in {"reclear", "applied", "idle"})' /\ kept'[p] = NoneKept
      BY <1>8, GotoAt, ResetTxAt DEF CommitClears, Done
    <2>3. QED
      BY <2>1, <2>2, QuietStep DEF InFlight
  <1>9. ASSUME NEW p \in Jobs, SavePendingClears(p) \/ SavePendingCopies(p)
        PROVE  AcceptInv'
    <2>1. /\ ~InFlight(p) /\ pc[p] # "committed" /\ UNCHANGED <<live, loaded>>
          /\ UNCHANGED kept
      BY <1>9 DEF SavePendingClears, SavePendingCopies, InFlight, service, tx
    <2>2. (pc[p] \in {"queueCopy", "queued", "failed"})'
      BY <1>9, GotoAt DEF SavePendingClears, SavePendingCopies
    <2>3. QED
      BY <2>1, <2>2, QuietStep DEF InFlight
  <1>10. CASE UNCHANGED <<live, loaded, pc, kept, todo>>
    BY <1>10 DEF AcceptInv, InFlight, Restored
  <1>11. ASSUME NEW p \in Jobs, Disconnect(p) PROVE UNCHANGED <<live, loaded, pc, kept, todo>>
    BY <1>11 DEF Disconnect, service, tx
  <1>12. DiscardPending \/ ServiceStops \/ UNCHANGED vars
           => UNCHANGED <<live, loaded, pc, kept, todo>>
    BY DEF DiscardPending, ServiceStops, vars, service, tx
  <1>13. ASSUME NEW p \in Jobs PROVE ~ChildDies(p) /\ ~Crash(p)
    BY DEF Reliable, ChildDies, Crash
  <1>14. QED
    BY <1>1, <1>2, <1>3, <1>4, <1>5, <1>6, <1>7, <1>8, <1>9, <1>10, <1>11, <1>12, <1>13
       DEF Next, Step

\* With one job at a time, as long as nobody is killed and the backups can be
\* copied back, the service never runs on a configuration -check has not
\* accepted: whatever write, start, queue or stop fails, and wherever the
\* client goes away.
THEOREM AcceptedRuns ==
    ASSUME SingleJob, Reliable
    PROVE  Spec => []RunsOnlyAccepted
  <1>1. Init => TypeOK /\ BackupInv /\ AcceptInv
    BY TypeInit, BackupInit, AcceptInit
  <1>2. TypeOK /\ BackupInv /\ AcceptInv /\ [Next]_vars => (TypeOK /\ BackupInv /\ AcceptInv)'
    BY TypeStep, BackupStep, AcceptStep
  <1>3. AcceptInv => RunsOnlyAccepted
    BY DEF AcceptInv, RunsOnlyAccepted
  <1>4. QED
    BY <1>1, <1>2, <1>3, PTL DEF Spec

-----------------------------------------------------------------------------
(* A bundle leaves the queue for being applied only when it is live.         *)

\* What the files Commit has been through are, and what the queue still holds of
\* them.
Applied(p, f) == pending[f] \in {Absent, live[f]}

QueueInv ==
    \A p \in Jobs : route[p] = "pending" =>
        /\ pc[p] \in {"backup", "write"} => \A f \in Files \ todo[p] : Applied(p, f)
        /\ pc[p] \in {"postCheck", "start", "committed", "reclear"} =>
              \A f \in Files : Applied(p, f)

LEMMA QueueInit == Init => QueueInv
  BY DEF Init, QueueInv

\* Clearing, as far as it gets, only takes files out of the queue.
LEMMA ClearedFiles ==
    ASSUME ClearPending
    PROVE  \A f \in Files : pending'[f] \in {Absent, pending[f]}
  BY DEF ClearPending

LEMMA QueueWritten ==
    ASSUME TypeOK, QueueInv, NEW p \in Jobs, route[p] = "pending", pc[p] = "write",
           NEW f \in Files, Written(p, f), UNCHANGED pending
    PROVE  /\ (pc[p] \in {"backup", "write"})' => \A g \in Files \ todo'[p] : Applied(p, g)'
           /\ (pc[p] \notin {"backup", "write"})' => \A g \in Files : Applied(p, g)'
  <1>1. /\ pc'[p] = IF todo[p] = {f} THEN "postCheck" ELSE "backup"
        /\ todo'[p] = todo[p] \ {f}
    BY GotoAt DEF Written, TypeOK
  <1>2. live'[f] = pending[f] /\ \A g \in Files \ {f} : live'[g] = live[g]
    BY DEF Written, Source, TypeOK, Configs
  <1>3. \A g \in Files \ todo[p] : Applied(p, g)
    BY DEF QueueInv
  <1>4. \A g \in Files : g = f \/ g \notin todo[p] => Applied(p, g)'
    BY <1>2, <1>3 DEF Applied
  <1>5. QED
    BY <1>1, <1>4

LEMMA QueueStep ==
    ASSUME SingleJob, TypeOK, QueueInv, [Next]_vars
    PROVE  QueueInv'
  <1> USE DEF disk
  <1> DEFINE Holds(p) ==
               route[p] = "pending" =>
                 /\ pc[p] \in {"backup", "write"} => \A f \in Files \ todo[p] : Applied(p, f)
                 /\ pc[p] \in {"postCheck", "start", "committed", "reclear"} =>
                      \A f \in Files : Applied(p, f)
             Away == {"idle", "checkStaging", "uac", "check", "stop", "undo", "undoRestart",
                      "queue", "queueCopy", "applied", "queued", "failed"}
  <1> SUFFICES ASSUME NEW p \in Jobs PROVE Holds(p)'
    BY DEF QueueInv
  <1>a. ASSUME (pc[p] \in Away)' PROVE Holds(p)'
    BY <1>a
  <1>b. Holds(p)
    BY DEF QueueInv
  <1> HIDE DEF Away
  <1>1. CASE Save(p) \/ ApplyPending(p) \/ CheckStaging(p) \/ Elevate(p) \/ CommitCheck(p)
    <2>1. pc'[p] \in {"checkStaging", "uac", "check", "stop", "failed", "queue"}
      <3>1. Save(p) \/ ApplyPending(p) \/ CheckStaging(p) => pc'[p] \in {"checkStaging", "uac", "check", "failed"}
        BY GotoAt DEF Save, ApplyPending, CheckStaging
      <3>2. Elevate(p) => pc'[p] \in {"check", "queue", "failed"}
        BY GotoAt DEF Elevate
      <3>3. CommitCheck(p) => pc'[p] \in {"stop", "failed", "queue", "uac"}
        BY GotoAt, FailsAt DEF CommitCheck
      <3>4. QED
        BY <1>1, <3>1, <3>2, <3>3
    <2>2. QED
      BY <1>a, <2>1 DEF Away
  <1>2. CASE CommitStop(p)
    <2>1. CASE Fails(p, "other")
      BY <1>a, <2>1, FailsAt DEF Away
    <2>2. CASE /\ todo' = [todo EXCEPT ![p] = {f \in Files : Source(p)[f] # Absent}]
               /\ Goto(p, "backup")
      <3>1. pc'[p] = "backup" /\ todo'[p] = {f \in Files : Source(p)[f] # Absent}
        BY <2>2, GotoAt DEF TypeOK
      <3>2. UNCHANGED <<pending, live, route>>
        BY <1>2 DEF CommitStop, job
      <3>3. route[p] = "pending" => \A f \in Files \ todo'[p] : pending[f] = Absent
        BY <3>1 DEF Source
      <3>4. QED
        BY <3>1, <3>2, <3>3 DEF Applied
    <2>3. QED
      BY <1>2, <2>1, <2>2 DEF CommitStop
  <1>3. CASE CommitBackup(p)
    <2>1. UNCHANGED <<pending, live, route>> /\ pc[p] = "backup"
      BY <1>3 DEF CommitBackup, BackedUp, WriteFails, job
    <2>2. \/ pc'[p] = "write" /\ UNCHANGED todo
          \/ pc'[p] = "undo"
      BY <1>3, GotoAt DEF CommitBackup, BackedUp, WriteFails
    <2>3. QED
      BY <1>a, <1>b, <2>1, <2>2 DEF Applied, Away
  <1>4. CASE CommitWrite(p)
    <2>1. UNCHANGED <<pending, route>> /\ pc[p] = "write"
      BY <1>4 DEF CommitWrite, job
    <2>2. CASE \E f \in Files : Written(p, f)
      BY <2>1, <2>2, QueueWritten
    <2>3. CASE \E e : WriteFails(p, e)
      BY <1>a, <2>3, GotoAt DEF WriteFails, Away
    <2>4. QED
      BY <1>4, <2>2, <2>3 DEF CommitWrite
  <1>5. CASE PostCheck(p) \/ CommitStart(p)
    <2>1. UNCHANGED <<pending, live, route>> /\ pc[p] \in {"postCheck", "start"}
      BY <1>5 DEF PostCheck, CommitStart, job
    <2>2. pc'[p] \in {"start", "committed", "undoRestart"}
      BY <1>5, GotoAt DEF PostCheck, CommitStart
    <2>3. QED
      BY <1>a, <1>b, <2>1, <2>2 DEF Applied, Away
  <1>6. CASE RollbackFile(p) \/ RollbackDone(p)
    <2>1. pc'[p] \in {"undo", "undoRestart", "failed", "queue", "uac"}
      BY <1>6, FailsAt DEF RollbackFile, RollbackDone
    <2>2. QED
      BY <1>a, <2>1 DEF Away
  <1>7. CASE CommitClears(p)
    <2>1. UNCHANGED <<live, route>> /\ pc[p] \in {"committed", "reclear"}
      BY <1>7 DEF CommitClears, job
    <2>2. pc'[p] \in {"reclear", "applied"}
      BY <1>7, GotoAt DEF CommitClears
    <2>3. \A f \in Files : pending'[f] \in {Absent, pending[f]}
      BY <1>7, ClearedFiles DEF CommitClears
    <2>4. QED
      BY <1>a, <1>b, <2>1, <2>2, <2>3 DEF Applied, Away
  <1>8. CASE SavePendingClears(p) \/ SavePendingCopies(p) \/ Done(p) \/ ChildDies(p) \/ Crash(p)
    <2>1. pc'[p] \in {"queueCopy", "queued", "failed", "idle", "queue", "uac"}
      BY <1>8, GotoAt, FailsAt DEF SavePendingClears, SavePendingCopies, Done, ChildDies, Crash
    <2>2. QED
      BY <1>a, <2>1 DEF Away
  <1>9. CASE DiscardPending
    <2>1. UNCHANGED <<live, route, pc, todo>>
      BY <1>9 DEF DiscardPending, job, tx
    <2>2. \A f \in Files : pending'[f] \in {Absent, pending[f]}
      BY <1>9, ClearedFiles DEF DiscardPending
    <2>3. QED
      BY <1>b, <2>1, <2>2 DEF Applied
  <1>10. CASE Disconnect(p) \/ ServiceStops \/ UNCHANGED vars
    <2>1. UNCHANGED <<live, pending, route, pc, todo>>
      BY <1>10 DEF Disconnect, ServiceStops, vars, job, tx
    <2>2. QED
      BY <1>b, <2>1 DEF Applied
  <1>11. QED
    BY <1>1, <1>2, <1>3, <1>4, <1>5, <1>6, <1>7, <1>8, <1>9, <1>10 DEF Next, Step, SingleJob

\* With one job at a time, whatever fails, is killed or is discarded meanwhile, a
\* bundle is cleared after an apply only when the install dir holds it.
THEOREM AppliedBundleIsLive ==
    ASSUME SingleJob
    PROVE  Spec => []ClearedBundleIsLive
  <1>1. QueueInv => ClearedBundleIsLive
    BY DEF QueueInv, Applied, ClearedBundleIsLive
  <1>2. QED
    BY <1>1, TypeInit, TypeStep, QueueInit, QueueStep, PTL DEF Spec

-----------------------------------------------------------------------------
(* A reported restart has happened.                                          *)

\* From Commit's stop to its start the service is stopped, or the client has
\* gone and the start fails too.
RestartInv ==
    /\ svc # "stopping"
    /\ \A p \in Jobs : Managed =>
         /\ pc[p] \in {"backup", "write", "postCheck", "start"} =>
               svc = "stopped" \/ ~Connected(p)
         /\ pc[p] \in {"committed", "reclear", "applied"} =>
               svc = "running" /\ loaded = live

LEMMA RestartInit == Init => RestartInv
  BY DEF Init, RestartInv

LEMMA StopStops ==
    ASSUME TypeOK, "stop" \notin Faults, svc # "stopping", NEW p \in Jobs, StopService(p)
    PROVE  svc' # "stopping" /\ (svc' = "stopped" \/ ~Connected(p))
  BY DEF TypeOK, StopService

LEMMA RetryStops ==
    ASSUME TypeOK, "stop" \notin Faults, svc # "stopping", NEW p \in Jobs, NEW r,
           RetryAfterStop(p, r), svc = "stopped" \/ ~Connected(p) \/ ~Managed
    PROVE  svc' # "stopping" /\ (svc' = "stopped" \/ ~Connected(p) \/ ~Managed)
  BY StopStops DEF RetryAfterStop, service, StopService

LEMMA RestartStep ==
    ASSUME SingleJob, "stop" \notin Faults, TypeOK, RestartInv, [Next]_vars
    PROVE  RestartInv'
  <1> USE DEF disk
  <1> DEFINE Working == {"backup", "write", "postCheck", "start"}
             Ended == {"committed", "reclear", "applied"}
             Down(p) == svc = "stopped" \/ ~Connected(p) \/ ~Managed
             Up == Managed => svc = "running" /\ loaded = live
  <1>b. svc # "stopping"
    BY DEF RestartInv
  <1>c. \A p \in Jobs : /\ pc[p] \in Working => Down(p)
                        /\ pc[p] \in Ended => Up
    BY DEF RestartInv
  <1>d. ASSUME NEW p \in Jobs, svc' # "stopping",
               (pc[p] \in Working => Down(p))', (pc[p] \in Ended => Up)'
        PROVE  RestartInv'
    BY <1>d DEF RestartInv, SingleJob
  <1>1. ASSUME NEW p \in Jobs,
               Save(p) \/ ApplyPending(p) \/ CheckStaging(p) \/ Elevate(p) \/ CommitCheck(p)
        PROVE  RestartInv'
    <2>1. UNCHANGED svc
      BY <1>1 DEF Save, ApplyPending, CheckStaging, Elevate, CommitCheck, service
    <2>2. pc'[p] \in {"checkStaging", "uac", "check", "stop", "failed", "queue"}
      <3>1. Save(p) \/ ApplyPending(p) \/ CheckStaging(p) => pc'[p] \in {"checkStaging", "uac", "check", "failed"}
        BY GotoAt DEF Save, ApplyPending, CheckStaging
      <3>2. Elevate(p) => pc'[p] \in {"check", "queue", "failed"}
        BY GotoAt DEF Elevate
      <3>3. CommitCheck(p) => pc'[p] \in {"stop", "failed", "queue", "uac"}
        BY GotoAt, FailsAt DEF CommitCheck
      <3>4. QED
        BY <1>1, <3>1, <3>2, <3>3
    <2>3. QED
      BY <1>b, <1>d, <2>1, <2>2
  <1>2. ASSUME NEW p \in Jobs, CommitStop(p) PROVE RestartInv'
    <2>1. CASE Fails(p, "other") /\ UNCHANGED service
      BY <1>b, <1>d, <2>1, FailsAt DEF service
    <2>2. CASE /\ Goto(p, "backup")
               /\ IF Managed THEN StopService(p) ELSE UNCHANGED service
      <3>1. pc'[p] = "backup"
        BY <2>2, GotoAt
      <3>2. Connected(p)' = Connected(p)
        BY <1>2 DEF CommitStop, job, Connected
      <3>3. svc' # "stopping" /\ (svc' = "stopped" \/ ~Connected(p) \/ ~Managed)
        BY <1>b, <2>2, StopStops DEF service
      <3>4. QED
        BY <1>d, <3>1, <3>2, <3>3
    <2>3. QED
      BY <1>2, <2>1, <2>2 DEF CommitStop
  <1>3. ASSUME NEW p \in Jobs, CommitBackup(p) \/ CommitWrite(p) PROVE RestartInv'
    <2>1. pc[p] \in Working /\ Connected(p)' = Connected(p)
      BY <1>3 DEF CommitBackup, CommitWrite, job, Connected
    <2>2. pc'[p] \in {"write", "undo", "postCheck", "backup"}
      BY <1>3, GotoAt DEF CommitBackup, CommitWrite, BackedUp, Written, WriteFails
    <2>3. UNCHANGED service \/ \E r : RetryAfterStop(p, r)
      BY <1>3 DEF CommitBackup, CommitWrite
    <2>4. Down(p)
      BY <1>c, <2>1
    <2>5. svc' # "stopping" /\ (svc' = "stopped" \/ ~Connected(p) \/ ~Managed)
      BY <1>b, <2>3, <2>4, RetryStops DEF service
    <2>6. QED
      BY <1>d, <2>1, <2>2, <2>5
  <1>4. ASSUME NEW p \in Jobs, PostCheck(p) PROVE RestartInv'
    <2>1. pc'[p] \in {"start", "undoRestart"} /\ pc[p] \in Working
      BY <1>4, GotoAt DEF PostCheck
    <2>2. UNCHANGED svc /\ Connected(p)' = Connected(p)
      BY <1>4 DEF PostCheck, job, service, Connected
    <2>3. QED
      BY <1>b, <1>c, <1>d, <2>1, <2>2
  <1>5. ASSUME NEW p \in Jobs, CommitStart(p) PROVE RestartInv'
    <2>1. pc[p] = "start" /\ UNCHANGED live
      BY <1>5 DEF CommitStart
    <2>2. CASE /\ Goto(p, "committed")
               /\ IF Managed THEN StartService(p) ELSE UNCHANGED service
      <3>1. Managed => svc' = "running" /\ loaded' = live
        BY <1>c, <2>1, <2>2 DEF StartService
      <3>2. svc' # "stopping"
        BY <1>b, <2>2 DEF StartService, service
      <3>3. QED
        BY <1>d, <2>1, <2>2, <3>1, <3>2, GotoAt
    <2>3. CASE Goto(p, "undoRestart") /\ StartServiceFails(p)
      BY <1>b, <1>d, <2>3, GotoAt DEF StartServiceFails, service
    <2>4. QED
      BY <1>5, <2>2, <2>3 DEF CommitStart
  <1>6. ASSUME NEW p \in Jobs, RollbackFile(p) \/ RollbackDone(p) PROVE RestartInv'
    <2>1. pc'[p] \in {"undo", "undoRestart", "failed", "queue", "uac"}
      BY <1>6, FailsAt DEF RollbackFile, RollbackDone
    <2>2. svc' # "stopping"
      BY <1>6, <1>b DEF RollbackFile, RollbackDone, StartService, StartServiceFails, service
    <2>3. QED
      BY <1>d, <2>1, <2>2
  <1>7. ASSUME NEW p \in Jobs, CommitClears(p) PROVE RestartInv'
    <2>1. pc[p] \in Ended /\ UNCHANGED <<live, svc, loaded>>
      BY <1>7 DEF CommitClears, service
    <2>2. pc'[p] \in {"reclear", "applied"}
      BY <1>7, GotoAt DEF CommitClears
    <2>3. QED
      BY <1>b, <1>c, <1>d, <2>1, <2>2
  <1>8. ASSUME NEW p \in Jobs,
               SavePendingClears(p) \/ SavePendingCopies(p) \/ Done(p) \/ ChildDies(p) \/ Crash(p)
        PROVE  RestartInv'
    <2>1. pc'[p] \in {"queueCopy", "queued", "failed", "idle", "queue", "uac"}
      BY <1>8, GotoAt, FailsAt DEF SavePendingClears, SavePendingCopies, Done, ChildDies, Crash
    <2>2. UNCHANGED svc
      BY <1>8 DEF SavePendingClears, SavePendingCopies, Done, ChildDies, Crash, service
    <2>3. QED
      BY <1>b, <1>d, <2>1, <2>2
  <1>9. ASSUME NEW p \in Jobs, Disconnect(p) PROVE RestartInv'
    <2>1. UNCHANGED <<live, svc, loaded, pc>> /\ Connected(p)
      BY <1>9 DEF Disconnect, service
    <2>2. QED
      BY <1>b, <1>c, <1>d, <2>1
  <1>10. CASE DiscardPending \/ UNCHANGED vars
    <2>1. UNCHANGED <<live, svc, loaded, pc, elev, gone>>
      BY <1>10 DEF DiscardPending, vars, service, job
    <2>2. QED
      BY <2>1 DEF RestartInv, Connected
  <1>11. ~ServiceStops
    BY <1>b DEF ServiceStops
  <1>12. QED
    BY <1>1, <1>2, <1>3, <1>4, <1>5, <1>6, <1>7, <1>8, <1>9, <1>10, <1>11 DEF Next, Step

\* With one job at a time and a service that stops when it is told to, a save or
\* an apply that reports success has the service running on the files on disk,
\* wherever its client went away.  StopRestarted shows that the premise about
\* the service is needed.
THEOREM ReportedRestart ==
    ASSUME SingleJob, "stop" \notin Faults
    PROVE  Spec => []RestartedOnNewFiles
  <1>1. RestartInv => RestartedOnNewFiles
    BY DEF RestartInv, RestartedOnNewFiles
  <1>2. QED
    BY <1>1, TypeInit, TypeStep, RestartInit, RestartStep, PTL DEF Spec

-----------------------------------------------------------------------------
(* Commit implements the atomic save of SettingsAtomic.                      *)

\* What a save is undone from as if it had not been: nobody is killed, a copy back
\* from a backup succeeds, and the queue is written and cleared whole.
Undoable == Faults \subseteq {"write", "stop", "start", "disconnect"}

Within == InCommit \cup {"uac"}

\* What is on its way to the install dir or to the queue has been checked, and a
\* queue being filled holds the files that are not left to copy.
StagedAt(p) ==
    /\ pc[p] \in {"checkStaging", "queue", "queueCopy"} => route[p] = "save"
    /\ pc[p] \in Within => route[p] \in {"save", "pending"}
    /\ pc[p] \in Within \cup {"queue", "queueCopy"} /\ route[p] = "save" => stage[p] \in Accepted
    /\ pc[p] = "queueCopy" => \A f \in Files \ todo[p] : pending[f] = stage[p][f]
StagedInv == \A p \in Jobs : StagedAt(p)

LEMMA StagedInit == Init => StagedInv
  BY DEF Init, StagedInv, StagedAt, Within, InCommit

LEMMA StagedStep ==
    ASSUME SingleJob, Undoable, TypeOK, StagedInv, [Next]_vars
    PROVE  StagedInv'
  <1> USE DEF disk
  <1> SUFFICES ASSUME NEW p \in Jobs PROVE StagedAt(p)'
    BY DEF StagedInv
  <1>a. ASSUME pc'[p] \in {"idle", "applied", "queued", "failed", "reclear"} PROVE StagedAt(p)'
    BY <1>a DEF StagedAt, Within, InCommit
  <1>b. StagedAt(p)
    BY DEF StagedInv
  <1>c. ASSUME UNCHANGED <<route, stage>>, pc[p] \in Within, pc'[p] \in Within
        PROVE  StagedAt(p)'
    BY <1>b, <1>c DEF StagedAt, Within, InCommit
  <1>d. ASSUME UNCHANGED <<route, stage>>, pc[p] \in Within, NEW e, Fails(p, e)
        PROVE  StagedAt(p)'
    <2>1. pc'[p] = AfterFailure(p, e)
      BY <1>d, GotoAt DEF Fails
    <2>2. pc'[p] \in {"failed", "uac"} \/ (pc'[p] = "queue" /\ route[p] # "pending")
      BY <2>1, ModeAssumption DEF AfterFailure, TypeOK
    <2>3. CASE pc'[p] = "queue" /\ route[p] # "pending"
      BY <1>b, <1>d, <2>3 DEF StagedAt, Within, InCommit
    <2>4. QED
      BY <1>a, <1>c, <1>d, <2>2, <2>3 DEF Within
  <1>1. CASE Save(p)
    <2>1. pc'[p] = "checkStaging" /\ route'[p] = "save"
      BY <1>1, GotoAt DEF Save, Request, TypeOK
    <2>2. QED
      BY <2>1 DEF StagedAt, Within, InCommit
  <1>2. CASE CheckStaging(p)
    <2>1. CASE CheckPasses(p, stage[p]) /\ pc'[p] \in {"uac", "check"}
      BY <1>2, <1>b, <2>1 DEF CheckStaging, CheckPasses, job, StagedAt, Within, InCommit
    <2>2. QED
      BY <1>2, <1>a, <2>1, GotoAt DEF CheckStaging
  <1>3. CASE ApplyPending(p)
    <2>1. pc'[p] \in {"uac", "check"} /\ route'[p] = "pending"
      BY <1>3, GotoAt DEF ApplyPending, Request, TypeOK
    <2>2. QED
      BY <2>1 DEF StagedAt, Within, InCommit
  <1>4. CASE Elevate(p)
    <2>1. pc[p] = "uac" /\ UNCHANGED <<route, stage>>
      BY <1>4 DEF Elevate, job
    <2>2. pc'[p] \in {"check", "failed"} \/ (pc'[p] = "queue" /\ route[p] = "save")
      BY <1>4, GotoAt DEF Elevate
    <2>3. CASE pc'[p] = "queue" /\ route[p] = "save"
      BY <1>b, <2>1, <2>3 DEF StagedAt, Within, InCommit
    <2>4. QED
      BY <1>a, <1>c, <2>1, <2>2, <2>3 DEF Within, InCommit
  <1>5. CASE CommitCheck(p) \/ CommitStop(p)
    <2>1. pc[p] \in {"check", "stop"} /\ UNCHANGED <<route, stage>>
      BY <1>5 DEF CommitCheck, CommitStop, job
    <2>2. pc'[p] \in {"stop", "backup"} \/ \E e : Fails(p, e)
      BY <1>5, GotoAt DEF CommitCheck, CommitStop
    <2>3. QED
      BY <1>c, <1>d, <2>1, <2>2 DEF Within, InCommit
  <1>6. CASE CommitBackup(p) \/ CommitWrite(p) \/ PostCheck(p) \/ CommitStart(p) \/ RollbackFile(p)
    <2>1. pc[p] \in InCommit /\ UNCHANGED <<route, stage>>
      BY <1>6 DEF CommitBackup, CommitWrite, PostCheck, CommitStart, RollbackFile, job, InCommit
    <2>2. pc'[p] \in InCommit
      <3>1. CommitBackup(p) \/ CommitWrite(p) => pc'[p] \in {"write", "undo", "postCheck", "backup"}
        BY GotoAt DEF CommitBackup, CommitWrite, BackedUp, Written, WriteFails
      <3>2. PostCheck(p) \/ CommitStart(p) => pc'[p] \in {"start", "committed", "undoRestart"}
        BY GotoAt DEF PostCheck, CommitStart
      <3>3. RollbackFile(p) => pc'[p] = pc[p]
        BY DEF RollbackFile
      <3>4. QED
        BY <1>6, <2>1, <3>1, <3>2, <3>3 DEF InCommit
    <2>3. QED
      BY <1>c, <2>1, <2>2 DEF Within
  <1>7. CASE RollbackDone(p)
    <2>1. pc[p] \in Within /\ UNCHANGED <<route, stage>> /\ Fails(p, err[p])
      BY <1>7 DEF RollbackDone, job, Within, InCommit
    <2>2. QED
      BY <1>d, <2>1
  <1>8. CASE CommitClears(p) \/ Done(p)
    BY <1>8, <1>a, GotoAt DEF CommitClears, Done
  <1>9. CASE SavePendingClears(p)
    <2>1. pc[p] = "queue" /\ UNCHANGED <<route, stage>>
      BY <1>9 DEF SavePendingClears, job
    <2>2. CASE /\ pending' = Nothing /\ Goto(p, "queueCopy")
               /\ todo' = [todo EXCEPT ![p] = {f \in Files : stage[p][f] # Absent}]
      <3>1. pc'[p] = "queueCopy" /\ todo'[p] = {f \in Files : stage[p][f] # Absent}
        BY <2>2, GotoAt DEF TypeOK
      <3>2. \A f \in Files \ todo'[p] : pending'[f] = stage[p][f]
        BY <2>2, <3>1 DEF Nothing
      <3>3. QED
        BY <1>b, <2>1, <3>1, <3>2 DEF StagedAt, Within, InCommit
    <2>3. QED
      BY <1>9, <1>a, <2>2, GotoAt DEF SavePendingClears
  <1>10. CASE SavePendingCopies(p)
    <2>1. pc[p] = "queueCopy" /\ UNCHANGED <<route, stage>>
      BY <1>10 DEF SavePendingCopies, job
    <2>2. pc'[p] \in {"queueCopy", "queued", "failed"}
      BY <1>10, GotoAt DEF SavePendingCopies
    <2>3. ASSUME NEW f \in Files, pending' = [pending EXCEPT ![f] = stage[p][f]],
                 todo' = [todo EXCEPT ![p] = @ \ {f}]
          PROVE  \A g \in Files \ todo'[p] : pending'[g] = stage[p][g]
      BY <1>b, <2>1, <2>3 DEF StagedAt, TypeOK, Configs
    <2>4. pc'[p] = "queueCopy" => \A g \in Files \ todo'[p] : pending'[g] = stage[p][g]
      BY <1>10, <2>3, GotoAt DEF SavePendingCopies
    <2>5. QED
      BY <1>b, <2>1, <2>2, <2>4, <1>a DEF StagedAt, Within, InCommit
  <1>11. CASE Disconnect(p) \/ ServiceStops \/ UNCHANGED vars
    <2>1. UNCHANGED <<pc, route, stage, pending, todo>>
      BY <1>11 DEF Disconnect, ServiceStops, vars, job, tx
    <2>2. QED
      BY <1>b, <2>1 DEF StagedAt
  <1>12. ~DiscardPending /\ ~ChildDies(p) /\ ~Crash(p)
    BY DEF Undoable, DiscardPending, ChildDies, Crash
  <1>13. QED
    BY <1>1, <1>2, <1>3, <1>4, <1>5, <1>6, <1>7, <1>8, <1>9, <1>10, <1>11, <1>12
       DEF Next, Step, SingleJob

\* The configuration that the atomic save sees, where p is the only job.
View(p) == IF InFlight(p) THEN Restored(p) ELSE live

LEMMA CommittedIs ==
    ASSUME SingleJob, NEW p \in Jobs, live \in Configs
    PROVE  Committed = View(p)
  <1>1. \A q \in Jobs : q = p
    BY DEF SingleJob
  <1>2. ASSUME NEW f \in Files, InFlight(p), kept[p][f] # NotKept
        PROVE  (CHOOSE q \in Jobs : InFlight(q) /\ kept[q][f] # NotKept) = p
    BY <1>1, <1>2
  <1>3. \A f \in Files : Committed[f] = View(p)[f]
    BY <1>1, <1>2 DEF Committed, View, Restored
  <1>4. Committed = [f \in Files |-> Committed[f]] /\ View(p) = [f \in Files |-> View(p)[f]]
    BY DEF Committed, View, Restored, Configs
  <1>5. QED
    BY <1>3, <1>4

LEMMA QueueIs ==
    ASSUME SingleJob, NEW p \in Jobs
    PROVE  Queue = IF pc[p] = "queueCopy" THEN Nothing ELSE pending
  BY DEF SingleJob, Queue

\* Each step is one of the atomic save, or changes nothing it sees.
LEMMA AtomicStep ==
    ASSUME SingleJob, Undoable, TypeOK, TypeOK', AcceptInv, AcceptInv', BackupInv,
           StagedInv, [Next]_vars
    PROVE  [Atomic!Next]_<<Committed, Queue>>
  <1> USE DEF disk
  <1>a. ASSUME NEW p \in Jobs
        PROVE  /\ Committed = View(p) /\ Committed' = View(p)'
               /\ Queue = IF pc[p] = "queueCopy" THEN Nothing ELSE pending
               /\ Queue' = IF pc'[p] = "queueCopy" THEN Nothing ELSE pending'
    <2>1. live \in Configs /\ live' \in Configs
      BY DEF TypeOK
    <2>2. Committed = View(p) /\ Queue = IF pc[p] = "queueCopy" THEN Nothing ELSE pending
      BY <2>1, CommittedIs, QueueIs
    <2>3. Committed' = View(p)'
      <3>1. \A q \in Jobs : q = p
        BY DEF SingleJob
      <3>2. ASSUME NEW f \in Files, InFlight(p)', kept'[p][f] # NotKept
            PROVE  (CHOOSE q \in Jobs : InFlight(q)' /\ kept'[q][f] # NotKept) = p
        BY <3>1, <3>2
      <3>3. \A f \in Files : Committed'[f] = View(p)'[f]
        BY <3>1, <3>2 DEF Committed, View, Restored
      <3>4. /\ Committed' = [f \in Files |-> Committed'[f]]
            /\ View(p)' = [f \in Files |-> View(p)'[f]]
        BY <2>1 DEF Committed, View, Restored, Configs
      <3>5. QED
        BY <3>3, <3>4
    <2>4. Queue' = IF pc'[p] = "queueCopy" THEN Nothing ELSE pending'
      BY DEF SingleJob, Queue
    <2>5. QED
      BY <2>2, <2>3, <2>4
  <1>b. ASSUME NEW p \in Jobs, UNCHANGED <<live, pending>>, ~InFlight(p), ~InFlight(p)',
               pc[p] # "queueCopy", pc'[p] # "queueCopy"
        PROVE  UNCHANGED <<Committed, Queue>>
    BY <1>a, <1>b DEF View
  <1>c. ASSUME NEW p \in Jobs, InFlight(p), InFlight(p)', Restored(p)' = Restored(p),
               UNCHANGED pending
        PROVE  UNCHANGED <<Committed, Queue>>
    BY <1>a, <1>c DEF View, InFlight
  <1>1. ASSUME NEW p \in Jobs,
               Save(p) \/ ApplyPending(p) \/ CheckStaging(p) \/ Elevate(p) \/ CommitCheck(p)
        PROVE  UNCHANGED <<Committed, Queue>>
    <2>1. UNCHANGED <<live, pending>> /\ pc[p] \in {"idle", "checkStaging", "uac", "check"}
      BY <1>1 DEF Save, ApplyPending, CheckStaging, Elevate, CommitCheck
    <2>2. pc'[p] \in {"checkStaging", "uac", "check", "stop", "failed", "queue"}
      <3>1. Save(p) \/ ApplyPending(p) \/ CheckStaging(p) => pc'[p] \in {"checkStaging", "uac", "check", "failed"}
        BY GotoAt DEF Save, ApplyPending, CheckStaging
      <3>2. Elevate(p) => pc'[p] \in {"check", "queue", "failed"}
        BY GotoAt DEF Elevate
      <3>3. CommitCheck(p) => pc'[p] \in {"stop", "failed", "queue", "uac"}
        BY GotoAt, FailsAt DEF CommitCheck
      <3>4. QED
        BY <1>1, <3>1, <3>2, <3>3
    <2>3. QED
      BY <1>b, <2>1, <2>2 DEF InFlight
  <1>2. ASSUME NEW p \in Jobs, CommitStop(p) PROVE UNCHANGED <<Committed, Queue>>
    <2>1. UNCHANGED <<live, pending>> /\ pc[p] = "stop"
      BY <1>2 DEF CommitStop
    <2>2. CASE Fails(p, "other")
      BY <1>b, <2>1, <2>2, FailsAt DEF InFlight
    <2>3. CASE Goto(p, "backup") /\ UNCHANGED kept
      <3>1. kept[p] = NoneKept /\ pc'[p] = "backup"
        BY <2>1, <2>3, GotoAt DEF AcceptInv, InFlight
      <3>2. Restored(p)' = live
        BY <2>1, <2>3, <3>1 DEF Restored, NoneKept, TypeOK, Configs
      <3>3. QED
        BY <1>a, <2>1, <3>1, <3>2 DEF View, InFlight
    <2>4. QED
      BY <1>2, <2>2, <2>3 DEF CommitStop
  <1>3. ASSUME NEW p \in Jobs, CommitBackup(p) \/ CommitWrite(p)
        PROVE  UNCHANGED <<Committed, Queue>>
    <2>1. UNCHANGED pending /\ pc[p] \in {"backup", "write"}
      BY <1>3 DEF CommitBackup, CommitWrite
    <2>2. pc'[p] \in {"write", "undo", "postCheck", "backup"}
      BY <1>3, GotoAt DEF CommitBackup, CommitWrite, BackedUp, Written, WriteFails
    <2>3. CASE UNCHANGED <<live, kept>>
      BY <1>c, <2>1, <2>2, <2>3 DEF InFlight, Restored
    <2>4. ASSUME NEW f \in Files, pc[p] = "write", NextFile(f, todo[p]), Written(p, f)
          PROVE  Restored(p)' = Restored(p)
      <3>1. bak[p] = live[f] /\ kept[p][f] = NotKept
        BY <2>4 DEF BackupInv, AcceptInv, NextFile
      <3>2. \A g \in Files : /\ kept'[p][g] = IF g = f THEN live[f] ELSE kept[p][g]
                             /\ g # f => live'[g] = live[g]
        BY <2>4, <3>1 DEF Written, TypeOK, Configs
      <3>3. live[f] # NotKept
        BY ContentsAssumption DEF TypeOK, Configs
      <3>4. QED
        BY <3>1, <3>2, <3>3 DEF Restored
    <2>5. CASE pc[p] = "write" /\ \E f \in Files : NextFile(f, todo[p]) /\ Written(p, f)
      BY <1>c, <2>1, <2>2, <2>4, <2>5 DEF InFlight
    <2>6. QED
      BY <1>3, <2>3, <2>5 DEF CommitBackup, CommitWrite, BackedUp, WriteFails, SetErr
  <1>4. ASSUME NEW p \in Jobs, PostCheck(p) PROVE UNCHANGED <<Committed, Queue>>
    <2>1. UNCHANGED <<live, pending, kept>> /\ pc[p] = "postCheck"
      BY <1>4 DEF PostCheck, SetErr, tx
    <2>2. pc'[p] \in {"start", "undoRestart"}
      BY <1>4, GotoAt DEF PostCheck
    <2>3. QED
      BY <1>c, <2>1, <2>2 DEF InFlight, Restored
  <1>5. ASSUME NEW p \in Jobs, CommitStart(p) PROVE [Atomic!Next]_<<Committed, Queue>>
    <2>1. UNCHANGED <<live, pending, kept>> /\ pc[p] = "start"
      BY <1>5 DEF CommitStart, SetErr, tx
    <2>2. CASE pc'[p] = "committed"
      <3>1. Committed' = live /\ live \in Accepted /\ UNCHANGED Queue
        BY <1>a, <2>1, <2>2 DEF View, InFlight, AcceptInv
      <3>2. QED
        BY <3>1 DEF Atomic!Next, Atomic!Install
    <2>3. CASE pc'[p] = "undoRestart"
      BY <1>c, <2>1, <2>3 DEF InFlight, Restored
    <2>4. QED
      BY <1>5, <2>2, <2>3, GotoAt DEF CommitStart
  <1>6. ASSUME NEW p \in Jobs, RollbackFile(p) PROVE UNCHANGED <<Committed, Queue>>
    <2>1. PICK f \in Files :
            /\ kept[p][f] \in Contents
            /\ live' = [live EXCEPT ![f] = kept[p][f]]
            /\ kept' = [kept EXCEPT ![p] = [@ EXCEPT ![f] = NotKept]]
      BY <1>6 DEF RollbackFile, LastFile, Replaced, Undoable
    <2>2. \A g \in Files :
            /\ live'[g] = IF g = f THEN kept[p][f] ELSE live[g]
            /\ kept'[p][g] = IF g = f THEN NotKept ELSE kept[p][g]
      BY <2>1 DEF TypeOK, Configs
    <2>3. Restored(p)' = Restored(p)
      BY <2>1, <2>2, ContentsAssumption DEF Restored
    <2>4. QED
      BY <1>6, <1>c, <2>3 DEF RollbackFile, InFlight
  <1>7. ASSUME NEW p \in Jobs, RollbackDone(p) PROVE [Atomic!Next]_<<Committed, Queue>>
    <2>1. InFlight(p) /\ UNCHANGED <<live, pending>> /\ Replaced(p) = {} /\ pc[p] # "queueCopy"
      BY <1>7 DEF RollbackDone, InFlight
    <2>2. pc'[p] \in {"failed", "queue", "uac"}
      BY <1>7, FailsAt DEF RollbackDone
    <2>3. Committed = Restored(p) /\ Committed' = live /\ UNCHANGED Queue
      BY <1>a, <2>1, <2>2 DEF View, InFlight
    <2>4. \A f \in Files : Restored(p)[f] \in {Absent, live[f]}
      BY <2>1 DEF Restored, Replaced, TypeOK
    <2>5. QED
      BY <2>3, <2>4 DEF Atomic!Next, Atomic!Leave, TypeOK
  <1>8. ASSUME NEW p \in Jobs, CommitClears(p) \/ SavePendingClears(p)
        PROVE  [Atomic!Next]_<<Committed, Queue>>
    <2>1. UNCHANGED live /\ pc[p] \in {"committed", "reclear", "queue"}
      BY <1>8 DEF CommitClears, SavePendingClears
    <2>2. pc'[p] \in {"reclear", "applied", "queueCopy", "failed"}
      BY <1>8, GotoAt DEF CommitClears, SavePendingClears
    <2>3. pending' = Nothing
      BY <1>8 DEF CommitClears, SavePendingClears, ClearPending, Undoable, Nothing
    <2>4. Queue' = Nothing /\ UNCHANGED Committed
      BY <1>a, <2>1, <2>2, <2>3 DEF View, InFlight
    <2>5. QED
      BY <2>4 DEF Atomic!Next, Atomic!Dequeue, Atomic!Nothing, Nothing
  <1>9. ASSUME NEW p \in Jobs, SavePendingCopies(p) PROVE [Atomic!Next]_<<Committed, Queue>>
    <2>1. UNCHANGED live /\ pc[p] = "queueCopy"
      BY <1>9 DEF SavePendingCopies
    <2>2. PICK f \in Files :
            /\ NextFile(f, todo[p])
            /\ pending' = [pending EXCEPT ![f] = stage[p][f]]
            /\ Goto(p, IF todo[p] = {f} THEN "queued" ELSE "queueCopy")
      BY <1>9 DEF SavePendingCopies, Undoable
    <2>3. UNCHANGED Committed
      BY <1>a, <2>1, <2>2, GotoAt DEF View, InFlight
    <2>4. CASE todo[p] # {f}
      BY <1>a, <2>1, <2>2, <2>3, <2>4, GotoAt
    <2>5. CASE todo[p] = {f}
      <3>1. \A g \in Files : pending'[g] = stage[p][g]
        BY <2>1, <2>2, <2>5 DEF StagedInv, StagedAt, TypeOK, Configs
      <3>2. pending' = stage[p]
        BY <3>1 DEF TypeOK, Configs
      <3>3. stage[p] \in Accepted
        BY <2>1 DEF StagedInv, StagedAt
      <3>4. Queue' = pending'
        BY <1>a, <2>2, <2>5, GotoAt
      <3>5. QED
        BY <2>3, <3>2, <3>3, <3>4 DEF Atomic!Next, Atomic!Enqueue
    <2>6. QED
      BY <2>4, <2>5
  <1>10. ASSUME NEW p \in Jobs, Done(p) PROVE UNCHANGED <<Committed, Queue>>
    <2>1. UNCHANGED <<live, pending>> /\ pc[p] \in {"applied", "queued", "failed"} /\ pc'[p] = "idle"
      BY <1>10, GotoAt DEF Done
    <2>2. QED
      BY <1>b, <2>1 DEF InFlight
  <1>11. CASE ServiceStops \/ UNCHANGED vars \/ \E p \in Jobs : Disconnect(p)
    <2>1. UNCHANGED <<live, pending, pc, kept>>
      BY <1>11 DEF ServiceStops, Disconnect, vars, tx
    <2>2. QED
      BY <2>1 DEF Committed, Queue, InFlight
  <1>12. ~DiscardPending /\ \A p \in Jobs : ~ChildDies(p) /\ ~Crash(p)
    BY DEF Undoable, DiscardPending, ChildDies, Crash
  <1>13. QED
    BY <1>1, <1>2, <1>3, <1>4, <1>5, <1>6, <1>7, <1>8, <1>9, <1>10, <1>11, <1>12 DEF Next, Step

LEMMA AtomicInit == Init => Atomic!Init
  <1> SUFFICES ASSUME Init PROVE Atomic!Init
    OBVIOUS
  <1>1. \A p \in Jobs : ~InFlight(p) /\ pc[p] # "queueCopy"
    BY DEF Init, InFlight
  <1>2. live \in Accepted /\ live \in Configs /\ pending = Nothing
    BY AcceptedAssumption DEF Init
  <1>3. Committed = live
    BY <1>1, <1>2 DEF Committed, Configs
  <1>4. Queue = Nothing
    BY <1>1, <1>2 DEF Queue
  <1>5. QED
    BY <1>2, <1>3, <1>4 DEF Atomic!Init, Atomic!Nothing, Nothing

\* Commit, with its rollback, its elevated child and the queue, implements the
\* save of SettingsAtomic for every number of files: all of a checked
\* configuration is put in place or queued, or every file is as it was.
THEOREM CommitIsAtomic ==
    ASSUME SingleJob, Undoable
    PROVE  Spec => SavesAreAtomic
  <1>1. Reliable
    BY DEF Undoable, Reliable
  <1>2. Init => TypeOK /\ BackupInv /\ AcceptInv /\ StagedInv
    BY TypeInit, BackupInit, AcceptInit, StagedInit
  <1>3. TypeOK /\ BackupInv /\ AcceptInv /\ StagedInv /\ [Next]_vars
          => (TypeOK /\ BackupInv /\ AcceptInv /\ StagedInv)'
    BY <1>1, TypeStep, BackupStep, AcceptStep, StagedStep
  <1>4. /\ TypeOK /\ TypeOK' /\ AcceptInv /\ AcceptInv' /\ BackupInv /\ StagedInv /\ [Next]_vars
        => [Atomic!Next]_<<Committed, Queue>>
    BY AtomicStep
  <1>5. QED
    BY <1>2, <1>3, <1>4, AtomicInit, PTL DEF Spec, SavesAreAtomic, Atomic!Spec
=============================================================================
