--------------------------- MODULE SettingsCommit ---------------------------
(***************************************************************************)
(* Saving dnscrypt-proxy settings: the staged save of the settings page    *)
(* (settingsui/server.go, proxyconf/apply.go), the elevated child that     *)
(* commits for an unprivileged parent (app/settings.go) and the queue of   *)
(* pending settings (proxyconf/pending.go).                                *)
(*                                                                         *)
(* A job p is one run of that code: an HTTP apply request (p in Savers) or *)
(* an "Apply pending settings" of the tray or of -apply-pending (p in      *)
(* Appliers).  Apply requests exclude each other through Server.mu;        *)
(* nothing excludes an applier from a saver.  Files are numbered in the    *)
(* order in which os.ReadDir lists the names commitName accepts.           *)
(***************************************************************************)
EXTENDS Naturals, FiniteSets

CONSTANTS
    Savers,      \* jobs of POST /api/apply
    Appliers,    \* jobs of ApplyPending
    NFiles,      \* the toml and the companion list files
    Toml,        \* the index of dnscrypt-proxy.toml among them
    Contents,    \* what a file may hold
    Absent,      \* the file does not exist
    NotKept,     \* Commit has not replaced the file
    Accepted,    \* the configurations dnscrypt-proxy -check accepts
    Managed,     \* manage_service
    CanElevate,  \* Windows, and this process is not elevated
    Faults       \* what the environment may do, see FaultKinds

Files   == 1 .. NFiles
Jobs    == Savers \cup Appliers
Configs == [Files -> Contents \cup {Absent}]
Nothing == [f \in Files |-> Absent]
NoneKept == [f \in Files |-> NotKept]

FaultKinds ==
    { "write",       \* a copy into the install dir fails
      "stop",        \* sc stop fails, or returns while the service is stopping
      "start",       \* sc start reports an error
      "rollback",    \* a copy back from a backup fails
      "clear",       \* os.RemoveAll leaves some files of the queue behind
      "queue",       \* a copy into the pending directory fails
      "disconnect",  \* the browser goes away during a save
      "childDies",   \* the elevated child is killed
      "crash",       \* the whole process is killed
      "discard" }    \* the user discards the queue from the page

ASSUME FilesAssumption == NFiles \in Nat \ {0} /\ Toml \in Files
ASSUME ContentsAssumption ==
    /\ Absent \notin Contents
    /\ NotKept \notin Contents \cup {Absent}
    /\ Contents # {}
ASSUME ModeAssumption ==
    Managed \in BOOLEAN /\ CanElevate \in BOOLEAN /\ Faults \subseteq FaultKinds
\* -check fails without a toml, and a configuration it accepts names no file
\* that is missing: one more file cannot make it unacceptable.
ASSUME AcceptedAssumption ==
    /\ Accepted \subseteq Configs
    /\ \A c \in Accepted :
         /\ c[Toml] # Absent
         /\ \A d \in Configs :
              (\A f \in Files : c[f] \in {Absent, d[f]}) => d \in Accepted

VARIABLES
    live,     \* the files of the install dir
    backups,  \* the contents of each file's timestamped .bak copies
    pending,  \* the files of the pending directory
    svc,      \* the state of the dnscrypt-proxy service
    loaded,   \* the files the service runs on, or last ran on
    pc,       \* where each job is
    \* A job's request: which handler it is, its staging directory, whether an
    \* elevated child commits for it, whether its client has gone away.
    route, stage, elev, gone,
    \* The locals of Commit: the files left to copy, the backup of the next one,
    \* what each replaced file held before, the error to return.
    todo, bak, kept, err

disk == <<live, backups, pending>>
service == <<svc, loaded>>
job  == <<route, stage, elev, gone>>
tx   == <<todo, bak, kept, err>>
vars == <<disk, service, pc, job, tx>>

InCommit == {"check", "stop", "backup", "write", "postCheck", "start",
             "undo", "undoRestart", "committed"}
PCs == InCommit \cup
    {"idle", "checkStaging", "uac", "reclear", "queue", "queueCopy",
     "applied", "queued", "failed"}

Errors == {"none", "check", "priv", "other"}

TypeOK ==
    /\ live \in Configs
    /\ backups \in [Files -> SUBSET Contents]
    /\ pending \in Configs
    /\ svc \in {"running", "stopping", "stopped"}
    /\ loaded \in Configs
    /\ pc \in [Jobs -> PCs]
    /\ route \in [Jobs -> {"none", "save", "pending"}]
    /\ stage \in [Jobs -> Configs]
    /\ elev \in [Jobs -> BOOLEAN]
    /\ gone \in [Jobs -> BOOLEAN]
    /\ todo \in [Jobs -> SUBSET Files]
    /\ bak \in [Jobs -> Contents \cup {Absent}]
    /\ kept \in [Jobs -> [Files -> Contents \cup {Absent, NotKept}]]
    /\ err \in [Jobs -> Errors]

\* The updater meets an installed proxy that passes -check, running or not.
Init ==
    /\ live \in Accepted
    /\ backups = [f \in Files |-> {}]
    /\ pending = Nothing
    /\ svc \in {"running", "stopped"}
    /\ loaded = live
    /\ pc = [p \in Jobs |-> "idle"]
    /\ route = [p \in Jobs |-> "none"]
    /\ stage = [p \in Jobs |-> Nothing]
    /\ elev = [p \in Jobs |-> FALSE]
    /\ gone = [p \in Jobs |-> FALSE]
    /\ todo = [p \in Jobs |-> {}]
    /\ bak = [p \in Jobs |-> Absent]
    /\ kept = [p \in Jobs |-> NoneKept]
    /\ err = [p \in Jobs |-> "none"]

-----------------------------------------------------------------------------
(* Vocabulary *)

Present == pending[Toml] # Absent
Source(p) == IF route[p] = "pending" THEN pending ELSE stage[p]
\* The commands of an in-process save run under the request's context.
Connected(p) == elev[p] \/ ~gone[p]

Goto(p, label) == pc' = [pc EXCEPT ![p] = label]
NextFile(f, S) == f \in S /\ \A g \in S : f <= g
LastFile(f, S) == f \in S /\ \A g \in S : g <= f

Request(p, r, c) ==
    /\ route' = [route EXCEPT ![p] = r]
    /\ stage' = [stage EXCEPT ![p] = c]
    /\ elev' = [elev EXCEPT ![p] = FALSE]
    /\ gone' = [gone EXCEPT ![p] = FALSE]

\* Commit's locals afresh, with the error its caller got.
ResetTx(p, e) ==
    /\ todo' = [todo EXCEPT ![p] = {}]
    /\ bak' = [bak EXCEPT ![p] = Absent]
    /\ kept' = [kept EXCEPT ![p] = NoneKept]
    /\ err' = [err EXCEPT ![p] = e]

SetErr(p, e) == err' = [err EXCEPT ![p] = e] /\ UNCHANGED <<todo, bak, kept>>

\* What stopping the service leaves it in: the command cannot run for a client
\* that is gone, and its error is ignored wherever it is called.
StopService(p) ==
    /\ IF svc = "running" /\ Connected(p)
         THEN svc' \in {"stopped"} \cup
                  (IF "stop" \in Faults THEN {"running", "stopping"} ELSE {})
         ELSE UNCHANGED svc
    /\ UNCHANGED loaded

\* A service that is not stopped yet reports "already running", which counts
\* as started and changes nothing.
StartService(p) ==
    /\ Connected(p)
    /\ IF svc = "stopped" THEN svc' = "running" /\ loaded' = live ELSE UNCHANGED service
StartServiceFails(p) ==
    /\ ~Connected(p) \/ "start" \in Faults
    /\ UNCHANGED service

CheckPasses(p, c) == c \in Accepted /\ Connected(p)

\* A bug: an elevated child that fails is launched again.
AfterFailure_Retries(p, e) ==
    IF route[p] = "pending" \/ e = "check" THEN "failed"
    ELSE IF elev[p] THEN "uac"
    ELSE IF e # "priv" THEN "failed"
    ELSE IF CanElevate THEN "uac" ELSE "queue"

\* Where a job goes on when its Commit, or the elevated child, fails with e.
AfterFailure(p, e) ==
    IF route[p] = "pending" \/ e = "check" THEN "failed"
    ELSE IF elev[p] THEN "queue"
    ELSE IF e # "priv" THEN "failed"
    ELSE IF CanElevate THEN "uac" ELSE "queue"

Fails(p, e) ==
    /\ Goto(p, AfterFailure(p, e))
    /\ ResetTx(p, e)

ClearPending ==
    \E left \in IF "clear" \in Faults THEN SUBSET Files ELSE {{}} :
        pending' = [f \in Files |-> IF f \in left THEN pending[f] ELSE Absent]
-----------------------------------------------------------------------------
(* Requests *)

\* POST /api/apply: Stage builds the candidate from the live files; the toml is
\* always rewritten, the listed companions are replaced or seeded.
Save(p) ==
    /\ p \in Savers
    /\ \A q \in Savers : pc[q] = "idle"
    /\ pc[p] = "idle"
    /\ live[Toml] # Absent
    /\ \E new \in Contents, changed \in SUBSET (Files \ {Toml}) :
         Request(p, "save", [f \in Files |->
             IF f = Toml \/ f \in changed THEN new ELSE live[f]])
    /\ Goto(p, "checkStaging")
    /\ UNCHANGED <<disk, service, tx>>

CheckStaging(p) ==
    /\ pc[p] = "checkStaging"
    /\ \/ /\ CheckPasses(p, stage[p])
          /\ \E needs \in BOOLEAN :
               Goto(p, IF CanElevate /\ needs THEN "uac" ELSE "check")
          /\ UNCHANGED tx
       \/ /\ Goto(p, "failed")
          /\ SetErr(p, "check")
    /\ UNCHANGED <<disk, service, job>>

\* The tray's "Apply pending settings", or -apply-pending.
ApplyPending(p) ==
    /\ p \in Appliers
    /\ pc[p] = "idle"
    /\ Present
    /\ Request(p, "pending", Nothing)
    /\ Goto(p, IF CanElevate THEN "uac" ELSE "check")
    /\ UNCHANGED <<disk, service, tx>>

\* ShellExecuteEx "runas": the user accepts and the child runs Commit, or
\* declines, or the launch fails.  (A launch that returns no process handle,
\* which counts as a child that succeeded, is left out.)
Elevate(p) ==
    /\ pc[p] = "uac"
    /\ \/ /\ Goto(p, "check")
          /\ elev' = [elev EXCEPT ![p] = TRUE]
          /\ ResetTx(p, "none")
          /\ UNCHANGED <<route, stage, gone>>
       \/ /\ Goto(p, IF route[p] = "save" THEN "queue" ELSE "failed")
          /\ ResetTx(p, "priv")
          /\ UNCHANGED job
    /\ UNCHANGED <<disk, service>>

-----------------------------------------------------------------------------
(* Commit *)

CommitCheck(p) ==
    /\ pc[p] = "check"
    /\ \/ /\ Source(p)[Toml] # Absent
          /\ CheckPasses(p, Source(p))
          /\ Goto(p, "stop")
          /\ UNCHANGED tx
       \/ Source(p)[Toml] # Absent /\ Fails(p, "check")
       \/ Source(p)[Toml] = Absent /\ Fails(p, "other")
    /\ UNCHANGED <<disk, service, job>>

\* Bugs: only the toml is committed; the service is left running.
CommitStop_TomlOnly(p) ==
    /\ pc[p] = "stop"
    /\ todo' = [todo EXCEPT ![p] = {Toml}]
    /\ Goto(p, "backup")
    /\ IF Managed THEN StopService(p) ELSE UNCHANGED service
    /\ UNCHANGED <<disk, job, bak, kept, err>>
CommitStop_NoStop(p) ==
    /\ pc[p] = "stop"
    /\ todo' = [todo EXCEPT ![p] = {f \in Files : Source(p)[f] # Absent}]
    /\ Goto(p, "backup")
    /\ UNCHANGED <<disk, service, job, bak, kept, err>>

CommitStop(p) ==
    /\ pc[p] = "stop"
    /\ \/ /\ Source(p) = Nothing
          /\ Fails(p, "other")
          /\ UNCHANGED service
       \/ /\ Source(p) # Nothing
          /\ todo' = [todo EXCEPT ![p] = {f \in Files : Source(p)[f] # Absent}]
          /\ UNCHANGED <<bak, kept, err>>
          /\ Goto(p, "backup")
          /\ IF Managed THEN StopService(p) ELSE UNCHANGED service
    /\ UNCHANGED <<disk, job>>

\* A copy of one file succeeds at once, or once the service has been stopped
\* again, or fails: with "priv" after that second try, with "other" without it.
Copied == {"ok", "retried"}
RetryAfterStop(p, r) ==
    /\ r = "ok" \/ "write" \in Faults
    /\ IF r \in {"retried", "priv"} THEN StopService(p) ELSE UNCHANGED service

\* A bug: the error is returned without a rollback.
WriteFails_NoRollback(p, e) ==
    /\ Fails(p, e)
    /\ UNCHANGED <<live, backups>>

WriteFails(p, e) ==
    /\ Goto(p, "undo")
    /\ SetErr(p, e)
    /\ UNCHANGED <<live, backups>>

\* Bugs: a file that does not exist is backed up; only the toml is.
BackedUp_NoStat(p, f) ==
    /\ backups' = [backups EXCEPT ![f] = @ \cup {live[f]}]
    /\ bak' = [bak EXCEPT ![p] = live[f]]
    /\ Goto(p, "write")
    /\ UNCHANGED <<live, todo, kept, err>>
BackedUp_TomlOnly(p, f) ==
    /\ backups' = [backups EXCEPT ![Toml] = IF f = Toml THEN @ \cup {live[f]} ELSE @]
    /\ bak' = [bak EXCEPT ![p] = live[f]]
    /\ Goto(p, "write")
    /\ UNCHANGED <<live, todo, kept, err>>

BackedUp(p, f) ==
    /\ backups' = [backups EXCEPT ![f] = @ \cup ({live[f]} \ {Absent})]
    /\ bak' = [bak EXCEPT ![p] = live[f]]
    /\ Goto(p, "write")
    /\ UNCHANGED <<live, todo, kept, err>>

CommitBackup(p) ==
    /\ pc[p] = "backup"
    /\ \E f \in Files, r \in Copied \cup {"priv", "other"} :
         /\ NextFile(f, todo[p])
         /\ live[f] = Absent => r = "ok"
         /\ RetryAfterStop(p, r)
         /\ IF r \in Copied THEN BackedUp(p, f) ELSE WriteFails(p, r)
    /\ UNCHANGED <<pending, job>>

Written(p, f) ==
    /\ live' = [live EXCEPT ![f] = Source(p)[f]]
    /\ kept' = [kept EXCEPT ![p] = [@ EXCEPT ![f] = bak[p]]]
    /\ todo' = [todo EXCEPT ![p] = @ \ {f}]
    /\ Goto(p, IF todo[p] = {f} THEN "postCheck" ELSE "backup")
    /\ UNCHANGED <<backups, bak, err>>

\* A file that has gone from the queue cannot be read.
CommitWrite(p) ==
    /\ pc[p] = "write"
    /\ \E f \in Files, r \in Copied \cup {"priv", "other"} :
         /\ NextFile(f, todo[p])
         /\ IF Source(p)[f] = Absent
              THEN r = "other" /\ UNCHANGED service
              ELSE RetryAfterStop(p, r)
         /\ IF r \in Copied THEN Written(p, f) ELSE WriteFails(p, r)
    /\ UNCHANGED <<pending, job>>

PostCheck(p) ==
    /\ pc[p] = "postCheck"
    /\ \/ CheckPasses(p, live) /\ Goto(p, "start") /\ UNCHANGED tx
       \/ Goto(p, "undoRestart") /\ SetErr(p, "check")
    /\ UNCHANGED <<disk, service, job>>

CommitStart(p) ==
    /\ pc[p] = "start"
    /\ \/ /\ IF Managed THEN StartService(p) ELSE UNCHANGED service
          /\ Goto(p, "committed")
          /\ UNCHANGED tx
       \/ /\ Managed
          /\ StartServiceFails(p)
          /\ Goto(p, "undoRestart")
          /\ \E e \in {"priv", "other"} : SetErr(p, e)
    /\ UNCHANGED <<disk, job>>

\* A bug: the loop stops before copied[0].
Replaced_ButFirst(p) ==
    {f \in Files : /\ kept[p][f] \in Contents
                   /\ \E g \in Files : g < f /\ kept[p][g] # NotKept}

\* rollback: the replaced files come back from their backups, last one first;
\* a file that did not exist before is left where it is.
Replaced(p) == {f \in Files : kept[p][f] \in Contents}

RollbackFile(p) ==
    /\ pc[p] \in {"undo", "undoRestart"}
    /\ \E f \in Files :
         /\ LastFile(f, Replaced(p))
         /\ \/ live' = [live EXCEPT ![f] = kept[p][f]]
            \/ "rollback" \in Faults /\ UNCHANGED live
         /\ kept' = [kept EXCEPT ![p] = [@ EXCEPT ![f] = NotKept]]
    /\ UNCHANGED <<backups, pending, service, pc, job, todo, bak, err>>

RollbackDone(p) ==
    /\ pc[p] \in {"undo", "undoRestart"}
    /\ Replaced(p) = {}
    /\ IF pc[p] = "undoRestart" /\ Managed
         THEN StartService(p) \/ StartServiceFails(p)
         ELSE UNCHANGED service
    /\ Fails(p, err[p])
    /\ UNCHANGED <<disk, job>>

\* The queue is cleared by the process that committed, and once more by the
\* parent of an elevated child.
CommitClears(p) ==
    /\ pc[p] \in {"committed", "reclear"}
    /\ ClearPending
    /\ Goto(p, IF pc[p] = "committed" /\ elev[p] THEN "reclear" ELSE "applied")
    /\ ResetTx(p, "none")
    /\ UNCHANGED <<live, backups, service, job>>

-----------------------------------------------------------------------------
(* The queue of pending settings *)

SavePendingClears(p) ==
    /\ pc[p] = "queue"
    /\ ClearPending
    /\ \/ /\ pending' = Nothing
          /\ Goto(p, "queueCopy")
          /\ todo' = [todo EXCEPT ![p] = {f \in Files : stage[p][f] # Absent}]
          /\ UNCHANGED <<bak, kept, err>>
       \/ /\ "clear" \in Faults
          /\ Goto(p, "failed")
          /\ UNCHANGED tx
    /\ UNCHANGED <<live, backups, service, job>>

\* The last file is copied with the manifest, which may fail on its own.
SavePendingCopies(p) ==
    /\ pc[p] = "queueCopy"
    /\ \/ \E f \in Files :
            /\ NextFile(f, todo[p])
            /\ pending' = [pending EXCEPT ![f] = stage[p][f]]
            /\ todo' = [todo EXCEPT ![p] = @ \ {f}]
            /\ UNCHANGED <<bak, kept, err>>
            /\ \/ Goto(p, IF todo[p] = {f} THEN "queued" ELSE "queueCopy")
               \/ "queue" \in Faults /\ todo[p] = {f} /\ Goto(p, "failed")
       \/ /\ "queue" \in Faults
          /\ Goto(p, "failed")
          /\ UNCHANGED <<pending, tx>>
    /\ UNCHANGED <<live, backups, service, job>>

\* DELETE /api/pending, which does not take Server.mu.
DiscardPending ==
    /\ "discard" \in Faults
    /\ pending # Nothing
    /\ ClearPending
    /\ UNCHANGED <<live, backups, service, pc, job, tx>>

-----------------------------------------------------------------------------
(* The end of a job, and the environment *)

Done(p) ==
    /\ pc[p] \in {"applied", "queued", "failed"}
    /\ Goto(p, "idle")
    /\ Request(p, "none", Nothing)
    /\ ResetTx(p, "none")
    /\ UNCHANGED <<disk, service>>

\* net/http cancels the request's context; nothing reads it again once the
\* work has passed to a child or to the queue.
Disconnect(p) ==
    /\ "disconnect" \in Faults
    /\ pc[p] \in InCommit \cup {"checkStaging"}
    /\ route[p] = "save" /\ Connected(p)
    /\ gone' = [gone EXCEPT ![p] = TRUE]
    /\ UNCHANGED <<disk, service, pc, route, stage, elev, tx>>

ChildDies(p) ==
    /\ "childDies" \in Faults
    /\ elev[p] /\ pc[p] \in InCommit
    /\ Fails(p, "priv")
    /\ UNCHANGED <<disk, service, job>>

Crash(p) ==
    /\ "crash" \in Faults
    /\ pc[p] # "idle"
    /\ Goto(p, "idle")
    /\ Request(p, "none", Nothing)
    /\ ResetTx(p, "none")
    /\ UNCHANGED <<disk, service>>

ServiceStops ==
    /\ svc = "stopping"
    /\ svc' = "stopped"
    /\ UNCHANGED <<disk, loaded, pc, job, tx>>

\* The program's own steps, which its goroutines and processes keep taking.
Step(p) ==
    \/ CheckStaging(p) \/ Elevate(p)
    \/ CommitCheck(p) \/ CommitStop(p) \/ CommitBackup(p) \/ CommitWrite(p)
    \/ PostCheck(p) \/ CommitStart(p) \/ CommitClears(p)
    \/ RollbackFile(p) \/ RollbackDone(p)
    \/ SavePendingClears(p) \/ SavePendingCopies(p)
    \/ Done(p)

Next ==
    \/ \E p \in Jobs :
         \/ Save(p) \/ ApplyPending(p) \/ Step(p)
         \/ Disconnect(p) \/ ChildDies(p) \/ Crash(p)
    \/ DiscardPending
    \/ ServiceStops

Spec == Init /\ [][Next]_vars
FairSpec == Spec /\ \A p \in Jobs : WF_vars(Step(p))

-----------------------------------------------------------------------------
(* Properties *)

\* Every step that overwrites an existing file of the install dir has a backup
\* of what it overwrites, unless it takes back a file its own save replaced
\* (Commit's backup before copyFile, whatever fails in between).
OverwriteIsBackedUp ==
    \A f \in Files :
        live[f] # Absent /\ live'[f] # live[f] =>
          \/ live[f] \in backups[f]
          \/ \E p \in Jobs : /\ pc[p] \in {"undo", "undoRestart"}
                             /\ live'[f] = kept[p][f]
OverwritesAreBackedUp == [][OverwriteIsBackedUp]_live

\* The service never runs on a set of files that -check has not accepted as a
\* whole: not on a half-written save, nor on a half-undone one.
RunsOnlyAccepted == svc = "running" => loaded \in Accepted

\* "Saved dnscrypt-proxy.toml and restarted the service": when a save or an
\* apply of the queue reports success, the service runs on the files on disk.
RestartedOnNewFiles ==
    \A p \in Jobs : Managed /\ pc[p] \in {"committed", "reclear", "applied"} =>
        svc = "running" /\ loaded = live

\* The queue is cleared after an apply only when the bundle in it is what the
\* apply has put in the install dir (ApplyStaged, ApplyPending, finishElevated).
ClearedBundleIsLive ==
    \A p \in Jobs :
        pc[p] \in {"committed", "reclear"} /\ route[p] = "pending" =>
            \A f \in Files : pending[f] \in {Absent, live[f]}

\* Every request is answered: no outcome of the prompt, of the child or of the
\* service keeps a job going round between Commit, elevation and the queue.
Answered == \A p \in Jobs : pc[p] # "idle" ~> pc[p] = "idle"

-----------------------------------------------------------------------------
(* Commit implements an atomic save *)

InFlight(p) == pc[p] \in {"backup", "write", "postCheck", "start", "undo", "undoRestart"}

\* The configuration as of before the save in flight, and the queue as of after
\* the bundle being copied has been removed.
Committed ==
    [f \in Files |->
        IF \E p \in Jobs : InFlight(p) /\ kept[p][f] # NotKept
          THEN kept[CHOOSE p \in Jobs : InFlight(p) /\ kept[p][f] # NotKept][f]
          ELSE live[f]]
Queue == IF \E p \in Jobs : pc[p] = "queueCopy" THEN Nothing ELSE pending

Atomic == INSTANCE SettingsAtomic WITH config <- Committed, queue <- Queue

\* A save is all or nothing for every file that existed, whatever step of
\* Commit fails, what it puts in place as a whole is what -check accepted, and
\* so is what it queues ("Invalid -check results are never queued").
SavesAreAtomic == Atomic!Spec
=============================================================================
