---------------------------- MODULE ProxyInstall ----------------------------
(***************************************************************************)
(* Installing or updating dnscrypt-proxy (apply/apply.go, apply/files.go): *)
(* Runtime.Install asks for elevation where it must, and Applier.Apply     *)
(* downloads and verifies the archive, checks the new binary against the   *)
(* existing toml, stops the service, replaces the binary, checks again,    *)
(* registers and starts the service and points the system DNS at it.       *)
(*                                                                         *)
(* A job is one Install, of the tray or of -install, which does not take   *)
(* the tray's lock.  A version stands for the binary an archive holds, and *)
(* for the example toml that comes with it.                                *)
(***************************************************************************)
EXTENDS Naturals, FiniteSets

CONSTANTS
    Jobs,        \* installs
    Versions,    \* dnscrypt-proxy releases
    Absent,      \* no such file
    Compatible,  \* <<v, t>> such that the binary of v accepts the toml of t
    Managed,     \* manage_service and not -no-service
    SetsDNS,     \* set_system_dns and not -no-dns, on Windows
    CanElevate,  \* Windows, and this process is not elevated
    LockedExe,   \* Windows: the executable of a running service is locked
    Faults       \* what the environment may do, see FaultKinds

FaultKinds ==
    { "download",  \* download, minisign verification or extraction fails
      "check",     \* -check fails for a reason of its own
      "query",     \* the service query does not see the service
      "stop",      \* the service is not stopped when the command returns
      "write",     \* the copy of the old or the new binary fails
      "config",    \* a copy of one of the other files fails
      "restore",   \* the copy back from .old fails
      "register",  \* -service install fails
      "start",     \* the service cannot be started
      "exit",      \* the proxy exits before it is up
      "edit",      \* somebody saves another toml
      "dns",       \* the adapters cannot be set
      "crash" }    \* the process is killed

\* The faults the history of which the properties look at.
Mishaps == {"query", "config", "restore", "exit", "edit", "crash"}

ASSUME VersionsAssumption == Versions # {} /\ Absent \notin Versions
ASSUME InstallModeAssumption ==
    /\ {Managed, SetsDNS, CanElevate, LockedExe} \subseteq BOOLEAN
    /\ Faults \subseteq FaultKinds
\* A release accepts the example configuration that comes with it.
ASSUME CompatibleAssumption ==
    /\ Compatible \subseteq Versions \X Versions
    /\ \A v \in Versions : <<v, v>> \in Compatible

VARIABLES
    bin,     \* the executable in the install dir
    old,     \* its .old copy
    toml,    \* dnscrypt-proxy.toml in the install dir
    pkg,     \* the executable of a package manager, elsewhere
    svc,     \* the state of the dnscrypt-proxy service
    site,    \* the copy the service is registered on
    loaded,  \* the version the service runs, or was last started on
    dns,     \* where the system resolves names
    pc,      \* where each install is
    ver,     \* the version its archive holds
    backup,  \* whether it has made a .old copy
    ran,      \* history: the version the service was last up with
    unproven, \* history: the binary last copied to .old was another
    mishaps   \* history: what got in the way of taking a binary back

dir == <<bin, old, toml>>
service == <<svc, site, loaded>>
local == <<ver, backup>>
proof == <<ran, unproven>>
vars == <<dir, pkg, service, dns, pc, local, proof, mishaps>>

PCs == {"idle", "uac", "download", "preCheck", "stop", "backup", "write", "toml",
        "postCheck", "register", "start", "restart", "dns", "done", "failed"}

TypeOK ==
    /\ bin \in Versions \cup {Absent}
    /\ old \in Versions \cup {Absent}
    /\ toml \in Versions \cup {Absent}
    /\ pkg \in Versions \cup {Absent}
    /\ svc \in {"none", "stopped", "stopping", "starting", "running"}
    /\ site \in {"dest", "package"}
    /\ loaded \in Versions \cup {Absent}
    /\ dns \in {"system", "loopback"}
    /\ pc \in [Jobs -> PCs]
    /\ ver \in [Jobs -> Versions \cup {Absent}]
    /\ backup \in [Jobs -> BOOLEAN]
    /\ ran \in Versions \cup {Absent}
    /\ unproven \in BOOLEAN
    /\ mishaps \subseteq Mishaps \cap Faults
    /\ svc = "none" => loaded = Absent /\ ran = Absent
    /\ \A p \in Jobs : backup[p] => old # Absent

\* The new binary is in place and the service has not been started.
Replaced == {"toml", "postCheck", "register", "start"}

Accepts(v, t) == v = Absent \/ t = Absent \/ <<v, t>> \in Compatible
Registered == IF site = "dest" THEN bin ELSE pkg

\* Nothing is installed yet, or a proxy that accepts its configuration is, with
\* or without a service, in the install dir or by a package manager.
Init ==
    /\ bin \in Versions \cup {Absent}
    /\ toml \in Versions \cup {Absent}
    /\ bin # Absent => toml # Absent
    /\ Accepts(bin, toml)
    /\ old = Absent
    /\ pkg \in Versions \cup {Absent}
    /\ site \in {"dest", "package"}
    /\ svc \in IF Registered = Absent THEN {"none"} ELSE {"none", "stopped", "running"}
    /\ site = "package" => svc # "none"
    /\ loaded = IF svc = "none" THEN Absent ELSE Registered
    /\ dns = "system"
    /\ pc = [p \in Jobs |-> "idle"]
    /\ ver = [p \in Jobs |-> Absent]
    /\ backup = [p \in Jobs |-> FALSE]
    /\ ran = loaded /\ unproven = FALSE
    /\ mishaps = {}

-----------------------------------------------------------------------------
(* Vocabulary *)

Goto(p, label) == pc' = [pc EXCEPT ![p] = label]
Happens(kind) == kind \in Faults /\ mishaps' = mishaps \cup {kind}
SetBackup(p, b) == backup' = [backup EXCEPT ![p] = b] /\ UNCHANGED ver

Checks(v, t) == Accepts(v, t)
CheckFails(v, t) == ~Accepts(v, t) \/ "check" \in Faults

\* A locked executable cannot be replaced.
Busy == LockedExe /\ site = "dest" /\ svc \in {"starting", "running", "stopping"}

\* sc start returns as soon as the service is starting; of one that is starting,
\* running or still stopping it reports "already running".
StartService ==
    /\ svc # "none"
    /\ IF svc = "stopped"
         THEN svc' = "starting" /\ loaded' = Registered /\ UNCHANGED site
         ELSE UNCHANGED service
StartServiceFails ==
    /\ svc = "none" \/ "start" \in Faults
    /\ UNCHANGED service

\* restoreBackup, whose error is ignored.
RestoreBackup(p) ==
    /\ \/ backup[p] /\ ~Busy /\ bin' = old /\ UNCHANGED mishaps
       \/ (~backup[p] \/ Busy) /\ UNCHANGED <<bin, mishaps>>
       \/ backup[p] /\ Happens("restore") /\ UNCHANGED bin
    /\ UNCHANGED <<old, toml>>

-----------------------------------------------------------------------------
(* Runtime.Install *)

Install(p) ==
    /\ pc[p] = "idle"
    /\ Goto(p, IF CanElevate THEN "uac" ELSE "download")
    /\ UNCHANGED <<dir, pkg, mishaps, service, dns, local, proof>>

\* The elevated child runs the whole install; declining ends it here.
Prompt(p) ==
    /\ pc[p] = "uac"
    /\ Goto(p, "download") \/ Goto(p, "failed")
    /\ UNCHANGED <<dir, pkg, mishaps, service, dns, local, proof>>

-----------------------------------------------------------------------------
(* Applier.Apply *)

Download(p) ==
    /\ pc[p] = "download"
    /\ \/ /\ \E v \in Versions : ver' = [ver EXCEPT ![p] = v]
          /\ Goto(p, "preCheck")
       \/ "download" \in Faults /\ Goto(p, "failed") /\ UNCHANGED ver
    /\ UNCHANGED <<dir, pkg, mishaps, service, dns, backup, proof>>

PreCheck(p) ==
    /\ pc[p] = "preCheck"
    /\ \/ Checks(ver[p], toml) /\ Goto(p, "stop")
       \/ toml # Absent /\ CheckFails(ver[p], toml) /\ Goto(p, "failed")
    /\ UNCHANGED <<dir, pkg, mishaps, service, dns, local, proof>>

\* The service is stopped when a binary is known and the query sees it running,
\* which it does not of one that is starting or stopping; an error of the query
\* or of the stop is not one of the install.
Stop(p) ==
    /\ pc[p] = "stop"
    /\ Goto(p, "backup")
    /\ \/ /\ Managed /\ svc = "running" /\ (bin # Absent \/ pkg # Absent)
          /\ svc' \in {"stopped"} \cup
                (IF "stop" \in Faults THEN {"running", "stopping"} ELSE {})
          /\ UNCHANGED mishaps
       \/ /\ \/ ~Managed
             \/ svc # "running"
             \/ bin = Absent /\ pkg = Absent
          /\ UNCHANGED <<svc, mishaps>>
       \/ Managed /\ svc = "running" /\ Happens("query") /\ UNCHANGED svc
    /\ UNCHANGED <<dir, pkg, site, loaded, dns, local, proof>>

\* A bug: the path of the backup is returned without the backup.
BackUp_NotCopied(p) ==
    /\ pc[p] = "backup"
    /\ Goto(p, "write")
    /\ SetBackup(p, bin # Absent)
    /\ UNCHANGED <<dir, pkg, mishaps, service, dns, proof>>

BackUp(p) ==
    /\ pc[p] = "backup"
    /\ \/ /\ Goto(p, "write")
          /\ IF bin = Absent
               THEN UNCHANGED <<old, unproven>>
               ELSE old' = bin /\ unproven' = (bin # ran)
          /\ SetBackup(p, bin # Absent)
       \/ /\ "write" \in Faults
          /\ Goto(p, "failed")
          /\ UNCHANGED <<old, local, unproven>>
    /\ UNCHANGED <<bin, toml, pkg, mishaps, service, dns, ran>>

WriteBinary(p) ==
    /\ pc[p] = "write"
    /\ \/ ~Busy /\ bin' = ver[p] /\ Goto(p, "toml")
       \/ (Busy \/ "write" \in Faults) /\ Goto(p, "failed") /\ UNCHANGED bin
    /\ UNCHANGED <<old, toml, pkg, mishaps, service, dns, local, proof>>

\* A bug: the example replaces a live configuration.
CopyToml_Overwrites(p) ==
    /\ pc[p] = "toml"
    /\ toml' = ver[p]
    /\ Goto(p, "postCheck")
    /\ UNCHANGED <<bin, old, pkg, mishaps, service, dns, local, proof>>

\* The other files: a live configuration is never overwritten; without one, the
\* example is it.  An error here leaves the new binary in place.
CopyToml(p) ==
    /\ pc[p] = "toml"
    /\ \/ /\ toml' = IF toml = Absent THEN ver[p] ELSE toml
          /\ Goto(p, "postCheck")
          /\ UNCHANGED mishaps
       \/ Happens("config") /\ Goto(p, "failed") /\ UNCHANGED toml
    /\ UNCHANGED <<bin, old, pkg, service, dns, local, proof>>

\* A bug: a binary that is refused stays.
PostCheck_NoRestore(p) ==
    /\ pc[p] = "postCheck"
    /\ \/ Checks(bin, toml) /\ Goto(p, IF Managed THEN "register" ELSE "dns")
       \/ CheckFails(bin, toml) /\ Goto(p, "failed")
    /\ UNCHANGED <<dir, pkg, mishaps, service, dns, local, proof>>

PostCheck(p) ==
    /\ pc[p] = "postCheck"
    /\ \/ /\ Checks(bin, toml)
          /\ Goto(p, IF Managed THEN "register" ELSE "dns")
          /\ UNCHANGED <<dir, mishaps>>
       \/ /\ CheckFails(bin, toml)
          /\ RestoreBackup(p)
          /\ Goto(p, "failed")
    /\ UNCHANGED <<pkg, service, dns, local, proof>>

\* A bug: a service that exists is taken to run.
Register_Only(p) ==
    /\ pc[p] = "register"
    /\ \/ svc # "none" /\ Goto(p, "dns") /\ UNCHANGED service
       \/ /\ svc = "none"
          /\ svc' = "stopped" /\ site' = "dest" /\ UNCHANGED loaded
          /\ Goto(p, "start")
    /\ UNCHANGED <<dir, pkg, mishaps, dns, local, proof>>

\* A service the query does not see is registered, which fails if it exists.
Register(p) ==
    /\ pc[p] = "register"
    /\ \/ svc # "none" /\ Goto(p, "start") /\ UNCHANGED <<service, mishaps>>
       \/ /\ svc = "none"
          /\ svc' = "stopped" /\ site' = "dest" /\ UNCHANGED <<loaded, mishaps>>
          /\ Goto(p, "start")
       \/ /\ \/ svc = "none" /\ "register" \in Faults /\ UNCHANGED mishaps
             \/ svc # "none" /\ Happens("query")
          /\ Goto(p, "failed")
          /\ UNCHANGED service
    /\ UNCHANGED <<dir, pkg, dns, local, proof>>

\* A bug: a binary that does not start stays.
Start_NoRestore(p) ==
    /\ pc[p] = "start"
    /\ \/ StartService /\ Goto(p, "dns")
       \/ StartServiceFails /\ Goto(p, "failed")
    /\ UNCHANGED <<dir, pkg, mishaps, dns, local, proof>>

Start(p) ==
    /\ pc[p] = "start"
    /\ \/ StartService /\ Goto(p, "dns") /\ UNCHANGED <<dir, mishaps>>
       \/ /\ StartServiceFails
          /\ RestoreBackup(p)
          /\ Goto(p, IF backup[p] THEN "restart" ELSE "failed")
    /\ UNCHANGED <<pkg, dns, local, proof>>

Restart(p) ==
    /\ pc[p] = "restart"
    /\ StartService \/ StartServiceFails
    /\ Goto(p, "failed")
    /\ UNCHANGED <<dir, pkg, mishaps, dns, local, proof>>

SetLoopback(p) ==
    /\ pc[p] = "dns"
    /\ Goto(p, "done")
    /\ \/ SetsDNS /\ dns' = "loopback"
       \/ (~SetsDNS \/ "dns" \in Faults) /\ UNCHANGED dns
    /\ UNCHANGED <<dir, pkg, mishaps, service, local, proof>>

Done(p) ==
    /\ pc[p] \in {"done", "failed"}
    /\ Goto(p, "idle")
    /\ ver' = [ver EXCEPT ![p] = Absent]
    /\ backup' = [backup EXCEPT ![p] = FALSE]
    /\ UNCHANGED <<dir, pkg, mishaps, service, dns, proof>>

-----------------------------------------------------------------------------
(* The environment *)

Crash(p) ==
    /\ pc[p] # "idle"
    /\ Happens("crash")
    /\ Goto(p, "idle")
    /\ ver' = [ver EXCEPT ![p] = Absent]
    /\ backup' = [backup EXCEPT ![p] = FALSE]
    /\ UNCHANGED <<dir, pkg, service, dns, proof>>

ServiceStops ==
    /\ svc = "stopping"
    /\ svc' = "stopped"
    /\ UNCHANGED <<dir, pkg, mishaps, site, loaded, dns, pc, local, proof>>

\* The service is up some time after sc start has returned, or never.
ServiceRuns ==
    /\ svc = "starting"
    /\ svc' = "running"
    /\ ran' = loaded /\ unproven' = (bin # loaded)
    /\ UNCHANGED <<dir, pkg, mishaps, site, loaded, dns, pc, local>>
ServiceExits ==
    /\ svc = "starting"
    /\ Happens("exit")
    /\ svc' = "stopped"
    /\ UNCHANGED <<dir, pkg, site, loaded, dns, pc, local, proof>>

\* A toml that the binary in place accepts is saved without a restart of the
\* service, at any time.  The new binary's .old copy may refuse it.
Edit ==
    /\ "edit" \in Faults
    /\ bin # Absent /\ toml # Absent
    /\ \E t \in Versions : Accepts(bin, t) /\ toml' = t
    /\ IF \E p \in Jobs : pc[p] \in Replaced
         THEN Happens("edit")
         ELSE UNCHANGED mishaps
    /\ UNCHANGED <<bin, old, pkg, service, dns, pc, local, proof>>

Step(p) ==
    \/ Prompt(p) \/ Download(p) \/ PreCheck(p) \/ Stop(p)
    \/ BackUp(p) \/ WriteBinary(p) \/ CopyToml(p) \/ PostCheck(p)
    \/ Register(p) \/ Start(p) \/ Restart(p) \/ SetLoopback(p) \/ Done(p)

Next ==
    \/ \E p \in Jobs : Install(p) \/ Step(p) \/ Crash(p)
    \/ ServiceStops \/ ServiceRuns \/ ServiceExits \/ Edit

Spec == Init /\ [][Next]_vars

-----------------------------------------------------------------------------
(* Properties *)

\* "The previous exe is kept as dnscrypt-proxy.exe.old": whatever fails, is killed
\* or exits, the version the service was last up with is the binary or its .old
\* copy, until an install copies a binary to .old that the service was never up
\* with.  Such a binary is only there when a mishap has kept an earlier install
\* from taking it back, or while the service is starting on it.
PreviousKept ==
    site = "dest" /\ ran # Absent =>
      /\ ran \in {bin, old} \/ unproven
      /\ Managed /\ unproven => mishaps # {} \/ svc = "starting"

\* No install is killed, fails between the new binary and its check, or fails to
\* copy the old one back, and the toml is not changed under a new binary that may
\* yet be taken back.
ChecksReached == mishaps \cap {"crash", "config", "restore", "edit"} = {}

\* Between installs, the binary in the install dir accepts the configuration in
\* it: a version that -check refuses is taken back (Apply's two checks), also when
\* the toml was edited between the checks.
LeavesAcceptedBinary ==
    ChecksReached /\ (\A p \in Jobs : pc[p] \in {"idle", "done", "failed"})
      => Accepts(bin, toml)

\* The service is never started on a binary of the install dir that refuses its
\* configuration, not even after a start that failed and was taken back.
StartsAccepted ==
    [][ChecksReached' /\ site' = "dest" /\ svc # "starting" /\ svc' = "starting"
         => Accepts(loaded', toml')]_vars

\* An install that reports success ("Updated dnscrypt-proxy to ... service
\* running") has started the service on what it installed, unless the service is
\* registered on another copy of the proxy.  Whether it is up by then, or ever,
\* nobody waits to see.
InstalledRuns ==
    \A p \in Jobs :
        Managed /\ site = "dest" /\ pc[p] = "done" =>
          /\ loaded = ver[p]
          /\ svc \in {"starting", "running"} \/ "exit" \in mishaps

=============================================================================
