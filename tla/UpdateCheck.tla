---------------------------- MODULE UpdateCheck ----------------------------
(***************************************************************************)
(* Watching GitHub for releases (app/runtime.go, check/check.go): polls,   *)
(* notifications, skip, snooze and install by the tray's two goroutines,   *)
(* the one that polls on a timer and the one that serves the menu, over    *)
(* the configuration and the state they share under rt.mu and keep in      *)
(* config.json and state.json.                                             *)
(*                                                                         *)
(* A release is the number of its tag, the version of which VersionOrder   *)
(* compares.  Its signed archive for this system may be uploaded after the *)
(* release is published.  An install is the part of Runtime.Install that   *)
(* touches this state, without elevation.                                  *)
(***************************************************************************)
EXTENDS VersionOrder, FiniteSets

CONSTANTS
    Threads,   \* the goroutines that poll, a subset of {"poller", "clicker"}
    MaxTag,    \* the number of releases (a bound)
    Version,   \* the version Parse reads in each tag
    MaxRev,    \* the number of answers GitHub gives under new ETags (a bound)
    Manual,    \* the versions current_version may stand for, 0 for none
    Clicked,   \* which of "skip" and "snooze" the user clicks
    Notify,    \* notify in config.json, without -no-notify
    Faults     \* what the environment may do, see FaultKinds

FaultKinds ==
    { "fetch",     \* a request to GitHub fails
      "save",      \* config.json or state.json cannot be written
      "toast",     \* the desktop shows no notification
      "unsigned",  \* a release is published before its archive is uploaded
      "apply",     \* an install fails
      "crash" }    \* the process ends and starts again

ASSUME BoundsAssumption ==
    /\ Threads \subseteq {"poller", "clicker"}
    /\ MaxTag \in Nat \ {0} /\ MaxRev \in Nat \ {0}
    /\ Version \in [1 .. MaxTag -> Versions]
    /\ Manual \subseteq 0 .. MaxTag /\ Clicked \subseteq {"skip", "snooze"}
    /\ Notify \in BOOLEAN /\ Faults \subseteq FaultKinds

Tags == 1 .. MaxTag
Tags0 == 0 .. MaxTag

\* config.State, and of config.File what the decisions read: the manual version
\* that stands in for the installed one, the skipped tag, whether it snoozes.
States == [etag : 0 .. MaxRev, tag : Tags0, asset : Tags0, notified : Tags0,
           notFound : BOOLEAN]
Configs == [current : Tags0, skip : Tags0, snoozed : BOOLEAN]
\* check.Result: the release, the archive to install, what there is to tell.
Tellings == {"nothing", "update", "notFound"}
Results == [tag : Tags0, asset : Tags0, tell : Tellings, failed : BOOLEAN]

VARIABLES
    ghTag, ghRev, ghSigned,  \* GitHub: the latest release, its ETag, its archive
    installed,    \* the installed version, 0 for none
    cfg, cfgFile, \* rt.cfg and config.json
    st, stFile,   \* rt.state and state.json
    last,         \* rt.last
    pc,           \* where each goroutine is
    for,          \* what it polls for
    myCfg, mySt,  \* its copies of cfg and st
    local,        \* the version it has detected, 0 for none
    res,          \* the result of its poll
    told,         \* the releases the user has been notified of
    toldAgain     \* those notified of once more without being asked

github == <<ghTag, ghRev, ghSigned>>
config == <<cfg, cfgFile>>
state == <<st, stFile>>
copies == <<for, local, myCfg, mySt, res>>
user == <<told, toldAgain>>
vars == <<github, installed, config, state, last, pc, copies, user>>

PCs == {"idle", "fetch", "store", "save", "notify", "mark", "saveMark", "apply", "installed"}
Purposes == {"timer", "click", "install", "installed"}

NoState == [etag |-> 0, tag |-> 0, asset |-> 0, notified |-> 0, notFound |-> FALSE]
NoConfig == [current |-> 0, skip |-> 0, snoozed |-> FALSE]
NoResult == [tag |-> 0, asset |-> 0, tell |-> "nothing", failed |-> FALSE]

TypeOK ==
    /\ ghTag \in Tags /\ ghRev \in 1 .. MaxRev /\ ghSigned \in BOOLEAN
    /\ installed \in Tags0
    /\ cfg \in Configs /\ cfgFile \in Configs
    /\ st \in States /\ stFile \in States
    /\ last \in Results
    /\ pc \in [Threads -> PCs]
    /\ for \in [Threads -> Purposes]
    /\ myCfg \in [Threads -> Configs]
    /\ local \in [Threads -> Tags0]
    /\ mySt \in [Threads -> States]
    /\ res \in [Threads -> Results]
    /\ told \subseteq Tags /\ toldAgain \subseteq told
    /\ \A t \in Threads :
         /\ pc[t] \in {"notify", "mark"} => res[t].tell # "nothing"
         /\ res[t].tell = "update" => res[t].tag # 0

\* NewRuntime, with or without a current_version in config.json.
Init ==
    /\ ghTag = 1 /\ ghRev = 1 /\ ghSigned = TRUE
    /\ installed \in 0 .. 1
    /\ cfgFile \in {[NoConfig EXCEPT !.current = v] : v \in Manual} /\ cfg = cfgFile
    /\ st = NoState /\ stFile = NoState
    /\ last = NoResult
    /\ pc = [t \in Threads |-> "idle"]
    /\ for = [t \in Threads |-> "timer"]
    /\ myCfg = [t \in Threads |-> NoConfig]
    /\ local = [t \in Threads |-> 0]
    /\ mySt = [t \in Threads |-> NoState]
    /\ res = [t \in Threads |-> NoResult]
    /\ told = {} /\ toldAgain = {}

-----------------------------------------------------------------------------
(* Engine.Run *)

Detected(c) == IF c.current # 0 THEN c.current ELSE installed

\* SelectSignedArchive: the archive of the release and its signature, 0 for none.
SignedArchive == IF ghSigned THEN ghTag ELSE 0

\* Client.Latest for the ETag of an earlier answer.
Latest(etag) ==
    [notModified |-> etag = ghRev, etag |-> ghRev, tag |-> ghTag, archive |-> SignedArchive]

\* A 304 keeps the cached release and archive.  A release without a signed
\* archive for this system also keeps the cached archive.
Fetched(s) ==
    LET gh == Latest(s.etag)
    IN  IF gh.notModified THEN s
        ELSE [s EXCEPT !.etag = gh.etag, !.tag = gh.tag,
                       !.asset = IF gh.archive # 0 THEN gh.archive ELSE @]

\* CompareStrings, of a tag that can be parsed.
UpdateAvailable(tag, v) == tag # 0 /\ Greater(Version[tag], Version[v])

\* A bug: a skipped release hides those that follow it.
Tell_SkipsAll(v, c, s, forced) ==
    IF v = 0
      THEN IF Notify /\ (forced \/ ~s.notFound) THEN "notFound" ELSE "nothing"
      ELSE IF /\ Notify
              /\ UpdateAvailable(s.tag, v)
              /\ c.skip = 0
              /\ forced \/ ~c.snoozed
              /\ forced \/ s.tag # s.notified
             THEN "update" ELSE "nothing"

\* decideNotify and shouldNotifyNotFound, for the detected version v.
Tell(v, c, s, forced) ==
    IF v = 0
      THEN IF Notify /\ (forced \/ ~s.notFound) THEN "notFound" ELSE "nothing"
      ELSE IF /\ Notify
              /\ UpdateAvailable(s.tag, v)
              /\ s.tag # c.skip
              /\ forced \/ ~c.snoozed
              /\ forced \/ s.tag # s.notified
             THEN "update" ELSE "nothing"

Answer(v, c, s, forced) ==
    [tag |-> s.tag, asset |-> s.asset, tell |-> Tell(v, c, s, forced),
     failed |-> v # 0 /\ s.tag = 0]
Failure(s) == [tag |-> s.tag, asset |-> s.asset, tell |-> "nothing", failed |-> TRUE]

-----------------------------------------------------------------------------
(* Runtime.poll and maybeNotify *)

Goto(t, label) == pc' = [pc EXCEPT ![t] = label]

\* Runtime.poll copies the configuration and the state, and detects.
Begin(t, why) ==
    /\ for' = [for EXCEPT ![t] = why]
    /\ local' = [local EXCEPT ![t] = Detected(cfg')]
    /\ myCfg' = [myCfg EXCEPT ![t] = cfg']
    /\ mySt' = [mySt EXCEPT ![t] = st]
    /\ res' = [res EXCEPT ![t] = NoResult]
    /\ Goto(t, "fetch")

Return(t) ==
    /\ for' = [for EXCEPT ![t] = "timer"]
    /\ local' = [local EXCEPT ![t] = 0]
    /\ myCfg' = [myCfg EXCEPT ![t] = NoConfig]
    /\ mySt' = [mySt EXCEPT ![t] = NoState]
    /\ res' = [res EXCEPT ![t] = NoResult]
    /\ Goto(t, "idle")

\* The timer, "Check now", or an install, which polls before and after.
Poll(t, why) ==
    /\ pc[t] = "idle"
    /\ why \in IF t = "poller" THEN {"timer"} ELSE {"click", "install"}
    /\ UNCHANGED <<github, installed, config, state, last, user>>
    /\ Begin(t, why)

\* A bug: the ETag of an answer that cannot be read is kept.
Fetch_KeepsETag(t) ==
    /\ pc[t] = "fetch"
    /\ \/ LET s == Fetched(mySt[t]) IN
            /\ mySt' = [mySt EXCEPT ![t] = s]
            /\ res' = [res EXCEPT ![t] = Answer(local[t], myCfg[t], s, for[t] = "click")]
       \/ /\ "fetch" \in Faults
          /\ res' = [res EXCEPT ![t] = Failure(mySt[t])]
          /\ mySt' = [mySt EXCEPT ![t] = [@ EXCEPT !.etag = ghRev]]
    /\ local' = [local EXCEPT ![t] = 0]
    /\ myCfg' = [myCfg EXCEPT ![t] = NoConfig]
    /\ Goto(t, "store")
    /\ UNCHANGED <<github, installed, config, state, last, for, user>>

\* Engine.Run; the copy of the configuration is not looked at again.
GetsAnswer(t) ==
    LET s == Fetched(mySt[t])
    IN  /\ mySt' = [mySt EXCEPT ![t] = s]
        /\ res' = [res EXCEPT ![t] = Answer(local[t], myCfg[t], s, for[t] = "click")]
Fetch(t) ==
    /\ pc[t] = "fetch"
    /\ \/ GetsAnswer(t)
       \/ /\ "fetch" \in Faults
          /\ res' = [res EXCEPT ![t] = Failure(mySt[t])]
          /\ UNCHANGED mySt
    /\ local' = [local EXCEPT ![t] = 0]
    /\ myCfg' = [myCfg EXCEPT ![t] = NoConfig]
    /\ Goto(t, "store")
    /\ UNCHANGED <<github, installed, config, state, last, for, user>>

Store(t) ==
    /\ pc[t] = "store"
    /\ st' = mySt[t]
    /\ last' = res[t]
    /\ Goto(t, "save")
    /\ UNCHANGED <<github, installed, config, stFile, copies, user>>

SaveState(t) == stFile' = mySt[t] \/ ("save" \in Faults /\ UNCHANGED stFile)

\* A bug: ShouldNotify is not looked at.
AfterPoll_Always(t) ==
    CASE for[t] = "install"   -> IF res[t].failed THEN "idle" ELSE "apply"
      [] for[t] = "installed" -> "idle"
      [] OTHER                -> "notify"

\* An install that polled goes on to install; other polls notify.
AfterPoll(t) ==
    CASE for[t] = "install"   -> IF res[t].failed THEN "idle" ELSE "apply"
      [] for[t] = "installed" -> "idle"
      [] OTHER                -> IF res[t].tell = "nothing" THEN "idle" ELSE "notify"

Save(t) ==
    /\ pc[t] = "save"
    /\ SaveState(t)
    /\ IF AfterPoll(t) = "idle"
         THEN Return(t)
         ELSE Goto(t, AfterPoll(t)) /\ UNCHANGED copies
    /\ UNCHANGED <<github, installed, config, st, last, user>>

\* A notification of a release the timer brings up again is one too many.
IsShown(t) ==
    /\ Goto(t, "mark")
    /\ IF res[t].tell = "update"
         THEN /\ told' = told \cup {res[t].tag}
              /\ toldAgain' = toldAgain \cup
                   (IF for[t] = "timer" THEN told \cap {res[t].tag} ELSE {})
         ELSE UNCHANGED user
    /\ UNCHANGED copies
Toast(t) ==
    /\ pc[t] = "notify"
    /\ \/ IsShown(t)
       \/ "toast" \in Faults /\ Return(t) /\ UNCHANGED user
    /\ UNCHANGED <<github, installed, config, state, last>>

\* A bug: only "not found" is recorded.
Marked_NotFound(s, r) == [s EXCEPT !.notFound = r.tell = "notFound"]
Marked(s, r) == IF r.tell = "update" THEN [s EXCEPT !.notified = r.tag]
                                     ELSE [s EXCEPT !.notFound = TRUE]
Mark(t) ==
    /\ pc[t] = "mark"
    /\ st' = Marked(st, res[t])
    /\ mySt' = [mySt EXCEPT ![t] = st']
    /\ Goto(t, "saveMark")
    /\ UNCHANGED <<github, installed, config, stFile, last, for, local, myCfg, res, user>>

SaveMark(t) ==
    /\ pc[t] = "saveMark"
    /\ SaveState(t)
    /\ Return(t)
    /\ UNCHANGED <<github, installed, config, st, last, user>>

-----------------------------------------------------------------------------
(* The menu *)

\* One click is served at a time; Skip and Snooze are, even if nothing is polled
\* from the menu.
MenuIsFree == "clicker" \in Threads => pc["clicker"] = "idle"
SetConfig(c) ==
    /\ cfg' = c
    /\ cfgFile' = c \/ ("save" \in Faults /\ UNCHANGED cfgFile)

Skip ==
    /\ "skip" \in Clicked /\ MenuIsFree
    /\ last.tag # 0
    /\ SetConfig([cfg EXCEPT !.skip = last.tag])
    /\ UNCHANGED <<github, installed, state, last, pc, copies, user>>

Snooze ==
    /\ "snooze" \in Clicked /\ MenuIsFree
    /\ SetConfig([cfg EXCEPT !.snoozed = TRUE])
    /\ UNCHANGED <<github, installed, state, last, pc, copies, user>>

\* Install takes the archive of the last result, whoever has stored it, records
\* binary_path and polls once more.
Apply(t) ==
    /\ pc[t] = "apply"
    /\ \/ /\ last.asset # 0
          /\ installed' = last.asset
          /\ SetConfig(cfg)
          /\ Goto(t, "installed")
          /\ UNCHANGED copies
       \/ /\ last.asset = 0 \/ "apply" \in Faults
          /\ Return(t)
          /\ UNCHANGED <<installed, config>>
    /\ UNCHANGED <<github, state, last, user>>

PollAgain(t) ==
    /\ pc[t] = "installed"
    /\ UNCHANGED <<github, installed, config, state, last, user>>
    /\ Begin(t, "installed")

-----------------------------------------------------------------------------
(* The environment *)

Publish ==
    /\ ghTag < MaxTag /\ ghRev < MaxRev
    /\ ghTag' = ghTag + 1 /\ ghRev' = ghRev + 1
    /\ ghSigned' \in {TRUE} \cup (IF "unsigned" \in Faults THEN {FALSE} ELSE {})
    /\ UNCHANGED <<installed, config, state, last, pc, copies, user>>

Upload ==
    /\ ~ghSigned /\ ghRev < MaxRev
    /\ ghSigned' = TRUE /\ ghRev' = ghRev + 1
    /\ UNCHANGED <<ghTag, installed, config, state, last, pc, copies, user>>

\* More than 24 hours go by: a snooze ends, and a proxy that was not found may
\* be told about again.
DayPasses ==
    LET awake(c) == [c EXCEPT !.snoozed = FALSE]
        longAgo(s) == [s EXCEPT !.notFound = FALSE]
    IN  /\ cfg.snoozed \/ cfgFile.snoozed \/ st.notFound \/ stFile.notFound
        /\ cfg' = awake(cfg) /\ cfgFile' = awake(cfgFile)
        /\ st' = longAgo(st) /\ stFile' = longAgo(stFile)
        /\ myCfg' = [t \in Threads |-> awake(myCfg[t])]
        /\ mySt' = [t \in Threads |-> longAgo(mySt[t])]
        /\ UNCHANGED <<github, installed, last, pc, for, local, res, user>>

\* The process ends, at any point, and is started again.
Restart ==
    /\ "crash" \in Faults
    /\ cfg' = cfgFile
    /\ st' = stFile
    /\ last' = NoResult
    /\ pc' = [t \in Threads |-> "idle"]
    /\ for' = [t \in Threads |-> "timer"]
    /\ local' = [t \in Threads |-> 0]
    /\ myCfg' = [t \in Threads |-> NoConfig]
    /\ mySt' = [t \in Threads |-> NoState]
    /\ res' = [t \in Threads |-> NoResult]
    /\ UNCHANGED <<github, installed, cfgFile, stFile, user>>

Step(t) ==
    \/ Fetch(t) \/ Store(t) \/ Save(t) \/ Toast(t) \/ Mark(t) \/ SaveMark(t)
    \/ Apply(t) \/ PollAgain(t)

Next ==
    \/ \E t \in Threads : Step(t) \/ \E why \in Purposes : Poll(t, why)
    \/ Skip \/ Snooze
    \/ Publish \/ Upload \/ DayPasses \/ Restart

Spec == Init /\ [][Next]_vars
\* The timer fires again and again, and a poll goes on; of the requests that go
\* out for ever some are answered, and of the notifications some are shown.
FairSpec ==
    /\ Spec
    /\ \A t \in Threads :
         /\ WF_vars(Step(t))
         /\ SF_vars(Fetch(t) /\ GetsAnswer(t))
         /\ SF_vars(Toast(t) /\ IsShown(t))
    /\ WF_vars("poller" \in Threads /\ Poll("poller", "timer"))

-----------------------------------------------------------------------------
(* Properties *)

\* The user is notified of a release once, unless "Check now" asks for it again.
NotifiedOnce == toldAgain = {}

\* What is offered as a release, and installed and reported under its name, is its
\* archive, "<name>-<tag>.zip": signedArchive pairs the tag and the archive of one
\* result.
ArchiveIsOfTheTag == last.asset \in {0, last.tag}

\* A 304 answers for the cached release: an ETag is kept, in memory and on disk,
\* only with the release and the archive GitHub gave under it, so that no release
\* is missed for good behind an ETag.
CacheIsCurrent ==
    \A s \in {st, stFile} :
        s.etag = ghRev => s.tag = ghTag /\ (ghSigned => s.asset = ghTag)

\* A newer release that stays the latest is told to the user, unless it is
\* skipped, snoozed or installed first.
NewReleaseIsTold ==
    \A g \in Tags :
        ghTag = g /\ Detected(cfg) # 0 /\ Detected(cfg) < g
          ~> \/ g \in told \/ ghTag # g \/ Detected(cfg) >= g
             \/ cfg.skip = g \/ cfg.snoozed
=============================================================================
