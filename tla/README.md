# Verification of dnscrypt-proxy-updater

TLA+ modules, TLC runs and TLAPS proofs for dnscrypt-proxy-updater, a tray program that watches GitHub for
dnscrypt-proxy releases, installs them, and edits the proxy's configuration. `PROJECT.json` maps every definition to
the lines it models and lists the runs, the hazards and the theorems.

## 1. Inventory

| Component | State it keeps | Operations | Talks to |
| --- | --- | --- | --- |
| Settings commit (`internal/proxyconf`: apply, files, pending) | files of the install dir, `.bak` copies, the pending directory | `Stage`, `TryCommit`, `Commit`, rollback, `retryAfterStop`, `SavePending`, `ReadPending`, `ClearPending` | `-check`, service manager, elevation |
| Settings server (`internal/settingsui`) and elevated apply (`internal/app/settings.go`) | `Server.mu`, a staging directory per request | `POST /api/apply`, `DELETE /api/pending`, `ApplyPending`, `ApplyStaged`, `elevateApply` | settings commit; the tray through `menuPing` |
| Elevation (`internal/apply/elevate*`) | none | quote a command line, run this executable as a child under UAC and wait | the child runs `-apply-config` or `-install` |
| Installer (`internal/apply`: apply, files, paths) | executable, its `.old` copy, toml | `Applier.Apply`, `installPayload`, `restoreBackup` | download, `-check`, service manager, DNS |
| Service manager (`internal/apply/service*`) | the operating system's | `Query`, `Install`, `Stop`, `Start` | `sc.exe`, `dnscrypt-proxy -service` |
| System DNS (`internal/apply/dns*`) | the adapters' servers | `SetLoopback` | PowerShell |
| Download, verification, extraction | a temporary directory | `download`, `verifyArchive`, `extractArchive` | GitHub |
| Update check (`internal/check`) | ETag and cached release in `config.State` | `Engine.Run`, `decideNotify` | GitHub client, detection |
| Runtime and tray (`internal/app`: runtime, tray) | `rt.cfg`, `rt.state`, `rt.last` under `rt.mu` | `poll`, `maybeNotify`, Skip, Snooze, `Install` | all of the above, from two goroutines |
| Configuration and state (`internal/config`) | `config.json`, `state.json`, one `.tmp` file for each | load, save: open, write, rename | every process of the program |
| GitHub client (`internal/githubrel`) | none | conditional `Latest`, choice of the signed archive | GitHub |
| Detection (`internal/detect`) | none | `Detect`: override, else the binary's `-version` | the installed proxy |
| Version comparison (`internal/version`) | none | `Parse`, `Compare`, `Greater` | update check |
| Toml patching (`internal/proxyconf`: patch, parse) | the lines of one document | `ApplyPatches`, `CurrentValues` on the text | `Stage`, the settings page |
| Settings catalog (schema, presets, suggestions, generator) | tables | read only | settings page |
| Single instance (`internal/instance`) | a lock held by the process | lock, or skip by mode | command line |
| Command line (`cmd`) | none | read the flags, dispatch to one mode, take the lock or not | runtime, single instance |
| Desktop integration, settings page, scripts, vendored schema | none that matters | output, forms, build tooling | |

Hard behaviours, and what correctness means there:

- *Settings commit.* A save replaces several files one by one under a running service. Any copy, check or command may
  fail, the browser may go away (which cancels every later command of the request), the elevated child may be declined
  or killed. Correct: no file is lost without a backup; a save is all or nothing; the service never runs a mixture; the
  reported restart happened; every request ends; only checked bundles are queued, and only applied ones removed.
- *Settings server.* Saves exclude each other through `Server.mu`, but the tray's *Apply pending settings* and
  `DELETE /api/pending` take no lock in common with them.
- *Installer.* The service is down while the executable is replaced. Stop is asynchronous on Windows and a running
  executable is locked; start is asynchronous too. Correct: what `-check` refuses does not stay and is not started, the
  last version that was up can be gone back to, a reported install was started.
- *Update check and tray.* `poll` works on copies of the configuration and the state and stores the state back, on two
  goroutines, around a slow request. Correct: the cache never hides a release, a tag goes with its own archive, a
  release is told, and once.
- *Versions.* Cores of different lengths, prereleases, and numbers that do not fit an int, which are compared as text.
  Correct: `Compare` is an order, so that updates do not go round in a circle.
- *Toml patching.* The page's changes are made line by line, by a scan that is not a toml parser, in a file that is half
  commented examples, with values of several lines. Correct: a patch takes effect and touches nothing else, and the page
  shows what toml reads.
- *Files.* Every process writes `config.json` through the same `.tmp` name, parent and elevated child hold a copy each,
  flags are put into the configuration in memory, and some modes skip the single-instance lock. Correct: the next start
  can read the file, nothing saved is undone, the value of a flag is not saved, one tray runs.
- *Elevated child.* Its options go through one string that Windows takes apart by rules of its own. Correct: the child
  installs where and how its parent was asked to.

## 2. Modules

| Module | What it is |
| --- | --- |
| `SettingsCommit` | the settings commit with the server, the elevated child and the queue |
| `SettingsAtomic` | what a save promises: an accepted configuration at once, or nothing, or a queued bundle |
| `SettingsCommit_proofs` | theorems about `SettingsCommit` |
| `ProxyInstall` | the installer with the service manager and the DNS step |
| `UpdateCheck` | polls, notifications, skip, snooze and install over the shared state |
| `VersionOrder` | versions and their comparison, which `UpdateCheck` decides with |
| `VersionOrder_proofs` | that the comparison is an order |
| `Intervals` | least elements, and induction and recursion over intervals, for the proofs |
| `TomlPatch` | patching and reading the settings in a document of lines |
| `TomlPatch_proofs` | theorems about `TomlPatch` |
| `ConfigFile` | the processes of the program over one `config.json`, with lock, flags and elevated child |
| `CommandLine` | the command line of the elevated child, from the parent's options to the child's |
| `CommandLine_proofs` | that the child reads what the parent wrote |
| `ProxyInstall_proofs`, `UpdateCheck_proofs`, `ConfigFile_proofs` | theorems about these modules |
| `MCSettingsCommit`, `MCProxyInstall`, `MCUpdateCheck`, `MCTomlPatch` | small instances for TLC |
| `MCConfigFile` | small instances of `ConfigFile`, which extends `CommandLine` |

Operators called `X_Something`, introduced by "A bug:", are mutations of `X`. Nothing uses them; `PROJECT.json`
pairs each property with one, and the property fails when the mutation takes the place of `X`.

### SettingsCommit

A *job* is one run of the save code: an HTTP request (`Savers`), or an apply of the queue (`Appliers`). `pc[p]` is the
line a job has reached; `todo`, `bak`, `kept`, `err` are the locals of `Commit`. The files are numbered in the order
`os.ReadDir` gives them, which is the order they are replaced in; a file is one of a few contents, and `Accepted` is the
set of whole configurations `-check` accepts. One assumption is made of that set: a configuration names no file that is
missing, so one file more does not make it unacceptable.

`Save` is `Stage`; `CheckStaging` and `Elevate` are the head of `TryCommit` and `elevateApply`; `CommitCheck`,
`CommitStop`, `CommitBackup`, `CommitWrite`, `PostCheck`, `CommitStart` are `Commit` in its order; `RollbackFile` and
`RollbackDone` are its `rollback` closure, one file a step; `CommitClears` is `ClearPending` by the committing process
and again by its parent; `SavePendingClears` and `SavePendingCopies` are `SavePending`. `AfterFailure` decides, as
`TryCommit` and `finishElevated` do, between another process, the queue and the user. `Faults` lists what the
environment may do. A copy of one file is one step (the code writes a `.tmp` file and renames it).

### ProxyInstall

A job is one `Runtime.Install`. A version stands for the executable of a release and the example toml that comes with
it, and `Compatible` says which executable accepts which toml. `Download` to `SetLoopback` are the lines of
`Applier.Apply` in order, with `BackUp`, `WriteBinary` and `CopyToml` for `installPayload`. `site` is the copy of the
proxy that the service is registered on, which the code cannot ask: the install dir's or, at first and as long as
nobody registers it anew, a package manager's `pkg`. `Busy` is the lock on a running executable. All
errors that the code ignores (`Query`, `Stop`, `restoreBackup`, the second `Start`) are ignored here.

`sc start` returns when the service is `starting`, and the install goes on; later it is up (`ServiceRuns`) or has gone
again (`ServiceExits`), and nobody waits to see which. `Edit` is another process, the settings page or a hand that saves
a toml the binary in place accepts. It may come between the two checks of an install, and then the second refuses a
binary that the first accepted.

Three variables are history. `ran` is the version the service was last up with, `unproven` says that the binary last
copied to `.old` is another one, and `mishaps` collects what has kept the code from taking a binary back. Two
properties are about executions without some mishaps, which `ChecksReached` names: a binary is not checked when the
process is killed or the toml cannot be copied after it is in place, it stays when the copy back fails, and what it is
exchanged for may not accept a toml that was saved for it. `PreviousKept` names none: it says that the last version
that was up is kept until an install backs up a binary that never was, and that there is no such binary but after a
mishap or while the service is starting.

### UpdateCheck

`cfg`, `st` and `last` are the fields of `Runtime`, `cfgFile` and `stFile` what `config.json` and `state.json` hold.
`Poll` copies configuration and state under the lock, `Fetch` is `Engine.Run`, `Store` writes the copy back, `Save` and
`SaveMark` write the file outside the lock, `Toast` and `Mark` are `maybeNotify`. The goroutines are the timer's
(`poller`) and the menu's (`clicker`), which serves one click after the other. A release is the number of its tag and
`Version` says which version the tag is; what is an update is `VersionOrder!Greater`. GitHub's ETag
changes with every release and every upload of an archive, and an `asset` is the tag its archive was built for. `told`
and `toldAgain` record the notifications. A day that goes by ends a snooze and lets "not found" be told again.

### VersionOrder

A version is what `Parse` returns: the numbers of the core and the identifiers of the prerelease. Of an identifier the
comparison looks at whether it has digits only, at the number they are, and at its place in the order of strings;
`MaxInt` is the largest number that `Atoi` returns, and `IsNumber` is `parsePreNum`, which refuses larger ones. A loop
that returns at the first difference is `FirstDifference` of the comparisons it makes, so that no operator is recursive.

### TomlPatch

A line is a table header, an assignment or other text; it may be commented out, it opens or closes brackets, and its
text is a number: the i-th line of the document as read has text i, a line that a patch writes has a new number, and a
value is the texts of its lines. `Scan` is `parseDoc` line by line: where it is after a line is the section, the key
whose value it has read last, and the brackets open in that value; `GoesOn` is the condition of the loop of `readValue`.
`Find` takes the first span of a path, `Present` the last, as `find` and `values` do. `SectionInsertIndex`, `InsertInSection` and `ReplaceSpan` are the
functions of those names; `ApplyPatch` is one turn of the loop of `ApplyPatches`, and `Refuse` its error return. `Live`
says what toml reads in a document: the uncommented lines, by depth of brackets. It shares nothing with the scan.

`Clear` names the documents on which editing by position is right: the live assignment of the path comes before the
commented ones, and a key is inserted in a section without sub-tables. It is evaluated when the patch is made.
`OutsidePreserved` needs no such premise, but one about comments, `CommentsMatch`: after a commented `# x = [` whose
bracket is never closed, `readValue` takes all commented lines that follow for the value, and a patch of `x` drops them,
which the comment "Unknown keys and comments outside patched spans are preserved" (`patch.go`) does not say.

### ConfigFile

A process is off, or in one of the modes of `main.go`; `child` is the elevated `-install -quiet`. `Start` takes the lock
or skips it, `Load`, `Stat` and `Ready` are `NewRuntime`, and `OpenTmp`, `WriteTmp`, `Rename` are `writeJSON`: the first
run's, `Skip`'s and that of an install, told apart by `next`, which is where the process goes on. `Install` declines,
installs or relaunches; a parent waits (`wait`) for its child to end on its own or killed, and reloads the file
(`reload`) or reports the failure (`refused`). `Crash` ends a process at any step. Snooze saves as Skip does, and a build
without a tray (`stub`) gives the lock back before its one poll.

Of `config.json` the model keeps what the properties tell apart: a skipped tag, a `binary_path` written by an install,
and whether the value of a flag is in it. There is one file under the `.tmp` name, and `fd` says what a process that has
opened it writes to after others have renamed it: the copy, `config.json` itself, or a file that has been replaced
(`lost`). A document written over another of a different length may be `Torn`. Renaming is POSIX's; the copy a process
leaves behind is truncated by the next save and only looked at while somebody else is writing it. Editing the file by
hand while the program runs is not modelled.

`chosen` is a history variable: what has been saved in all. It becomes `Apart` where two processes may save without
knowing of each other: a second mode that saves is started next to the first (`-install` next to the tray), two
processes meet in the first run, the parent of a child goes on without its result (it was started without a handle to
wait for, or was killed after its save), or a child outlives its parent next to a new process. From there on the code
does tear the file and lose saves, as the model shows when the premise is dropped, and no text promises otherwise.
`FileIsWhole` and `SavedIsKept` are about the rest, which includes a parent and its child, who both save.

### CommandLine

Strings are sequences over `Chars`, any set that contains the blank, the backslash, the quote and the names of the flags
(`StringsAssumption`; a flag's name is one character). `Quoted` is the loop of `escapeWindowsArg`, a step of which is
`EscapeChar`; `EscapeWindowsArg` and `WindowsCommandLine` are the parent's. `Read` is the reader of Go's `os` package,
modelled from its documented rules, and `Parsed` that of its `flag` package; `ChildOptions` is what `main` of the child
makes of the flags. A tab counts as a blank. `-no-service` goes the way of `-no-dns`, `-binary-path` and `-no-notify`
that of `-current-version`.

`InstallsAsAsked` is about all options of the parent and all directories in `Dirs`; `ChildInstallsAsAsked` states it of
the children that `ConfigFile` starts.

## 3. Runs

Passing runs:

| Run | Module | Instance | Shows |
| --- | --- | --- | --- |
| `SaveAllFaults` | MCSettingsCommit | one job, all faults | types; every overwritten file has a backup; an applied bundle is live before it is removed |
| `SaveUndone` | MCSettingsCommit | one job; copies, starts and the client fail, fair | the service runs accepted files only, and the saved ones after success; Commit implements `SettingsAtomic`; every request ends |
| `Installs` | MCProxyInstall | installs one after the other, all faults, a service registered here or elsewhere, the toml edited at any time | refused binaries neither stay nor are started; the version last up is kept; a reported install has started what it installed |
| `WatchTimer` | MCUpdateCheck | timer, Skip and Snooze, late archives, failing requests and notifications, a number compared as text, fair | a release is told, once |
| `WatchTray` | MCUpdateCheck | both goroutines, all faults: restarts, files that cannot be written, late archives, failing requests | an ETag goes with its answer |
| `TomlPatches` | MCTomlPatch | every readable document of up to four lines, two patches | a patch takes effect; other keys, and the lines outside commented values that end, stay; the page shows what toml reads of keys met once |
| `ConfigSaves` | MCConfigFile | three processes in all modes, all faults; directories of up to three characters | one tray; `config.json` can be read; nothing saved is undone; the child has its parent's options |

Runs that find the code to differ from what the repository says of it:

| Run | Property | What happens |
| --- | --- | --- |
| `StopRestarted` | `RestartedOnNewFiles` | `sc stop` returns while the service is stopping, `sc start` answers 1056, and "restarted the service" is reported |
| `RaceMixture` | `RunsOnlyAccepted` | a save and the tray's apply interleave file by file; the service starts on a mixture no `-check` saw |
| `FlagSaved` | `FlagsAreForThisRun` | a tray started with `-current-version` saves its value with a skipped tag, for every later run |
| `ArchiveLate` | `ArchiveIsOfTheTag` | a release is published before its archive: the archive of the one before goes under its tag |
| `TomlCurrent` | `CurrentIsLive` | a commented example below a live key is what the page shows |

Each premise of a passing run is a set of faults that the property does not survive in the code, named in the MC
module, or a premise of the property itself: restarting on the new files needs a stop that takes effect, atomicity a
process that is not killed. The runs of saves that pass have one job at a time, because `RaceMixture` and the hazard of
the cleared queue show what happens with two.

Where the code does less, and a passing property therefore leaves something out:

- `FileIsWhole` and `SavedIsKept` end where two processes may save without knowing of each other (`chosen = Apart`): the
  modes without a lock next to the tray, two first runs, an orphaned child. The file is torn and saves are lost there.
- `PatchTakesEffect` and `OthersKept` ask for clear paths (`Clear`): a commented example above a live key is patched in
  its place, and a new key of `[a]` goes below `[a.b]`.
- `InstalledRuns` asks for a service that is registered on the install dir. With one registered on a package manager's
  copy, the code installs next to it, starts the other copy and reports "service running".
- `ClearedBundleIsLive` is checked of one job; with a save next to an apply, a bundle nobody has applied is cleared.

Of these the code promises nothing, and no property excludes them:

- Two failures leave the service down for good: a copy that fails after `Commit` has stopped the service, and an
  `installPayload` or post-check error.
- The system DNS is pointed at the proxy right after `sc start` has answered, while the service may still be starting or
  about to exit, and with `-no-service` ("copy files only") without any service at all.
- `retryAfterStop` stops the service also when `manage_service` is off, and then nothing starts it again.

### Bounds and why they are enough

- Two files with two contents each. A mixture needs two files; the accepted set makes the toml of `v2` depend on the
  list file of `v2`, so a half-written and a half-undone save differ from both ends. Either file may be absent at first.
- One job for the serial runs, repeated without limit; a job may be of either kind. Two for the races.
- One install at a time, without limit, and three releases for the installer, of which the newest refuses the oldest's
  toml, so that refusals before and after the binary is in place, downgrades and repeated failures all occur.
- `MaxTag` and `MaxRev` bound the releases and GitHub's answers: three releases for "told, and once" (one installed,
  one told, one after it), two where the goroutines interleave. They are v2.2-beta.9, v2.2.0-beta.30 and v2.2.0: cores
  of different lengths, a prerelease and its release, and with `MaxInt = 20` a number that is compared as text.
  `WatchTray` has a `current_version` in its configuration and no snooze, neither of which the cache depends on;
  `WatchTimer` has a proxy that is found or not, and both.
- Documents of four lines: a table with a key of two lines and a line below it, a key, its commented example and a
  section, a table and its sub-table. Two patches, because the second works on the lines the first has shifted.
- Three processes over `config.json`: a tray, its elevated child and one more of any mode, each started again without
  limit. Without a flag in `ConfigSaves`, because it changes none of its properties; with one in `FlagSaved`.
- Directories of up to three characters out of four: a run of two backslashes before a quote, at the end, or before a
  blank; longer runs are doubled and halved the same way.

The processes of `ConfigSaves` are symmetric, and its properties are invariants that name none of them; no other run
uses symmetry, and none a state constraint. Deadlock is checked in every run but those of `MCTomlPatch`: a list of
patches ends.

### Fairness

`FairSpec` of `SettingsCommit` assumes weak fairness of every job's own steps (goroutines that are never blocked but by
commands with a 45-second timeout, and by the prompt). Users, faults, the service manager and new requests are not
assumed to do anything. `Answered` is checked with failing copies and starts, declined prompts and a browser that goes
away, and not with processes that are killed. `FairSpec` of `UpdateCheck` assumes the same of polls under way, that the
timer fires again, and, strongly, that of requests made for ever some are answered and of notifications some are shown:
the code tries both again at the next poll, and `NewReleaseIsTold` is about whether it does.

## 4. Abstraction and refinement

`SavesAreAtomic` is `SettingsAtomic!Spec` under the mapping `config <- Committed`, `queue <- Queue`: until a save is
committed, the abstract configuration has, for each replaced file, what `kept` remembers; while a bundle is being
copied, the abstract queue is empty. Commit's whole run is then one `Install`, or stutters and one `Leave` after the
rollback, and the queue is filled in one `Enqueue`. `SaveUndone` checks it, and `CommitIsAtomic` proves it.

## 5. Proofs

The theorems hold for every value of the constants that the named assumptions of the modules allow (`FilesAssumption`,
`ContentsAssumption`, `ModeAssumption`, `AcceptedAssumption`, `VersionsAssumption`, `CompatibleAssumption` and so on,
which every run evaluates), and under the premises in the third column. Every module's `TypeCorrect` needs no premise.

| Theorem | Property | Premises | Inductive invariant |
| --- | --- | --- | --- |
| `SettingsCommit_proofs!BackupsKept` | `OverwritesAreBackedUp` | `SingleJob` | `BackupInv` |
| `SettingsCommit_proofs!AcceptedRuns` | `RunsOnlyAccepted` | `SingleJob`, `Reliable` | `AcceptInv` |
| `SettingsCommit_proofs!AppliedBundleIsLive` | `ClearedBundleIsLive` | `SingleJob` | `QueueInv` |
| `SettingsCommit_proofs!ReportedRestart` | `RestartedOnNewFiles` | `SingleJob`, a stop takes effect | `RestartInv` |
| `SettingsCommit_proofs!CommitIsAtomic` | `SavesAreAtomic` | `SingleJob`, `Undoable` | `BackupInv`, `AcceptInv`, `StagedInv` |
| `ProxyInstall_proofs!AcceptedBinaryIsLeft` | `LeavesAcceptedBinary` | `SingleJob` | `AcceptInv` |
| `ProxyInstall_proofs!AcceptedStarts` | `StartsAccepted` | `SingleJob` | `AcceptInv` |
| `ProxyInstall_proofs!InstalledIsRun` | `InstalledRuns` | `SingleJob`, `LockedExe` | `ServedInv` |
| `ProxyInstall_proofs!PreviousIsKept` | `PreviousKept` | `SingleJob`, `LockedExe` | `ServedInv`, `KeptInv` |
| `UpdateCheck_proofs!CacheStaysCurrent` | `CacheIsCurrent` | none | `CacheInv` |
| `UpdateCheck_proofs!ToldOnce` | `NotifiedOnce` | `SingleThread`, no restart | `OnceInv` |
| `ConfigFile_proofs!OneTrayOnly` | `OneTray` | none | `LockInv` |
| `ConfigFile_proofs!FileStaysWhole` | `FileIsWhole` | none | `RolesInv`, `AloneInv`, `WholeInv` |
| `ConfigFile_proofs!SavedStays` | `SavedIsKept` | none | those and `KeptInv` |
| `ConfigFile_proofs!ChildInstalls` | `ChildInstallsAsAsked` | none | `CommandLine_proofs!InstallsAsParent` |
| `CommandLine_proofs!ArgumentsArrive`, `InstallsAsParent` | `InstallsAsAsked` | none | |
| `TomlPatch_proofs!ShownOnce` | `CurrentIsLiveOnce` | the path is met once | `TypeInv` |
| `TomlPatch_proofs!PatchesTakeEffect`, `OthersStay` | `PatchTakesEffect`, `OthersKept` | the patched paths are clear | `LiveInv` |
| `TomlPatch_proofs!OutsideStays` | `OutsidePreserved` | `CommentsMatch(src)` | `OutsideInv` |
| `VersionOrder_proofs!CompareAntisymmetric`, `CompareTransitive`, `GreaterIsAnOrder` | | none | |

The invariants and why they are needed:

- *SettingsCommit.* `BackupInv`: between the backup and the write of a file, the file is what `bak` holds and `bak` is
  among its backups. `AcceptInv`: while files are replaced, the configuration that the remembered files stand for is
  accepted, because a rollback goes back over files that were, at that moment, a mixture; once all are replaced, the
  live files are what the post-check looks at. `QueueInv`: a file that an apply has been through is the queue's, or the
  queue has lost it (a discard at any moment). `RestartInv`: from the stop to the start the service is down, or the
  client has gone and the start will fail too, so that a start that answers has loaded the new files. `StagedInv`: what
  is on its way to the files or to the queue has been checked, and a queue being filled holds the files that are copied.
  With it each of Commit's steps is an `Install`, a `Leave`, an `Enqueue`, a `Dequeue` or a stutter of `SettingsAtomic`.
- *ProxyInstall.* `AcceptInv`: the binary accepts the toml, but for a new one that has not been through its second check,
  and then the `.old` copy does, since a toml that was saved before the new binary suited the old one: taking back is
  right also when the second check refuses what the first accepted. `ServedInv`: on a system that locks a running
  executable, a binary that was written shows that the service was down, though nobody looks at the result of the stop,
  so that the start that follows loads it. `KeptInv`: the version last up is the binary, or the backup while the new
  binary has not been started; with no mishap an install gets back to there, or starts the service on what it installed.
  `LockedExe` is the code's only evidence that a stop took effect, and Windows gives it.
- *UpdateCheck.* `CacheInv` extends `CacheIsCurrent` from memory and disk to the copies of both goroutines, any of which
  may be stored over any later state. `OnceInv`: what a poll brings up on
  its own is above what is marked as notified, and what was told is marked or about to be.
- *ConfigFile.* `LockInv`: who shows a tray or a settings page has the lock, however processes end. `RolesInv` says which
  processes save at which steps; `AloneInv` that, unless `Apart`, two that save are a parent and its child, and the parent
  waits; `WholeInv` that the one writer fills a copy of its own, which is what it will rename. `KeptInv`: everybody
  who may yet save has all that has been saved in memory, the waiting parent excepted, who reloads.
- *TomlPatch.* `TypeInv`: the brackets of the document match after every patch, clear or not, and then the scan and TOML
  agree on the lines that are not commented: each assignment TOML reads is a span that ends where TOML ends it
  (`ShownIsLive` rests on it). `LiveInv`: a patch takes the assignments at its path out of what TOML reads and puts its
  own in (`Takes`), which is `PatchTakesEffect` and `OthersKept` made inductive by `TypeInv`. `OutsideInv`: every value
  ends as the scan reads it (`Closed`), and every line of the document as read that is still there is in the span of the
  same path as at first (`Keeps`), so that a span patched later holds nothing but lines of its own path. All three rest
  on one lemma about a document with some lines replaced: before them and after them the scan, the depth of brackets and
  the sections are what they were, shifted.
- *CommandLine.* While the child reads an argument, what it has read so far and the backslashes it has not decided about
  are what the parent has written so far (`Pending`), and both count the same backslashes (`ReadQuoted`); unquoted
  arguments have neither blanks nor quotes (`ReadUnquoted`). Between arguments nothing is pending, so that an induction
  over them gives `ArgumentsArrive`. Flags and values then arrive in pairs, which `FlagsArrive` adds up.
- *VersionOrder.* The argument goes through the first difference: cores continued by zeros are the same or differ at a
  least place (`CompareCoreIs`), and so do prereleases, of which one may end before (`ComparePreIs`); for two pairs the
  smaller of the two places decides. `IdentifiersOrdered` is where numbers that do not fit an int matter: they are above
  all that do, among themselves by text.

`SingleJob` is what `Server.mu` gives to saves alone, and what an install has while nobody runs `-install` next to the
tray; `RaceMixture` shows that it is needed. The runs check the same properties on small instances.

Only model-checked: liveness (`Answered`, `NewReleaseIsTold`), which is out of the prover's reach
with its fairness.

## 6. Not modelled, and why

- Settings catalog, suggestions, notifications, browser page, scripts, vendored data: no state that another part depends
  on. The read-only handlers of the settings server and its token change nothing either.
- Archive formats, minisign, PowerShell, `sc.exe`: the work of libraries and of the system, one step that succeeds or
  fails.
- Detection beyond its result: the search order over directories reads files that nobody else writes during a poll.
- Of toml patching, how a value is written, a last line without a newline, a list of lists whose lines look like
  table headers, a bracket that `countOpen` miscounts in a string with an escaped quote, and keys that are quoted or
  dotted. Documents have no table header that is followed by a comment or has blanks inside, which `tableHeader` does not
  see and TOML reads as a header: the code takes the keys below it for those of the section above. Of versions, their
  spelling.
- In `SettingsCommit` a service runs once `sc start` has answered; that it comes up or exits later is in `ProxyInstall`
  only. The service manager restarts nothing on its own in either.
- A save and an install over one install dir at the granularity of their steps: `Edit` is a save as a whole.
- `state.json` at the granularity of its `.tmp` file. `UpdateCheck` saves it whole or not at all; the file name is shared
  by both goroutines as `config.json`'s is by processes, with the same consequence.
- Two installs at once. `ProxyInstall` is written for several jobs, but two of them share `.tmp` and `.old` and undo each
  other's take-back, and no text of the repository says otherwise.
- With both goroutines, a timer poll that began before "Check now" puts back the state without the mark of the
  notification and the release is told again; `NotifiedOnce` is checked of the timer alone.
- A prompt that returns no process handle, which the code takes for success, is an action of `ConfigFile` (`noHandle`)
  and left out of `SettingsCommit!Elevate`.

## 7. Plan

Done, in this order: `SettingsCommit` with `SettingsAtomic`; `ProxyInstall`; `UpdateCheck`; `VersionOrder`; `TomlPatch`;
`ConfigFile` with `CommandLine`; the theorems of section 5.

What would be worth adding next:

1. An install and a save over the one service and install dir: which of their steps may meet, and what the shared stop
   and start do to each other.
2. Two installs at the granularity of the shared `.tmp` and `.old` files.
3. The search order of detection, as a function of the files that are there.
