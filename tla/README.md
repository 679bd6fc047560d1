# A formal model of Wonderland Assistant Core

TLA+ modules, TLC model-checking runs and TLAPS proofs about the desktop host of
Wonderland Assistant: the Rust/Tauri program under `src/apps/desktop/src-tauri`
that installs plugins, runs each as a supervised child process speaking NDJSON
on its standard streams, offers them host services, shares them with a browser on
the network and takes commands from a command line. Names in `code` are the
source's; a file without a path is in `src/apps/desktop/src-tauri/src`.

- [1 The system](#1-the-system): inventory of components
- [2 The modules](#2-the-modules): state, actions, and the code they stand for
- [3 The runs](#3-the-runs): what is checked, with which bounds and fairness
- [4 The proofs](#4-the-proofs)
- [5 What the checks found](#5-what-the-checks-found)
- [6 Limits](#6-limits): what is only model-checked, and what is not modelled
- [7 Plan](#7-plan)

## 1 The system

The host is one process with many threads. A *management* mutex serialises
installation, removal and enabling. The *state* mutex holds the plugin records,
the *activation queue* mutex the starts that were asked for, the *lifecycle*
mutex what running plugins said about their background work, and the *admission*
mutex counts work and can be frozen by an upgrade of the host. Each child process
has a reader thread and a writer thread; two activation workers start children;
a pool of up to 16 workers per backend answers its host-service requests. Remote
devices come in through an HTTP server, the command line through a named pipe;
both end in the same manager. What survives the process is the plugin
directories, the configuration files, the install journal, the lifecycle record,
the caches of the catalog and the user's data with its control file.

| component (source) | state | operations | interacts through | what is hard | what makes it correct |
|---|---|---|---|---|---|
| Install transaction and recovery (`plugin_package.rs`, `plugin_install_recovery.rs`, `plugin_manager.rs` 1485-1867) | version directories, `.backup-*`, `.interrupted-*`, the journal, configuration on disk and in memory | `commit_staging`, `prepare`, `commit`, `cleanup`, `rollback`, `recover_one`, Drop of `PackageCommit`, `retry_plugin_scan` | file system; called by the manager | crash between any two calls, a failing call, a rollback that fails and is retried from wherever it stopped | package and preferences change together or not at all; acknowledged bytes are never lost |
| Plugin manager (`plugin_manager.rs`) | a record per plugin (runtime, revision, process, directory), the management lock, the freeze | scan/refresh, enable, disable, uninstall, install, call, restore, begin/end upgrade, shutdown | queue, processes, lifecycle store, events to the UI | starts in flight while the record changes; refresh from an old scan | no plugin stuck in a transition, disabled plugins stay down, what runs is what is installed |
| Package verification (`plugin_manager.rs` 504-1060) | verdicts in the records, retry workers, time limit | scan, refresh, schedule and run a retry, retry by the user | manager, file system, restoration of background plugins | a scan runs without a lock; workers, refreshes and installations overtake each other | an old verdict replaces nothing newer; no record waits for a worker that is gone |
| Activation queue (`plugin_activation.rs`) | attempts, pending order, waiters, workers | `activate`, `run`, `invalidate`, `close` | workers call `spawn_one`; waiters are calls, restorations, the manager | cancel against begin, priority change of a queued attempt, thread creation failure, waits without deadline | every attempt has one server, every waiter an answer |
| Plugin process (`plugin_runtime.rs`) | child, alive flag, pending calls, write queue, reader | `spawn`, handshake, `call`, `stop`, Drop, `protocol_ended` | pipes; `process_exited` and `close_lifecycle` callbacks | end of the child against its acceptance and against registration of a call, full queues, late answers, calls of plugins for each other | no call before the handshake, every child ends, answers reach their own call, every caller returns |
| Lifecycle store (`plugin_lifecycle.rs`, `plugin_retained_data.rs`) | record file and its memory, connected instance, activities, `installing`, `paused`, calls | `report`, `begin_activity`, `end_activity`, `wait_instance`, `begin_install`, `pause`, `enter_call`, `remove`, load/persist | host-service workers, installer, upgrade | late reports, activities that outlive calls, damaged or unreadable file | only a committed, newest instance speaks; upgrades and installs meet no work; damage is copied |
| Host services and streams (`host_services.rs`, `byte_streams.rs`, `browser_sessions.rs`) | requests with their invocation and deadline, up to 256 streams, picked files, browser windows | open, read, write, finish, upload, close, pick, navigate; the end of a call | plugin processes, HTTP, the UI | two requests on one stream, an owner that ends between check and insertion, a write that fails half way | commits are whole, chunks are handed out once, the end of a call releases what it opened |
| Remote interactions (`remote_interaction.rs`) | up to 64 pending file picks and downloads, transfers, `closed` | insert, reply, download, delivery, prune, close | host services, web access | cancel or close racing insert; delivery racing prune | an interaction ends exactly once |
| Web access (`web_access.rs`, `download_sessions.rs`) | registered calls, permits, streams, credentials, event buffer | call, cancel, stream, stop, poll | HTTP, the manager, the broker | stop against registration, a transfer against a Core update, bounded buffer and cursors | cancelled work does not run on, undelivered files are kept, no event is lost silently |
| Distribution (`plugin_distribution.rs`) | sources, generation, request sequence, catalogs in memory and on disk, access state | configure, refresh, invalidate, commit, download, jobs | HTTP, disk cache, installer | late answers, revocation across a restart | a stale or revoked catalog is never offered |
| CLI bridge (`cli_ipc.rs`, `CliUiBridge.tsx`) | pending UI commands, events before readiness | begin, reply, expire, `mark_ready`, close | named pipe, UI events | expiry before readiness, disconnect, reload | each command is answered, and not run after it was given up |
| CLI arguments (`plugin_cli.rs`, `plugin_distribution_cli.rs`, parts of `cli_ipc.rs`, `web_access.rs`) | none | parse the options of a command | both ends of the pipe | three parsers of one line | what is executed was confirmed and is documented |
| User data (`crates/user-data`) | roots, control file with backup, markers, locks | lock, bootstrap, migrate, clear, schedule | file system | crash or failure at any step | data is in the root the next start chooses; one process per root |
| Network settings, Core updates (`network.rs`, `core_update.rs`) | settings file with backup, cache of updates with generation | load, change, check, install | HTTP clients, manager freeze | crash during replacement, late checks, failed installation | credentials only go where they belong; an offered update is current |
| Local installs (`plugin_local_install.rs`) | imports, reviewed snapshots, the batch | import, prepare, run, discard, reset, sweep | file system, manager | sources that change after the review, reload, crash | installed is what was reviewed; no file without owner |
| Browser's event feed (`web_access.rs`, `ui/src/core/transport.ts`) | numbered buffer, cursor | push, poll, reconnect | HTTP | gaps, lost answers, a new run of sharing | a gap is told |
| HTTP clients, configuration, kernel, logging, secrets, schema, protocol, SDK, signing, tools, shell, UI | values and I/O | | | sequential, or driven by libraries | unit-tested functions |

`PROJECT.json` lists every component with its status, and 40 hazards at the line
where each one bites, with the properties that watch it.

## 2 The modules

| module | models | |
|---|---|---|
| `AtomicInstall` | what an installation promises, as one step | abstract |
| `InstallRecovery` | the transaction, its journal, recovery | implements `AtomicInstall` |
| `PluginDistribution` | catalogs, access code, caches, installation requests | |
| `PluginHost` | records, queue, workers, children, management, upgrade, shutdown | |
| `PluginLifecycle` | record file, instances, activities, host requests | |
| `PluginCalls` | a call inside a process: wire ids, queue, replies, host workers, nested calls | |
| `HostServices` | requests for streams, picked files, windows | |
| `RemoteBroker` | interactions with a visiting device | used by `WebAccess` |
| `WebAccess` | remote calls, streams, stop, Core update | composes `RemoteBroker` |
| `CliBridge` | commands for the window | |
| `CliArguments` | option parsers, and the help text as their reference | functions of one line |
| `UserData`, `NetworkSettings`, `EventFeed`, `LocalInstaller`, `ScanRetry` | as named in section 1 | |
| `MC...` | model values, budgets and symmetry for TLC; `MCPackages` and `MCComponents` put modules side by side | |
| `InstallRecoveryProofs`, `PluginDistributionProofs`, `PluginHostProofs`, `PluginLifecycleProofs`, `PluginCallsProofs`, `HostServicesProofs`, `WebAccessProofs` | theorems about the module they are named for; the first also proves the refinement of `AtomicInstall` | |
| `ComponentsProofs` | theorems about `CliBridge`, `CliArguments`, `EventFeed`, `NetworkSettings`, `ScanRetry`, `LocalInstaller` and `UserData` | |

In every module one action is one critical section, one system call, or the end
of one wait, so that between any two of them every other thread, a crash or a
fault can come. Operators named `Mut...` are plausible bugs; no specification
uses them, they only serve to see that the properties notice such a bug.

### InstallRecovery

State: `dir`, `backup`, `retained`, `journal`, `config` are the disk; `prefs`,
`blocked` and the program counter `pc` with `job` and `after` are memory and are
lost in `Crash`. `accepted` and `lapse` are history: the package last acknowledged per
version, and whether an installer has given up its rollback (`"memory"`: what it left
wrong ends with a restart; `"disk"`: preferences were saved from that memory since).

| actions | code |
|---|---|
| `Begin`, `WriteJournal`, `MoveToBackup`, `Activate` | `commit_staging`, `InstallRecovery::prepare`; an older journal of the plugin is settled first |
| `Validate`, `PersistPreferences`, `Refresh`, `Start`, `Commit`, `RestorePreferences` | `install_transaction_locked`, `PackageCommit::finish`, `restore_install_preferences` |
| `SetAside`, `PutBack`, `UndoConfig`, `CloseJournal` | `rollback`, `restore_config` |
| `DropBackup`, `DropJournal` | `cleanup` |
| the failing alternative of each | the caller's reaction: abort, Drop retry, giving up at boot; after a failed completion marker also the refusal of `stop_for_reinstall` (1800), after which only Drop rolls back and memory keeps the new entry |
| `Boot`, `RetryScan`, `Crash`, `SetEnabled`, `SetOther` | `load`, `retry_plugin_scan`, the user |

Package contents are model values with a version each; two packages of one
version differ in bytes, which is the case a replacement has to get right. The
preferences are the plugin's own entry and one bit for everybody else's. Not in
the model: archive extraction, checksums and manifest validation, which are
functions of the bytes.

`AtomicInstall` keeps two variables: the package in each version directory and
the entry that names it. `InstallIsAtomic` is `AtomicInstall!Spec` under the
mapping `AbsDir`, `AbsSetting`: what a restart would establish. While a journal is
uncommitted that is the original and the previous entry, so every file-system
call before the completion marker is a stutter, and the marker is the
installation. A third variable, `astray`, says that the entry of an installation
that was undone has been saved: from then on `AtomicInstall` promises nothing of the
entry, and as much as before of the packages.

### PluginDistribution

State: `st` (what the service holds: source, credential, generation, sequence,
public and restricted catalog, the answer that may be shared), `onDisk` (settings,
the two caches, `pub1` and `res1`, those an older version left, which a start reads when
the newer file is missing; and as history `spared`, `res1` has outlived a removal, and
`hushed`, a warning was withdrawn before the cache was written again), `srv` (what
the distribution server knows), `now`, `req` (catalog requests and installations, each
with the reply that is on its way), `installed`, and `denied`, which is history.

| actions | code |
|---|---|
| `Load` in `CatalogInit` and `Restart`, `Configure`, `Observe` | `load`, `configure`, `expire_known_code` |
| `Call`, `BeginCatalog`, `BeginCoalesced`, `BeginInstall` | the gate of catalog requests, `begin_request` |
| `ServiceAnswers`, `ServiceChanges`, `TimePasses` | the server and the clock: an answer is fixed when it is given and handled later |
| `Authenticate`, `CodeRejected`, `KnownExpired`, `ScopeOfCatalog`, `ScopeOfInstall`, `UpdateTaken`, `UpdateDenied`, `CommitCatalog` | the replies, `invalidate`, `commit_catalog` |
| `PackageDenied`, `UpdateChecked`, `PackageFetched`, `BeginCommit`, `InstallPackage`, `Cancel`, `Cancelled` | an installation from the catalog and the jobs of `plugin_manager.rs` |

Every request remembers generation and sequence; the module says which answers
still count. Each of the four caches and the settings may fail to be written or
removed by itself, and a restart may come between them.

### PluginHost

State: `rec` (`PluginRecord`), `disk`, `procs` (process objects: child, alive
flag, handshake, reader), the queue (`att`, `pending`, `closed`), `worker` (the
two activation workers), `user` (threads in a call, restorations, the manager),
`mgr` (the operation that holds the management lock), `sd` (shutdown), `frozen`.

| actions | code |
|---|---|
| `EnterCall`, `CallActivates`, `Dispatch`, `EndCall`, `GiveUp` | `call`, `activate`, a waiter's deadline |
| `Restore` | `schedule_restore`, which activates without `enter_call` |
| `Pick`, `Begin`, `StopPrevious`, `Launch`, `Register`, `Hello`, `Reject`, `Finish`, `Discard`, `Complete` | `run`, `spawn_one`, `StartupGuard` |
| `ChildDies`, `ReaderEnds`, `ProcessExited`, `Reap` | the child, `protocol_ended`, `process_exited`, Drop |
| `Enable`, `Disable` (also uninstall), `Pause`, `MgrInvalidate`, `MgrStop`, `RemovePackage`, `ForgetPlugin`, `Unlink` | `set_enabled`, `uninstall` |
| `Install`, `Place`, `Refresh`, `Start`, `StartEnds`, `Rollback`, `RefreshBack`, `Restart` | the runtime side of `install_transaction_locked` and `restore_previous_runtime` |
| `BeginUpgrade`, `EndUpgrade`, `BeginShutdown`, `CloseQueue`, `TakeProcesses`, `StopTaken` | `begin_upgrade`, its guard, `shutdown` |

Revisions are kept: a start remembers the revision it was queued for and its
result counts only if the record still has it. The files of an installation are
one value per version directory here; `InstallRecovery` has their detail.

### PluginLifecycle

State of one plugin: `file`, `backup`, `mem` (the record file and what
`LifecycleState` remembers of it), `connected`, `installing`, `paused`, `acts`,
`calls` (the marks in `LifecycleState`), `rec`, `inst` (backends by instance
number, each with its activation worker and reader), `req` (host-service workers
in `lifecycle_call`), `mgr`, `frozen`, `bytes`. `good`, `abandoned`, `placed` and
`source` are history: which packages were committed, left running after a failed
commit, placed at all, and who wrote the record.

| actions | code |
|---|---|
| `Activate`, `Hello`, `Check`, `Connect` | `spawn_one`, with `connect_instance` under the state lock |
| `ChildDies`, `ReaderEnds` | the child; `protocol_ended` in its three steps |
| `Ask`, `Wait`, `Act`, `EndActivity` | `read_stdout`, `wait_instance`, `begin_activity`, `report`, `end_activity` |
| `EnterCall`, `LeaveCall` | `enter_call` and its guard |
| `BeginInstall`, `MgrPause` ... `MgrUnpause` | `install_transaction_locked`, `stop_for_reinstall`, `LifecycleInstallGuard`, `TargetPauseGuard`, rollback and restart |
| `BeginUninstall`, `MgrRemove`, `MgrErase`, `MgrForget`, `Cleanup` | `uninstall`, `LifecycleStore::remove`, `cleanup_retained_plugin_data` |
| `BeginUpgrade`, `EndUpgrade`, `Crash` | the freeze; the next start of the host, after install recovery |

Abstractions, each a choice a reader should know of. There is one plugin, since
file and maps are keyed by plugin and no operation reads another's entry. `alive`
stands for the alive flag together with the cancellation of the instance's
requests. `PluginProcess::stop` and `end_activity` are one step each. A failing
stop or removal is only in `PluginHost`. A worker at `"late"` connected its instance
after the end of the instance was told (section 5), and `abandoned` names the packages
of finding 3, so that the passing run can check everything else about the code as it
is. `Restores` says whether
background restorations happen: with them an installation may leave a process of
the replaced bytes under the new record (finding 1), and its reports would count
as those of an uncommitted package.

### PluginCalls

State: `call` (threads of the host in a call, with the invocation each one
carries), `proc` (alive flag, pending table, contexts, wire sequence, writer),
`queue` (the bounded write queue), what the backend received and said, `request`
(the host workers), `fired` (tokens of invocations that ended) and `events`.

| actions | code |
|---|---|
| `CallerCalls`, `Prepare`, `Enter`, `Insert`, `KeepContext`, `CheckAlive`, `QueueRequest` | the manager's registration, `PluginProcess::call` up to the queue |
| `Receive`, `Notice`, `SendCancel` and what follows | the waiting loop, a deadline or cancellation, the guards |
| `Write`, `Deliver`, `Publish`, `ReaderEnds`, `Dispatch` | writer and reader threads |
| `Nested`, `Worked`, `Reply` | host workers; `core.plugins.call` makes a call of another process |
| `NotAlive`, `FailAll`, `CancelAll`, `Exited`, `Stop`, `Kill` | `protocol_ended` in its steps, `stop` |
| `Says`, `Asks`, `Babbles`, `Crashes` | the backend |

An invocation is the set of tokens that end it, its ancestors' among them, so that
inherited deadlines and cancellations are those of the code.

### HostServices

State: `phase` (of each call and of the process), `req` (requests with their
method and how far they are), `late`, `table` and `entry` (the registry and its
entries), `lock` (of an entry), `picked`, `window`, `saved` (files committed).

| actions | code |
|---|---|
| `Arrive`, `Begin`, `Settle`, `Clean` | the dispatcher: prune, check, method, check, cleanup |
| `Open`, `Respond`, `SendEnds`, `Insert` | `open_read`, `open_write`, `http`, `create_spool`, exports |
| `Find`, `Refused`, `Write`, `Written`, `ReadFile`, `FileChunk`, `ReadBody`, `TakeBody`, `BodyEnds`, `Copy`, `Deliver`, `Close`, `Forget`, `Upload`, `Finish`, `Sync`, `Commit` | one use of a stream, in the steps between which its lock is free or its owner may end |
| `Answer`, `Pick`, `Take`, `Load` | picked files |
| `OpenWindow`, `KeepWindow`, `Navigate`, `Shut`, `Monitor` | `browser_sessions.rs` |
| `DeadlinePasses`, `Cancel`, `Leave`, `Sweep` | the ends of an invocation |

Content is a count of chunks, with the number that was acknowledged and whether a
part of one is in the file.

### RemoteBroker and WebAccess

`RemoteBroker` has the table (`actions`, `closed`), the contexts (`born`, `cancel`,
`files`, `waiting`), the service workers that wait in it and the streams that
transfer a file. `WebAccess` adds the three parts of a remote call that end
independently (connection, blocking worker `job`, context), the registry `reg`,
the permits, `stop` in its three steps and the installation of a Core update.

| actions | code |
|---|---|
| `NewContext`, `ForPlugin`, `CancelFiles`, `CancelChildren`, `CancelWaiting` | `RemoteContext`, whose cancellation takes several locks |
| `StartPick`, `StartRead`, `Ask`, `Woken`, `Deadline`, `LeaveWaiting`, `LeaveTable`, `Finish`, `Post` | `action`, `pick`, exports and notices |
| `Reply`, `Discard`, `Expires`, `Prepare`, `Revoke`, `OpenStream`, `StreamEof`, `StreamDropped`, `Confirm` | the visiting device, the table's expiry, credentials and transfers |
| `Register`, `EnterManager`, `Returns`, `CancelRequest`, `LoseConnection`, `DropContext` | `call`, `launch` |
| `StopCloses`, `StopDeactivates`, `StopCancels` | `stop` |
| `BeginUpgrade`, `CheckBlockers`, `UpgradeFails` | `core_update_install` |

### CliBridge and CliArguments

`CliBridge` has the endpoint file, one thread and one monitor per command,
`requests` and `queued` of `CliUiPending`, the events on their way to the page
(`channel`) and the page (`ui`), which may be loaded again at any time. `Insert`,
`Enqueue`, `EmitRequest`, `Wake`, `Remove`, `Unqueue`, `EmitCancel`, `Respond` are
`CliUiPending::request`; `MarkReady` and `EmitQueued` are `mark_ready`, which emits
after it has released the lock; `Close`, `ClearRequests`, `ClearQueue` are the drop
of the server; `Listen`, `ListenForCancels`, `ReceiveRequest`, `ReceiveCancel`,
`PassCheck`, `Acknowledge` are `CliUiBridge.tsx`. The page does not stop a command: word
to cancel it sets a signal (`aborted`), which `handleRequest` looks at twice. `stage`
says how far a command is: it waits for the plugins (`"asked"`) before the first look,
acts after it, and is with a plugin (`"handed"`) after the second.

`CliArguments` has no steps: its one variable is the command line. Its operators are
the option loops of the commands that change something (`Loop` is the position
of the one of `plugins call` before each pass); `Documented` builds every line the help text allows, and
`ArgumentsAgree` compares the two for all lines of up to `MaxWords` words.

### The six components of MCComponents

| module | state | main actions and code |
|---|---|---|
| `UserData` | `control` with its backup, `held` locks, `content` of each root with its marker, two processes, `latest` (history) | `Start`, `Resolve`, `LockRoot`, `Locked`, `Boot`, `Check`, `Copy`, `Verify`, `Undo`, `KeepControl`, `SwapControl`, `Written`, `Refused`, `Clear`, `Schedule`, `Crash`: `lib.rs` of the crate, `write_control` in its renames |
| `NetworkSettings` | `file` with its backup, the settings in use, the command in progress, `check`, `cache`, `install` | `Update`, `DropBackup`, `KeepBackup`, `Swap`, `Commit`, `ClearUpdates` (`network.rs`); `BeginCheck`, `Ask`, `Answer`, `Install`, `InstallFails` (`core_update.rs`) |
| `EventFeed` | `feed` (buffer, sequence, run), `page` (cursor, poll), `unseen` (history) | `Publish`, `PublishLong`, `Serve`, `StartSharing`; `Connect`, `Poll`, `Receive`, `LosePoll` |
| `LocalInstaller` | `author` (sources), `imports`, `uploads`, `batches`, `installed`, `installs` (history) | `Open` ... `DiscardUpload`, `PrepareSources`, `PrepareUploads`, `CopySource`, `Inspect`, `Present`, `Run`, `Reverify`, `InstallItem`, `Reset`, `StartImporter` |
| `ScanRetry` | `package` on disk, `chosen` (preferences), `record`, `verifier` (workers), `manager`, `admission`, `autostart` | `RefreshReads`, `RefreshSwaps`, `ScheduleRetry`, `Spawn`, `Consider`, `Scan`, `Accept`, `RecordFailure`, `Exhaust`, `RestoreAccepted`, `RetryNow`, `PlacePackage`, `UndoInstall`, `ListRestores` |

In `ScanRetry` and `LocalInstaller` the transaction that puts a package in place is
one step, with its failure: the detail is `InstallRecovery`'s. In `LocalInstaller` a
package is its bytes, but of an installed plugin the review keeps and compares only
what `Seen` shows (version and key, source, enabled), and every removal of a generated
file may fail: `leftovers` is the history of those. The components share no state
with each other, which is why one run checks them side by side: the initial states
choose the component that moves.

## 3 The runs

Each configuration gives the constants their values; none replaces a definition.
`tlc -workers 2 -config <cfg> <module>` repeats one. States are distinct states.

| run (cfg, module) | question | properties | states |
|---|---|---|---|
| `packages` (`Packages`, `MCPackages`) | Is an installation atomic when the process dies between any two calls, any forward, cleanup, rollback or recovery call fails, or the new backend cannot be stopped? What is offered, kept and installed from the catalog when answers are late, the code is rejected, files fail or are of an older version, and Core restarts? | `OriginalRetained`, `IdleIsCoherent`, `RecoveryCanFinish`, `InstallIsIsolated`; `NothingForeignShown`, `DenialsLast`, `InstallsAsAsked` | 3.0 M |
| `host_operations` (`HostOps`, `MCPluginHost`) | What do enabling, disabling, uninstalling, an installation with its rollback, an upgrade and a shutdown leave when they meet a call, a start and a child that fails in any way? | `NobodyStranded`, `StaysDown`, `RunningIsHandshaken`, `BackendMatchesFiles` | 3.7 M |
| `host_liveness` (`HostLive`, `MCPluginHost`) | Is every waiter answered without its deadline, and does every child end? | `WaitersAnswered`, `ChildrenExit` | 0.23 M |
| `host_restore_during_install` (`HostRestoreInstall`) | finding 1 | `RunsInstalledPackage`, violated | |
| `host_refresh_other` (`HostRefreshOther`) | finding 2 | `RunningIsHandshaken`, violated | |
| `lifecycle` (`Lifecycle`, `MCPluginLifecycle`) | Whose reports and activities does the host keep while the plugin is replaced, removed, upgraded around, damaged on disk and crashes? | `HeldIsQuiet`, `IntentIsCommitted`, `OnlyOvertakenLeftBehind`, `FileMatchesMemory`, `LatestReportWins`, `OriginalsKept` | 5.8 M |
| `lifecycle_commit_fails_busy` (`LifecycleCommit`) | finding 3 | `IntentOutlivesInstallation`, violated | |
| `plugin_calls` (`PluginCalls`, `MCPluginCalls`) | Do answers reach their call and does every caller return, with deadlines, cancellation, full queues, plugins that call each other, and processes that end in every way? | `RepliesMatch`, `CallersReturn`, `EndedIsQuiet` | 0.16 M |
| `host_services` (`HostServices`, `MCHostServices`) | Are files whole and is everything released when requests on one stream overlap with the end of their call? | `StreamsAreWhole`, `NothingUntold`, `EndedCallsRelease` | 0.19 M |
| `web_access` (`WebAccess`, `MCWebAccess`) | What is left of a remote call and its files when the connection, the sharing or the credentials end, and a Core update comes between? | `NothingOutlivesItsAsker`, `UpgradeLosesNothing`, `UndeliveredKept`, `CallsEnd` | 0.24 M |
| `cli_bridge` (`CliBridge`, `MCCliBridge`) | Is each command answered, and nothing more begun for it once the page was told it was given up, when pages reload, clients hang up, events fail and Core closes or crashes? | `RunsAsAsked`, `NothingLeftBehind`, `CommandsEnd` | 0.81 M |
| `components` (`Components`, `MCComponents`) | Six smaller questions, one component at a time: are options read as documented; is the user's data kept; do settings and credentials belong together and is the update current; are gaps told; is what was reviewed installed; are verdicts and retries sound? | `LinesAgree`; `UserDataSafe`; `SettingsKept`, `UpdateIsCurrent`; `NoSilentGap`; `ImportsSound`; `RetriesAreSound`, `RestoreNotForgotten` | 3.3 M |

Several properties are conjunctions, named for what they say together; the
conjuncts have names and comments of their own in the module: `NobodyStranded` is
`TransitionsOwned` and `QueueServed`; `StaysDown` is `FrozenIsQuiet`,
`DisabledStaysDown` and `ShutdownIsFinal`; `BackendMatchesFiles` is
`RunsInstalledPackage` and `OwnStartHasExited`; `IdleIsCoherent` is
`SettledAgrees` and `PendingIsIsolated`, while `lapse = "none"`; `InstallIsIsolated` is the refinement
`InstallIsAtomic` and `OthersUntouched`; `RecoveryCanFinish` has
`AbsentBackupMeansOriginal`; `HeldIsQuiet` is `PausedIsQuiet` and `FrozenIsIdle`;
`DenialsLast` is `DenialSticks` and `DenialSurvives`; `StreamsAreWhole` is
`CommitsAreWhole` and `ChunksOnce`; `UserDataSafe` is `DataKept` and
`RootsExclusive`; `ImportsSound` is `InstalledAsReviewed` and `ImportsOwned`;
`RetriesAreSound` is `RetryOwned` and `VerdictIsFresh`.

### Bounds

Most modules take their bounds as a set of *budgets*: the initial states choose
one, and it says who is there, what may happen how often and which faults may
come. So one run explores each hazard in the company of those it meets, instead
of everything with everything.

- **Install.** `Packages` is three packages of two versions: one pair shares a
  version, so an installation can be a first one, a replacement with other bytes,
  or an addition of a version. `MaxTx = 3` installations, since what one leaves
  behind can only matter to the next. Crashes, retries and preference changes are
  not bounded. `FaultSteps` names the calls that may fail: all of them, also those of
  a rollback that the installer runs, and the stop of the new backend. An installation
  does not start over an unresolved journal (section 5 says why).
- **Distribution.** Two sources, one restricted plugin, two catalog requests or two
  installations or one of each, versions 1 and 2, one change of the access code,
  one or two configurations, one change at the server, one passing of time, and
  network, files or crashes at will within the budget. In two budgets the first start
  finds the settings and both caches of an older version: in one any file may fail, in
  the other two installations overtake each other.
- **Host.** Two operations of the manager, so that each meets the remains of each
  other, or one installation whose rollback is a second change; three packages in
  two directories; two workers, the code's limit (`plugin_activation.rs` 139);
  `MaxProcs = 3` backends are the old, the new and the one started again after a
  rollback. Two plugins share the queue in a budget of their own, where a thread
  may be refused. A process, call or operation that the bounds no longer allow is
  not started; nothing is dropped half way.
- **Lifecycle.** Two requests, so that one can be held while another acts; two
  instances, an old one and a newer; two packages; one activity, one call, one
  crash. Larger values repeat roles that are taken; the theorems of section 4 hold
  for all of them. `MCApart`, a state constraint, does not follow a start that its end
  overtakes into a damaged record or a crash of the host, which it has nothing to do
  with; no property of this run is about liveness.
- **Calls.** Up to three calls, a write queue of one frame, one host worker, two
  pending requests: every table is full as soon as two want it. The budgets are
  one id used twice, two callers of a process that is stopped, every way a process
  ends, a request without a context, deadlines of nested calls, a full queue, and
  a call that goes to another plugin and back.
- **Host services.** Up to four requests of two calls and the process, two at a time,
  two streams, files of one chunk (a second read sees the end). A budget per
  kind of content, each with the end of its call or a failing disk or network.
- **Web access.** A root call with a nested one, one service worker, two
  interactions, one file, one stream and one permit; two interactions fill the
  table. `MCApart`, a state constraint, keeps nested calls and downloads apart; it
  cuts off only steps of devices and plugins, to which no fairness is given, so
  the liveness properties are not weakened where they are checked.
- **CLI.** Two commands, two Cores one after the other, faults in pairs: clients that
  hang up with a page that is loaded again, deadlines with the close of Core or events
  that cannot be emitted, the close with a crash.
- **Components.** Lines of up to five words after the name; two roots, two files,
  four starts, a crash and two failures; two addresses, two checks, two changes and
  crashes at every step; a buffer of two events and six events; two uploads, two
  batches, three packages of one plugin, one of which does not verify, and one of
  another plugin, two of the valid ones with the same version, source and key, one
  removal that fails; a limit of
  two attempts, three retry workers, and every kind of interruption with a failing
  step in one of the budgets.

`CHECK_DEADLOCK FALSE` stands in every configuration because each system may
really stop: the host after its shutdown or with its budget used up, and an
environment that asks for nothing more. `MCSymmetry` permutes workers and two
packages of one place, or the requests; they are interchangeable in every
definition, and no run with a liveness property uses symmetry.

### Fairness

Only the program's own threads are fair, and only weakly. `PluginHost` has it for
each activation worker (its waits are bounded: the handshake has a timeout, so one
of `Hello` and `Reject` always comes), for the management operation, the shutdown,
a caller between two of its steps, the reader of a child that is gone and the last
handle on a process. Not fair are calls, operations, faults, the death of a child,
the answer of a backend (a caller ends fairly only when its process is no longer
alive, because `fail_pending` answers it), `GiveUp` (so waiters cannot rely on
their deadline) and the decision to shut down. `PluginCalls` has it for calls, host
workers, readers and whoever ends a process; a backend owes nothing, not even to
read its input, so the writer may hang. `HostServices` has it for its workers and
for the monitor of a window, and for a cancelled caller, which looks every 20 ms.
`WebAccess` has it for service workers that go on, the steps of a cancellation
once begun, the blocking worker and `stop`; devices, plugins and the clock owe
nothing. `CliBridge` has it for the serving threads, their monitors and the close;
the page owes nothing. `InstallRecovery` has it for installer and recovery, which
are sequential code. The other modules state no fairness; their properties are
safety.

### Mutants

Each property of a passing run names, in `PROJECT.json`, one definition and a
plausible bug for it (a dropped guard, a swapped order, a missing reset). With the
definition's body replaced by the bug the same configuration violates the property.

## 4 The proofs

TLAPS checks the following for every value of the constants: any sets of
versions, packages, plugins, threads, requests, any bounds, any set of failing steps.
The last column names what a theorem assumes of the constants beyond the modules'
`ASSUME`s; where it is empty, the theorem holds of every behaviour of the module.

| theorem | says | assumes |
|---|---|---|
| `InstallRecoveryProofs!Inductive` | `Spec => []IInv` | |
| `InstallRecoveryProofs!TypeCorrect` | `Spec => []TypeOK` | |
| `InstallRecoveryProofs!NothingLost` | `Spec => []OriginalRetained`, also when rollback and recovery calls fail and installations start over an unresolved journal | |
| `InstallRecoveryProofs!OthersLeftAlone` | `Spec => OthersUntouched`, whatever fails | |
| `InstallRecoveryProofs!RecoveryFinishes` | `Spec => []RecoveryCanFinish` | `~InstallOverPending` |
| `InstallRecoveryProofs!Atomicity` | `Spec => InstallIsAtomic`, the refinement of `AtomicInstall`, whatever fails | `~InstallOverPending` |
| `InstallRecoveryProofs!Isolation` | `Spec => InstallIsIsolated` | the same |
| `InstallRecoveryProofs!Coherence` | `Spec => []IdleIsCoherent` | the same |
| `PluginHostProofs!TypeCorrect` | `Spec => []TypeOK` | |
| `PluginHostProofs!EveryoneServed` | `Spec => []NobodyStranded` | |
| `PluginHostProofs!SwitchedOff` | `Spec => []StaysDown` | |
| `PluginHostProofs!HandshakesHold` | `Spec => []RunningIsHandshaken`, which findings 1 and 2 violate | `InstallsApart`, `InstallsAlone` |
| `PluginHostProofs!BackendsMatch` | `Spec => []BackendMatchesFiles` | `InstallsApart`, `StopsWork` |
| `PluginLifecycleProofs!TypeCorrect` | `Spec => []TypeOK` | |
| `PluginLifecycleProofs!InstallMeetsNoWork`, `UpgradeMeetsNoWork`, `WorkIsNotCutOff` | `Spec => []PausedIsQuiet`, `Spec => []FrozenIsIdle`, and both as `Spec => []HeldIsQuiet` | |
| `PluginLifecycleProofs!FileAgrees` | `Spec => []FileMatchesMemory` | |
| `PluginLifecycleProofs!DamageIsKept` | `Spec => OriginalsKept` | |
| `PluginLifecycleProofs!ActivitiesEnd` | `Spec => []OnlyOvertakenLeftBehind` | |
| `PluginLifecycleProofs!LatestWins` | `Spec => LatestReportWins` | |
| `PluginLifecycleProofs!IntentCommitted` | `Spec => []IntentIsCommitted` | `~Restores` |
| `PluginLifecycleProofs!IntentOutlives` | `Spec => []IntentOutlivesInstallation`, which finding 3 violates | `~Restores`, `"commit" \notin Faults` |
| `PluginCallsProofs!TypesHold`, `WiresNameCalls` | `Spec => []Typed`, `Spec => []Wires` | |
| `PluginCallsProofs!RepliesReachTheirCalls` | `Spec => []RepliesMatch` | |
| `HostServicesProofs!WholeStreams` | `Spec => []StreamsAreWhole` | |
| `HostServicesProofs!UntoldIsDropped` | `Spec => []NothingUntold` | |
| `WebAccessProofs!TypeCorrect` | `Spec => []TypeOK` | |
| `WebAccessProofs!AskersAreOutlived` | `Spec => []NothingOutlivesItsAsker` | |
| `WebAccessProofs!UpgradesInterruptNothing` | `Spec => []UpgradeLosesNothing` | |
| `WebAccessProofs!ExportsAreKept` | `Spec => UndeliveredKept` | |
| `PluginDistributionProofs!ShownIsOwn` | `CatalogSpec => []NothingForeignShown` | |
| `PluginDistributionProofs!DenialsStand` | `CatalogSpec => []DenialsLast` | |
| `PluginDistributionProofs!InstallsAreAsked` | `CatalogSpec => InstallsAsAsked` | |
| `ComponentsProofs!CommandsRunAsAsked` | `CliSpec => RunsAsAsked` | |
| `ComponentsProofs!AnsweredIsForgotten` | `CliSpec => []NothingLeftBehind` | |
| `ComponentsProofs!GapsAreTold` | `FeedSpec => []NoSilentGap` | |
| `ComponentsProofs!SettingsAreKept` | `NetSpec => []SettingsKept` | |
| `ComponentsProofs!UpdateStaysCurrent` | `NetSpec => []UpdateIsCurrent` | |
| `ComponentsProofs!RetriesSound` | `ScanSpec => []RetriesAreSound` | |
| `ComponentsProofs!RestoresRemembered` | `ScanSpec => []RestoreNotForgotten` | |
| `ComponentsProofs!ImportsAreSound` | `ImportSpec => []ImportsSound` | |
| `ComponentsProofs!DataIsSafe` | `DataSpec => []UserDataSafe` | |
| `ComponentsProofs!AnyLineAgrees` | `ArgumentsAgree(kind, options)` for every kind of command and any words, `MaxWords` of them at most | |
| `ComponentsProofs!LinesAreRead` | `LineSpec => []LinesAgree`, for the lines of the run | |

`ConstantsAssumption` gives the constants their types; `NoneAssumption` says that
the model value `None` is none of the values it stands beside, and
`DistributionAssumption` and `HostAssumption` the same of theirs; `ChecksAssumption`
numbers the checks for updates from 1, and `ScanAssumption` the verifying workers;
`ImportAssumption` says that the two other states of the management lock are not the
name of a batch, and `DataAssumption` that the default root is a root, that the two
processes are two, and that `NoRoot` is none of these; `WordsAssumption` says that
`MaxWords` is a number. TLC evaluates them in the runs.

**InstallRecovery.** `OriginalRetained` says that the acknowledged package is in
its directory, in a backup or set aside. It is not inductive: the deletion of a
backup would break it if the backup were the only copy. `IInv` adds why it never
is. `CommittedInPlace`: a journal that is committed has the acknowledged package
in its directory, so the backup that `DropBackup` deletes is an older one.
`FreshNames`: a transaction's backup name is unused until its rename, so no
backup is overwritten. `PackagesInPlace`: a package is only ever in the directory
of its own version, so restoring a backup does not land on another version's.
`InstallerAt` and `RecoveryAt` tie the program counter to the journal and the
directory, which is where crashes and retries come in: they say that every step
may be repeated from what an earlier attempt left. The proof has a lemma per
action and, below it, a step per conjunct that the action can disturb.

*What a rollback finds.* `RecoveryCanFinish` needs `UndoInv` beside `IInv`. Its parts
say that the name under which a candidate is set aside is free (`FreshRetained`),
that a recovery has looked at the journal it settles (`Looked`), that whatever it
finds can be undone from there (`RollbackFinds`), and that the backup a journal
names exists unless the original is back (`BackedUp`). An installation over a journal
that could not be settled breaks the last one, which is the weakness of section 5 and
the reason for `~InstallOverPending`.

*The refinement.* `Atomicity` shows that the initial states map to initial states and
that each step maps to a step of `AtomicInstall` or a stutter, with one lemma per
action: only the writes of the completion marker change what a restart would
establish, and both halves of the mapping change there together. It rests on
`PrefsInv`, which says that memory follows the disk wherever the installer is between
two operations (`Follows`), and what the installer knows of the entry it will restore. A
rollback that fails at the hand of the installer, and a backend that cannot be stopped
for it, break the first: the preferences in memory stay (section 5). From there on only
`LeftBehind` holds, which is why `PrefsInv` has `Follows` for `lapse = "none"` alone. It is
enough for the refinement as long as nothing was saved from such a memory, because the
rollback that Drop or a later start runs takes the entry from the journal; once
something was saved, the abstract entry is `astray` and the packages still change in one
step. So every failing call is in the theorem, as it is in the run. `Coherence` adds `ChosenInPlace`: the
preferences name a package that is in its directory.

**PluginHost.** `NobodyStranded` and `StaysDown` are proved from one invariant,
`HostInv`, because they share the question who owns a plugin. `QueueSound` says that
an attempt is pending once or held by one worker that has not been cancelled.
`StartsOwned` and `StopsOwned` give each plugin in Starting or Stopping its thread: a
worker at one of its start steps with the plugin's revision, or the manager at the
steps after its invalidation. `KeptDown` is stronger than `DisabledStaysDown`: of a
plugin that must be down no attempt is left either, and a worker that still has one is
past the point where it would register a process, or will find itself cancelled.
`FreezeHolds` extends `FrozenIsQuiet` to the queue. The proof goes action by action,
and groups the steps in which workers only go on (`WorkersGoOn`) or in which no process
comes to life (`NoRevival`), so that the conjuncts about them are treated once.

*What runs behind a record.* `RunningIsHandshaken` and `BackendMatchesFiles` are false of
the code as it is (findings 1 and 2), so their theorems say which company an
installation must not have. They restrict only budgets in which something is installed;
any other budget is left as it is.

- `InstallsApart`: no background restoration and no removal beside the installation.
  The first is finding 1. The second is there because revisions restart with a plugin
  that is removed and installed again (`plugin_manager.rs:3760`), so that a start of the
  old record may count as one of the new.
- `InstallsAlone`: one plugin. Finding 2 is a refresh that shows another one as Running.
- `StopsWork`: an installation's fault is not a child that cannot be stopped, nor one
  whose output is garbage. Such a child outlives its record until its Drop, which a
  rollback does not wait for.

`BackendInv` is what both rest on. Most of it is about time: the task of a worker is
never newer than the record, and is older once it is cancelled or about to be
(`TasksBehind`), so whoever registers a process under the record's own revision is the
only one (`StarterOwns`); nobody but the manager starts the plugin that the manager
changes (`TargetQuiet`); and a backend that lives while it does is that of the start
which the manager waits for (`TargetDown`). On this `HandsShaken` says where an accepted
handshake is known, `FilesKnown` what the installer knows of the directory at each of
its steps, `BackendOf` that a start which still counts launches the record's package,
and `ChildrenHeld` that each living child is in a record, or with the thread that is to
register or stop it. The proof has two halves. The first (`NextEffects`) shows that every
action is one of the moves of `Stepped`, which keep only what the invariant speaks of;
the second shows that the moves preserve the invariant, and never sees the actions.
The budgets of `HostOps` satisfy the three hypotheses, and TLC finds the conjunction of
these invariants true in all of its 3.7 million states.

**PluginLifecycle.** The invariants are separate and each rests on the types.
`TInv` adds to `TypeOK` what its preservation needs (room for the package about to
be placed, a request that belongs to a backend, a package in place once placed).
`StoreInv` classifies every step by what it does to the store (`StoreSteps`:
nothing, a write, a refused or failed write, the reading at a start) and says
when damage is remembered; agreement of file and memory, and the copy of damaged
bytes, follow. `QuietInv` adds that only an operation past its pause holds the
plugin paused; the steps are grouped into those that only end work and those that
begin some, and every one of the latter tests both marks. `OnlyOvertakenLeftBehind` is
inductive beside the types: an acceptance that comes after the end was told is told
from one in time (`"late"`) in the step that makes it so, and of every other backend
whose end was told nothing is begun any more. `OrderInv` puts the writer of the record, the
connected instance and the one being started in order.
`CommitInv` is about whose word is believed. `LivingInRecord`: a backend that lives is
the one its record names, so an installation that replaces the record leaves no other
speaker. `OpenInstall`: between the placing of a package and its commit, the package
placed is the only one not yet vouched for and no report passes. `SpeakersVouched`:
whoever is connected, or will be, runs a package that was committed, was left running
by finding 3, or belongs to the installation that is open. A background restoration
during an installation starts a backend outside this order (finding 1), hence
`~Restores`, which the run has too.

**PluginCalls.** A caller may reuse a request id and a backend may answer late, twice
or never, so `RepliesMatch` cannot rest on ids. `Drawn` says that two calls of one
process never share a wire number and that no number is above the sequence;
`Carrying` that each place a number can be in (the pending table, a context, a frame in
the queue, a request received, an answer written) has it together with the call that
drew it. A reply found by its number is then the reply to that call.

**HostServices.** Several requests may use one stream at a time, and what each of them
found may be stale when it acts. `HostInv` says for each place of a request what it holds
there (`Holds`): the lock of the stream while it writes, reads or commits, the body of a
download while it fetches, and the content that was found when the lock was taken, which
no other request can have replaced since. `Placed` says that only a request of a call that
was told of a stream is at such a place. `Whole` ties the content of a stream to its
opener, and the lock to the one request that has it. From these follow the two halves of
`StreamsAreWhole`: a file is put in place once, by a commit that found it closed and not
torn, and everything acknowledged is in it (`SavedOnce`); and the chunks that reads were
answered with are different ones and are all there are up to the position of the
stream (`ReadOnce`), which is why none is lost between two readers that take turns.
`Accounted` is what `NothingUntold` needs: an entry in the table belongs to a request
that is still going to settle it or was answered.

**WebAccess.** `Families` says how contexts relate: a child is born of a living parent,
and a parent whose cancellation has passed its children finds each of them cancelled
as well. `AskersAlive` says that an unanswered request belongs to a context that has
not finished its cancellation, or can still be withdrawn by it (`Withdrawable`): its
worker is in the list the cancellation will go through, or is on its way out.
`Counted` ties the transfers of an entry to open streams. For the update,
`FreezeHolds` says that nothing enters while the host is frozen and `Settled` that what
the blocker check found empty stays empty until the end. `ExportsAreKept` is an
action property: its proof names, for each action, what it may do to the table.

**PluginDistribution.** An answer is handled long after it was asked for, and nothing
can be said of it but under a condition. `Fits` is what is said of a request while its
generation is the current one: it asks the configured source with the configured code,
which is not known to be rejected once the request is past its first reply, and no
epoch it has gathered or is about to read is older than a denial. `Follows` is what a
step may do to the state: raise the generation, after which `Fits` is asked of nobody, or
leave alone everything it speaks of. That no request is ahead of the state (part of
`Ordered`) makes the first final, and one lemma (`StaysSound`) treats all requests that a
step does not move. A commit of a catalog may then store what it gathered. `Survives`
is what crosses a restart: of a code known to be rejected both caches are gone, the
newer and the one of an older version, or the settings name the rejection, or the
service has warned, whichever of the writes failed. `Lasts` says the same of single
denials: what the files could show of the code in use was not denied. Both except the
two cases that `DenialSurvives` names, and no other; that a configured code is a new
one, and so on no file yet (`Young`), keeps the caches of an earlier code out of them.
`InstallsAsAsked` needs only that a job which commits was not
cancelled, and that the mode is compared again then.

**CliBridge.** `RunsAsAsked` speaks of what the page did, `SpokenOnce` of where the word
to start a command is: with its thread, in the queue, with `mark_ready` or on the
channel, in one of them and once, until the page has it. So a command is started once.
`GivenUp` says that the word to cancel comes after the other was given out, and that a
page which heard it has set the signal of the command, or remembers the word until the
other comes; a page that is loaded again has forgotten both. From it follows that
neither look at the signal lets such a command pass. `Forgotten` says what is left of a command at each place of
its thread.

**EventFeed.** `NoSilentGap` alone says nothing of an answer that is still under
way. `AnswerComplete` does: unless it says that something is missing, it holds
every unseen event up to its cursor. That it does when it is given needs
`Numbered`: numbers only grow, and an unseen event that is still in the buffer is
for this page. A new run of sharing has a number the page does not have, which is
why nothing is claimed until it connects again.

**NetworkSettings.** `SettingsKept` needs `FileFollows`, which says what the file
and its backup hold at each stage of a change: a backup counts only while the
file is missing, and then it is what is in use; a backup that could not be removed
may say anything, because a readable file wins. `CredentialsBound` adds that stored
credentials carry the address they were entered for through every copy.
`UpdateIsCurrent` needs two facts about what is under way. `CheckedAs`: a check
whose generation still counts asks through the proxy in use, except between the
new configuration and the clearing of the cache, which begins a new generation.
`InstalledAs`: an installation whose generation still counts took what the latest
answer had found, so that it may put its update back.

**ScanRetry.** Many workers may exist for one record: those of earlier retries, which
the record does not count any more, run on. `Awaited` says that the one the record is
assigned to is the latest that was given out, and that when it is about to apply its
verdict nothing has been read for the record since it read; every other worker finds
that it is not assigned, and stops. `Managed` says where the manager is, in particular
that between giving out a worker and starting its thread nobody else holds that number,
so the failure of the thread can be recorded by it alone. `Retried` bounds the record:
what it says of a retry speaks of one that is kept, by a worker that was given out.
`RestoreKept` is `RestoreNotForgotten` without its bound on the workers: between the
verdict and the restoration it is the worker that remembers.

**LocalInstaller.** `Compared` is about the time between the comparison of a package
with its review and its installation: the batch holds the management lock, so no other
command can change the plugin, and the snapshot it installs is its own file, whatever
the author builds. For the files, `ImportsOwned` is not enough by itself: when one of two
batches ends, its files go, or stay as leftovers, and what the others need survives only
because nobody else needs the same. `Owns` says so: no two batches share a file, and an import that
a batch has taken cannot be taken or removed again. `Stopped` carries both over a crash,
after which nobody owns anything and the files are swept.

**UserData.** `DataKept` looks only at the root that a start would choose; why a step
never harms it, or makes another root the chosen one too early, takes three things.
`LocksKept`: from the second resolution of the roots on, the roots that a process works
on are locked by it, and only a process that was started on the default root, whose
lock covers the control file, migrates or writes it. So two processes work apart
(`WorksApart`), and what one of them knows survives the steps of the other
(`OthersKept`), which is where a process started with `--data-dir` on the profile's own
active root comes in. `Follows`: what a process takes for the active root is what the
control file or its backup says, also half way through `write_control`; between the
rename and the end of the commit it is the target of the migration. `Copies`: the files
that are no longer to be copied are equal in both roots, and a control file that is
about to name a new root names one that holds everything. With these the old root is
cleared only when no start would choose it, and the undoing of a copy touches the
target alone.

**CliArguments.** `AnyLineAgrees` is about words of any kind, not only those of the run.
It needs induction, which `Induction` derives for sets of numbers from the library's
theorem that a set of numbers has a least element; `Iteration` derives from it that
the recursive functions `Loop` and `LinesOf` are what their equations say. `Passes` shows
that the positions of the option loop increase and that some pass is the last one
(`LoopEnds`), so the words fall into the stretches between them; `CallPart` says that each
such stretch is a documented group when the parser accepts, and `LineRead` that words
which fall into groups are a documented line, made of these groups. The time limit
agrees because the one position at which `--timeout-ms` is given starts the one group
that has it.

## 5 What the checks found

Each is a run that TLC ends with a counterexample, and an entry under `findings`
with the lines it quotes.

1. `host_restore_during_install` (`plugin_manager.rs:1568`). The pause of an
   installation holds calls back but not background restorations: one starts the
   old bytes while they are replaced, and the refreshed record takes it over.
2. `host_refresh_other` (`plugin_manager.rs:3763`). A refresh shows a plugin that
   awaits its handshake as Running; it is called before the handshake, and the
   start that owns it then stops a healthy backend.
3. `lifecycle_commit_fails_busy` (`plugin_manager.rs:1800`). When the completion
   marker cannot be written, a report that waits for this very installation makes
   the plugin busy, and the rollback is given up with the new backend running.

Five more were found by the modules. The first is excluded from the passing run by a
constant; the others are in it, and its property says what is still true beside them, so
that the runs can check everything else about the code as it is.

- *Installing over a journal that could not be settled* (`plugin_package.rs:603`).
  `existed` is read before `prepare` runs the recovery of that journal, which may
  bring the original back; the installation then fails on it, and its rollback,
  with no backup, sets the original aside and removes the journal. The preferences
  name a package that is not in its directory; its bytes are not lost
  (`NothingLost`). Excluded by `InstallOverPending = FALSE`.
- *The end of a backend overtakes its acceptance* (`plugin_runtime.rs:779`). The
  instance is cleared before the alive flag, so `spawn_one` connects a dead one,
  and an activity that a waiting request begins never ends: every later replacement
  and upgrade is refused as busy. `ActivitiesEndWithInstance` states that this does
  not happen, and the behaviours of the run violate it; what the run checks and
  `ActivitiesEnd` proves is `OnlyOvertakenLeftBehind`, that it happens in this way only.
- *An installer gives up its rollback* (`plugin_manager.rs:1756`, `1800`, `1801`). A
  rollback that fails, and a refusal of `stop_for_reinstall`, return before
  `restore_install_preferences`. Drop rolls the disk back, memory keeps the new
  preferences, and the next change of any preference writes them over the restored
  ones: they name a package that is not there. `lapse` remembers it; `IdleIsCoherent`
  claims nothing then, `InstallIsIsolated` only the packages and the other plugins.
- *A cache of an older version outlives its removal* (`plugin_distribution.rs:1134`).
  The result of removing it is dropped, and with no newer cache the removal of that
  one succeeds, so nobody is warned. Where the rejection itself could not be saved
  either, or the last plugin shown was denied, the next start shows the introductions
  again. Named in `DenialSurvives` as `Outlives`.
- *A configuration withdraws a warning* (`plugin_distribution.rs:496`). One that changes
  neither source nor code clears the warning about a denied introduction although the
  cache that still has it could not be written. Named in `DenialSurvives` as `hushed`.

Seen while modelling, with no run of its own because nothing in the repository
says otherwise or because it is outside the modules:

- *Installation.* A package
  found incompatible after its commit leaves the plugin stopped (1641). The guards
  are dropped so that reports are released before the pause ends (1573), and an
  activity that waited may be refused as busy.
- *Manager.* Revisions restart at 0 when a plugin is removed and installed again
  (3760). A refresh that cannot save the preferences has already replaced the
  records (522): it schedules no retries and may leave "retrying" shown with no
  worker. A process launched while the host exits is not yet registered and is
  not stopped (`lib.rs:677`). A shutdown answers the installer's wait before
  `StartupGuard` has stopped the backend, which `OwnStartHasExited` exempts.
- *Verification.* A refresh that makes a plugin usable schedules no restoration.
  A refresh applies its own scan, which may be older than the verdict of a worker
  it replaces. A worker that scans during an installation records that recovery is
  required; if the installation is rolled back without a refresh the plugin stays
  invalid until the user retries. An upgrade that freezes the host while a worker
  sleeps ends the retries, and a failed upgrade does not resume them.
- *Calls.* The lookup of an event's call and its emission are two steps
  (`plugin_runtime.rs:957`). A reply that does not fit the queue fails all calls of
  that plugin.
- *Streams and files.* A read whose deadline passes after the position moved
  (`byte_streams.rs:333`) loses its chunk. Handles of picked files are released
  only by reading them: 32 picks whose calls ended exhaust the limit until the
  plugin's process ends. Temporary files of exports are not swept after a crash.
- *Remote.* A pick checks its limit of files before it asks, so two may pass it. A
  poll across a stop and a start of sharing with the same key may skip events when
  the new sequence has passed the old cursor: `NoSilentGap` speaks of one run.
- *CLI.* A command that the page has begun goes on when its client has gone: `ui theme
  set` waits for the backgrounds and then sets the theme (`CliUiBridge.tsx:320`, `326`).
  A cancellation that comes before its listener (`CliUiBridge.tsx:88`) is lost.
  One endpoint file serves all profiles of a machine and whoever closes
  removes it. `mark_ready` returns at the first failed answer (`cli_ipc.rs:295`)
  and leaves later commands waiting for their limit. Commands in progress are
  lost when the page reloads, and end by their deadline. A client of a local
  `plugins install` stops reading after 50 seconds while the operation goes on
  (`docs/CORE-CLI-COMMAND-INVENTORY.md:107`).
- *Local installs.* What is compared of the installed plugin is its version, source,
  key and enabled flag (`plugin_local_install.rs:641`): other bytes of the same version
  and source, installed after the review, are replaced without a word. A file that
  cannot be removed stays until a start can. A reset while a preview is prepared leaves the preview and does
  not cancel a batch that runs. A batch refused as busy is used up.
- *User data.* A crash between the commit of a migration and the clearing of the
  old root leaves the old data there for good. `cleanup_committed_marker` removes
  the marker of a migration that was not committed when the target is opened with
  `--data-dir`. The locks are real only on Windows.

## 6 Limits

*Model-checked only, on the bounds of section 3.*

- Liveness (`WaitersAnswered`, `ChildrenExit`, `CallersReturn`, `EndedIsQuiet`,
  `EndedCallsRelease`, `CallsEnd`, `CommandsEnd`): the prover has no rule for fairness,
  nor for ENABLED.
- `RunningIsHandshaken` and `BackendMatchesFiles` outside the hypotheses of their
  theorems are violated by findings 1 and 2, or not claimed: an installation beside a
  removal, and `BackendMatchesFiles` with a child that cannot be stopped.

No RECURSIVE operator is used. The theorems with an entry in the last column of section
4's table hold under it; without it the modules have behaviours that section 5 describes.

*Left out of the modules that exist.*

- The transaction (`InstallRecovery`), the runtime side of an installation
  (`PluginHost`) and the verification of its result (`ScanRetry`) are three views
  of one operation and are not composed: each has the steps of the others as one
  step. A property across all three would need a state space TLC cannot finish
  with the crashes of the first and the threads of the second.
- In `packages` and `components` unrelated modules stand side by side and one moves
  in a behaviour; nothing is claimed about them together.
- That an interrupted recovery is eventually settled is stated as safety
  (`RecoveryCanFinish`): whatever a rollback finds, nothing but a failing call is
  in its way.
- UI events and snapshots, activation reasons and package revisions, dependency
  warnings: they are read by views only.
- `fsync` and torn writes: files are replaced by a rename, and a write is done or
  not done. In `UserData` a copied file may be there half.
- The waiters' table by request id, contracts and schemas of calls, sizes of frames
  and messages, nested calls beyond two plugins (the code limits their depth to 16).
- A second session of web access after a stop, routing, headers, assets.
- Commands of the command line that only read.

*Not modelled.* HTTP clients and the choice of a proxy for an URL, the update
manifest; configuration, kernel, logging and secrets; plugin schema, protocol, SDK,
signing and tools; the desktop shell; React views and their stores. They are
sequential functions of their input with unit tests, or glue to libraries whose
code is not here. `PROJECT.json` has the reason for each.

## 7 Plan

A composition of `ScanRetry` with the start of backends, if its states allow it.
