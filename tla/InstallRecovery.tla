---------------------------- MODULE InstallRecovery ----------------------------
(***************************************************************************)
(* Installing one plugin's package over the file system: the transaction   *)
(* of plugin_manager.rs, PackageCommit of plugin_package.rs and the        *)
(* durable journal of plugin_install_recovery.rs.                          *)
(*                                                                         *)
(* Every file-system call is one step, between any two of them the process *)
(* may crash, and a call named in FaultSteps may fail.  A rename, an       *)
(* atomic_write and a remove_file either happen or leave no trace.         *)
(***************************************************************************)
EXTENDS Naturals

CONSTANTS
  Versions,            \* version directories of the plugin
  Packages,            \* package contents (bytes and manifest)
  VersionOf,           \* the version a package's manifest names
  None,                \* no directory, no file, no preferences
  MaxTx,               \* bound: installations started
  FaultSteps,          \* the steps whose system call may fail
  InstallOverPending   \* may the user install while a journal is unresolved?

(* Operators named Mut... are faults a change of the code could introduce; *)
(* they are used only to see that the properties notice them.              *)

(* The names FaultSteps draws from.  "recover" is an undo or cleanup step  *)
(* run for recover_one, "rollback" one run by the failing installer;       *)
(* "busy": the new backend cannot be stopped for its rollback.             *)
Steps == {"journal", "toBackup", "activate", "validate", "prefs", "refresh",
          "start", "commit", "busy", "cleanup", "recover", "rollback", "restore"}

ASSUME ConstantsAssumption ==
  /\ VersionOf \in [Packages -> Versions]
  /\ MaxTx \in Nat
  /\ FaultSteps \subseteq Steps
  /\ InstallOverPending \in BOOLEAN

VARIABLES
  dir,        \* disk: version directory -> package
  backup,     \* disk: ".backup-<tx>" -> package
  retained,   \* disk: ".interrupted-<tx>" -> package
  journal,    \* disk: ".install-recovery.json"
  config,     \* disk: the manager configuration
  prefs,      \* memory: state.preferences
  blocked,    \* memory: the last scan reported INSTALL_RECOVERY_REQUIRED
  pc,         \* the step the host is about to take
  job,        \* the installation in progress
  after,      \* what the undo or cleanup in progress was called for
  nextTx,     \* the next transaction nonce
  accepted,   \* history: version -> the package last acknowledged there
  lapse       \* history: what an installer left wrong that gave up its rollback

disk   == <<dir, backup, retained, journal, config>>
vars   == <<dir, backup, retained, journal, config, prefs, blocked, pc, job,
            after, nextTx, accepted, lapse>>

--------------------------------------------------------------------------------
Txs == 1..MaxTx
Content == Packages \cup {None}

(* This plugin's entries of enabledPlugins, activeVersions,                *)
(* installationSources and publisherIdentities: the last three describe    *)
(* one package, so they are that package.                                  *)
Chosen == [pkg : Packages, enabled : BOOLEAN]
Entry == Chosen \cup {None}
Config == [mine : Entry, other : BOOLEAN]      \* other: another plugin's choice
Journal == [version : Versions, tx : Txs, backup : BOOLEAN,
            previous : Config, committed : BOOLEAN]
Job == [tx : Txs, pkg : Packages, existed : BOOLEAN, previous : Entry]

ASSUME NoneAssumption == None \notin Packages \cup Chosen \cup Journal \cup Job

InstallPcs == {"journal", "toBackup", "activate", "validate", "prefs",
               "refresh", "start", "commit", "restore"}
CleanupPcs == {"dropBackup", "dropJournal"}
UndoPcs == {"setAside", "putBack", "undoConfig", "closeJournal"}
Pcs == {"down", "idle"} \cup InstallPcs \cup CleanupPcs \cup UndoPcs

RecoverCalls == {"boot", "retry", "prepare"}
Calls == RecoverCalls \cup {"done", "abort", "abortRestore", "drop", "none"}
Lapses == {"none", "memory", "disk"}

TypeOK ==
  /\ dir \in [Versions -> Content]
  /\ backup \in [Txs -> Content]
  /\ retained \in [Txs -> Content]
  /\ journal \in Journal \cup {None}
  /\ config \in Config
  /\ prefs \in Config
  /\ blocked \in BOOLEAN
  /\ pc \in Pcs
  /\ job \in Job \cup {None}
  /\ after \in Calls
  /\ nextTx \in 1..(MaxTx + 1)
  /\ accepted \in [Versions -> Content]
  /\ lapse \in Lapses

(* A durable record of an installation that was not completed.             *)
Pending == journal # None /\ ~journal.committed

(* requires_recovery, which every scan of the plugin asks first.           *)
RequiresRecovery == Pending

Fault(step) == step \in FaultSteps

(* The class of an undo or cleanup step, by who called it.                 *)
UndoStep == IF after \in RecoverCalls THEN "recover" ELSE "rollback"
CleanupStep == IF after \in RecoverCalls THEN "recover" ELSE "cleanup"

Init ==
  /\ \/ /\ dir = [v \in Versions |-> None]
        /\ \E o \in BOOLEAN : config = [mine |-> None, other |-> o]
     \/ \E p \in Packages, e, o \in BOOLEAN :
          /\ dir = [v \in Versions |-> IF v = VersionOf[p] THEN p ELSE None]
          /\ config = [mine |-> [pkg |-> p, enabled |-> e], other |-> o]
  /\ backup = [t \in Txs |-> None]
  /\ retained = [t \in Txs |-> None]
  /\ journal = None
  /\ prefs = config
  /\ blocked = FALSE
  /\ pc = "down"
  /\ job = None
  /\ after = "none"
  /\ nextTx = 1
  /\ accepted = dir
  /\ lapse = "none"

--------------------------------------------------------------------------------
(* Control: entering and leaving the shared recovery code.                 *)

Idle == /\ pc' = "idle"
        /\ job' = None
        /\ after' = "none"

(* recover_one: a committed journal is cleaned up, any other rolled back.  *)
MutAlwaysCleanUp == "dropBackup"     \* mutant: the committed flag is ignored
SettleAt == IF journal.committed THEN "dropBackup" ELSE "setAside"
Settle(call) == pc' = SettleAt /\ after' = call

(* Rolling the package back for the installer.                             *)
Undo(call) ==
  /\ pc' = "setAside"
  /\ after' = call

(* The installer gives up with the new preferences in memory, or with its  *)
(* journal open and the plugin not isolated: a restart puts that right,    *)
(* but not once preferences were saved from such a memory.                 *)
GivesUp == lapse' = IF lapse = "none" THEN "memory" ELSE lapse
SavesPreferences == lapse' = IF lapse = "none" THEN "none" ELSE "disk"
Restarts == lapse' = IF lapse = "memory" THEN "none" ELSE lapse

(* How the caller of an undo or a cleanup goes on with its result.  An     *)
(* explicit rollback that fails is retried once when PackageCommit drops.  *)
Conclude(ok) ==
  \/ /\ after = "boot"
     /\ Idle
     /\ prefs' = config
     /\ blocked' = RequiresRecovery'
     /\ UNCHANGED lapse
  \/ /\ after = "retry"
     /\ Idle
     /\ prefs' = IF ok THEN config ELSE prefs
     /\ blocked' = (blocked /\ ~ok)
     /\ UNCHANGED lapse
  \/ /\ after = "prepare"
     /\ IF ok THEN pc' = "journal" /\ after' = "none" /\ UNCHANGED job ELSE Idle
     /\ UNCHANGED <<prefs, blocked, lapse>>
  \/ /\ after \in {"abort", "abortRestore"}
     /\ CASE ok /\ after = "abort" -> Idle
          [] ok /\ after = "abortRestore" ->
               pc' = "restore" /\ after' = "none" /\ UNCHANGED job
          [] OTHER -> Undo("drop") /\ UNCHANGED job
     /\ IF ~ok /\ after = "abortRestore" THEN GivesUp ELSE UNCHANGED lapse
     /\ UNCHANGED <<prefs, blocked>>
  \/ /\ after \in {"drop", "done"}
     /\ Idle
     /\ IF ~ok /\ after = "drop" THEN GivesUp ELSE UNCHANGED lapse
     /\ UNCHANGED <<prefs, blocked>>

--------------------------------------------------------------------------------
(* The installation.                                                       *)

(* commit_staging up to prepare: `existed` is read before the journal.     *)
Begin(p, overwrite) ==
  LET existed == dir[VersionOf[p]] # None IN
  /\ pc = "idle"
  /\ nextTx <= MaxTx
  /\ Pending => InstallOverPending
  /\ existed => overwrite
  /\ job' = [tx |-> nextTx, pkg |-> p, existed |-> existed,
             previous |-> prefs.mine]
  /\ nextTx' = nextTx + 1
  /\ IF journal # None THEN Settle("prepare")
                       ELSE pc' = "journal" /\ after' = "none"
  /\ UNCHANGED <<disk, prefs, blocked, accepted, lapse>>

(* InstallRecovery::prepare after recover_one: the durable record.         *)
WriteJournal ==
  /\ pc = "journal"
  /\ \/ /\ journal' = [version |-> VersionOf[job.pkg], tx |-> job.tx,
                       backup |-> job.existed, previous |-> config,
                       committed |-> FALSE]
        /\ pc' = IF job.existed THEN "toBackup" ELSE "activate"
        /\ UNCHANGED <<job, after>>
     \/ /\ Fault("journal")
        /\ Idle
        /\ UNCHANGED journal
  /\ UNCHANGED <<dir, backup, retained, config, prefs, blocked, nextTx, accepted,
                 lapse>>

MoveToBackup ==
  LET v == VersionOf[job.pkg] IN
  /\ pc = "toBackup"
  /\ \/ /\ dir[v] # None
        /\ backup' = [backup EXCEPT ![job.tx] = dir[v]]
        /\ dir' = [dir EXCEPT ![v] = None]
        /\ pc' = "activate"
        /\ UNCHANGED after
     \/ /\ dir[v] = None \/ Fault("toBackup")
        /\ Undo("drop")
        /\ UNCHANGED <<dir, backup>>
  /\ UNCHANGED <<retained, journal, config, prefs, blocked, job, nextTx, accepted,
                 lapse>>

(* rename(staging, destination): it fails on an existing directory.        *)
Activate ==
  LET v == VersionOf[job.pkg] IN
  /\ pc = "activate"
  /\ \/ /\ dir[v] = None
        /\ dir' = [dir EXCEPT ![v] = job.pkg]
        /\ pc' = "validate"
        /\ UNCHANGED after
     \/ /\ dir[v] # None \/ Fault("activate")
        /\ Undo("drop")
        /\ UNCHANGED dir
  /\ UNCHANGED <<backup, retained, journal, config, prefs, blocked, job, nextTx,
                 accepted, lapse>>

(* installed_validation and the compatibility check leave the rollback to  *)
(* Drop; a changed signature rolls back explicitly.                        *)
Validate ==
  /\ pc = "validate"
  /\ \/ pc' = "prefs" /\ UNCHANGED after
     \/ Fault("validate") /\ \E call \in {"drop", "abort"} : Undo(call)
  /\ UNCHANGED <<disk, prefs, blocked, job, nextTx, accepted, lapse>>

(* A first installation is enabled; a replacement keeps the choice.        *)
NewEntry == [pkg |-> job.pkg,
             enabled |-> IF prefs.mine = None THEN TRUE ELSE prefs.mine.enabled]

PersistPreferences ==
  /\ pc = "prefs"
  /\ \/ /\ prefs' = [prefs EXCEPT !.mine = NewEntry]
        /\ config' = prefs'
        /\ pc' = "refresh"
        /\ SavesPreferences
        /\ UNCHANGED after
     \/ /\ Fault("prefs")
        /\ Undo("abort")
        /\ UNCHANGED <<prefs, config, lapse>>
  /\ UNCHANGED <<dir, backup, retained, journal, blocked, job, nextTx, accepted>>

(* refresh_with_install accepts the inspected package despite its journal. *)
Refresh ==
  /\ pc = "refresh"
  /\ \/ pc' = "start" /\ blocked' = FALSE /\ UNCHANGED after
     \/ Fault("refresh") /\ Undo("abortRestore") /\ UNCHANGED blocked
  /\ UNCHANGED <<disk, prefs, job, nextTx, accepted, lapse>>

(* A failed start undoes a replacement; a first installation is kept.      *)
Start ==
  /\ pc = "start"
  /\ \/ pc' = "commit" /\ UNCHANGED after
     \/ /\ Fault("start")
        /\ job.previous # None
        /\ Undo("abortRestore")
  /\ UNCHANGED <<disk, prefs, blocked, job, nextTx, accepted, lapse>>

(* PackageCommit::finish: the durable completion marker.  When it fails    *)
(* the new backend is stopped and everything restored, but for a refusal   *)
(* of stop_for_reinstall: then only the drop of PackageCommit rolls back.  *)
Commit ==
  /\ pc = "commit"
  /\ \/ /\ journal' = [journal EXCEPT !.committed = TRUE]
        /\ accepted' = [accepted EXCEPT ![journal.version] = job.pkg]
        /\ pc' = "dropBackup"
        /\ after' = "done"
        /\ UNCHANGED lapse
     \/ /\ Fault("commit")
        /\ \/ Undo("abortRestore") /\ UNCHANGED lapse
           \/ Fault("busy") /\ Undo("drop") /\ GivesUp
        /\ UNCHANGED <<journal, accepted>>
  /\ UNCHANGED <<dir, backup, retained, config, prefs, blocked, job, nextTx>>

(* restore_install_preferences, then a refresh of the scanned records.     *)
RestorePreferences ==
  /\ pc = "restore"
  /\ \/ /\ prefs' = [prefs EXCEPT !.mine = job.previous]
        /\ config' = prefs'
        /\ blocked' = FALSE
        /\ SavesPreferences
     \/ /\ Fault("restore")
        /\ GivesUp
        /\ UNCHANGED <<prefs, config, blocked>>
  /\ Idle
  /\ UNCHANGED <<dir, backup, retained, journal, nextTx, accepted>>

--------------------------------------------------------------------------------
(* A failed call leaves the disk as it was and returns to the caller.      *)
CallFails == UNCHANGED disk /\ Conclude(FALSE)

(* Cleanup of a committed journal.                                         *)

DropBackup ==
  /\ pc = "dropBackup"
  /\ \/ /\ backup' = IF journal.backup
                     THEN [backup EXCEPT ![journal.tx] = None] ELSE backup
        /\ pc' = "dropJournal"
        /\ UNCHANGED <<prefs, blocked, job, after, lapse>>
        /\ UNCHANGED <<dir, retained, journal, config>>
     \/ Fault(CleanupStep) /\ CallFails
  /\ UNCHANGED <<nextTx, accepted>>

DropJournal ==
  /\ pc = "dropJournal"
  /\ \/ /\ journal' = None
        /\ Conclude(TRUE)
        /\ UNCHANGED <<dir, backup, retained, config>>
     \/ Fault(CleanupStep) /\ CallFails
  /\ UNCHANGED <<nextTx, accepted>>

--------------------------------------------------------------------------------
(* Rollback of an uncommitted journal.                                     *)

(* The candidate steps aside, unless a missing backup says that the        *)
(* original never moved or is already back.                                *)
MutMoveAlways == TRUE     \* mutant: the backup is not looked at
MustMove == ~journal.backup \/ backup[journal.tx] # None

SetAside ==
  LET v == journal.version
      t == journal.tx
  IN
  /\ pc = "setAside"
  /\ \/ /\ MustMove
        /\ dir[v] # None /\ retained[t] = None
        /\ retained' = [retained EXCEPT ![t] = dir[v]]
        /\ dir' = [dir EXCEPT ![v] = None]
        /\ pc' = "putBack"
        /\ UNCHANGED <<backup, journal, config, prefs, blocked, job, after, lapse>>
     \/ /\ MustMove /\ dir[v] = None
        /\ pc' = "putBack"
        /\ UNCHANGED <<disk, prefs, blocked, job, after, lapse>>
     \/ /\ ~MustMove /\ dir[v] # None
        /\ pc' = "undoConfig"
        /\ UNCHANGED <<disk, prefs, blocked, job, after, lapse>>
     \/ /\ \/ MustMove /\ dir[v] # None /\ retained[t] # None
           \/ ~MustMove /\ dir[v] = None
           \/ Fault(UndoStep)
        /\ CallFails
  /\ UNCHANGED <<nextTx, accepted>>

PutBack ==
  /\ pc = "putBack"
  /\ \/ /\ IF journal.backup
           THEN /\ dir' = [dir EXCEPT ![journal.version] = backup[journal.tx]]
                /\ backup' = [backup EXCEPT ![journal.tx] = None]
           ELSE UNCHANGED <<dir, backup>>
        /\ pc' = "undoConfig"
        /\ UNCHANGED <<retained, journal, config, prefs, blocked, job, after, lapse>>
     \/ /\ Fault(UndoStep)
        /\ CallFails
  /\ UNCHANGED <<nextTx, accepted>>

(* restore_config merges this plugin's previous entries into the current   *)
(* configuration and keeps everyone else's.                                *)
MutKeepsNew == config     \* mutant: preferences are not rolled back
MutRestoresAll == journal.previous     \* mutant: the whole file is restored
RestoredConfig == [config EXCEPT !.mine = journal.previous.mine]

UndoConfig ==
  /\ pc = "undoConfig"
  /\ \/ /\ config' = RestoredConfig
        /\ pc' = "closeJournal"
        /\ UNCHANGED <<dir, backup, retained, journal, prefs, blocked, job, after,
                       lapse>>
     \/ /\ Fault(UndoStep)
        /\ CallFails
  /\ UNCHANGED <<nextTx, accepted>>

CloseJournal ==
  /\ pc = "closeJournal"
  /\ \/ /\ journal' = None
        /\ Conclude(TRUE)
        /\ UNCHANGED <<dir, backup, retained, config>>
     \/ /\ Fault(UndoStep)
        /\ CallFails
  /\ UNCHANGED <<nextTx, accepted>>

--------------------------------------------------------------------------------
(* The rest of the host: restart, crash, repair and preference changes.    *)

(* PluginManager::load: recover_pending, then load_preferences and a scan. *)
Boot ==
  /\ pc = "down"
  /\ IF journal # None
     THEN Settle("boot") /\ UNCHANGED <<prefs, blocked, job>>
     ELSE Idle /\ prefs' = config /\ blocked' = FALSE
  /\ UNCHANGED <<disk, nextTx, accepted, lapse>>

(* The process ends between any two system calls; memory is lost.          *)
Crash ==
  /\ pc # "down"
  /\ pc' = "down"
  /\ job' = None
  /\ after' = "none"
  /\ prefs' = config
  /\ blocked' = FALSE
  /\ Restarts
  /\ UNCHANGED <<disk, nextTx, accepted>>

(* retry_plugin_scan of a plugin with a journal.                           *)
RetryScan ==
  /\ pc = "idle"
  /\ journal # None
  /\ Settle("retry")
  /\ UNCHANGED <<disk, prefs, blocked, job, nextTx, accepted, lapse>>

(* set_enabled refuses a plugin that the last scan found invalid.          *)
SetEnabled(e) ==
  /\ pc = "idle"
  /\ ~blocked
  /\ prefs.mine # None
  /\ prefs' = [prefs EXCEPT !.mine.enabled = e]
  /\ config' = prefs'
  /\ SavesPreferences
  /\ UNCHANGED <<dir, backup, retained, journal, blocked, pc, job, after, nextTx,
                 accepted>>

(* set_enabled of another plugin: persist_preferences writes the whole     *)
(* in-memory preferences.                                                  *)
SetOther(e) ==
  /\ pc = "idle"
  /\ prefs' = [prefs EXCEPT !.other = e]
  /\ config' = prefs'
  /\ SavesPreferences
  /\ UNCHANGED <<dir, backup, retained, journal, blocked, pc, job, after, nextTx,
                 accepted>>

Installer ==
  \/ WriteJournal \/ MoveToBackup \/ Activate \/ Validate \/ PersistPreferences
  \/ Refresh \/ Start \/ Commit \/ RestorePreferences

Recovery == DropBackup \/ DropJournal \/ SetAside \/ PutBack \/ UndoConfig
            \/ CloseJournal

Next ==
  \/ \E p \in Packages, overwrite \in BOOLEAN : Begin(p, overwrite)
  \/ Installer
  \/ Recovery
  \/ Boot
  \/ Crash
  \/ RetryScan
  \/ \E e \in BOOLEAN : SetEnabled(e)
  \/ \E e \in BOOLEAN : SetOther(e)

(* The code that is running runs on: each step is sequential code.         *)
Spec == Init /\ [][Next]_vars /\ WF_vars(Installer) /\ WF_vars(Recovery)
--------------------------------------------------------------------------------
(* Properties.                                                             *)

(* The installation a restart would establish: while a journal is          *)
(* uncommitted, the original of its version and the previous entries.      *)
AbsDir ==
  IF Pending
  THEN LET v == journal.version
           b == backup[journal.tx]
       IN [dir EXCEPT ![v] = IF ~journal.backup THEN None
                             ELSE IF b # None THEN b ELSE @]
  ELSE dir
AbsSetting == IF Pending THEN journal.previous.mine ELSE config.mine

Atomic == INSTANCE AtomicInstall
            WITH installed <- AbsDir, setting <- AbsSetting, astray <- lapse = "disk"

(* Whatever step fails and wherever the process dies, package and          *)
(* preferences change together or not at all: the transaction and its      *)
(* recovery implement one atomic installation, which an installer that     *)
(* gives up its rollback can only disturb by preferences saved later.      *)
InstallIsAtomic == Atomic!Spec

(* The comment of rollback (plugin_install_recovery.rs:214): where a       *)
(* rollback finds that the journal names a backup and the backup is        *)
(* absent, the original is in its place, because the first rename never    *)
(* ran or a recovery already undid it.                                     *)
AbsentBackupMeansOriginal ==
  (pc = "setAside" /\ journal.backup /\ backup[journal.tx] = None)
    => dir[journal.version] # None

(* An idle host with no unfinished journal has one view of the plugin: the *)
(* preferences in memory are those on disk, and the package they name, by  *)
(* version, source and publisher, is the one in its version directory.     *)
InAgreement ==
  /\ prefs = config
  /\ prefs.mine # None => dir[VersionOf[prefs.mine.pkg]] = prefs.mine.pkg
SettledAgrees == (pc = "idle" /\ ~Pending) => InAgreement

(* While a journal is unfinished, an idle host keeps the plugin isolated   *)
(* (plugin_manager.rs:424), so no choice is taken that recovery would undo.*)
PendingIsIsolated == (pc = "idle" /\ Pending) => blocked

(* What an idle host shows and keeps isolated fits what is on the disk,    *)
(* unless an installer gave up its rollback (plugin_manager.rs:1800) and   *)
(* the host was not restarted before it saved preferences again.           *)
IdleIsCoherent == lapse = "none" => SettledAgrees /\ PendingIsIsolated

(* Where a package still is.                                               *)
Kept(p) == \/ \E v \in Versions : dir[v] = p
           \/ \E t \in Txs : backup[t] = p \/ retained[t] = p

(* A package that was acknowledged is never lost to an installation that   *)
(* was not: whatever fails, its bytes stay in its directory, in a backup   *)
(* or in a retained directory until a later commit replaces it.            *)
OriginalRetained == \A v \in Versions : accepted[v] # None => Kept(accepted[v])

(* Rolling back an installation never reverts a choice made meanwhile      *)
(* about another plugin: the other entries on disk change only by a        *)
(* preference change of the idle host.                                     *)
OthersUntouched ==
  [][config'.other # config.other => pc = "idle" /\ pc' = "idle"]_vars

(* One installation changes all of its own state or none of it, and none   *)
(* of anybody else's.                                                      *)
InstallIsIsolated == InstallIsAtomic /\ OthersUntouched

(* A rollback finds nothing in its way but calls that fail: wherever the   *)
(* installation or an earlier rollback of it was interrupted, the name the *)
(* candidate is moved to is free and the original is where rollback looks, *)
(* so every later recovery can settle the journal.                         *)
RecoveryCanFinish ==
  /\ AbsentBackupMeansOriginal
  /\ pc = "setAside" /\ (journal.backup => backup[journal.tx] # None) =>
        dir[journal.version] = None \/ retained[journal.tx] = None
================================================================================
