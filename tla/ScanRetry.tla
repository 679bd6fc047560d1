-------------------------------- MODULE ScanRetry --------------------------------
(* The verification of an installed package and its retries (plugin_manager.rs):    *)
(* a refresh scans the packages without a lock and rebuilds the records; a package  *)
(* that could not be read is verified again by a worker of its own, with a limit of *)
(* attempts and of time, while the user retries, installs, removes or switches the  *)
(* plugin, Core is upgraded or stops, and background plugins are restored.          *)
(* One plugin. The transaction that puts a package in place is one step here (it is *)
(* InstallRecovery), the start of a backend is PluginHost.                          *)
EXTENDS Naturals

CONSTANTS Limit,        \* PLUGIN_SCAN_RETRY_LIMIT
          Verifiers,    \* bound: workers, numbered as they are scheduled
          ScanBudgets   \* bounds, one of which a behaviour keeps

ASSUME ScanAssumption == Limit \in Nat \ {0} /\ Verifiers \in Nat

VARIABLES
    package,    \* on disk: [at, version, journal (of an installation), epoch (ghost)]
    chosen,     \* preferences: [enabled ("unset", "yes", "no"), active]
    record,     \* the record of the plugin
    verifier,   \* the workers
    scheduled,  \* workers scheduled so far
    manager,    \* the holder of the management lock
    admission,  \* [frozen, down ("no", "flag", "done")], for begin_work
    autostart,  \* start_enabled: "no", "listing", "done"
    scanBudget
\* Ghosts: the present record comes from a worker and nobody restored the plugin yet;
\* a worker has replaced a verdict that was read later than its own.
VARIABLES owed, stale
disk == <<package, scanBudget>>
rest == <<admission, autostart>>
allScanVars == <<package, chosen, record, verifier, scheduled, manager, admission,
                 autostart, scanBudget, owed, stale>>

NoVersion == 0
NoRetry == [kept |-> FALSE, attempts |-> 0, worker |-> 0, running |-> FALSE, late |-> FALSE]
NewRetry(n) == [NoRetry EXCEPT !.kept = TRUE, !.attempts = n]
NoRecord == [at |-> "none", version |-> NoVersion, enabled |-> FALSE, code |-> "none",
             retrying |-> FALSE, retry |-> NoRetry, read |-> 0, skipped |-> FALSE]
Unread == [verdict |-> "none", version |-> NoVersion, epoch |-> 0]
Asleep == [pc |-> "off", active |-> NoVersion, seen |-> Unread]
NotChosen == [enabled |-> "unset", active |-> NoVersion]
\* What an installation replaces, kept in its journal and by the manager.
NoJournal == [open |-> FALSE, at |-> "gone", version |-> NoVersion, chosen |-> NotChosen]
Journal(at, version) == [open |-> TRUE, at |-> at, version |-> version, chosen |-> chosen]
Released == [op |-> "none", pc |-> "idle", seen |-> Unread, verified |-> FALSE, undo |-> NoJournal]
ManagerAt(pc) == [manager EXCEPT !.pc = pc]
Spends(k) == scanBudget[k] > 0 /\ scanBudget' = [scanBudget EXCEPT ![k] = @ - 1]

ScanInit ==
    /\ scanBudget \in ScanBudgets
    /\ chosen \in [enabled : {"yes", "no"}, active : {1}]
    /\ package \in [at : {"good", "unreadable", "broken", "rootless"}, version : {1},
                    journal : {NoJournal, Journal("good", 1)}, epoch : {1}]
    /\ record = NoRecord
    /\ verifier = [v \in 1 .. Verifiers |-> Asleep] /\ scheduled = 0
    /\ manager = [Released EXCEPT !.op = "load", !.pc = "read"]
    /\ admission = [frozen |-> FALSE, down |-> "no"]
    /\ autostart = "no" /\ owed = FALSE /\ stale = FALSE

(* ------------------------------------------------------------------ admission *)
Admits == ~admission.frozen /\ admission.down = "no"
Working(v) == verifier[v].pc \in {"attempt", "scan", "apply", "restore", "exhaust"}

FreezeScans ==
    /\ Admits /\ manager.op = "none" /\ \A v \in 1 .. Verifiers : ~Working(v)
    /\ admission' = [admission EXCEPT !.frozen = TRUE]
    /\ UNCHANGED <<disk, chosen, record, verifier, scheduled, manager, autostart, owed, stale>>

UnfreezeScans ==
    /\ admission.frozen /\ Spends("upgrades")
    /\ admission' = [admission EXCEPT !.frozen = FALSE]
    /\ UNCHANGED <<package, chosen, record, verifier, scheduled, manager, autostart, owed, stale>>

StopScans ==
    /\ admission.down = "no" /\ manager.op # "load" /\ Spends("shutdowns")
    /\ admission' = [admission EXCEPT !.down = "flag"]
    /\ UNCHANGED <<package, chosen, record, verifier, scheduled, manager, autostart, owed, stale>>

Halted(r) == [r EXCEPT !.retry.running = FALSE, !.retrying = FALSE]
HaltRetries ==
    /\ admission.down = "flag"
    /\ admission' = [admission EXCEPT !.down = "done"]
    /\ record' = Halted(record)
    /\ UNCHANGED <<disk, chosen, verifier, scheduled, manager, autostart, owed, stale>>

(* ----------------------------------------------------------------------- scan *)
(* A file that cannot be read, and a version that is missing, may be so only for a  *)
(* moment; the first of these checks that fails decides.                            *)
Verdict ==
    IF package.at \in {"rootless", "gone"} THEN "io"
    ELSE IF package.journal.open THEN "recovery"
    ELSE IF package.at = "good" THEN "ok" ELSE IF package.at = "broken" THEN "invalid" ELSE "io"
Retryable(verdict) == verdict = "io"
Reading(active) ==
    [verdict |-> Verdict, epoch |-> package.epoch,
     version |-> IF Verdict = "ok" THEN package.version ELSE NoVersion]

(* The scan of the root sees no entry for a plugin that is gone, and cannot name    *)
(* the plugin when nothing can be read and no version is known.                     *)
RootReading ==
    IF package.at = "gone" \/ (package.at = "rootless" /\ chosen.active = NoVersion)
    THEN [Unread EXCEPT !.verdict = "absent", !.epoch = package.epoch]
    ELSE Reading(chosen.active)

\* What the owner of a live transaction verified itself counts as scanned.
Trusted(seen) == IF manager.verified /\ seen.verdict = "recovery"
               THEN [seen EXCEPT !.verdict = "ok", !.version = package.version] ELSE seen

Known(c, seen) == [c EXCEPT !.enabled = IF @ = "unset" THEN "yes" ELSE @, !.active = seen.version]
Scanned(c, seen) ==
    [NoRecord EXCEPT !.at = "installed", !.version = seen.version, !.read = seen.epoch,
                     !.enabled = Known(c, seen).enabled = "yes"]
Failed(seen) ==
    [NoRecord EXCEPT !.at = IF Retryable(seen.verdict) THEN "checking" ELSE "invalid",
                     !.code = seen.verdict, !.read = seen.epoch,
                     !.retrying = Retryable(seen.verdict),
                     !.retry = IF Retryable(seen.verdict) THEN NewRetry(1) ELSE NoRetry]
Restorable(r) == r.at = "installed" /\ r.enabled

(* -------------------------------------------------------------------- refresh *)
\* Nested work is refused once Core stops; then nothing was scanned.
RefreshReads ==
    /\ manager.pc = "read"
    /\ manager' = IF admission.down = "no"
                  THEN [ManagerAt("swap") EXCEPT !.seen = RootReading] ELSE ManagerAt("failed")
    /\ UNCHANGED <<disk, chosen, record, verifier, scheduled, rest, owed, stale>>

(* The records are replaced before the preferences are saved, which is needed when  *)
(* any plugin was seen for the first time; a failure skips the retries.             *)
RefreshSwaps ==
    /\ manager.pc = "swap"
    /\ LET seen == Trusted(manager.seen) IN
       /\ chosen' = IF seen.verdict = "ok" THEN Known(chosen, seen) ELSE chosen
       /\ LET rebuilt == CASE seen.verdict = "ok" -> Scanned(chosen, seen)
                           [] seen.verdict = "absent" -> NoRecord
                           [] OTHER -> Failed(seen)
          IN \/ /\ record' = rebuilt
                /\ manager' = ManagerAt("schedule") /\ UNCHANGED scanBudget
             \/ /\ manager.op # "load" /\ Spends("fails")
                /\ record' = [rebuilt EXCEPT !.skipped = TRUE]
                /\ manager' = ManagerAt("failed")
    /\ owed' = FALSE
    /\ UNCHANGED <<package, verifier, scheduled, rest, stale>>

(* ----------------------------------------------------------------- scheduling *)
ScheduleRetry ==
    /\ manager.pc = "schedule"
    /\ IF record.retry.kept /\ ~record.retry.running
       THEN /\ scheduled < Verifiers
            /\ scheduled' = scheduled + 1
            /\ record' = [record EXCEPT !.retry.running = TRUE, !.retry.worker = scheduled + 1]
            /\ manager' = ManagerAt("spawn")
       ELSE manager' = ManagerAt("scanned") /\ UNCHANGED <<record, scheduled>>
    /\ UNCHANGED <<disk, chosen, verifier, rest, owed, stale>>

Mine(r, v) == r.retry.kept /\ r.retry.worker = v
Unstarted(r, v) ==
    IF ~Mine(r, v) THEN r
    ELSE [r EXCEPT !.retry.running = FALSE, !.at = "checking", !.code = "worker failed",
                   !.retrying = FALSE]
Spawn ==
    /\ manager.pc = "spawn"
    /\ manager' = ManagerAt("scanned")
    /\ \/ /\ verifier' = [verifier EXCEPT ![scheduled] =
                             [Asleep EXCEPT !.pc = "decide"]]
          /\ UNCHANGED <<record, scanBudget>>
       \/ /\ Spends("fails")
          /\ record' = Unstarted(record, scheduled)
          /\ UNCHANGED verifier
    /\ UNCHANGED <<package, chosen, scheduled, rest, owed, stale>>

(* -------------------------------------------------------------------- workers *)
Goto(v, pc) == verifier' = [verifier EXCEPT ![v].pc = pc]
Assigned(v) == record.retry.kept /\ record.retry.running /\ record.retry.worker = v
Spent == record.retry.attempts >= Limit \/ record.retry.late

\* The delay before an attempt is the time the worker rests at "sleep".
Consider(v) ==
    /\ verifier[v].pc = "decide"
    /\ Goto(v, IF ~Assigned(v) THEN "off" ELSE IF Spent THEN "end" ELSE "sleep")
    /\ UNCHANGED <<disk, chosen, record, scheduled, manager, rest, owed, stale>>

AdmitAttempt(v) ==
    /\ verifier[v].pc \in {"sleep", "end"}
    /\ Goto(v, IF ~Admits THEN "pause" ELSE IF verifier[v].pc = "end" THEN "exhaust" ELSE "attempt")
    /\ UNCHANGED <<disk, chosen, record, scheduled, manager, rest, owed, stale>>

Paused(r, v) == IF Mine(r, v) THEN Halted(r) ELSE r
Pause(v) ==
    /\ verifier[v].pc = "pause"
    /\ record' = Paused(record, v)
    /\ Goto(v, "off")
    /\ UNCHANGED <<disk, chosen, scheduled, manager, rest, owed, stale>>

Attempt(v) ==
    /\ verifier[v].pc = "attempt"
    /\ IF Assigned(v) /\ ~Spent
       THEN /\ record' = [record EXCEPT !.retry.attempts = @ + 1, !.retrying = TRUE]
            /\ verifier' = [verifier EXCEPT ![v].pc = "scan", ![v].active = chosen.active]
       ELSE Goto(v, IF Assigned(v) THEN "exhaust" ELSE "off") /\ UNCHANGED record
    /\ UNCHANGED <<disk, chosen, scheduled, manager, rest, owed, stale>>

Scan(v) ==
    /\ verifier[v].pc = "scan"
    /\ verifier' = [verifier EXCEPT ![v].pc = "apply", ![v].seen = Reading(verifier[v].active)]
    /\ UNCHANGED <<disk, chosen, record, scheduled, manager, rest, owed, stale>>

MutApplies(v) == record.retry.kept /\ record.retry.running
Applies(v) == Assigned(v)

(* The preferences name the version that was found; a failure to save them is only  *)
(* logged.                                                                          *)
Accept(v) ==
    LET seen == verifier[v].seen IN
    /\ verifier[v].pc = "apply" /\ seen.verdict = "ok"
    /\ IF Applies(v)
       THEN /\ record' = Scanned(chosen, seen)
            /\ chosen' = Known(chosen, seen)
            /\ owed' = TRUE
            /\ stale' = (stale \/ seen.epoch < record.read)
            /\ Goto(v, IF Restorable(record') THEN "restore" ELSE "off")
       ELSE Goto(v, "off") /\ UNCHANGED <<record, chosen, owed, stale>>
    /\ UNCHANGED <<disk, scheduled, manager, rest>>

FailsFor(seen, r) ==
    [r EXCEPT !.at = IF Retryable(seen.verdict) THEN "checking" ELSE "invalid",
              !.code = IF Spent THEN "exhausted" ELSE seen.verdict, !.enabled = FALSE,
              !.retrying = Retryable(seen.verdict) /\ ~Spent, !.read = seen.epoch,
              !.retry.running = Retryable(seen.verdict) /\ ~Spent]
RecordFailure(v) ==
    LET seen == verifier[v].seen IN
    /\ verifier[v].pc = "apply" /\ seen.verdict # "ok"
    /\ IF Applies(v)
       THEN /\ record' = FailsFor(seen, record)
            /\ stale' = (stale \/ seen.epoch < record.read)
            /\ Goto(v, IF record'.retry.running THEN "decide" ELSE "off")
       ELSE Goto(v, "off") /\ UNCHANGED <<record, stale>>
    /\ UNCHANGED <<disk, chosen, scheduled, manager, rest, owed>>

Exhaust(v) ==
    /\ verifier[v].pc = "exhaust"
    /\ record' = IF ~Mine(record, v) THEN record
                 ELSE [Halted(record) EXCEPT !.at = "checking", !.enabled = FALSE,
                                             !.code = "exhausted"]
    /\ Goto(v, "off")
    /\ UNCHANGED <<disk, chosen, scheduled, manager, rest, owed, stale>>

\* start_enabled sets its flag before it lists the records.
MutRequested == FALSE
Requested == autostart # "no"
RestoreAccepted(v) ==
    /\ verifier[v].pc = "restore"
    /\ owed' = (owed /\ ~Requested)
    /\ Goto(v, "off")
    /\ UNCHANGED <<disk, chosen, record, scheduled, manager, rest, stale>>

RetriesGetLate ==
    /\ record.retry.kept /\ ~record.retry.late
    /\ record' = [record EXCEPT !.retry.late = TRUE]
    /\ UNCHANGED <<disk, chosen, verifier, scheduled, manager, rest, owed, stale>>

(* ----------------------------------------------------------------- management *)
Manages(op, pc) == manager' = [Released EXCEPT !.op = op, !.pc = pc]
MayManage == manager.op = "none" /\ Admits

Becomes(at, version, journal) ==
    package' = [at |-> at, version |-> version, journal |-> journal, epoch |-> package.epoch + 1]
Back(journal) == Becomes(journal.at, journal.version, NoJournal)

(* The retry of the user: an interrupted installation is recovered first, the       *)
(* preferences with it; otherwise the count starts again, without a delay.          *)
RetryNow ==
    /\ MayManage /\ Spends("retries")
    /\ \/ /\ package.journal.open /\ package.at # "rootless"
          /\ Back(package.journal) /\ chosen' = package.journal.chosen
          /\ Manages("recover", "read") /\ UNCHANGED record
       \/ /\ ~package.journal.open \/ package.at = "rootless"
          /\ record.code # "none" /\ ~record.retry.running
          /\ record' = [record EXCEPT !.at = "checking", !.enabled = FALSE, !.code = "retrying",
                                      !.retrying = TRUE, !.retry = NewRetry(0)]
          /\ Manages("retry", "schedule") /\ UNCHANGED <<package, chosen>>
    /\ UNCHANGED <<verifier, scheduled, rest, owed, stale>>

\* Another plugin is installed or removed.
RefreshForOther ==
    /\ MayManage /\ Spends("refreshes") /\ Manages("other", "read")
    /\ UNCHANGED <<package, chosen, record, verifier, scheduled, rest, owed, stale>>

SwitchPlugin ==
    /\ MayManage /\ Spends("switches") /\ record.at = "installed"
    /\ \E to \in {"yes", "no"} :
          /\ chosen' = [chosen EXCEPT !.enabled = to]
          /\ record' = [record EXCEPT !.enabled = (to = "yes")]
          /\ owed' = (owed /\ to = "no")
    /\ UNCHANGED <<package, verifier, scheduled, manager, rest, stale>>

PlacePackage ==
    /\ MayManage /\ Spends("installs")
    /\ ~package.journal.open /\ package.at # "rootless"
    /\ LET old == Journal(package.at, package.version) IN
       /\ manager' = [Released EXCEPT !.op = "install", !.pc = "save", !.undo = old]
       /\ Becomes("good", 2, old)
    /\ UNCHANGED <<chosen, record, verifier, scheduled, rest, owed, stale>>

SaveActive ==
    /\ manager.pc = "save"
    /\ \/ /\ chosen' = Known(chosen, [version |-> 2])
          /\ manager' = [ManagerAt("read") EXCEPT !.verified = TRUE]
          /\ UNCHANGED scanBudget
       \/ /\ Spends("fails") /\ UNCHANGED chosen
          /\ manager' = ManagerAt("undo")
    /\ UNCHANGED <<package, record, verifier, scheduled, rest, owed, stale>>

(* A rollback that fails leaves the journal and the preferences; one after the       *)
(* records were rebuilt is followed by a refresh.                                   *)
UndoInstall ==
    /\ manager.pc = "undo"
    /\ \/ /\ Back(manager.undo)
          /\ chosen' = manager.undo.chosen
          /\ manager' = IF manager.seen = Unread THEN Released
                        ELSE [ManagerAt("read") EXCEPT !.op = "other", !.verified = FALSE]
          /\ UNCHANGED scanBudget
       \/ Spends("fails") /\ manager' = Released /\ UNCHANGED <<package, chosen>>
    /\ UNCHANGED <<record, verifier, scheduled, rest, owed, stale>>

(* After the refresh of an installation the backend is started, then the completion *)
(* marker written; after the one of a recovery the backend is started.              *)
FinishManagement ==
    /\ manager.pc \in {"scanned", "failed"}
    /\ IF manager.op = "install" /\ manager.pc = "failed" THEN
          /\ manager' = [ManagerAt("undo") EXCEPT !.seen = Unread]
          /\ UNCHANGED <<disk, owed>>
       ELSE \/ /\ manager.op = "install" /\ Spends("fails")
               /\ manager' = ManagerAt("undo") /\ UNCHANGED <<package, owed>>
            \/ /\ manager' = Released
               /\ package' = IF manager.op = "install" THEN [package EXCEPT !.journal = NoJournal]
                             ELSE package
               /\ owed' = (owed /\ (manager.op \notin {"install", "recover"} \/ manager.pc = "failed"))
               /\ UNCHANGED scanBudget
    /\ UNCHANGED <<chosen, record, verifier, scheduled, rest, stale>>

RemovePlugin ==
    /\ MayManage /\ record.at # "none" /\ Spends("removals")
    /\ chosen' = [chosen EXCEPT !.enabled = "no"]
    /\ record' = [record EXCEPT !.enabled = FALSE]
    /\ Manages("remove", "remove")
    /\ UNCHANGED <<package, verifier, scheduled, rest, owed, stale>>

RemoveFiles ==
    /\ manager.pc = "remove"
    /\ \/ Becomes("gone", NoVersion, NoJournal) /\ manager' = ManagerAt("forget") /\ UNCHANGED scanBudget
       \/ Spends("fails") /\ manager' = Released /\ UNCHANGED package
    /\ UNCHANGED <<chosen, record, verifier, scheduled, rest, owed, stale>>

ForgetRecord ==
    /\ manager.pc = "forget"
    /\ record' = NoRecord /\ owed' = FALSE
    /\ chosen' = NotChosen
    /\ manager' = Released
    /\ UNCHANGED <<disk, verifier, scheduled, rest, stale>>

(* ------------------------------------------------------------------ the others *)
StartEnabled ==
    /\ autostart = "no" /\ manager.op # "load"
    /\ autostart' = "listing"
    /\ UNCHANGED <<disk, chosen, record, verifier, scheduled, manager, admission, owed, stale>>

ListRestores ==
    /\ autostart = "listing"
    /\ autostart' = "done" /\ owed' = (owed /\ ~Restorable(record))
    /\ UNCHANGED <<disk, chosen, record, verifier, scheduled, manager, admission, stale>>

PackageChanges ==
    /\ Spends("changes") /\ package.at # "gone"
    /\ \E at \in {"good", "unreadable", "broken", "rootless"} \ {package.at} :
          package' = [package EXCEPT !.at = at, !.epoch = @ + 1]
    /\ UNCHANGED <<chosen, record, verifier, scheduled, manager, rest, owed, stale>>

ManagerStep ==
    RefreshReads \/ RefreshSwaps \/ ScheduleRetry \/ Spawn \/ SaveActive \/ UndoInstall
    \/ FinishManagement \/ RemoveFiles \/ ForgetRecord
UserStep ==
    RetryNow \/ RefreshForOther \/ SwitchPlugin \/ PlacePackage \/ RemovePlugin \/ StartEnabled
WorkerStep(v) ==
    Consider(v) \/ AdmitAttempt(v) \/ Pause(v) \/ Attempt(v) \/ Scan(v) \/ Accept(v) \/ RecordFailure(v)
    \/ Exhaust(v) \/ RestoreAccepted(v)
ScanNext ==
    \/ ManagerStep \/ UserStep \/ ListRestores
    \/ \E v \in 1 .. scheduled : WorkerStep(v)
    \/ FreezeScans \/ UnfreezeScans \/ StopScans \/ HaltRetries
    \/ RetriesGetLate \/ PackageChanges
ScanSpec == ScanInit /\ [][ScanNext]_allScanVars

(* ------------------------------------------------------------------ properties *)
(* While a record says that a worker runs, every retry by the user is refused, and  *)
(* a plugin shown as being verified invites no action: so there is a worker that    *)
(* will change either, or the manager is about to schedule one, whatever was        *)
(* refreshed, upgraded, removed or refused a thread. Only a refresh that could not  *)
(* save the preferences leaves the second without the first (plugin_manager.rs:526).*)
RetryOwned ==
    /\ record.retry.running =>
          \/ manager.pc = "spawn" /\ record.retry.worker = scheduled
          \/ record.retry.worker > 0 /\ verifier[record.retry.worker].pc # "off"
    /\ record.retrying => \/ record.retry.running \/ manager.pc = "schedule"
                          \/ record.skipped

(* A worker that was overtaken by a refresh, an installation or a removal must not  *)
(* put what it had read before in the place of what was found since.                *)
VerdictIsFresh == ~stale

RetriesAreSound == RetryOwned /\ VerdictIsFresh

(* A plugin that a retry makes usable is restored when Core restores its background *)
(* plugins, whichever of the two comes first (plugin_manager.rs:1025). One that a   *)
(* refresh makes usable is not covered: nothing restores it.                        *)
RestoreNotForgotten ==
    autostart = "done" /\ owed /\ Restorable(record) =>
        \E v \in 1 .. scheduled : verifier[v].pc = "restore"
================================================================================
