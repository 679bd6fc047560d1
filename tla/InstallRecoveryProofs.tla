------------------------- MODULE InstallRecoveryProofs -------------------------
(***************************************************************************)
(* Proofs about InstallRecovery for every set of versions and packages,    *)
(* every number of installations, every set of failing steps, and with     *)
(* installations over an unfinished journal allowed or not; then what an   *)
(* installation that fails or dies leaves behind: other plugins are left   *)
(* alone, a rollback always finds its way, memory follows the disk, and    *)
(* the transaction implements the atomic installation of AtomicInstall.    *)
(* No theorem restricts which steps fail.                                  *)
(***************************************************************************)
EXTENDS InstallRecovery, TLAPS

(* A package sits where its manifest's version says.                       *)
PackagesInPlace ==
  /\ \A v \in Versions : dir[v] # None => VersionOf[dir[v]] = v
  /\ \A v \in Versions : accepted[v] # None => VersionOf[accepted[v]] = v
  /\ journal # None /\ backup[journal.tx] # None
       => VersionOf[backup[journal.tx]] = journal.version

(* A committed journal has its package in place until it is closed.        *)
CommittedInPlace ==
  journal # None /\ journal.committed
    => /\ dir[journal.version] # None
       /\ accepted[journal.version] = dir[journal.version]

(* A transaction's backup name is unused until its rename.                 *)
FreshNames ==
  /\ \A t \in Txs : t >= nextTx => backup[t] = None
  /\ journal # None => journal.tx < nextTx
  /\ job # None => job.tx < nextTx
  /\ pc = "toBackup" \/ pc = "journal" \/ after = "prepare"
       => job # None /\ backup[job.tx] = None
  /\ after = "prepare" /\ journal # None => journal.tx # job.tx

(* The step the host is at says what the journal and the directory hold.   *)
InstallerAt ==
  /\ pc \in InstallPcs => job # None
  /\ pc \in InstallPcs \cup {"idle", "down"} => after = "none"
  /\ after \in {"abort", "abortRestore"} => job # None
  /\ pc \in InstallPcs \ {"journal", "restore"}
       => /\ Pending
          /\ journal.tx = job.tx
          /\ journal.version = VersionOf[job.pkg]
  /\ pc \in {"validate", "prefs", "refresh", "start", "commit"}
       => dir[journal.version] = job.pkg

RecoveryAt ==
  /\ pc \in CleanupPcs => /\ journal # None /\ journal.committed
                          /\ after \in RecoverCalls \cup {"done"}
  /\ pc \in UndoPcs => /\ Pending
                       /\ after \in RecoverCalls \cup {"abort", "abortRestore", "drop"}
  /\ pc = "putBack" => dir[journal.version] = None

IInv == /\ TypeOK
        /\ PackagesInPlace
        /\ CommittedInPlace
        /\ FreshNames
        /\ InstallerAt
        /\ RecoveryAt
        /\ OriginalRetained
--------------------------------------------------------------------------------
USE ConstantsAssumption
USE DEF Lapses, GivesUp, SavesPreferences, Restarts

LEMMA NotNone ==
  /\ \A p \in Packages : p # None
  /\ \A r \in Journal : r # None
  /\ \A j \in Job : j # None
  BY NoneAssumption

LEMMA InitIInv == Init => IInv
<1> SUFFICES ASSUME Init PROVE IInv
  OBVIOUS
<1> USE DEF Init
<1>1. TypeOK
  <2>1. dir \in [Versions -> Content]
    BY DEF Content
  <2>2. config \in Config
    BY DEF Config, Entry, Chosen
  <2>3. nextTx \in 1..(MaxTx + 1)
    OBVIOUS
  <2> QED
    BY <2>1, <2>2, <2>3 DEF TypeOK, Content, Pcs, Calls
<1>2. PackagesInPlace
  <2>1. \A v \in Versions : dir[v] # None => VersionOf[dir[v]] = v
    <3>1. CASE dir = [v \in Versions |-> None]
      BY <3>1
    <3>2. ASSUME NEW p \in Packages,
                 dir = [v \in Versions |-> IF v = VersionOf[p] THEN p ELSE None]
          PROVE  \A v \in Versions : dir[v] # None => VersionOf[dir[v]] = v
      BY <3>2
    <3> QED
      BY <3>1, <3>2
  <2> QED
    BY <2>1 DEF PackagesInPlace
<1>3. CommittedInPlace /\ FreshNames /\ InstallerAt /\ RecoveryAt
  BY DEF CommittedInPlace, FreshNames, InstallerAt, RecoveryAt, Pending,
         InstallPcs, CleanupPcs, UndoPcs, RecoverCalls
<1>4. OriginalRetained
  BY DEF OriginalRetained, Kept
<1> QED
  BY <1>1, <1>2, <1>3, <1>4 DEF IInv

LEMMA BeginIInv ==
  ASSUME IInv, NEW p \in Packages, NEW overwrite \in BOOLEAN, Begin(p, overwrite)
  PROVE  IInv'
<1> USE DEF Begin, Idle, Settle, SettleAt, disk
<1>1. TypeOK'
  BY DEF IInv, TypeOK, Content, Entry, Chosen, Config, Journal, Job, Txs, Pcs,
         InstallPcs, CleanupPcs, UndoPcs, Calls, RecoverCalls
<1>2. PackagesInPlace' /\ CommittedInPlace'
  BY DEF IInv, PackagesInPlace, CommittedInPlace
<1>3. job' \in Job /\ job' # None /\ job'.tx = nextTx /\ after = "none"
  <2>1. nextTx \in Txs /\ prefs.mine \in Entry
    BY DEF IInv, TypeOK, Config, Txs
  <2>2. job' \in Job /\ job'.tx = nextTx
    BY <2>1 DEF Job
  <2> QED
    BY <2>2, NotNone DEF IInv, InstallerAt
<1>4. FreshNames'
  <2>1. nextTx \in Txs /\ nextTx \in Nat /\ backup[nextTx] = None /\ MaxTx \in Nat
    BY DEF IInv, TypeOK, FreshNames, Txs
  <2>2. \A t \in Txs : t >= nextTx' => backup'[t] = None
    BY <2>1 DEF IInv, FreshNames, Txs
  <2>3. journal' # None => journal'.tx < nextTx' /\ journal'.tx # job'.tx
    BY <2>1, <1>3 DEF IInv, TypeOK, FreshNames, Journal, Txs
  <2> QED
    BY <1>3, <2>1, <2>2, <2>3 DEF FreshNames
<1>5. InstallerAt' /\ RecoveryAt'
  BY <1>3 DEF IInv, TypeOK, InstallerAt, RecoveryAt, Pending, InstallPcs, CleanupPcs,
         UndoPcs, RecoverCalls, Journal
<1>6. OriginalRetained'
  BY DEF IInv, OriginalRetained, Kept
<1> QED
  BY <1>1, <1>2, <1>4, <1>5, <1>6 DEF IInv

(* A step that leaves the disk and the history alone leaves the facts about*)
(* them alone.                                                             *)
LEMMA DiskFrame ==
  ASSUME IInv, UNCHANGED <<dir, backup, retained, journal, accepted>>
  PROVE  PackagesInPlace' /\ CommittedInPlace' /\ OriginalRetained'
  BY DEF IInv, PackagesInPlace, CommittedInPlace, OriginalRetained, Kept

(* The end of an undo or a cleanup, failed or successful.                  *)
LEMMA ConcludeIInv ==
  ASSUME IInv, NEW ok \in BOOLEAN, Conclude(ok),
         pc \in CleanupPcs \cup UndoPcs,
         UNCHANGED <<dir, backup, retained, config, nextTx, accepted>>,
         journal' = IF ok THEN None ELSE journal
  PROVE  IInv'
<1> USE DEF Conclude, Idle, Undo
<1>1. TypeOK'
  BY DEF IInv, TypeOK, Content, Entry, Chosen, Config, Journal, Job, Txs, Pcs,
         InstallPcs, CleanupPcs, UndoPcs, Calls, RecoverCalls, RequiresRecovery, Pending
<1>2. PackagesInPlace' /\ CommittedInPlace' /\ OriginalRetained'
  BY DEF IInv, PackagesInPlace, CommittedInPlace, OriginalRetained, Kept
<1>3. FreshNames'
  BY DEF IInv, TypeOK, FreshNames, InstallerAt, RecoveryAt, InstallPcs, CleanupPcs,
         UndoPcs, RecoverCalls, Pcs
<1>4. InstallerAt' /\ RecoveryAt'
  BY DEF IInv, InstallerAt, RecoveryAt, FreshNames, Pending, InstallPcs, CleanupPcs,
         UndoPcs, RecoverCalls
<1> QED
  BY <1>1, <1>2, <1>3, <1>4 DEF IInv

(* A failing installer step starts a rollback.                             *)
LEMMA UndoIInv ==
  ASSUME IInv, NEW call \in {"abort", "abortRestore", "drop"}, Undo(call),
         pc \in InstallPcs \ {"journal", "restore"},
         UNCHANGED <<disk, prefs, blocked, job, nextTx, accepted>>,
         lapse' \in Lapses
  PROVE  IInv'
<1> USE DEF Undo, disk
<1>1. TypeOK'
  BY DEF IInv, TypeOK, Pcs, UndoPcs, Calls
<1>2. FreshNames'
  BY DEF IInv, FreshNames
<1>3. InstallerAt' /\ RecoveryAt'
  BY DEF IInv, InstallerAt, RecoveryAt, Pending, InstallPcs, CleanupPcs, UndoPcs
<1> QED
  BY <1>1, <1>2, <1>3, DiskFrame DEF IInv

--------------------------------------------------------------------------------
(* The installer's steps.                                                  *)

LEMMA WriteJournalIInv ==
  ASSUME IInv, WriteJournal
  PROVE  IInv'
<1> USE DEF WriteJournal
<1>1. /\ job \in Job /\ job # None /\ job.tx \in Txs /\ job.pkg \in Packages
      /\ job.existed \in BOOLEAN /\ config \in Config
      /\ backup[job.tx] = None /\ job.tx < nextTx /\ after = "none"
  BY DEF IInv, TypeOK, FreshNames, InstallerAt, InstallPcs, Job
<1>2. CASE Idle /\ UNCHANGED journal
  <2> USE <1>2 DEF Idle
  <2>1. TypeOK'
    BY DEF IInv, TypeOK, Pcs, Calls
  <2>2. FreshNames' /\ InstallerAt' /\ RecoveryAt'
    BY DEF FreshNames, IInv, InstallerAt, RecoveryAt, Pending, InstallPcs, CleanupPcs, UndoPcs,
           RecoverCalls
  <2> QED
    BY <2>1, <2>2, DiskFrame DEF IInv
<1>3. CASE /\ journal' = [version |-> VersionOf[job.pkg], tx |-> job.tx,
                          backup |-> job.existed, previous |-> config,
                          committed |-> FALSE]
           /\ pc' = IF job.existed THEN "toBackup" ELSE "activate"
           /\ job' = job /\ after' = after
  <2> USE <1>3
  <2>1. /\ journal' \in Journal /\ journal' # None /\ ~journal'.committed
        /\ journal'.tx = job.tx /\ journal'.version = VersionOf[job.pkg]
    BY <1>1, NotNone DEF Journal
  <2>2. TypeOK'
    BY <2>1 DEF IInv, TypeOK, Pcs, InstallPcs
  <2>3. PackagesInPlace' /\ CommittedInPlace' /\ OriginalRetained'
    BY <1>1, <2>1 DEF IInv, PackagesInPlace, CommittedInPlace, OriginalRetained, Kept
  <2>4. FreshNames'
    BY <1>1, <2>1 DEF IInv, FreshNames
  <2>5. InstallerAt' /\ RecoveryAt'
    BY <1>1, <2>1 DEF IInv, InstallerAt, RecoveryAt, Pending, InstallPcs, CleanupPcs, UndoPcs,
           RecoverCalls
  <2> QED
    BY <2>2, <2>3, <2>4, <2>5 DEF IInv
<1> QED
  BY <1>2, <1>3

LEMMA MoveToBackupIInv ==
  ASSUME IInv, MoveToBackup
  PROVE  IInv'
<1> DEFINE v == VersionOf[job.pkg]
<1>1. CASE Undo("drop") /\ UNCHANGED <<dir, backup>>
  BY <1>1, UndoIInv DEF MoveToBackup, InstallPcs, disk, IInv, TypeOK
<1>2. CASE /\ dir[v] # None
           /\ backup' = [backup EXCEPT ![job.tx] = dir[v]]
           /\ dir' = [dir EXCEPT ![v] = None]
           /\ pc' = "activate" /\ after' = after
  <2> USE <1>2 DEF MoveToBackup
  <2>1. /\ job \in Job /\ v \in Versions /\ job.tx \in Txs /\ backup[job.tx] = None
        /\ journal.tx = job.tx /\ journal.version = v /\ Pending /\ job # None
        /\ job.tx < nextTx
    BY DEF IInv, TypeOK, InstallerAt, FreshNames, InstallPcs, Job
  <2>2. TypeOK'
    BY <2>1 DEF IInv, TypeOK, Content, Pcs, InstallPcs
  <2>3. PackagesInPlace' /\ CommittedInPlace'
    BY <2>1 DEF IInv, TypeOK, PackagesInPlace, CommittedInPlace, Pending
  <2>4. FreshNames'
    <3>1. after' = "none" /\ job' = job /\ nextTx' = nextTx /\ journal' = journal
      BY DEF IInv, InstallerAt, InstallPcs
    <3>2. \A t \in Txs : t >= nextTx' => backup'[t] = None
      BY <2>1 DEF IInv, TypeOK, FreshNames, Txs
    <3> QED
      BY <2>1, <3>1, <3>2 DEF IInv, FreshNames
  <2>5. InstallerAt' /\ RecoveryAt'
    BY <2>1 DEF IInv, InstallerAt, RecoveryAt, Pending, InstallPcs, CleanupPcs, UndoPcs,
           RecoverCalls
  <2>6. \A p : Kept(p) /\ p # None => Kept(p)'
    BY <2>1 DEF Kept, IInv, TypeOK
  <2>7. OriginalRetained'
    BY <2>6 DEF IInv, OriginalRetained
  <2> QED
    BY <2>2, <2>3, <2>4, <2>5, <2>7 DEF IInv
<1> QED
  BY <1>1, <1>2 DEF MoveToBackup

LEMMA ActivateIInv ==
  ASSUME IInv, Activate
  PROVE  IInv'
<1> DEFINE v == VersionOf[job.pkg]
<1>1. CASE Undo("drop") /\ UNCHANGED dir
  BY <1>1, UndoIInv DEF Activate, InstallPcs, disk, IInv, TypeOK
<1>2. CASE /\ dir[v] = None
           /\ dir' = [dir EXCEPT ![v] = job.pkg]
           /\ pc' = "validate" /\ after' = after
  <2> USE <1>2 DEF Activate
  <2>1. /\ job \in Job /\ v \in Versions /\ job.pkg \in Packages
        /\ journal.tx = job.tx /\ journal.version = v /\ Pending /\ job # None
    BY DEF IInv, TypeOK, InstallerAt, FreshNames, InstallPcs, Job
  <2>2. TypeOK'
    BY <2>1 DEF IInv, TypeOK, Content, Pcs, InstallPcs
  <2>3. PackagesInPlace' /\ CommittedInPlace'
    BY <2>1 DEF IInv, TypeOK, PackagesInPlace, CommittedInPlace, Pending
  <2>4. FreshNames'
    BY <2>1 DEF IInv, FreshNames, InstallerAt, InstallPcs
  <2>5. InstallerAt' /\ RecoveryAt'
    BY <2>1 DEF IInv, InstallerAt, RecoveryAt, Pending, InstallPcs, CleanupPcs, UndoPcs,
           RecoverCalls, TypeOK
  <2>6. \A p : Kept(p) /\ p # None => Kept(p)'
    BY <2>1 DEF Kept, IInv, TypeOK
  <2>7. OriginalRetained'
    BY <2>6 DEF IInv, OriginalRetained
  <2> QED
    BY <2>2, <2>3, <2>4, <2>5, <2>7 DEF IInv
<1> QED
  BY <1>1, <1>2 DEF Activate

(* The steps between activation and the marker change no directory.        *)
LEMMA ValidateIInv ==
  ASSUME IInv, Validate
  PROVE  IInv'
<1> USE DEF Validate, disk
<1>1. CASE pc' = "prefs" /\ after' = after
  <2> USE <1>1
  <2>1. TypeOK'
    BY DEF IInv, TypeOK, Pcs, InstallPcs
  <2>2. FreshNames' /\ InstallerAt' /\ RecoveryAt'
    BY DEF FreshNames, IInv, InstallerAt, RecoveryAt, Pending, InstallPcs, CleanupPcs, UndoPcs,
           RecoverCalls
  <2> QED
    BY <2>1, <2>2, DiskFrame DEF IInv
<1>2. CASE \E call \in {"drop", "abort"} : Undo(call)
  BY <1>2, UndoIInv DEF InstallPcs, IInv, TypeOK
<1> QED
  BY <1>1, <1>2

LEMMA PersistPreferencesIInv ==
  ASSUME IInv, PersistPreferences
  PROVE  IInv'
<1> USE DEF PersistPreferences
<1>1. CASE Undo("abort") /\ UNCHANGED <<prefs, config, lapse>>
  BY <1>1, UndoIInv DEF InstallPcs, disk, IInv, TypeOK
<1>2. CASE /\ prefs' = [prefs EXCEPT !.mine = NewEntry] /\ config' = prefs'
           /\ pc' = "refresh" /\ after' = after /\ SavesPreferences
  <2> USE <1>2
  <2>1. NewEntry \in Entry
    <3>1. job \in Job
      BY DEF IInv, TypeOK, InstallerAt, InstallPcs
    <3>2. prefs.mine = None \/ prefs.mine \in Chosen
      BY DEF IInv, TypeOK, Config, Entry
    <3> QED
      BY <3>1, <3>2 DEF NewEntry, Entry, Chosen, Job
  <2>2. TypeOK'
    BY <2>1 DEF IInv, TypeOK, Config, Pcs, InstallPcs
  <2>3. FreshNames' /\ InstallerAt' /\ RecoveryAt'
    BY DEF FreshNames, IInv, InstallerAt, RecoveryAt, Pending, InstallPcs, CleanupPcs, UndoPcs,
           RecoverCalls
  <2> QED
    BY <2>2, <2>3, DiskFrame DEF IInv
<1> QED
  BY <1>1, <1>2

LEMMA RefreshStartIInv ==
  ASSUME IInv, Refresh \/ Start
  PROVE  IInv'
<1> USE DEF Refresh, Start, disk
<1>1. CASE /\ pc \in {"refresh", "start"} /\ pc' \in {"start", "commit"}
           /\ blocked' \in BOOLEAN /\ after' = after
           /\ UNCHANGED <<disk, prefs, job, nextTx, accepted, lapse>>
  <2> USE <1>1
  <2>1. TypeOK'
    BY DEF IInv, TypeOK, Pcs, InstallPcs
  <2>2. FreshNames' /\ InstallerAt' /\ RecoveryAt'
    BY DEF FreshNames, IInv, InstallerAt, RecoveryAt, Pending, InstallPcs, CleanupPcs, UndoPcs,
           RecoverCalls
  <2> QED
    BY <2>1, <2>2, DiskFrame DEF IInv
<1>2. CASE /\ pc \in {"refresh", "start"} /\ Undo("abortRestore")
           /\ UNCHANGED <<disk, prefs, blocked, job, nextTx, accepted, lapse>>
  BY <1>2, UndoIInv DEF InstallPcs, IInv, TypeOK
<1> QED
  BY <1>1, <1>2 DEF IInv, TypeOK

(* The marker: the package it acknowledges is the one in its directory.    *)
LEMMA CommitIInv ==
  ASSUME IInv, Commit
  PROVE  IInv'
<1> USE DEF Commit
<1>1. CASE /\ \E call \in {"abortRestore", "drop"} : Undo(call)
           /\ UNCHANGED <<journal, accepted>>
  BY <1>1, UndoIInv DEF InstallPcs, disk, IInv, TypeOK
<1>2. CASE /\ journal' = [journal EXCEPT !.committed = TRUE]
           /\ accepted' = [accepted EXCEPT ![journal.version] = job.pkg]
           /\ pc' = "dropBackup" /\ after' = "done" /\ UNCHANGED lapse
  <2> USE <1>2
  <2>1. /\ job \in Job /\ job.pkg \in Packages /\ job # None /\ job.pkg # None
        /\ journal \in Journal /\ journal.version = VersionOf[job.pkg]
        /\ dir[journal.version] = job.pkg /\ journal.version \in Versions
        /\ journal.tx < nextTx
    BY NotNone DEF IInv, TypeOK, InstallerAt, FreshNames, Pending, InstallPcs, Job
  <2>2. /\ journal' \in Journal /\ journal' # None /\ journal'.committed
        /\ journal'.tx = journal.tx /\ journal'.version = journal.version
    BY <2>1, NotNone DEF Journal
  <2>3. TypeOK'
    BY <2>1, <2>2 DEF IInv, TypeOK, Content, Pcs, CleanupPcs, Calls
  <2>4. PackagesInPlace' /\ CommittedInPlace'
    BY <2>1, <2>2 DEF IInv, TypeOK, PackagesInPlace, CommittedInPlace, InstallerAt,
                      Pending, InstallPcs
  <2>5. FreshNames' /\ InstallerAt' /\ RecoveryAt'
    BY <2>1, <2>2 DEF FreshNames, IInv, InstallerAt, RecoveryAt, Pending, InstallPcs, CleanupPcs, UndoPcs,
           RecoverCalls
  <2>6. OriginalRetained'
    BY <2>1 DEF IInv, TypeOK, OriginalRetained, Kept
  <2> QED
    BY <2>3, <2>4, <2>5, <2>6 DEF IInv
<1> QED
  BY <1>1, <1>2

LEMMA RestorePreferencesIInv ==
  ASSUME IInv, RestorePreferences
  PROVE  IInv'
<1> USE DEF RestorePreferences, Idle
<1>1. job.previous \in Entry
  BY DEF IInv, TypeOK, InstallerAt, InstallPcs, Job
<1>2. TypeOK'
  BY <1>1 DEF IInv, TypeOK, Config, Pcs, Calls
<1>3. FreshNames' /\ InstallerAt' /\ RecoveryAt'
  BY DEF FreshNames, IInv, InstallerAt, RecoveryAt, Pending, InstallPcs, CleanupPcs, UndoPcs,
         RecoverCalls
<1> QED
  BY <1>2, <1>3, DiskFrame DEF IInv

--------------------------------------------------------------------------------
(* Cleanup and rollback.                                                   *)

LEMMA CallFailsIInv ==
  ASSUME IInv, CallFails, pc \in CleanupPcs \cup UndoPcs,
         UNCHANGED <<nextTx, accepted>>
  PROVE  IInv'
  BY ConcludeIInv DEF CallFails, disk

(* The only step that destroys bytes: a committed journal's version holds  *)
(* the acknowledged package, and no other version's package is in the      *)
(* backup.                                                                 *)
LEMMA DropBackupIInv ==
  ASSUME IInv, DropBackup
  PROVE  IInv'
<1> USE DEF DropBackup
<1>1. CASE CallFails
  BY <1>1, CallFailsIInv DEF CleanupPcs
<1>2. CASE /\ backup' = IF journal.backup
                        THEN [backup EXCEPT ![journal.tx] = None] ELSE backup
           /\ pc' = "dropJournal"
           /\ UNCHANGED <<prefs, blocked, job, after, dir, retained, journal, config,
                          lapse>>
  <2> USE <1>2
  <2>1. /\ journal \in Journal /\ journal # None /\ journal.committed
        /\ journal.tx \in Txs /\ journal.version \in Versions
    BY DEF IInv, TypeOK, RecoveryAt, CleanupPcs, Journal
  <2>2. TypeOK'
    BY <2>1 DEF IInv, TypeOK, Content, Pcs, CleanupPcs
  <2>3. PackagesInPlace' /\ CommittedInPlace'
    BY <2>1 DEF IInv, TypeOK, PackagesInPlace, CommittedInPlace
  <2>4. FreshNames'
    <3>1. \A t \in Txs : backup[t] = None => backup'[t] = None
      BY <2>1 DEF IInv, TypeOK
    <3>2. job # None => job.tx \in Txs
      BY DEF IInv, TypeOK, Job
    <3> QED
      BY <3>1, <3>2 DEF IInv, FreshNames, Txs
  <2>5. InstallerAt' /\ RecoveryAt'
    BY <2>1 DEF IInv, InstallerAt, RecoveryAt, Pending, InstallPcs, CleanupPcs, UndoPcs,
           RecoverCalls
  <2>6. ASSUME NEW v \in Versions, accepted[v] # None
        PROVE  Kept(accepted[v])'
    <3>1. Kept(accepted[v])
      BY <2>6 DEF IInv, OriginalRetained
    <3>2. CASE accepted[v] = backup[journal.tx]
      <4>1. v = journal.version
        BY <2>1, <2>6, <3>2 DEF IInv, PackagesInPlace
      <4> QED
        BY <2>1, <4>1 DEF IInv, CommittedInPlace, Kept
    <3>3. CASE accepted[v] # backup[journal.tx]
      BY <2>1, <3>1, <3>3 DEF Kept, IInv, TypeOK
    <3> QED
      BY <3>2, <3>3
  <2> QED
    BY <2>2, <2>3, <2>4, <2>5, <2>6 DEF IInv, OriginalRetained
<1> QED
  BY <1>1, <1>2

LEMMA ClosingIInv ==
  ASSUME IInv, DropJournal \/ CloseJournal
  PROVE  IInv'
<1>1. CASE CallFails
  BY <1>1, CallFailsIInv DEF DropJournal, CloseJournal, CleanupPcs, UndoPcs
<1>2. CASE journal' = None /\ Conclude(TRUE)
           /\ UNCHANGED <<dir, backup, retained, config>>
  BY <1>2, ConcludeIInv DEF DropJournal, CloseJournal, CleanupPcs, UndoPcs
<1> QED
  BY <1>1, <1>2 DEF DropJournal, CloseJournal

LEMMA SetAsideIInv ==
  ASSUME IInv, SetAside
  PROVE  IInv'
<1> DEFINE v == journal.version
           t == journal.tx
<1> USE DEF SetAside
<1>1. /\ journal \in Journal /\ journal # None /\ ~journal.committed
      /\ v \in Versions /\ t \in Txs
  BY DEF IInv, TypeOK, RecoveryAt, Pending, UndoPcs, Journal
<1>2. CASE CallFails
  BY <1>2, CallFailsIInv DEF UndoPcs
<1>3. CASE /\ dir[v] # None /\ retained[t] = None
           /\ retained' = [retained EXCEPT ![t] = dir[v]]
           /\ dir' = [dir EXCEPT ![v] = None]
           /\ pc' = "putBack"
           /\ UNCHANGED <<backup, journal, config, prefs, blocked, job, after, lapse>>
  <2> USE <1>3
  <2>1. TypeOK'
    BY <1>1 DEF IInv, TypeOK, Content, Pcs, UndoPcs
  <2>2. PackagesInPlace' /\ CommittedInPlace'
    BY <1>1 DEF IInv, TypeOK, PackagesInPlace, CommittedInPlace
  <2>3. FreshNames'
    BY DEF IInv, FreshNames
  <2>4. InstallerAt' /\ RecoveryAt'
    BY <1>1 DEF IInv, InstallerAt, RecoveryAt, Pending, InstallPcs, CleanupPcs, UndoPcs,
           RecoverCalls, TypeOK
  <2>5. \A p : Kept(p) /\ p # None => Kept(p)'
    BY <1>1 DEF Kept, IInv, TypeOK
  <2>6. OriginalRetained'
    BY <2>5 DEF IInv, OriginalRetained
  <2> QED
    BY <2>1, <2>2, <2>3, <2>4, <2>6 DEF IInv
<1>4. CASE /\ (pc' = "putBack" /\ dir[v] = None) \/ pc' = "undoConfig"
           /\ UNCHANGED <<disk, prefs, blocked, job, after, lapse>>
  <2> USE <1>4 DEF disk
  <2>1. TypeOK'
    BY DEF IInv, TypeOK, Pcs, UndoPcs
  <2>2. FreshNames' /\ InstallerAt' /\ RecoveryAt'
    BY DEF FreshNames, IInv, InstallerAt, RecoveryAt, Pending, InstallPcs, CleanupPcs, UndoPcs,
           RecoverCalls
  <2> QED
    BY <2>1, <2>2, DiskFrame DEF IInv
<1> QED
  BY <1>2, <1>3, <1>4

LEMMA PutBackIInv ==
  ASSUME IInv, PutBack
  PROVE  IInv'
<1> DEFINE v == journal.version
           t == journal.tx
<1> USE DEF PutBack
<1>1. /\ journal \in Journal /\ journal # None /\ ~journal.committed
      /\ v \in Versions /\ t \in Txs /\ dir[v] = None
  BY DEF IInv, TypeOK, RecoveryAt, Pending, UndoPcs, Journal
<1>2. CASE CallFails
  BY <1>2, CallFailsIInv DEF UndoPcs
<1>3. CASE /\ IF journal.backup
              THEN /\ dir' = [dir EXCEPT ![v] = backup[t]]
                   /\ backup' = [backup EXCEPT ![t] = None]
              ELSE UNCHANGED <<dir, backup>>
           /\ pc' = "undoConfig"
           /\ UNCHANGED <<retained, journal, config, prefs, blocked, job, after, lapse>>
  <2> USE <1>3
  <2>1. TypeOK'
    BY <1>1 DEF IInv, TypeOK, Content, Pcs, UndoPcs
  <2>2. PackagesInPlace' /\ CommittedInPlace'
    BY <1>1 DEF IInv, TypeOK, PackagesInPlace, CommittedInPlace
  <2>3. FreshNames'
    <3>1. \A u \in Txs : backup[u] = None => backup'[u] = None
      BY <1>1 DEF IInv, TypeOK
    <3>2. job # None => job.tx \in Txs
      BY DEF IInv, TypeOK, Job
    <3> QED
      BY <3>1, <3>2 DEF IInv, FreshNames, Txs
  <2>4. InstallerAt' /\ RecoveryAt'
    BY <1>1 DEF IInv, InstallerAt, RecoveryAt, Pending, InstallPcs, CleanupPcs, UndoPcs,
           RecoverCalls
  <2>5. \A p : Kept(p) /\ p # None => Kept(p)'
    BY <1>1 DEF Kept, IInv, TypeOK
  <2>6. OriginalRetained'
    BY <2>5 DEF IInv, OriginalRetained
  <2> QED
    BY <2>1, <2>2, <2>3, <2>4, <2>6 DEF IInv
<1> QED
  BY <1>2, <1>3

LEMMA UndoConfigIInv ==
  ASSUME IInv, UndoConfig
  PROVE  IInv'
<1> USE DEF UndoConfig
<1>1. CASE CallFails
  BY <1>1, CallFailsIInv DEF UndoPcs
<1>2. CASE /\ config' = RestoredConfig /\ pc' = "closeJournal"
           /\ UNCHANGED <<dir, backup, retained, journal, prefs, blocked, job, after,
                       lapse>>
  <2> USE <1>2
  <2>1. RestoredConfig \in Config
    <3>1. journal.previous.mine \in Entry /\ config \in Config
      BY DEF IInv, TypeOK, RecoveryAt, Pending, UndoPcs, Journal, Config
    <3> QED
      BY <3>1 DEF RestoredConfig, Config
  <2>2. TypeOK'
    BY <2>1 DEF IInv, TypeOK, Pcs, UndoPcs
  <2>3. FreshNames' /\ InstallerAt' /\ RecoveryAt'
    BY DEF FreshNames, IInv, InstallerAt, RecoveryAt, Pending, InstallPcs, CleanupPcs, UndoPcs,
           RecoverCalls
  <2> QED
    BY <2>2, <2>3, DiskFrame DEF IInv
<1> QED
  BY <1>1, <1>2

--------------------------------------------------------------------------------
(* The rest of the host.                                                   *)

LEMMA HostIInv ==
  ASSUME IInv, Boot \/ Crash \/ RetryScan
  PROVE  IInv'
<1> USE DEF Boot, Crash, RetryScan, Settle, SettleAt, Idle, disk
<1>1. TypeOK'
  BY DEF IInv, TypeOK, Pcs, CleanupPcs, UndoPcs, Calls, RecoverCalls
<1>2. FreshNames' /\ InstallerAt' /\ RecoveryAt'
  BY DEF FreshNames, IInv, InstallerAt, RecoveryAt, Pending, InstallPcs, CleanupPcs, UndoPcs,
         RecoverCalls
<1> QED
  BY <1>1, <1>2, DiskFrame DEF IInv

LEMMA ChoiceIInv ==
  ASSUME IInv, NEW e \in BOOLEAN, SetEnabled(e) \/ SetOther(e)
  PROVE  IInv'
<1> USE DEF SetEnabled, SetOther
<1>1. prefs' \in Config
  <2>1. prefs \in Config
    BY DEF IInv, TypeOK
  <2>2. CASE SetEnabled(e)
    <3>1. prefs.mine \in Chosen
      BY <2>1, <2>2 DEF Config, Entry
    <3>2. [prefs.mine EXCEPT !.enabled = e] \in Entry
      BY <3>1 DEF Chosen, Entry
    <3> QED
      BY <2>1, <2>2, <3>2 DEF Config
  <2>3. CASE SetOther(e)
    BY <2>1, <2>3 DEF Config
  <2> QED
    BY <2>2, <2>3
<1>2. TypeOK'
  BY <1>1 DEF IInv, TypeOK
<1>3. FreshNames' /\ InstallerAt' /\ RecoveryAt'
  BY DEF FreshNames, IInv, InstallerAt, RecoveryAt, Pending, InstallPcs, CleanupPcs, UndoPcs,
         RecoverCalls
<1> QED
  BY <1>2, <1>3, DiskFrame DEF IInv

LEMMA StutterIInv ==
  ASSUME IInv, UNCHANGED vars
  PROVE  IInv'
<1> USE DEF vars
<1>1. TypeOK'
  BY DEF IInv, TypeOK
<1>2. FreshNames' /\ InstallerAt' /\ RecoveryAt'
  BY DEF IInv, FreshNames, InstallerAt, RecoveryAt, Pending
<1> QED
  BY <1>1, <1>2, DiskFrame DEF IInv

LEMMA NextIInv == IInv /\ [Next]_vars => IInv'
<1> SUFFICES ASSUME IInv, [Next]_vars PROVE IInv'
  OBVIOUS
<1>1. ASSUME NEW p \in Packages, NEW overwrite \in BOOLEAN, Begin(p, overwrite)
      PROVE  IInv'
  BY <1>1, BeginIInv
<1>2. CASE Installer
  BY <1>2, WriteJournalIInv, MoveToBackupIInv, ActivateIInv, ValidateIInv,
     PersistPreferencesIInv, RefreshStartIInv, CommitIInv, RestorePreferencesIInv
     DEF Installer
<1>3. CASE Recovery
  BY <1>3, DropBackupIInv, ClosingIInv, SetAsideIInv, PutBackIInv, UndoConfigIInv
     DEF Recovery
<1>4. CASE Boot \/ Crash \/ RetryScan
  BY <1>4, HostIInv
<1>5. ASSUME NEW e \in BOOLEAN, SetEnabled(e) \/ SetOther(e)
      PROVE  IInv'
  BY <1>5, ChoiceIInv
<1>6. CASE UNCHANGED vars
  BY <1>6, StutterIInv
<1> QED
  BY <1>1, <1>2, <1>3, <1>4, <1>5, <1>6 DEF Next

(* The conjunction above holds in every reachable state.                   *)
THEOREM Inductive == Spec => []IInv
  BY InitIInv, NextIInv, PTL DEF Spec

(* Type correctness, for every constant and every set of failing steps.    *)
THEOREM TypeCorrect == Spec => []TypeOK
<1>1. IInv => TypeOK
  BY DEF IInv
<1> QED
  BY <1>1, Inductive, PTL

(* A package once acknowledged keeps its bytes on disk until a later       *)
(* installation of its version is acknowledged, whatever crashes, fails or *)
(* is tried again in between.                                              *)
THEOREM NothingLost == Spec => []OriginalRetained
<1>1. IInv => OriginalRetained
  BY DEF IInv
<1> QED
  BY <1>1, Inductive, PTL

(***************************************************************************)
(* What an installation that fails or dies leaves behind.                  *)
(***************************************************************************)

(* The preferences in memory and those on disk agree on other plugins.     *)
OthersAgree == prefs.other = config.other

(* A transaction's name in the recovery directory is free until a rollback *)
(* moves its candidate there.                                              *)
FreshRetained ==
  /\ \A t \in Txs : t >= nextTx => retained[t] = None
  /\ pc \in InstallPcs \ {"restore"} \/ after = "prepare" => retained[job.tx] = None

(* What `existed` said of the destination still holds when the journal is  *)
(* about to be written, and no other journal is pending then.              *)
Looked ==
  pc = "journal" \/ after = "prepare"
    => /\ ~Pending
       /\ job.existed <=> dir[VersionOf[job.pkg]] # None

(* Whenever an unfinished journal is found, a named backup is there or the *)
(* original is in its place, and a candidate that was already set aside    *)
(* has left its place.                                                     *)
RollbackFinds ==
  /\ Pending /\ journal.backup
       => backup[journal.tx] # None \/ dir[journal.version] # None
  /\ Pending /\ retained[journal.tx] # None
       /\ (journal.backup => backup[journal.tx] # None)
       => dir[journal.version] = None

(* Where the original is at each step: in the backup from the rename to    *)
(* the marker, back in its place from the end of a rollback.               *)
BackedUp ==
  /\ pc = "toBackup" => dir[journal.version] # None
  /\ pc \in {"activate", "validate", "prefs", "refresh", "start", "commit", "putBack"}
       => (journal.backup => backup[journal.tx] # None)
  /\ pc \in {"undoConfig", "closeJournal"}
       => IF journal.backup THEN backup[journal.tx] = None
                            ELSE dir[journal.version] = None

UndoInv == FreshRetained /\ Looked /\ RollbackFinds /\ BackedUp

(* The preferences an accepted installation of pkg leaves.                 *)
Wanted(pkg, entry) ==
  [pkg |-> pkg, enabled |-> IF entry = None THEN TRUE ELSE entry.enabled]

(* Where memory agrees with the disk on this plugin.                       *)
MemoryFollows ==
  /\ pc = "idle" => IF Pending THEN blocked ELSE prefs.mine = config.mine
  /\ pc = "journal" \/ after \in {"prepare", "done"} \/ (after = "retry" /\ ~Pending)
       => prefs.mine = config.mine
  /\ after = "retry" /\ Pending => blocked
  /\ after \in {"abort", "drop"} => prefs.mine = journal.previous.mine

(* What the installer remembers of the entries it replaces.                *)
InstallKnows ==
  /\ pc = "journal" \/ after = "prepare" => job.previous = prefs.mine
  /\ pc \in InstallPcs \ {"journal", "restore"} \/ after = "abortRestore"
       => journal.previous.mine = job.previous
  /\ pc \in {"toBackup", "activate", "validate", "prefs"} => prefs.mine = job.previous
  /\ pc \in {"refresh", "start", "commit"}
       => prefs.mine = Wanted(job.pkg, job.previous) /\ config.mine = prefs.mine
  /\ pc = "restore" => ~Pending /\ config.mine = job.previous
  /\ pc = "closeJournal" => config.mine = journal.previous.mine

Follows == MemoryFollows /\ InstallKnows

(* An installer that saves its preferences over those another one left in  *)
(* memory has saved the latter; a rollback that closes the journal has put *)
(* back the entries of the configuration whatever memory holds.            *)
LeftBehind ==
  /\ pc \in {"refresh", "start", "commit"} => lapse # "memory"
  /\ lapse # "disk" /\ pc = "closeJournal" => config.mine = journal.previous.mine

PrefsInv == (lapse = "none" => Follows) /\ LeftBehind

(* The package a restart would choose is in its version directory.         *)
ChosenInPlace ==
  AbsSetting # None => AbsDir[VersionOf[AbsSetting.pkg]] = AbsSetting.pkg
--------------------------------------------------------------------------------
(* Other plugins.                                                          *)


LEMMA ConcludeOthers ==
  ASSUME OthersAgree, NEW ok \in BOOLEAN, Conclude(ok), config' = config
  PROVE  OthersAgree'
  BY DEF OthersAgree, Conclude

LEMMA NextOthers ==
  ASSUME IInv, OthersAgree, [Next]_vars
  PROVE  /\ OthersAgree'
         /\ config'.other # config.other => pc = "idle" /\ pc' = "idle"
<1> USE DEF OthersAgree
<1>1. prefs \in Config /\ config \in Config
  BY DEF IInv, TypeOK
<1>2. ASSUME NEW p \in Packages, NEW overwrite \in BOOLEAN, Begin(p, overwrite)
      PROVE  config' = config /\ prefs' = prefs
  BY <1>2 DEF Begin, disk
<1>3. CASE WriteJournal \/ MoveToBackup \/ Activate \/ Validate \/ Refresh \/ Start
           \/ Commit \/ Boot \/ RetryScan \/ Crash
  BY <1>3 DEF WriteJournal, MoveToBackup, Activate, Validate, Refresh, Start, Commit,
              Boot, RetryScan, Crash, disk
<1>4. CASE PersistPreferences \/ RestorePreferences
  <2>1. \A e : [prefs EXCEPT !.mine = e].other = prefs.other
    BY <1>1 DEF Config
  <2> QED
    BY <1>4, <2>1 DEF PersistPreferences, RestorePreferences
<1>5. CASE Recovery
  <2>1. RestoredConfig.other = config.other
    BY <1>1 DEF RestoredConfig, Config
  <2>2. ASSUME NEW ok \in BOOLEAN, Conclude(ok), config' = config
        PROVE  OthersAgree' /\ config' = config
    BY <2>2, ConcludeOthers
  <2> QED
    BY <1>5, <2>1, <2>2 DEF Recovery, DropBackup, DropJournal, SetAside, PutBack,
              UndoConfig, CloseJournal, CallFails, disk
<1>6. ASSUME NEW e \in BOOLEAN, SetEnabled(e)
      PROVE  config' = prefs' /\ prefs'.other = prefs.other
  BY <1>1, <1>6 DEF SetEnabled, Config
<1>7. ASSUME NEW e \in BOOLEAN, SetOther(e)
      PROVE  config' = prefs' /\ pc = "idle" /\ pc' = "idle"
  BY <1>7 DEF SetOther
<1>8. CASE UNCHANGED vars
  BY <1>8 DEF vars
<1> QED
  BY <1>2, <1>3, <1>4, <1>5, <1>6, <1>7, <1>8 DEF Next, Installer

(* The configuration changes another plugin's entry only when the idle     *)
(* host is asked to: no installation, rollback or restart reverts it,      *)
(* whatever fails.                                                         *)
THEOREM OthersLeftAlone == Spec => OthersUntouched
<1>1. Init => OthersAgree
  BY DEF Init, OthersAgree
<1>2. IInv /\ OthersAgree /\ [Next]_vars => OthersAgree'
  BY NextOthers
<1>3. IInv /\ OthersAgree /\ [Next]_vars
        => [config'.other # config.other => pc = "idle" /\ pc' = "idle"]_vars
  BY NextOthers
<1> QED
  BY <1>1, <1>2, <1>3, Inductive, PTL DEF Spec, OthersUntouched

--------------------------------------------------------------------------------
(* A rollback finds what it looks for.                                     *)

(* A step that leaves the directories and the journal alone.               *)
LEMMA UndoFrame ==
  ASSUME IInv, UndoInv, UNCHANGED <<dir, backup, retained, journal>>,
         nextTx' >= nextTx, nextTx' \in Nat
  PROVE  RollbackFinds' /\ (\A t \in Txs : t >= nextTx' => retained'[t] = None)
  BY DEF IInv, TypeOK, UndoInv, FreshRetained, RollbackFinds, Pending, Txs

LEMMA BeginUndo ==
  ASSUME IInv, UndoInv, ~InstallOverPending,
         NEW p \in Packages, NEW overwrite \in BOOLEAN, Begin(p, overwrite)
  PROVE  UndoInv'
<1> USE DEF Begin, Settle, SettleAt, disk
<1>1. nextTx \in Txs /\ nextTx \in Nat /\ nextTx' \in Nat /\ nextTx' >= nextTx
  BY DEF IInv, TypeOK, Txs
<1>2. ~Pending
  OBVIOUS
<1>3. RollbackFinds' /\ (\A t \in Txs : t >= nextTx' => retained'[t] = None)
  BY <1>1, UndoFrame
<1>4. retained'[job'.tx] = None
  BY <1>1 DEF UndoInv, FreshRetained
<1>5. Looked'
  BY <1>2 DEF Looked, Pending
<1>6. BackedUp'
  BY <1>2 DEF BackedUp, Pending
<1> QED
  BY <1>3, <1>4, <1>5, <1>6 DEF UndoInv, FreshRetained

(* Steps that move no directory, and the failing ones that start a         *)
(* rollback.                                                               *)
LEMMA QuietUndo ==
  ASSUME IInv, UndoInv,
         \/ Validate \/ PersistPreferences \/ Refresh \/ Start \/ RestorePreferences
         \/ Boot \/ Crash \/ RetryScan
         \/ UNCHANGED vars
         \/ \E e \in BOOLEAN : SetEnabled(e) \/ SetOther(e)
  PROVE  UndoInv'
<1>1. UNCHANGED <<dir, backup, retained, journal, nextTx>>
  BY DEF Validate, PersistPreferences, Refresh, Start, RestorePreferences, Boot, Crash,
         RetryScan, vars, SetEnabled, SetOther, disk
<1>2. RollbackFinds' /\ (\A t \in Txs : t >= nextTx' => retained'[t] = None)
  BY <1>1, UndoFrame DEF IInv, TypeOK
<1>3. \/ pc' \in {"down", "idle"} /\ after' = "none"
      \/ pc' \in CleanupPcs \cup {"setAside"} /\ after' # "prepare"
      \/ pc' \in {"prefs", "refresh", "start", "commit"} /\ job' = job /\ after' = after
         /\ pc \in {"validate", "prefs", "refresh", "start"}
      \/ UNCHANGED <<pc, job, after>>
  BY DEF Validate, PersistPreferences, Refresh, Start, RestorePreferences, Boot, Crash,
         RetryScan, vars, SetEnabled, SetOther, Idle, Settle, SettleAt, Undo, CleanupPcs,
         IInv, InstallerAt, InstallPcs
<1> QED
  BY <1>1, <1>2, <1>3 DEF UndoInv, FreshRetained, Looked, BackedUp, Pending, InstallPcs,
     CleanupPcs

LEMMA WriteJournalUndo ==
  ASSUME IInv, UndoInv, WriteJournal
  PROVE  UndoInv'
<1> USE DEF WriteJournal
<1>1. /\ job # None /\ job.tx \in Txs /\ job.existed \in BOOLEAN /\ after = "none"
      /\ retained[job.tx] = None /\ (job.existed <=> dir[VersionOf[job.pkg]] # None)
  BY DEF IInv, TypeOK, InstallerAt, InstallPcs, UndoInv, FreshRetained, Looked, Job
<1>2. CASE Idle /\ UNCHANGED journal
  BY <1>2 DEF Idle, UndoInv, FreshRetained, Looked, RollbackFinds, BackedUp, Pending,
              InstallPcs
<1>3. CASE /\ journal' = [version |-> VersionOf[job.pkg], tx |-> job.tx,
                          backup |-> job.existed, previous |-> config,
                          committed |-> FALSE]
           /\ pc' = IF job.existed THEN "toBackup" ELSE "activate"
           /\ job' = job /\ after' = after
  <2>1. /\ journal'.tx = job.tx /\ journal'.version = VersionOf[job.pkg]
        /\ journal'.backup = job.existed /\ journal'.committed = FALSE
    BY <1>3
  <2> QED
    BY <1>1, <1>3, <2>1 DEF UndoInv, FreshRetained, Looked, RollbackFinds, BackedUp,
       Pending, InstallPcs
<1> QED
  BY <1>2, <1>3

LEMMA MoveUndo ==
  ASSUME IInv, UndoInv, MoveToBackup \/ Activate
  PROVE  UndoInv'
<1> DEFINE v == VersionOf[job.pkg]
<1>1. /\ job.tx \in Txs /\ v \in Versions /\ job.pkg \in Packages /\ job.pkg # None
      /\ Pending /\ journal.tx = job.tx /\ journal.version = v /\ retained[job.tx] = None
      /\ after = "none"
  <2>1. pc \in {"toBackup", "activate"}
    BY DEF MoveToBackup, Activate
  <2>2. job \in Job
    BY <2>1 DEF IInv, TypeOK, InstallerAt, InstallPcs
  <2> QED
    BY <2>1, <2>2, NotNone DEF IInv, InstallerAt, InstallPcs, Job, UndoInv,
       FreshRetained
<1>2. UNCHANGED <<retained, journal, job, nextTx>>
  BY DEF MoveToBackup, Activate
<1>3. CASE Undo("drop") /\ UNCHANGED <<dir, backup>>
  BY <1>1, <1>2, <1>3 DEF Undo, UndoInv, FreshRetained, Looked, RollbackFinds, BackedUp,
     Pending, InstallPcs
<1>4. CASE /\ dir[v] # None
           /\ backup' = [backup EXCEPT ![job.tx] = dir[v]]
           /\ dir' = [dir EXCEPT ![v] = None]
           /\ pc' = "activate" /\ after' = after
  BY <1>1, <1>2, <1>4 DEF IInv, TypeOK, UndoInv, FreshRetained, Looked, RollbackFinds,
     BackedUp, Pending, InstallPcs
<1>5. CASE /\ pc = "activate" /\ backup' = backup
           /\ dir' = [dir EXCEPT ![v] = job.pkg]
           /\ pc' = "validate" /\ after' = after
  BY <1>1, <1>2, <1>5 DEF IInv, TypeOK, UndoInv, FreshRetained, Looked, RollbackFinds,
     BackedUp, Pending, InstallPcs
<1> QED
  BY <1>3, <1>4, <1>5 DEF MoveToBackup, Activate

LEMMA CommitUndo ==
  ASSUME IInv, UndoInv, Commit
  PROVE  UndoInv'
<1> USE DEF Commit
<1>1. CASE /\ \E call \in {"abortRestore", "drop"} : Undo(call)
           /\ UNCHANGED <<journal, accepted>>
  BY <1>1 DEF Undo, UndoInv, FreshRetained, Looked, RollbackFinds, BackedUp, Pending,
     InstallPcs
<1>2. CASE /\ journal' = [journal EXCEPT !.committed = TRUE]
           /\ pc' = "dropBackup" /\ after' = "done"
  <2>1. journal \in Journal
    BY DEF IInv, TypeOK, InstallerAt, InstallPcs, Pending
  <2>2. ~Pending'
    BY <1>2, <2>1 DEF Pending, Journal
  <2> QED
    BY <1>2, <2>2 DEF UndoInv, FreshRetained, Looked, RollbackFinds, BackedUp, InstallPcs
<1> QED
  BY <1>1, <1>2

(* The end of a cleanup or a rollback.                                     *)
LEMMA ConcludeUndo ==
  ASSUME IInv, UndoInv, NEW ok \in BOOLEAN, Conclude(ok),
         pc \in CleanupPcs \cup UndoPcs,
         UNCHANGED <<dir, backup, retained, nextTx>>,
         journal' = IF ok THEN None ELSE journal
  PROVE  UndoInv'
<1>1. RollbackFinds' /\ (\A t \in Txs : t >= nextTx' => retained'[t] = None)
  BY DEF UndoInv, FreshRetained, RollbackFinds, Pending
<1>2. \/ pc' = "idle" /\ after' = "none"
      \/ pc' = "journal" /\ after = "prepare" /\ after' = "none" /\ job' = job /\ ok
      \/ pc' = "restore" /\ after' = "none"
      \/ pc' = "setAside" /\ after' = "drop"
  BY DEF Conclude, Idle, Undo
<1> QED
  BY <1>1, <1>2 DEF UndoInv, FreshRetained, Looked, BackedUp, Pending, InstallPcs

LEMMA FailUndo ==
  ASSUME IInv, UndoInv, CallFails, pc \in CleanupPcs \cup UndoPcs, nextTx' = nextTx
  PROVE  UndoInv'
  BY ConcludeUndo DEF CallFails, disk

LEMMA RecoveryUndo ==
  ASSUME IInv, UndoInv, Recovery
  PROVE  UndoInv'
<1> DEFINE v == journal.version
           t == journal.tx
<1>1. /\ journal \in Journal /\ journal # None /\ v \in Versions /\ t \in Txs
      /\ journal.backup \in BOOLEAN /\ pc \in CleanupPcs \cup UndoPcs
      /\ pc \in UndoPcs => Pending /\ after # "prepare"
      /\ nextTx' = nextTx /\ t < nextTx
  BY DEF IInv, TypeOK, FreshNames, RecoveryAt, Recovery, DropBackup, DropJournal, SetAside,
     PutBack, UndoConfig, CloseJournal, CleanupPcs, UndoPcs, Journal, Pending, UndoInv, Looked
<1>2. CASE CallFails
  BY <1>1, <1>2, FailUndo
<1>3. CASE DropBackup /\ ~CallFails
  <2>1. ~Pending /\ UNCHANGED <<dir, retained, journal, job, after>> /\ pc' = "dropJournal"
    BY <1>3 DEF DropBackup, IInv, RecoveryAt, CleanupPcs, Pending
  <2> QED
    BY <1>1, <2>1 DEF UndoInv, FreshRetained, Looked, RollbackFinds, BackedUp, Pending,
       InstallPcs, CleanupPcs
<1>4. CASE (DropJournal \/ CloseJournal) /\ ~CallFails
  BY <1>1, <1>4, ConcludeUndo DEF DropJournal, CloseJournal
<1>5. CASE SetAside /\ ~CallFails
  <2>1. UNCHANGED <<backup, journal, job, after>> /\ after # "prepare" /\ Pending
    BY <1>1, <1>5 DEF SetAside, UndoPcs, disk
  <2>2. CASE /\ MustMove /\ dir[v] # None /\ retained[t] = None
             /\ retained' = [retained EXCEPT ![t] = dir[v]]
             /\ dir' = [dir EXCEPT ![v] = None]
             /\ pc' = "putBack"
    <3>1. \A u \in Txs : u >= nextTx => retained'[u] = None
      BY <1>1, <2>2 DEF IInv, TypeOK, UndoInv, FreshRetained, Txs
    <3> QED
      BY <1>1, <2>1, <2>2, <3>1 DEF MustMove, IInv, TypeOK, UndoInv, FreshRetained, Looked,
         RollbackFinds, BackedUp, Pending, InstallPcs
  <2>3. CASE /\ UNCHANGED <<dir, retained>>
             /\ \/ MustMove /\ dir[v] = None /\ pc' = "putBack"
                \/ ~MustMove /\ dir[v] # None /\ pc' = "undoConfig"
    BY <1>1, <2>1, <2>3 DEF MustMove, UndoInv, FreshRetained, Looked, RollbackFinds,
       BackedUp, Pending, InstallPcs
  <2> QED
    BY <1>5, <2>2, <2>3 DEF SetAside, disk
<1>6. CASE PutBack /\ ~CallFails
  <2>1. /\ UNCHANGED <<retained, journal, job, after>> /\ after # "prepare" /\ Pending
        /\ dir[v] = None /\ pc' = "undoConfig"
    BY <1>1, <1>6 DEF PutBack, UndoPcs, IInv, RecoveryAt
  <2>2. CASE journal.backup
    <3>1. backup[t] # None
      BY <1>6, <2>2 DEF PutBack, UndoInv, BackedUp
    <3>2. dir'[v] = backup[t] /\ backup'[t] = None
      BY <1>1, <1>6, <2>2 DEF PutBack, IInv, TypeOK
    <3> QED
      BY <1>1, <2>1, <2>2, <3>1, <3>2 DEF UndoInv, FreshRetained, Looked, RollbackFinds,
         BackedUp, Pending, InstallPcs
  <2>3. CASE ~journal.backup
    BY <1>1, <1>6, <2>1, <2>3 DEF PutBack, UndoInv, FreshRetained, Looked, RollbackFinds,
       BackedUp, Pending, InstallPcs
  <2> QED
    BY <2>2, <2>3
<1>7. CASE UndoConfig /\ ~CallFails
  <2>1. /\ UNCHANGED <<dir, backup, retained, journal, job, after>> /\ after # "prepare"
        /\ pc = "undoConfig" /\ pc' = "closeJournal"
    BY <1>1, <1>7 DEF UndoConfig, UndoPcs
  <2> QED
    BY <1>1, <2>1 DEF UndoInv, FreshRetained, Looked, RollbackFinds, BackedUp, Pending,
       InstallPcs
<1> QED
  BY <1>2, <1>3, <1>4, <1>5, <1>6, <1>7 DEF Recovery

LEMMA NextUndo ==
  ASSUME ~InstallOverPending, IInv, UndoInv, [Next]_vars
  PROVE  UndoInv'
<1>1. ASSUME NEW p \in Packages, NEW overwrite \in BOOLEAN, Begin(p, overwrite)
      PROVE  UndoInv'
  BY <1>1, BeginUndo
<1>2. CASE Installer
  BY <1>2, WriteJournalUndo, MoveUndo, CommitUndo, QuietUndo DEF Installer
<1> QED
  BY <1>1, <1>2, RecoveryUndo, QuietUndo DEF Next

LEMMA UndoAlways ==
  ASSUME ~InstallOverPending
  PROVE  Spec => []UndoInv
<1>1. Init => UndoInv
  BY DEF Init, UndoInv, FreshRetained, Looked, RollbackFinds, BackedUp, Pending,
         InstallPcs, TypeOK
<1>2. IInv /\ UndoInv /\ [Next]_vars => UndoInv'
  BY NextUndo
<1> QED
  BY <1>1, <1>2, Inductive, PTL DEF Spec

(* Where no installation is started over an unfinished journal, a rollback *)
(* never finds the candidate's name taken or a named backup missing with   *)
(* the original gone: whatever step failed and wherever an earlier         *)
(* rollback died, a later recovery can settle the journal.                 *)
THEOREM RecoveryFinishes ==
  ASSUME ~InstallOverPending
  PROVE  Spec => []RecoveryCanFinish
<1>1. IInv /\ UndoInv => RecoveryCanFinish
  BY DEF IInv, RecoveryAt, UndoPcs, UndoInv, RollbackFinds, RecoveryCanFinish,
         AbsentBackupMeansOriginal
<1> QED
  BY <1>1, UndoAlways, Inductive, PTL

--------------------------------------------------------------------------------
(* Memory follows the disk.                                                *)

LEMMA ConcludePrefs ==
  ASSUME IInv, UndoInv, Follows, NEW ok \in BOOLEAN, Conclude(ok),
         pc \in CleanupPcs \cup {"closeJournal"} \/ ~ok,
         pc \in CleanupPcs \cup UndoPcs,
         lapse' = "none",
         config' = config,
         journal' = IF ok THEN None ELSE journal
  PROVE  Follows'
<1> USE DEF Conclude, Idle, Undo
<1>1. /\ pc \in CleanupPcs => ~Pending /\ after \in RecoverCalls \cup {"done"}
      /\ pc \in UndoPcs => Pending /\ after \in RecoverCalls \cup {"abort", "abortRestore", "drop"}
  BY DEF IInv, RecoveryAt, Pending
<1>2. /\ after = "prepare" => ~Pending
      /\ after \in {"abortRestore", "drop"} => ok
  BY DEF UndoInv, Looked
<1> USE DEF Follows, MemoryFollows, InstallKnows, RequiresRecovery, Pending, RecoverCalls,
            CleanupPcs, UndoPcs, InstallPcs
<1>3. CASE after \in {"boot", "retry", "done"}
  BY <1>1, <1>3
<1>4. CASE after = "prepare"
  BY <1>1, <1>2, <1>4
<1>5. CASE after = "abort" /\ ok
  <2>1. pc' = "idle" /\ after' = "none" /\ prefs' = prefs
    BY <1>5
  <2> QED
    BY <1>1, <1>5, <2>1
<1>6. CASE after = "abortRestore" /\ ok
  <2>1. pc' = "restore" /\ after' = "none" /\ prefs' = prefs /\ job' = job
    BY <1>6
  <2> QED
    BY <1>1, <1>6, <2>1
<1>7. CASE after = "drop"
  BY <1>1, <1>2, <1>7
<1>8. CASE after = "abort" /\ ~ok
  <2>1. pc' = "setAside" /\ after' = "drop" /\ UNCHANGED <<prefs, job>>
    BY <1>8
  <2> QED
    BY <1>1, <1>8, <2>1
<1> QED
  BY <1>1, <1>2, <1>3, <1>4, <1>5, <1>6, <1>7, <1>8 DEF Conclude

LEMMA BeginPrefs ==
  ASSUME IInv, UndoInv, Follows, ~InstallOverPending,
         NEW p \in Packages, NEW overwrite \in BOOLEAN, Begin(p, overwrite)
  PROVE  Follows'
<1>1. /\ ~Pending /\ job'.previous = prefs.mine /\ prefs.mine = config.mine
      /\ after = "none"
  BY DEF Begin, Follows, MemoryFollows, IInv, InstallerAt
<1>2. \/ pc' = "journal" /\ after' = "none"
      \/ pc' \in {"dropBackup", "setAside"} /\ after' = "prepare"
  BY DEF Begin, Settle, SettleAt
<1>3. ~Pending' /\ UNCHANGED <<journal, config, prefs, blocked>>
  BY <1>1 DEF Begin, disk, Pending
<1> QED
  BY <1>1, <1>2, <1>3 DEF Follows, MemoryFollows, InstallKnows, InstallPcs

LEMMA InstallerPrefs ==
  ASSUME IInv, UndoInv, Follows, lapse' = "none", Installer
  PROVE  Follows'
<1> USE DEF Follows, MemoryFollows, InstallKnows
<1>1. /\ pc \in InstallPcs /\ after = "none" /\ job # None /\ job \in Job
      /\ prefs \in Config /\ config \in Config
      /\ pc \in InstallPcs \ {"journal", "restore"} => Pending
  BY DEF IInv, TypeOK, InstallerAt, Installer, WriteJournal, MoveToBackup, Activate,
         Validate, PersistPreferences, Refresh, Start, Commit, RestorePreferences, InstallPcs
<1>2. CASE WriteJournal
  <2>1. CASE Idle /\ UNCHANGED journal
    BY <1>1, <1>2, <2>1 DEF WriteJournal, Idle, InstallPcs, Pending, UndoInv, Looked
  <2>2. CASE /\ journal' = [version |-> VersionOf[job.pkg], tx |-> job.tx,
                            backup |-> job.existed, previous |-> config,
                            committed |-> FALSE]
             /\ pc' = IF job.existed THEN "toBackup" ELSE "activate"
             /\ job' = job /\ after' = after
    <3>1. journal'.previous = config
      BY <2>2
    <3>2. pc = "journal" /\ UNCHANGED <<config, prefs>> /\ pc' \in {"toBackup", "activate"}
      BY <1>2, <2>2 DEF WriteJournal
    <3> QED
      BY <1>1, <2>2, <3>1, <3>2 DEF InstallPcs
  <2> QED
    BY <1>2, <2>1, <2>2 DEF WriteJournal
<1>3. CASE MoveToBackup \/ Activate \/ Validate
  <2>1. /\ pc \in {"toBackup", "activate", "validate"}
        /\ UNCHANGED <<journal, config, prefs, blocked, job>>
        /\ \/ pc' \in {"activate", "validate", "prefs"} /\ after' = after
           \/ pc' = "setAside" /\ after' \in {"drop", "abort"}
    BY <1>3 DEF MoveToBackup, Activate, Validate, Undo, disk
  <2> QED
    BY <1>1, <2>1 DEF InstallPcs, Pending
<1>4. CASE PersistPreferences
  <2>1. CASE pc' = "setAside" /\ after' = "abort" /\ UNCHANGED <<prefs, config>>
    BY <1>1, <1>4, <2>1 DEF PersistPreferences, InstallPcs, Pending
  <2>2. CASE prefs' = [prefs EXCEPT !.mine = NewEntry] /\ config' = prefs'
             /\ pc' = "refresh" /\ after' = after
    <3>1. NewEntry = Wanted(job.pkg, job.previous)
      BY <1>4 DEF PersistPreferences, NewEntry, Wanted
    <3>2. prefs'.mine = NewEntry
      BY <1>1, <2>2 DEF Config
    <3>3. UNCHANGED <<journal, job>> /\ pc = "prefs"
      BY <1>4 DEF PersistPreferences
    <3>4. Wanted(job.pkg, job.previous)' = Wanted(job.pkg, job.previous)
      BY <3>3 DEF Wanted
    <3> HIDE DEF Wanted
    <3> QED
      BY <1>1, <2>2, <3>1, <3>2, <3>3, <3>4 DEF InstallPcs, Pending
  <2> QED
    BY <1>4, <2>1, <2>2 DEF PersistPreferences, Undo
<1>5. CASE Refresh \/ Start
  <2>1. /\ pc \in {"refresh", "start"} /\ UNCHANGED <<journal, config, prefs, job>>
        /\ \/ pc' \in {"start", "commit"} /\ after' = after
           \/ pc' = "setAside" /\ after' = "abortRestore"
    BY <1>5 DEF Refresh, Start, Undo, disk
  <2>2. Wanted(job.pkg, job.previous)' = Wanted(job.pkg, job.previous)
    BY <2>1 DEF Wanted
  <2> QED
    BY <1>1, <2>1, <2>2 DEF InstallPcs, Pending
<1>6. CASE Commit
  <2>1. CASE Undo("abortRestore") /\ UNCHANGED <<journal, accepted>>
    BY <1>1, <1>6, <2>1 DEF Commit, Undo, InstallPcs
  <2>3. CASE GivesUp
    BY <2>3
  <2>2. CASE journal' = [journal EXCEPT !.committed = TRUE] /\ pc' = "dropBackup"
             /\ after' = "done"
    BY <1>1, <1>6, <2>2 DEF Commit, InstallPcs
  <2> QED
    BY <1>6, <2>1, <2>2, <2>3 DEF Commit
<1>7. CASE RestorePreferences
  <2>1. /\ pc' = "idle" /\ after' = "none" /\ config' = prefs' /\ journal' = journal
        /\ ~Pending
    BY <1>7 DEF RestorePreferences, Idle
  <2> QED
    BY <2>1 DEF InstallPcs, Pending
<1> QED
  BY <1>2, <1>3, <1>4, <1>5, <1>6, <1>7 DEF Installer

LEMMA RecoveryPrefs ==
  ASSUME IInv, UndoInv, Follows, lapse' = "none", Recovery
  PROVE  Follows'
<1>1. /\ pc \in CleanupPcs \cup UndoPcs
      /\ pc \in CleanupPcs => ~Pending /\ after \in RecoverCalls \cup {"done"}
      /\ pc \in UndoPcs => Pending
  BY DEF IInv, RecoveryAt, Pending, Recovery, DropBackup, DropJournal, SetAside, PutBack,
         UndoConfig, CloseJournal, CleanupPcs, UndoPcs
<1>2. CASE CallFails
  BY <1>1, <1>2, ConcludePrefs DEF CallFails, disk
<1>3. CASE (DropJournal \/ CloseJournal) /\ ~CallFails
  <2>1. pc \in CleanupPcs \cup {"closeJournal"}
    BY <1>3 DEF DropJournal, CloseJournal, CleanupPcs
  <2> QED
    BY <1>1, <1>3, <2>1, ConcludePrefs DEF DropJournal, CloseJournal
<1>4. CASE (DropBackup \/ SetAside \/ PutBack) /\ ~CallFails
  <2>1. /\ UNCHANGED <<journal, config, prefs, blocked, job, after>>
        /\ pc' \in {"dropJournal", "putBack", "undoConfig"}
    BY <1>4 DEF DropBackup, SetAside, PutBack, disk
  <2> QED
    BY <1>1, <2>1 DEF Follows, MemoryFollows, InstallKnows, Pending, InstallPcs, CleanupPcs,
       UndoPcs
<1>5. CASE UndoConfig /\ ~CallFails
  <2>1. /\ UNCHANGED <<journal, prefs, blocked, job, after>> /\ pc' = "closeJournal"
        /\ config' = RestoredConfig /\ pc = "undoConfig"
    BY <1>5 DEF UndoConfig
  <2>2. config'.mine = journal.previous.mine
    BY <2>1 DEF RestoredConfig, IInv, TypeOK, Config
  <2>3. after \notin {"prepare", "done"}
    BY <1>1, <2>1 DEF UndoInv, Looked, IInv, RecoveryAt, UndoPcs, RecoverCalls
  <2> QED
    BY <1>1, <2>1, <2>2, <2>3 DEF Follows, MemoryFollows, InstallKnows, Pending,
       InstallPcs, UndoPcs
<1> QED
  BY <1>2, <1>3, <1>4, <1>5 DEF Recovery

LEMMA HostPrefs ==
  ASSUME IInv, Follows,
         \/ Boot \/ Crash \/ RetryScan \/ UNCHANGED vars
         \/ \E e \in BOOLEAN : SetEnabled(e) \/ SetOther(e)
  PROVE  Follows'
<1> USE DEF Follows, MemoryFollows, InstallKnows, Pending, InstallPcs
<1>1. CASE Boot
  BY <1>1 DEF Boot, Settle, SettleAt, Idle, disk
<1>2. CASE Crash
  BY <1>2 DEF Crash, disk
<1>3. CASE RetryScan
  BY <1>3 DEF RetryScan, Settle, SettleAt, disk
<1>4. ASSUME NEW e \in BOOLEAN, SetEnabled(e) \/ SetOther(e)
      PROVE  Follows'
  <2>1. config' = prefs' /\ pc = "idle" /\ UNCHANGED <<journal, blocked, pc, job, after>>
    BY <1>4 DEF SetEnabled, SetOther
  <2>2. after = "none"
    BY <2>1 DEF IInv, InstallerAt
  <2> QED
    BY <2>1, <2>2
<1>5. CASE UNCHANGED vars
  <2>1. UNCHANGED <<journal, config, prefs, blocked, pc, job, after>>
    BY <1>5 DEF vars
  <2>2. Wanted(job.pkg, job.previous)' = Wanted(job.pkg, job.previous)
    BY <2>1 DEF Wanted
  <2> QED
    BY <2>1, <2>2
<1> QED
  BY <1>1, <1>2, <1>3, <1>4, <1>5

(* Only a restart ends a lapse, and only while nothing of it was saved.    *)
LEMMA LapseLasts ==
  ASSUME [Next]_vars
  PROVE  /\ lapse' = "none" => lapse = "none" \/ Crash
         /\ lapse' # "disk" => lapse # "disk"
<1>1. CASE Installer
  BY <1>1 DEF Installer, WriteJournal, MoveToBackup, Activate, Validate, PersistPreferences,
     Refresh, Start, Commit, RestorePreferences
<1>2. ASSUME NEW ok \in BOOLEAN, Conclude(ok)
      PROVE  UNCHANGED lapse \/ GivesUp
  BY <1>2 DEF Conclude
<1>3. CASE Recovery
  <2>1. UNCHANGED lapse \/ Conclude(TRUE) \/ Conclude(FALSE)
    BY <1>3 DEF Recovery, DropBackup, DropJournal, SetAside, PutBack, UndoConfig,
       CloseJournal, CallFails
  <2> QED
    BY <1>2, <2>1
<1>4. CASE \/ \E p \in Packages, overwrite \in BOOLEAN : Begin(p, overwrite)
           \/ Boot \/ Crash \/ RetryScan \/ UNCHANGED vars
           \/ \E e \in BOOLEAN : SetEnabled(e) \/ SetOther(e)
  BY <1>4 DEF Begin, Boot, Crash, RetryScan, vars, SetEnabled, SetOther
<1> QED
  BY <1>1, <1>3, <1>4 DEF Next

LEMMA NextFollows ==
  ASSUME ~InstallOverPending, IInv, UndoInv, Follows, lapse' = "none", [Next]_vars
  PROVE  Follows'
<1>1. ASSUME NEW p \in Packages, NEW overwrite \in BOOLEAN, Begin(p, overwrite)
      PROVE  Follows'
  BY <1>1, BeginPrefs
<1> QED
  BY <1>1, InstallerPrefs, RecoveryPrefs, HostPrefs DEF Next

(* A restarted host has nothing in memory that could be wrong.             *)
LEMMA CrashFollows ==
  ASSUME Crash
  PROVE  Follows'
  BY DEF Crash, Follows, MemoryFollows, InstallKnows, InstallPcs

LEMMA NextLeft ==
  ASSUME IInv, LeftBehind, [Next]_vars
  PROVE  LeftBehind'
<1> USE DEF LeftBehind
<1>1. CASE WriteJournal \/ MoveToBackup \/ Activate \/ Validate \/ Commit
           \/ RestorePreferences
  <2>1. pc' \notin {"refresh", "start", "commit", "closeJournal"}
    BY <1>1 DEF WriteJournal, MoveToBackup, Activate, Validate, Commit,
       RestorePreferences, Idle, Undo
  <2> QED
    BY <2>1
<1>2. CASE PersistPreferences
  <2>1. pc' # "closeJournal" /\ (pc' = "refresh" => SavesPreferences)
    BY <1>2 DEF PersistPreferences, Undo
  <2>2. pc' \notin {"start", "commit"}
    BY <1>2 DEF PersistPreferences, Undo
  <2> QED
    BY <2>1, <2>2
<1>3. CASE Refresh \/ Start
  <2>1. /\ pc' # "closeJournal" /\ pc \in {"refresh", "start"} /\ UNCHANGED lapse
    BY <1>3 DEF Refresh, Start, Undo
  <2> QED
    BY <2>1
<1>4. CASE UndoConfig /\ ~CallFails
  <2>1. UNCHANGED journal /\ pc' = "closeJournal" /\ config' = RestoredConfig
    BY <1>4 DEF UndoConfig
  <2>2. config'.mine = journal.previous.mine
    BY <2>1 DEF RestoredConfig, IInv, TypeOK, Config
  <2> QED
    BY <2>1, <2>2
<1>5. ASSUME NEW ok \in BOOLEAN, Conclude(ok)
      PROVE  LeftBehind'
  <2>1. pc' \notin {"refresh", "start", "commit", "closeJournal"}
    BY <1>5 DEF Conclude, Idle, Undo
  <2> QED
    BY <2>1
<1>6. CASE Recovery /\ ~(UndoConfig /\ ~CallFails)
  <2>1. \/ Conclude(TRUE) \/ Conclude(FALSE)
        \/ pc' \in {"dropJournal", "putBack", "undoConfig"}
    BY <1>6 DEF Recovery, DropBackup, DropJournal, SetAside, PutBack, UndoConfig,
       CloseJournal, CallFails
  <2> QED
    BY <1>5, <2>1
<1>7. CASE \/ \E p \in Packages, overwrite \in BOOLEAN : Begin(p, overwrite)
           \/ Boot \/ Crash \/ RetryScan
           \/ \E e \in BOOLEAN : SetEnabled(e) \/ SetOther(e)
  <2>1. pc' \notin {"refresh", "start", "commit", "closeJournal"}
    BY <1>7 DEF Begin, Boot, Crash, RetryScan, SetEnabled, SetOther, Settle, SettleAt, Idle
  <2> QED
    BY <2>1
<1>8. CASE UNCHANGED vars
  BY <1>8 DEF vars
<1> QED
  BY <1>1, <1>2, <1>3, <1>4, <1>6, <1>7, <1>8 DEF Next, Installer

LEMMA NextPrefs ==
  ASSUME ~InstallOverPending, IInv, UndoInv, PrefsInv, [Next]_vars
  PROVE  PrefsInv'
  BY LapseLasts, NextFollows, CrashFollows, NextLeft DEF PrefsInv

LEMMA PrefsAlways ==
  ASSUME ~InstallOverPending
  PROVE  Spec => []PrefsInv
<1>1. Init => PrefsInv
  BY DEF Init, PrefsInv, Follows, LeftBehind, MemoryFollows, InstallKnows, InstallPcs
<1>2. IInv /\ UndoInv /\ PrefsInv /\ [Next]_vars => PrefsInv'
  BY NextPrefs
<1> QED
  BY <1>1, <1>2, Inductive, UndoAlways, PTL DEF Spec

--------------------------------------------------------------------------------
(* The simulation of the atomic installation.                              *)

LEMMA AbsFrame ==
  ASSUME UNCHANGED <<dir, backup, journal, config>>
  PROVE  UNCHANGED <<AbsDir, AbsSetting>>
  BY DEF AbsDir, AbsSetting, Pending

LEMMA AbsUnfinished ==
  ASSUME Pending, Pending', journal' = journal,
         [dir EXCEPT ![journal.version] =
            IF ~journal.backup THEN None
            ELSE IF backup[journal.tx] # None THEN backup[journal.tx] ELSE @]
         = [dir' EXCEPT ![journal.version] =
            IF ~journal.backup THEN None
            ELSE IF backup'[journal.tx] # None THEN backup'[journal.tx] ELSE @]
  PROVE  UNCHANGED <<AbsDir, AbsSetting>>
  BY DEF AbsDir, AbsSetting

(* The steps before the marker leave what a restart would establish.       *)
LEMMA InstallerSimulates ==
  ASSUME IInv, UndoInv, PrefsInv, Installer, ~Commit
  PROVE  AbsDir' = AbsDir /\ (lapse' # "disk" => AbsSetting' = AbsSetting)
<1>1. /\ dir \in [Versions -> Content] /\ backup \in [Txs -> Content] /\ job \in Job
      /\ VersionOf[job.pkg] \in Versions /\ job.tx \in Txs
      /\ prefs \in Config /\ config \in Config
      /\ pc \in InstallPcs
      /\ pc \in InstallPcs \ {"journal", "restore"} =>
           /\ Pending /\ journal.tx = job.tx /\ journal.version = VersionOf[job.pkg]
  <2>1. job \in Job /\ pc \in InstallPcs
    BY DEF IInv, TypeOK, InstallerAt, Installer, WriteJournal, MoveToBackup, Activate,
           Validate, PersistPreferences, Refresh, Start, Commit, RestorePreferences, InstallPcs
  <2> QED
    BY <2>1 DEF IInv, TypeOK, InstallerAt, Job
<1> DEFINE v == VersionOf[job.pkg]
<1>2. CASE WriteJournal
  <2>1. CASE UNCHANGED journal
    BY <1>2, <2>1, AbsFrame DEF WriteJournal
  <2>2. CASE journal' = [version |-> VersionOf[job.pkg], tx |-> job.tx,
                         backup |-> job.existed, previous |-> config,
                         committed |-> FALSE]
    <3>1. journal' \in Journal /\ journal' # None
      BY <1>1, <2>2, NotNone DEF Job, Journal
    <3>2. /\ journal'.tx = job.tx /\ journal'.version = v /\ journal'.backup = job.existed
          /\ journal'.previous = config /\ journal'.committed = FALSE
      BY <2>2
    <3>3. pc = "journal" /\ dir' = dir /\ backup' = backup /\ config' = config
      BY <1>2 DEF WriteJournal
    <3>4. ~Pending /\ backup[job.tx] = None /\ (job.existed <=> dir[v] # None)
      BY <3>3 DEF UndoInv, Looked, IInv, FreshNames
    <3>5. Pending' /\ AbsDir = dir /\ AbsSetting = config.mine /\ AbsSetting' = config.mine
      BY <3>1, <3>2, <3>4 DEF Pending, AbsDir, AbsSetting
    <3>6. AbsDir' = [dir EXCEPT ![v] = IF ~job.existed THEN None ELSE @]
      BY <3>2, <3>3, <3>4, <3>5 DEF AbsDir
    <3>7. AbsDir' = dir
      BY <1>1, <3>4, <3>6
    <3> QED
      BY <3>5, <3>7
  <2> QED
    BY <1>2, <2>1, <2>2 DEF WriteJournal
<1>3. CASE MoveToBackup
  <2>1. pc = "toBackup" /\ journal' = journal /\ config' = config /\ Pending' = Pending
    BY <1>3 DEF MoveToBackup, Pending
  <2>2. CASE UNCHANGED <<dir, backup>>
    BY <2>1, <2>2, AbsFrame
  <2>3. CASE /\ dir[v] # None
             /\ backup' = [backup EXCEPT ![job.tx] = dir[v]]
             /\ dir' = [dir EXCEPT ![v] = None]
    <3>1. backup[job.tx] = None /\ backup'[job.tx] = dir[v]
      BY <1>1, <2>1, <2>3 DEF IInv, FreshNames
    <3> QED
      BY <1>1, <2>1, <2>3, <3>1, AbsUnfinished DEF InstallPcs
  <2> QED
    BY <1>3, <2>2, <2>3 DEF MoveToBackup
<1>4. CASE Activate
  <2>1. /\ pc = "activate" /\ journal' = journal /\ config' = config /\ Pending' = Pending
        /\ backup' = backup
    BY <1>4 DEF Activate, Pending
  <2>2. CASE dir' = dir
    BY <2>1, <2>2, AbsFrame
  <2>3. CASE dir' = [dir EXCEPT ![v] = job.pkg]
    <3>1. journal.backup => backup[journal.tx] # None
      BY <2>1 DEF UndoInv, BackedUp
    <3> QED
      BY <1>1, <2>1, <2>3, <3>1, AbsUnfinished DEF InstallPcs
  <2> QED
    BY <1>4, <2>2, <2>3 DEF Activate
<1>5. CASE Validate \/ Refresh \/ Start
  BY <1>5, AbsFrame DEF Validate, Refresh, Start, disk
<1>6. CASE PersistPreferences
  <2>1. pc = "prefs" /\ UNCHANGED <<dir, backup, journal>>
    BY <1>6 DEF PersistPreferences
  <2> QED
    BY <1>1, <2>1 DEF AbsDir, AbsSetting, Pending, InstallPcs
<1>7. CASE RestorePreferences
  <2>1. pc = "restore" /\ UNCHANGED <<dir, backup, journal>>
    BY <1>7 DEF RestorePreferences
  <2>2. CASE config' = [prefs EXCEPT !.mine = job.previous] /\ lapse = "none"
    <3>1. ~Pending /\ config.mine = job.previous /\ config'.mine = job.previous
      BY <1>1, <2>1, <2>2 DEF PrefsInv, Follows, InstallKnows, Config
    <3> QED
      BY <2>1, <3>1 DEF AbsDir, AbsSetting, Pending
  <2>3. CASE UNCHANGED config
    BY <2>1, <2>3, AbsFrame
  <2>4. CASE lapse' = "disk"
    BY <2>1, <2>4 DEF AbsDir, Pending
  <2> QED
    BY <1>7, <2>2, <2>3, <2>4 DEF RestorePreferences, IInv, TypeOK
<1> QED
  BY <1>2, <1>3, <1>4, <1>5, <1>6, <1>7 DEF Installer

(* The steps of the atomic installation, and what it sees of the lapses.   *)
AbsVars == <<AbsDir, AbsSetting, lapse = "disk">>

LEMMA AbsStutters ==
  ASSUME AbsDir' = AbsDir, lapse' # "disk" => AbsSetting' = AbsSetting,
         lapse' # "disk" => lapse # "disk"
  PROVE  [Atomic!Next]_AbsVars
<1>1. CASE lapse' = "disk"
  BY <1>1 DEF Atomic!Next, Atomic!GoAstray
<1>2. CASE lapse' # "disk"
  BY <1>2 DEF AbsVars
<1> QED
  BY <1>1, <1>2

(* The durable marker is the atomic installation.                          *)
LEMMA CommitSimulates ==
  ASSUME IInv, UndoInv, PrefsInv, Commit
  PROVE  [Atomic!Next]_AbsVars
<1>1. /\ dir \in [Versions -> Content] /\ job \in Job /\ journal \in Journal
      /\ job.pkg \in Packages /\ VersionOf[job.pkg] \in Versions
      /\ journal.version = VersionOf[job.pkg] /\ dir[journal.version] = job.pkg
      /\ Pending /\ pc = "commit"
  <2>1. pc = "commit"
    BY DEF Commit
  <2>2. job \in Job /\ Pending
    BY <2>1 DEF IInv, TypeOK, InstallerAt, InstallPcs
  <2> QED
    BY <2>1, <2>2 DEF IInv, TypeOK, InstallerAt, InstallPcs, Job, Pending
<1>2. CASE UNCHANGED journal
  <2>1. UNCHANGED <<dir, backup, config>> /\ (lapse' # "disk" => lapse # "disk")
    BY <1>2 DEF Commit, Undo
  <2> QED
    BY <1>2, <2>1, AbsFrame, AbsStutters
<1>3. CASE journal' = [journal EXCEPT !.committed = TRUE] /\ UNCHANGED lapse
  <2>1. ~Pending' /\ dir' = dir /\ config' = config
    BY <1>1, <1>3 DEF Commit, Pending, Journal
  <2>2. AbsDir' = dir /\ AbsSetting' = config.mine /\ AbsSetting = journal.previous.mine
    BY <1>1, <2>1 DEF AbsDir, AbsSetting
  <2>3. lapse = "none" =>
          AbsSetting = job.previous /\ config.mine = Wanted(job.pkg, job.previous)
    BY <1>1, <2>2 DEF PrefsInv, Follows, InstallKnows, InstallPcs
  <2>4. lapse # "disk" =>
          AbsSetting' = [pkg |-> job.pkg,
                         enabled |-> IF AbsSetting = None THEN TRUE ELSE AbsSetting.enabled]
    BY <1>1, <2>2, <2>3 DEF Wanted, PrefsInv, LeftBehind, IInv, TypeOK
  <2>5. AbsDir' = [AbsDir EXCEPT ![VersionOf[job.pkg]] = job.pkg]
    BY <1>1, <2>2 DEF AbsDir
  <2> QED
    BY <1>1, <1>3, <2>4, <2>5 DEF Atomic!Next, Atomic!Install
<1> QED
  BY <1>2, <1>3 DEF Commit

(* Cleanup and rollback establish what was promised.                       *)
LEMMA RecoverySimulates ==
  ASSUME IInv, UndoInv, PrefsInv, Recovery
  PROVE  AbsDir' = AbsDir /\ (lapse' # "disk" => AbsSetting' = AbsSetting)
<1> DEFINE v == journal.version
           t == journal.tx
<1>1. /\ dir \in [Versions -> Content] /\ backup \in [Txs -> Content]
      /\ v \in Versions /\ t \in Txs /\ config \in Config
      /\ pc \in CleanupPcs => ~Pending
      /\ pc \in UndoPcs => Pending
  <2>1. /\ journal # None
        /\ pc \in CleanupPcs => ~Pending
        /\ pc \in UndoPcs => Pending
    BY DEF IInv, RecoveryAt, Pending, Recovery, DropBackup, DropJournal, SetAside, PutBack,
           UndoConfig, CloseJournal, CleanupPcs, UndoPcs
  <2> QED
    BY <2>1 DEF IInv, TypeOK, Journal
<1>2. CASE CallFails
  BY <1>2, AbsFrame DEF CallFails, disk
<1>3. CASE (DropBackup \/ DropJournal) /\ ~CallFails
  <2>1. ~Pending /\ ~Pending' /\ UNCHANGED <<dir, config>>
    BY <1>1, <1>3 DEF DropBackup, DropJournal, CleanupPcs, Pending
  <2> QED
    BY <2>1 DEF AbsDir, AbsSetting
<1>4. CASE SetAside /\ ~CallFails
  <2>1. UNCHANGED <<backup, journal, config>> /\ Pending /\ Pending'
    BY <1>1, <1>4 DEF SetAside, UndoPcs, disk, Pending
  <2>2. CASE MustMove /\ dir' = [dir EXCEPT ![v] = None]
    BY <1>1, <2>1, <2>2, AbsUnfinished DEF MustMove
  <2>3. CASE UNCHANGED dir
    BY <2>1, <2>3, AbsFrame
  <2> QED
    BY <1>4, <2>2, <2>3 DEF SetAside, disk
<1>5. CASE PutBack /\ ~CallFails
  <2>1. UNCHANGED <<journal, config>> /\ Pending /\ Pending' /\ pc = "putBack"
    BY <1>1, <1>5 DEF PutBack, UndoPcs, Pending
  <2>2. CASE journal.backup
    <3>1. dir' = [dir EXCEPT ![v] = backup[t]] /\ backup' = [backup EXCEPT ![t] = None]
      BY <1>5, <2>2 DEF PutBack
    <3>2. backup[t] # None
      BY <2>1, <2>2 DEF UndoInv, BackedUp
    <3>3. backup'[t] = None
      BY <1>1, <3>1
    <3> QED
      BY <1>1, <2>1, <2>2, <3>1, <3>2, <3>3, AbsUnfinished
  <2>3. CASE ~journal.backup
    BY <1>5, <2>1, <2>3, AbsFrame DEF PutBack
  <2> QED
    BY <2>2, <2>3
<1>6. CASE UndoConfig /\ ~CallFails
  BY <1>1, <1>6 DEF UndoConfig, UndoPcs, AbsDir, AbsSetting, Pending
<1>7. CASE CloseJournal /\ ~CallFails
  <2>1. UNCHANGED <<dir, config>> /\ Pending /\ ~Pending' /\ pc = "closeJournal"
    BY <1>1, <1>7 DEF CloseJournal, UndoPcs, Pending
  <2>2. lapse # "disk" => config.mine = journal.previous.mine
    BY <2>1 DEF PrefsInv, LeftBehind
  <2>3. (lapse # "disk" => AbsSetting' = AbsSetting) /\ AbsDir' = dir
    BY <2>1, <2>2 DEF AbsSetting, AbsDir
  <2>4. IF journal.backup THEN backup[t] = None ELSE dir[v] = None
    BY <2>1 DEF UndoInv, BackedUp
  <2>5. AbsDir = dir
    BY <1>1, <2>1, <2>4 DEF AbsDir
  <2>6. lapse' # "disk" => lapse # "disk"
    BY LapseLasts DEF Next
  <2> QED
    BY <2>3, <2>5, <2>6
<1> QED
  BY <1>2, <1>3, <1>4, <1>5, <1>6, <1>7 DEF Recovery

LEMMA HostSimulates ==
  ASSUME IInv, PrefsInv,
         \/ \E p \in Packages, overwrite \in BOOLEAN : Begin(p, overwrite)
         \/ Boot \/ Crash \/ RetryScan \/ UNCHANGED vars
         \/ \E e \in BOOLEAN : SetEnabled(e) \/ SetOther(e)
  PROVE  [Atomic!Next]_AbsVars
<1>0. lapse' # "disk" => lapse # "disk"
  BY LapseLasts DEF Next
<1>1. CASE \/ \E p \in Packages, overwrite \in BOOLEAN : Begin(p, overwrite)
           \/ Boot \/ Crash \/ RetryScan \/ UNCHANGED vars
  <2>1. UNCHANGED <<dir, backup, journal, config>>
    BY <1>1 DEF Begin, Boot, Crash, RetryScan, vars, disk
  <2> QED
    BY <1>0, <2>1, AbsFrame, AbsStutters
<1>2. ASSUME NEW e \in BOOLEAN, SetEnabled(e)
      PROVE  [Atomic!Next]_AbsVars
  <2>1. /\ UNCHANGED <<dir, backup, journal>> /\ pc = "idle" /\ ~blocked /\ prefs.mine # None
        /\ prefs' = [prefs EXCEPT !.mine.enabled = e] /\ config' = prefs'
        /\ SavesPreferences
    BY <1>2 DEF SetEnabled
  <2>2. CASE lapse' = "disk"
    BY <1>0, <2>1, <2>2, AbsStutters DEF AbsDir, Pending
  <2>3. CASE lapse = "none"
    <3>1. ~Pending /\ ~Pending' /\ prefs.mine = config.mine
      BY <2>1, <2>3 DEF PrefsInv, Follows, MemoryFollows, Pending
    <3>2. AbsDir' = AbsDir /\ AbsSetting = prefs.mine /\ AbsSetting' = prefs'.mine
      BY <2>1, <3>1 DEF AbsDir, AbsSetting
    <3>3. prefs'.mine = [prefs.mine EXCEPT !.enabled = e]
      BY <2>1 DEF IInv, TypeOK, Config
    <3>4. UNCHANGED lapse
      BY <2>1, <2>3
    <3> QED
      BY <2>1, <3>2, <3>3, <3>4 DEF Atomic!Next, Atomic!SetEnabled
  <2> QED
    BY <2>1, <2>2, <2>3
<1>3. ASSUME NEW e \in BOOLEAN, SetOther(e)
      PROVE  [Atomic!Next]_AbsVars
  <2>1. /\ UNCHANGED <<dir, backup, journal>> /\ pc = "idle" /\ SavesPreferences
        /\ prefs' = [prefs EXCEPT !.other = e] /\ config' = prefs'
    BY <1>3 DEF SetOther
  <2>2. config'.mine = prefs.mine
    BY <2>1 DEF IInv, TypeOK, Config
  <2>3. Pending' = Pending /\ (lapse = "none" /\ ~Pending => prefs.mine = config.mine)
    BY <2>1 DEF PrefsInv, Follows, MemoryFollows, Pending
  <2>4. AbsDir' = AbsDir /\ (lapse = "none" => AbsSetting' = AbsSetting)
    BY <2>1, <2>2, <2>3 DEF AbsDir, AbsSetting
  <2> QED
    BY <1>0, <2>1, <2>4, AbsStutters
<1> QED
  BY <1>1, <1>2, <1>3

LEMMA StepSimulates ==
  ASSUME IInv, UndoInv, PrefsInv, [Next]_vars
  PROVE  [Atomic!Next]_AbsVars
<1>1. lapse' # "disk" => lapse # "disk"
  BY LapseLasts
<1> QED
  BY <1>1, InstallerSimulates, CommitSimulates, RecoverySimulates, HostSimulates,
     AbsStutters DEF Next

LEMMA InitSimulates == Init => Atomic!Init
<1> SUFFICES ASSUME Init PROVE Atomic!Init
  OBVIOUS
<1>1. AbsDir = dir /\ AbsSetting = config.mine /\ ~(lapse = "disk")
  BY DEF Init, AbsDir, AbsSetting, Pending
<1>2. CASE /\ dir = [v \in Versions |-> None]
           /\ \E o \in BOOLEAN : config = [mine |-> None, other |-> o]
  BY <1>1, <1>2 DEF Atomic!Init, Atomic!NoneInstalled
<1>3. CASE \E p \in Packages, e, o \in BOOLEAN :
             /\ dir = [v \in Versions |-> IF v = VersionOf[p] THEN p ELSE None]
             /\ config = [mine |-> [pkg |-> p, enabled |-> e], other |-> o]
  <2>1. PICK p \in Packages, e, o \in BOOLEAN :
             /\ dir = [v \in Versions |-> IF v = VersionOf[p] THEN p ELSE None]
             /\ config = [mine |-> [pkg |-> p, enabled |-> e], other |-> o]
    BY <1>3
  <2>2. AbsDir = [Atomic!NoneInstalled EXCEPT ![VersionOf[p]] = p]
    BY <1>1, <2>1 DEF Atomic!NoneInstalled
  <2>3. AbsSetting = [pkg |-> p, enabled |-> e]
    BY <1>1, <2>1
  <2> QED
    BY <1>1, <2>2, <2>3 DEF Atomic!Init
<1> QED
  BY <1>2, <1>3 DEF Init

(* The installation with its staged renames, its durable journal and its   *)
(* recovery implements the one-step installation of AtomicInstall: crashed *)
(* or failed anywhere, its package and its preferences change together, at *)
(* the durable marker, or not at all, until preferences are saved by a     *)
(* host that gave up undoing an installation and was not restarted.        *)
THEOREM Atomicity ==
  ASSUME ~InstallOverPending
  PROVE  Spec => InstallIsAtomic
<1>1. Init => Atomic!Init
  BY InitSimulates
<1>2. IInv /\ UndoInv /\ PrefsInv /\ [Next]_vars => [Atomic!Next]_AbsVars
  BY StepSimulates
<1>3. Spec => Atomic!Init /\ [][Atomic!Next]_AbsVars
  BY <1>1, <1>2, Inductive, UndoAlways, PrefsAlways, PTL DEF Spec
<1> QED
  BY <1>3 DEF InstallIsAtomic, Atomic!Spec, Atomic!vars, AbsVars

(* And it does so without touching any other plugin's entries.             *)
THEOREM Isolation ==
  ASSUME ~InstallOverPending
  PROVE  Spec => InstallIsIsolated
  BY Atomicity, OthersLeftAlone DEF InstallIsIsolated

--------------------------------------------------------------------------------
(* The idle host.                                                          *)

LEMMA AbsTyped ==
  ASSUME IInv
  PROVE  AbsDir \in [Versions -> Content] /\ AbsSetting \in Entry
<1>1. CASE Pending
  <2>1. /\ journal \in Journal /\ dir \in [Versions -> Content]
        /\ backup \in [Txs -> Content]
    BY <1>1 DEF IInv, TypeOK, Pending
  <2>2. /\ journal.version \in Versions /\ journal.tx \in Txs
        /\ journal.previous.mine \in Entry
    BY <2>1 DEF Journal, Config
  <2>3. AbsSetting \in Entry
    BY <1>1, <2>2 DEF AbsSetting
  <2>4. AbsDir \in [Versions -> Content]
    BY <1>1, <2>1, <2>2 DEF AbsDir, Content
  <2> QED
    BY <2>3, <2>4
<1>2. CASE ~Pending
  BY <1>2 DEF AbsDir, AbsSetting, IInv, TypeOK, Config
<1> QED
  BY <1>1, <1>2

(* An invariant of the atomic installation.                                *)
LEMMA NextChosen ==
  ASSUME IInv, ChosenInPlace, [Atomic!Next]_AbsVars, lapse' # "disk",
         lapse # "disk"
  PROVE  ChosenInPlace'
<1>1. AbsDir \in [Versions -> Content] /\ AbsSetting \in Entry
  BY AbsTyped
<1>2. ASSUME NEW p \in Packages, Atomic!Install(p)
      PROVE  ChosenInPlace'
  <2>0. /\ AbsDir' = [AbsDir EXCEPT ![VersionOf[p]] = p]
        /\ lapse = "disk" \/ \E e : AbsSetting' = [pkg |-> p, enabled |-> e]
    BY <1>2 DEF Atomic!Install
  <2>1. AbsDir' = [AbsDir EXCEPT ![VersionOf[p]] = p] /\ AbsSetting'.pkg = p
    BY <2>0
  <2> QED
    BY <1>1, <2>1 DEF ChosenInPlace
<1>3. ASSUME NEW e \in BOOLEAN, Atomic!SetEnabled(e)
      PROVE  ChosenInPlace'
  <2>1. AbsDir' = AbsDir /\ AbsSetting # None /\ AbsSetting' = [AbsSetting EXCEPT !.enabled = e]
    BY <1>3 DEF Atomic!SetEnabled
  <2>2. AbsSetting'.pkg = AbsSetting.pkg
    BY <1>1, <2>1 DEF Entry, Chosen
  <2> QED
    BY <2>1, <2>2 DEF ChosenInPlace
<1>4. CASE UNCHANGED AbsVars
  BY <1>4 DEF ChosenInPlace, AbsVars
<1>5. ~Atomic!GoAstray
  BY DEF Atomic!GoAstray
<1> QED
  BY <1>2, <1>3, <1>4, <1>5 DEF Atomic!Next

LEMMA InitChosen == Init => ChosenInPlace
<1> SUFFICES ASSUME Init PROVE ChosenInPlace
  OBVIOUS
<1>1. AbsDir = dir /\ AbsSetting = config.mine
  BY DEF Init, AbsDir, AbsSetting, Pending
<1>2. CASE \E o \in BOOLEAN : config = [mine |-> None, other |-> o]
  BY <1>1, <1>2 DEF ChosenInPlace
<1>3. ASSUME NEW p \in Packages, NEW e \in BOOLEAN, NEW o \in BOOLEAN,
             dir = [v \in Versions |-> IF v = VersionOf[p] THEN p ELSE None],
             config = [mine |-> [pkg |-> p, enabled |-> e], other |-> o]
      PROVE  ChosenInPlace
  <2>1. AbsSetting.pkg = p
    BY <1>1, <1>3
  <2>2. AbsDir[VersionOf[p]] = p
    BY <1>1, <1>3
  <2> QED
    BY <2>1, <2>2 DEF ChosenInPlace
<1> QED
  BY <1>2, <1>3 DEF Init

(* An idle host whose plugin has no unfinished journal shows what is on    *)
(* the disk, down to the package the preferences name; one with an         *)
(* unfinished journal keeps the plugin isolated, so that no choice is      *)
(* taken which the recovery would undo.                                    *)
THEOREM Coherence ==
  ASSUME ~InstallOverPending
  PROVE  Spec => []IdleIsCoherent
<1> DEFINE Chose == lapse # "disk" => ChosenInPlace
<1>1. IInv /\ UndoInv /\ PrefsInv /\ Chose /\ [Next]_vars => Chose'
  BY StepSimulates, NextChosen, LapseLasts
<1>2. Spec => []Chose
  <2>1. Init => Chose
    BY InitChosen
  <2> QED
    BY <1>1, <2>1, Inductive, UndoAlways, PrefsAlways, PTL DEF Spec
<1>3. Spec => []OthersAgree
  <2>1. Init => OthersAgree
    BY DEF Init, OthersAgree
  <2>2. IInv /\ OthersAgree /\ [Next]_vars => OthersAgree'
    BY NextOthers
  <2> QED
    BY <2>1, <2>2, Inductive, PTL DEF Spec
<1>4. IInv /\ PrefsInv /\ Chose /\ OthersAgree => IdleIsCoherent
  <2> SUFFICES ASSUME IInv, PrefsInv, ChosenInPlace, OthersAgree, pc = "idle",
                      lapse = "none"
               PROVE  SettledAgrees /\ PendingIsIsolated
    BY DEF IdleIsCoherent, SettledAgrees, PendingIsIsolated
  <2>1. Pending => blocked
    BY DEF PrefsInv, Follows, MemoryFollows
  <2>2. ~Pending => prefs = config
    BY DEF PrefsInv, Follows, MemoryFollows, OthersAgree, IInv, TypeOK, Config
  <2>3. ~Pending => AbsDir = dir /\ AbsSetting = config.mine
    BY DEF AbsDir, AbsSetting
  <2> QED
    BY <2>1, <2>2, <2>3 DEF SettledAgrees, InAgreement, PendingIsIsolated, ChosenInPlace
<1> QED
  BY <1>2, <1>3, <1>4, Inductive, PrefsAlways, PTL
================================================================================
