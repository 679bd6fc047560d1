---------------------------- MODULE PluginLifecycle ----------------------------
(***************************************************************************)
(* plugin_lifecycle.rs: what the host remembers of one plugin's background *)
(* work.  A running backend may report that it must be restored at the     *)
(* next start (a durable record) and may hold activities, work that goes   *)
(* on after a call returned.  Both belong to one instance of the backend,  *)
(* and both race its replacement, its death, an upgrade of the host and a  *)
(* crash.                                                                  *)
(*                                                                         *)
(* One action is one critical section of the lifecycle store or of the     *)
(* plugin state.  Starting and stopping follow PluginHost, which has their *)
(* detail; here a start is a launch, a handshake and an acceptance.        *)
(***************************************************************************)
EXTENDS Integers, FiniteSets

CONSTANTS
  Requests,      \* host-service worker threads
  Reports,       \* what backends report
  Restores,      \* whether the host restores the plugin in the background
  Faults,        \* what may go wrong
  MaxInstances,  \* bound: backends started
  MaxPackages,   \* bound: packages ever put in place
  MaxActivities, \* bound: activities of one instance
  MaxCalls,      \* bound: calls at a time
  MaxCrashes     \* bound: crashes of the host

Needs == {"required", "notRequired"}

AllFaults == {"hello",    \* a handshake fails
              "die",      \* a backend exits by itself
              "commit",   \* the completion marker of an installation fails
              "disk",     \* the record file cannot be written
              "read",     \* the record file cannot be read
              "deadline"} \* a request has a deadline, and it passes

ASSUME ConstantsAssumption ==
  /\ Reports \subseteq Needs
  /\ Restores \in BOOLEAN
  /\ Faults \subseteq AllFaults
  /\ MaxInstances \in Nat /\ MaxPackages \in Nat \ {0} /\ MaxActivities \in Nat
  /\ MaxCalls \in Nat /\ MaxCrashes \in Nat

VARIABLES
  file,       \* plugin-lifecycle.json
  backup,     \* a copy of its damaged bytes exists
  mem,        \* LifecycleState: the record, and what load and persist found
  connected,  \* LifecycleState.instances
  installing, \* LifecycleState.installing
  paused,     \* LifecycleState.paused
  acts,       \* LifecycleState.activities, by instance
  calls,      \* LifecycleState.calls
  rec,        \* the plugin record
  inst,       \* backends by instance number, each with its worker and reader
  req,        \* host-service requests in progress
  mgr,        \* the management operation in progress
  frozen,     \* admission.frozen
  bytes,      \* the package in the version directory
  placed,     \* history: packages ever put in place
  good,       \* history: those whose installation was committed
  abandoned,  \* history: those left running when their installation failed
  source,     \* history: who wrote the record
  crashes

store == <<file, backup, mem>>
marks == <<connected, installing, paused, acts, calls>>
package == <<bytes, placed, good, abandoned>>
vars  == <<store, marks, rec, inst, req, mgr, frozen, package, source, crashes>>

--------------------------------------------------------------------------------
(* State.                                                                  *)

NoInstance == 0
Instances == 1..MaxInstances
NoPackage == 0
Packages == 1..MaxPackages

NoRecord == "unknown"
Files == [kind : {"absent", "damaged", "ok"}, record : Needs \cup {NoRecord}]

Runtimes == {"Stopped", "Starting", "Running", "Stopping", "Failed"}
Unknown == [known |-> FALSE, runtime |-> "Stopped", proc |-> NoInstance,
            start |-> NoInstance]

(* worker: the activation worker that starts the instance; alive: the flag *)
(* of PluginProcess, whose requests are cancelled as it becomes FALSE;     *)
(* reader: the steps of protocol_ended.  A worker that is done is called   *)
(* "late" when the reader had told the end of the instance it accepted:    *)
(* history, which no guard tells from "done".                              *)
Workers == {"none", "handshake", "check", "connect", "done", "late"}
Readers == {"none", "reading", "dead", "exit", "gone"}
NotStarted == [worker |-> "none", package |-> NoPackage, child |-> FALSE,
               alive |-> FALSE, reader |-> "none"]

Kinds == {"begin"} \cup Reports
Idle == [pc |-> "idle", of |-> NoInstance, kind |-> "begin"]

MgrPcs == {"idle", "pause", "quiesce", "stop", "begin", "place",
           "refresh", "start", "starting", "finish", "rollback",
           "refreshBack", "restart", "restarting", "release", "remove",
           "erase", "forget", "unpause"}
IdleMgr == [pc |-> "idle", kind |-> "none", victim |-> NoInstance,
            next |-> "idle", was |-> FALSE, previous |-> NoPackage]

(* What the variables hold.                                                *)
Memories == [record : Needs \cup {NoRecord}, damaged : BOOLEAN,
             unreadable : BOOLEAN, diagnostic : BOOLEAN]
Records  == [known : BOOLEAN, runtime : Runtimes,
             proc : Instances \cup {NoInstance}, start : Instances \cup {NoInstance}]
Backends == [worker : Workers, package : Packages \cup {NoPackage},
             child : BOOLEAN, alive : BOOLEAN, reader : Readers]
Asked    == [pc : {"idle", "wait", "act"}, of : Instances \cup {NoInstance},
             kind : Kinds]
Managers == [pc : MgrPcs, kind : {"none", "install", "uninstall"},
             victim : Instances \cup {NoInstance}, next : MgrPcs,
             was : BOOLEAN, previous : Packages \cup {NoPackage}]
Sources  == [instance : Instances \cup {NoInstance},
             package : Packages \cup {NoPackage}]

TypeOK ==
  /\ file \in Files /\ backup \in BOOLEAN /\ mem \in Memories
  /\ connected \in Instances \cup {NoInstance}
  /\ installing \in BOOLEAN /\ paused \in BOOLEAN
  /\ acts \in [Instances -> Nat] /\ calls \in 0..MaxCalls
  /\ rec \in Records
  /\ inst \in [Instances -> Backends]
  /\ req \in [Requests -> Asked]
  /\ mgr \in Managers
  /\ frozen \in BOOLEAN
  /\ bytes \in Packages \cup {NoPackage} /\ placed \in 0..MaxPackages
  /\ good \subseteq Packages /\ abandoned \subseteq Packages
  /\ source \in Sources
  /\ crashes \in 0..MaxCrashes

Fault(f) == f \in Faults
Alive(i) == i # NoInstance /\ inst[i].alive
Fresh == {i \in Instances : inst[i].worker = "none"}
IsNext(i) == Fresh = i..MaxInstances      \* instances are numbered in order

(* The worker that accepts an instance holds the plugin state meanwhile.   *)
StateFree == \A i \in Instances : inst[i].worker # "connect"

InProgress(i) == {r \in Requests : req[r].pc # "idle" /\ req[r].of = i}

(* Who holds a PluginWorkGuard: a request (its reader's and its own), an   *)
(* activity, a call, a start, a management operation.                      *)
Active ==
  \/ \E r \in Requests : req[r].pc # "idle"
  \/ \E i \in Instances : acts[i] > 0
  \/ calls > 0
  \/ \E i \in Instances : inst[i].worker \in {"handshake", "check", "connect"}
  \/ mgr.pc # "idle"

(* LifecycleStore::load.                                                   *)
Loaded(f) == [record     |-> IF f.kind = "ok" THEN f.record ELSE NoRecord,
              damaged    |-> f.kind = "damaged",
              unreadable |-> FALSE,
              diagnostic |-> f.kind = "damaged"]
Unread == [record |-> NoRecord, damaged |-> FALSE, unreadable |-> TRUE,
           diagnostic |-> TRUE]
Clean(n) == Loaded([kind |-> "ok", record |-> n])
Load == \/ mem' = Loaded(file)
        \/ Fault("read") /\ file.kind # "absent" /\ mem' = Unread

Init ==
  /\ file \in {[kind |-> "absent", record |-> NoRecord],
               [kind |-> "damaged", record |-> NoRecord]}
  /\ mem \in {Loaded(file)} \cup
             (IF Fault("read") /\ file.kind # "absent" THEN {Unread} ELSE {})
  /\ backup = FALSE
  /\ connected = NoInstance /\ installing = FALSE /\ paused = FALSE
  /\ acts = [i \in Instances |-> 0] /\ calls = 0
  /\ rec = [Unknown EXCEPT !.known = TRUE]
  /\ inst = [i \in Instances |-> NotStarted]
  /\ req = [r \in Requests |-> Idle]
  /\ mgr = IdleMgr
  /\ frozen = FALSE
  /\ bytes = 1 /\ placed = 1 /\ good = {1} /\ abandoned = {}
  /\ source = [instance |-> NoInstance, package |-> NoPackage]
  /\ crashes = 0

--------------------------------------------------------------------------------
(* The record file.                                                        *)

(* persist, whose write succeeded: the damaged bytes were copied first,    *)
(* and memory follows the file.                                            *)
MutNoBackup(n) ==            \* mutant: repairs without keeping the damaged bytes
  /\ file' = [kind |-> "ok", record |-> n]
  /\ mem' = Clean(n)
  /\ UNCHANGED backup
Written(n) ==
  /\ ~mem.unreadable
  /\ backup' = (backup \/ mem.damaged)
  /\ file' = [kind |-> "ok", record |-> n]
  /\ mem' = Clean(n)

(* persist refused, or failed before or while it wrote.  A failed write    *)
(* leaves a diagnostic, and no other trace in memory.                      *)
MutRemembersFirst(n) ==      \* mutant: memory is changed before the write
  /\ Fault("disk")
  /\ mem' = [mem EXCEPT !.record = n]
  /\ UNCHANGED <<file, backup>>
Unwritten(n) ==
  \/ /\ mem.unreadable
     /\ UNCHANGED store
  \/ /\ Fault("disk") /\ ~mem.unreadable
     /\ \/ mem.damaged /\ UNCHANGED store              \* no copy could be made
        \/ /\ backup' = (backup \/ mem.damaged)
           /\ mem' = [mem EXCEPT !.diagnostic = TRUE]
           /\ UNCHANGED file

UpToDate(n) == ~mem.diagnostic /\ mem.record = n

(* report, of the connected instance i.                                    *)
Report(i, n) ==
  \/ /\ UpToDate(n) /\ UNCHANGED store
     /\ source' = [instance |-> i, package |-> inst[i].package]
  \/ /\ ~UpToDate(n) /\ Written(n)
     /\ source' = [instance |-> i, package |-> inst[i].package]
  \/ /\ ~UpToDate(n) /\ Unwritten(n)
     /\ UNCHANGED source

--------------------------------------------------------------------------------
(* Instances.                                                              *)

(* PluginProcess::stop: the flags, close_lifecycle, and the child.         *)
Stopping(I) == [i \in Instances |->
                  IF i \in I THEN [inst[i] EXCEPT !.alive = FALSE, !.child = FALSE]
                  ELSE inst[i]]

(* clear_instance.                                                         *)
Disconnected(I) == IF connected \in I THEN NoInstance ELSE connected
MutKeepsActivities(I) == acts       \* mutant: clears the instance only
Ended(I) == [i \in Instances |-> IF i \in I THEN 0 ELSE acts[i]]
Clear(I) ==
  /\ connected' = Disconnected(I)
  /\ acts' = Ended(I)
  /\ UNCHANGED <<installing, paused, calls>>

(* spawn_one up to the handshake: a previous process that is still in the  *)
(* record is stopped, and the new one is registered in its place.          *)
MayLaunch == /\ StateFree
             /\ rec.known /\ ~Alive(rec.proc)
             /\ rec.runtime \notin {"Starting", "Stopping"}

Launch(i) ==
  /\ i \in Fresh /\ IsNext(i)
  /\ MayLaunch
  /\ inst' = [Stopping({rec.proc}) EXCEPT
                ![i] = [worker |-> "handshake", package |-> bytes, child |-> TRUE,
                        alive |-> TRUE, reader |-> "reading"]]
  /\ rec' = [rec EXCEPT !.runtime = "Starting", !.proc = i, !.start = i]
  /\ Clear({rec.proc})

(* A call, the background restoration or the manager activates.            *)
Activate(i) ==
  /\ ~frozen
  /\ Restores \/ calls > 0
  /\ Launch(i)
  /\ UNCHANGED <<store, req, mgr, frozen, package, source, crashes>>

(* The first frame of the backend, or its failure or the time limit, which *)
(* StartupGuard answers by stopping it.                                    *)
Hello(i) ==
  /\ inst[i].worker = "handshake"
  /\ \/ /\ inst[i].child
        /\ inst' = [inst EXCEPT ![i].worker = "check"]
        /\ UNCHANGED marks
     \/ /\ Fault("hello") \/ ~inst[i].child
        /\ inst' = [Stopping({i}) EXCEPT ![i].worker = "check"]
        /\ Clear({i})
  /\ UNCHANGED <<store, rec, req, mgr, frozen, package, source, crashes>>

(* spawn_one takes the state lock: a start that is no longer wanted is     *)
(* stopped; one whose backend is alive goes on, with the lock, to connect. *)
Wanted(i) == rec.known /\ rec.start = i /\ rec.runtime = "Starting"

Check(i) ==
  /\ inst[i].worker = "check" /\ StateFree
  /\ \/ /\ ~Wanted(i)
        /\ inst' = [Stopping({i}) EXCEPT ![i].worker = "done"]
        /\ Clear({i})
        /\ UNCHANGED rec
     \/ /\ Wanted(i) /\ inst[i].alive
        /\ inst' = [inst EXCEPT ![i].worker = "connect"]
        /\ UNCHANGED <<marks, rec>>
     \/ /\ Wanted(i) /\ ~inst[i].alive
        /\ inst' = [inst EXCEPT ![i].worker = "done"]
        /\ rec' = [rec EXCEPT !.runtime = "Failed"]
        /\ UNCHANGED marks
  /\ UNCHANGED <<store, req, mgr, frozen, package, source, crashes>>

(* connect_instance, under the state lock, which the reader's thread does  *)
(* not need to tell the end of the backend: that may come before.          *)
Told(i) == inst[i].reader \in {"dead", "exit", "gone"}

Connect(i) ==
  /\ inst[i].worker = "connect"
  /\ connected' = i
  /\ inst' = [inst EXCEPT ![i].worker = IF Told(i) THEN "late" ELSE "done"]
  /\ rec' = [rec EXCEPT !.runtime = "Running", !.proc = i]
  /\ UNCHANGED <<store, installing, paused, acts, calls, req, mgr, frozen,
                 package, source, crashes>>

ChildDies(i) ==
  /\ Fault("die") /\ inst[i].child
  /\ inst' = [inst EXCEPT ![i].child = FALSE]
  /\ UNCHANGED <<store, marks, rec, req, mgr, frozen, package, source, crashes>>

(* protocol_ended, in the reader's thread: close_lifecycle, the alive      *)
(* flag with the cancellation of its requests, and process_exited.         *)
ReaderEnds(i) ==
  /\ ~inst[i].child
  /\ \/ /\ inst[i].reader = "reading"
        /\ inst' = [inst EXCEPT ![i].reader = "dead"]
        /\ Clear({i})
        /\ UNCHANGED rec
     \/ /\ inst[i].reader = "dead"
        /\ inst' = [inst EXCEPT ![i].reader = "exit", ![i].alive = FALSE]
        /\ UNCHANGED <<marks, rec>>
     \/ /\ inst[i].reader = "exit" /\ StateFree
        /\ inst' = [inst EXCEPT ![i].reader = "gone"]
        /\ rec' = IF rec.proc # i THEN rec
                  ELSE [rec EXCEPT !.proc = NoInstance,
                          !.runtime = CASE @ = "Starting" -> "Starting"
                                        [] @ \in {"Stopping", "Stopped"} -> "Stopped"
                                        [] OTHER -> "Failed"]
        /\ UNCHANGED marks
  /\ UNCHANGED <<store, req, mgr, frozen, package, source, crashes>>

--------------------------------------------------------------------------------
(* Host-service requests: lifecycle_call.                                  *)

(* The reader admits a request of a backend it has greeted and gives it to *)
(* a worker.                                                               *)
Admitted(i) ==
  /\ inst[i].child /\ inst[i].reader = "reading"
  /\ inst[i].worker \in {"check", "connect", "done", "late"}
  /\ ~frozen

Ask(r, i, kind) ==
  /\ req[r].pc = "idle" /\ Admitted(i)
  /\ kind = "begin" => acts[i] + Cardinality(InProgress(i)) < MaxActivities
  /\ req' = [req EXCEPT ![r] = [pc |-> "wait", of |-> i, kind |-> kind]]
  /\ UNCHANGED <<store, marks, rec, inst, mgr, frozen, package, source, crashes>>

(* end_activity, which does not wait, in one step.                         *)
OneLess(n) == IF n > 0 THEN n - 1 ELSE 0

EndActivity(i) ==
  /\ Admitted(i)
  /\ acts' = [acts EXCEPT ![i] = OneLess(@)]
  /\ UNCHANGED <<store, connected, installing, paused, calls, rec, inst, req, mgr,
                 frozen, package, source, crashes>>

(* wait_instance: until the instance is the connected one and no           *)
(* installation is in progress, unless the invocation ends or another      *)
(* instance is connected.                                                  *)
MutWaitsForNoInstall(i) == connected # i               \* mutant: ignores installing
Held(i) == connected # i \/ installing
Refused(i) == \/ ~inst[i].alive \/ Fault("deadline")
              \/ connected \notin {i, NoInstance}

Wait(r) ==
  /\ req[r].pc = "wait"
  /\ \/ Refused(req[r].of) /\ req' = [req EXCEPT ![r] = Idle]
     \/ /\ inst[req[r].of].alive /\ ~Held(req[r].of)
        /\ req' = [req EXCEPT ![r].pc = "act"]
  /\ UNCHANGED <<store, marks, rec, inst, mgr, frozen, package, source,
                 crashes>>

(* begin_activity, report.                                                 *)
MutMayBeginPaused(i) == connected = i                  \* mutant: ignores paused
MayBegin(i) == connected = i /\ ~paused

MutAnyInstance(i) == TRUE                              \* mutant: any instance reports
MayReport(i) == connected = i

Act(r) ==
  LET i == req[r].of
      n == req[r].kind
  IN /\ req[r].pc = "act"
     /\ req' = [req EXCEPT ![r] = Idle]
     /\ \/ /\ n = "begin" /\ MayBegin(i)
           /\ acts' = [acts EXCEPT ![i] = @ + 1]
           /\ UNCHANGED <<store, source>>
        \/ /\ n = "begin" /\ ~MayBegin(i)
           /\ UNCHANGED <<acts, store, source>>
        \/ /\ n \in Needs /\ MayReport(i) /\ Report(i, n)
           /\ UNCHANGED acts
        \/ /\ n \in Needs /\ ~MayReport(i)
           /\ UNCHANGED <<acts, store, source>>
     /\ UNCHANGED <<connected, installing, paused, calls, rec, inst, mgr, frozen,
                    package, crashes>>

(* enter_call and the drop of its guard.                                   *)
MayEnter == ~paused
EnterCall ==
  /\ MayEnter /\ ~frozen /\ rec.known /\ calls < MaxCalls
  /\ calls' = calls + 1
  /\ UNCHANGED <<store, connected, installing, paused, acts, rec, inst, req, mgr,
                 frozen, package, source, crashes>>
LeaveCall ==
  /\ calls > 0
  /\ calls' = calls - 1
  /\ UNCHANGED <<store, connected, installing, paused, acts, rec, inst, req, mgr,
                 frozen, package, source, crashes>>

--------------------------------------------------------------------------------
(* Installation and removal.  One management operation at a time.          *)

Goto(pc) == mgr' = [mgr EXCEPT !.pc = pc]

(* pause, which an installation may not force.                             *)
Quiet == calls = 0 /\ \A i \in Instances : acts[i] = 0

BeginInstall ==
  /\ mgr.pc = "idle" /\ ~frozen /\ placed < MaxPackages
  /\ rec.runtime # "Starting"
  /\ mgr' = [IdleMgr EXCEPT !.pc = "pause", !.kind = "install",
                            !.previous = bytes]
  /\ UNCHANGED <<store, marks, rec, inst, req, frozen, package, source,
                 crashes>>

MgrPause ==
  /\ mgr.pc = "pause"
  /\ \/ /\ Quiet
        /\ paused' = TRUE
        /\ Goto(IF rec.known THEN "quiesce" ELSE "begin")
     \/ ~Quiet /\ mgr' = IdleMgr /\ UNCHANGED paused
  /\ UNCHANGED <<store, connected, installing, acts, calls, rec, inst, req, frozen,
                 package, source, crashes>>

(* stop_for_reinstall: refused while the backend has requests in progress; *)
(* otherwise the process leaves the record and is stopped.                 *)
Busy == \/ rec.runtime = "Stopping"
        \/ InProgress(rec.proc) # {}
        \/ \E i \in Instances : acts[i] > 0

TakeProcess(operation, next) ==
  /\ rec' = [rec EXCEPT !.proc = NoInstance, !.start = NoInstance,
                        !.runtime = IF /\ rec.proc = NoInstance
                                       /\ operation.kind = "install"
                                    THEN "Stopped" ELSE "Stopping"]
  /\ mgr' = [operation EXCEPT !.victim = rec.proc, !.next = next,
                              !.pc = IF rec.proc = NoInstance THEN next ELSE "stop"]

MgrQuiesce ==
  /\ mgr.pc = "quiesce" /\ StateFree
  /\ \/ Busy /\ Goto("unpause") /\ UNCHANGED rec
     \/ /\ ~Busy
        /\ TakeProcess([mgr EXCEPT !.was = /\ rec.runtime = "Running"
                                           /\ Alive(rec.proc)],
                       "begin")
  /\ UNCHANGED <<store, marks, inst, req, frozen, package, source, crashes>>

(* PluginProcess::stop.                                                    *)
MgrStop ==
  /\ mgr.pc = "stop" /\ StateFree
  /\ inst' = Stopping({mgr.victim})
  /\ Clear({mgr.victim})
  /\ rec' = IF mgr.kind = "install" THEN [rec EXCEPT !.runtime = "Stopped"]
            ELSE rec
  /\ mgr' = [mgr EXCEPT !.pc = mgr.next, !.victim = NoInstance]
  /\ UNCHANGED <<store, req, frozen, package, source, crashes>>

(* begin_install, the replacement of the package, and the scan.            *)
MgrBegin ==
  /\ mgr.pc = "begin"
  /\ installing' = TRUE
  /\ Goto("place")
  /\ UNCHANGED <<store, connected, paused, acts, calls, rec, inst, req, frozen,
                 package, source, crashes>>

MgrPlace ==
  /\ mgr.pc = "place"
  /\ bytes' = placed + 1 /\ placed' = placed + 1
  /\ Goto("refresh")
  /\ UNCHANGED <<store, marks, rec, inst, req, frozen, good, abandoned, source,
                 crashes>>

Rescanned(known) ==
  IF ~known THEN Unknown
  ELSE [known |-> TRUE, start |-> NoInstance,
        proc    |-> IF Alive(rec.proc) THEN rec.proc ELSE NoInstance,
        runtime |-> IF Alive(rec.proc) THEN "Running" ELSE "Stopped"]

MgrRefresh ==
  /\ mgr.pc = "refresh" /\ StateFree
  /\ rec' = Rescanned(TRUE)
  /\ \/ Goto("start")
     \/ ~mgr.was /\ Goto("finish")
  /\ UNCHANGED <<store, marks, inst, req, frozen, package, source, crashes>>

(* start_one: joins a start, launches one, or finds the plugin running.    *)
MgrStart ==
  /\ mgr.pc \in {"start", "restart"} /\ StateFree
  /\ Goto(IF mgr.pc = "start" THEN "starting" ELSE "restarting")
  /\ \/ /\ Alive(rec.proc) \/ rec.runtime = "Starting"
        /\ UNCHANGED <<marks, rec, inst>>
     \/ \E i \in Fresh : Launch(i)
     \/ /\ MayLaunch /\ Fresh = {}
        /\ rec' = [rec EXCEPT !.runtime = "Failed"]
        /\ UNCHANGED <<marks, inst>>
  /\ UNCHANGED <<store, req, frozen, package, source, crashes>>

(* The start of a first installation may fail without a rollback.          *)
MayFinish == \/ rec.runtime = "Running" /\ Alive(rec.proc)
             \/ mgr.previous = NoPackage
MgrStarted ==
  /\ rec.runtime # "Starting"
  /\ \/ mgr.pc = "restarting" /\ Goto("release")
     \/ mgr.pc = "starting" /\ MayFinish /\ Goto("finish")
     \/ mgr.pc = "starting" /\ ~MayFinish /\ Goto("rollback")
  /\ UNCHANGED <<store, marks, rec, inst, req, frozen, package, source,
                 crashes>>

(* PackageCommit::finish.  When it fails the new backend is stopped and    *)
(* everything restored, unless stop_for_reinstall finds it busy: then only *)
(* the drop of PackageCommit restores the files.                           *)
MgrFinish ==
  /\ mgr.pc = "finish"
  /\ \/ /\ good' = good \cup {bytes}
        /\ Goto("release")
        /\ UNCHANGED <<rec, bytes, abandoned>>
     \/ /\ Fault("commit") /\ StateFree
        /\ UNCHANGED good
        /\ \/ /\ Busy
              /\ bytes' = mgr.previous
              /\ abandoned' = abandoned \cup {bytes}
              /\ Goto("release")
              /\ UNCHANGED rec
           \/ ~Busy /\ TakeProcess(mgr, "rollback") /\ UNCHANGED <<bytes,
                                                                   abandoned>>
  /\ UNCHANGED <<store, marks, inst, req, frozen, placed, source, crashes>>

MgrRollback ==
  /\ mgr.pc = "rollback"
  /\ bytes' = mgr.previous
  /\ Goto("refreshBack")
  /\ UNCHANGED <<store, marks, rec, inst, req, frozen, placed, good, abandoned,
                 source, crashes>>

MgrRefreshBack ==
  /\ mgr.pc = "refreshBack" /\ StateFree
  /\ rec' = Rescanned(mgr.previous # NoPackage)
  /\ \/ mgr.previous # NoPackage /\ Goto("restart")
     \/ ~mgr.was /\ Goto("release")
  /\ UNCHANGED <<store, marks, inst, req, frozen, package, source, crashes>>

(* The guards are dropped in the reverse order of their creation.          *)
MgrRelease ==
  /\ mgr.pc = "release"
  /\ installing' = FALSE
  /\ Goto("unpause")
  /\ UNCHANGED <<store, connected, paused, acts, calls, rec, inst, req, frozen,
                 package, source, crashes>>

MgrUnpause ==
  /\ mgr.pc = "unpause"
  /\ paused' = FALSE
  /\ mgr' = IdleMgr
  /\ UNCHANGED <<store, connected, installing, acts, calls, rec, inst, req, frozen,
                 package, source, crashes>>

(* uninstall pauses by force: calls and activities end with the backend.   *)
BeginUninstall ==
  /\ mgr.pc = "idle" /\ ~frozen /\ StateFree
  /\ rec.known /\ rec.runtime # "Stopping"
  /\ paused' = TRUE
  /\ TakeProcess([IdleMgr EXCEPT !.kind = "uninstall"], "remove")
  /\ UNCHANGED <<store, connected, installing, acts, calls, inst, req, frozen,
                 package, source, crashes>>

MgrRemove ==
  /\ mgr.pc = "remove"
  /\ bytes' = NoPackage
  /\ \/ Goto("erase")           \* with its data
     \/ Goto("forget")
  /\ UNCHANGED <<store, marks, rec, inst, req, frozen, placed, good, abandoned,
                 source, crashes>>

(* LifecycleStore::remove.                                                 *)
Erase ==
  \/ UpToDate(NoRecord) /\ UNCHANGED <<store, source>>
  \/ /\ ~UpToDate(NoRecord) /\ Written(NoRecord)
     /\ source' = [source EXCEPT !.package = NoPackage]
  \/ ~UpToDate(NoRecord) /\ Unwritten(NoRecord) /\ UNCHANGED source

MgrErase ==
  /\ mgr.pc = "erase"
  /\ Erase
  /\ Goto("forget")
  /\ UNCHANGED <<marks, rec, inst, req, frozen, package, crashes>>

MgrForget ==
  /\ mgr.pc = "forget" /\ StateFree
  /\ rec' = Unknown
  /\ Goto("unpause")
  /\ UNCHANGED <<store, marks, inst, req, frozen, package, source, crashes>>

(* cleanup_retained_plugin_data, after a removal that kept the data.       *)
Cleanup ==
  /\ mgr.pc = "idle" /\ ~frozen /\ ~rec.known
  /\ Erase
  /\ UNCHANGED <<marks, rec, inst, req, mgr, frozen, package, crashes>>

Management ==
  \/ MgrPause \/ MgrQuiesce \/ MgrStop \/ MgrBegin \/ MgrPlace
  \/ MgrRefresh \/ MgrStart \/ MgrStarted \/ MgrFinish \/ MgrRollback
  \/ MgrRefreshBack \/ MgrRelease \/ MgrUnpause \/ MgrRemove \/ MgrErase
  \/ MgrForget

--------------------------------------------------------------------------------
(* The upgrade of the host, and its crash.                                 *)

BeginUpgrade ==
  /\ ~frozen /\ ~Active
  /\ rec.runtime \notin {"Starting", "Stopping"}
  /\ frozen' = TRUE
  /\ UNCHANGED <<store, marks, rec, inst, req, mgr, package, source, crashes>>

EndUpgrade ==
  /\ frozen
  /\ frozen' = FALSE
  /\ UNCHANGED <<store, marks, rec, inst, req, mgr, package, source, crashes>>

(* The next start of the host: recovery (InstallRecovery) has put back the *)
(* package of an installation that was not committed.                      *)
Installed == IF mgr.kind = "install" /\ bytes \notin good THEN mgr.previous
             ELSE bytes

Crash ==
  /\ crashes < MaxCrashes
  /\ crashes' = crashes + 1
  /\ Load
  /\ bytes' = Installed
  /\ connected' = NoInstance /\ installing' = FALSE /\ paused' = FALSE
  /\ acts' = [i \in Instances |-> 0] /\ calls' = 0
  /\ rec' = [Unknown EXCEPT !.known = Installed # NoPackage]
  /\ inst' = [i \in Instances |-> IF i \in Fresh THEN inst[i]
                ELSE [NotStarted EXCEPT !.worker = "done", !.reader = "gone"]]
  /\ req' = [r \in Requests |-> Idle]
  /\ mgr' = IdleMgr
  /\ frozen' = FALSE
  /\ UNCHANGED <<file, backup, placed, good, abandoned, source>>

--------------------------------------------------------------------------------
Starts(i) == Hello(i) \/ Check(i) \/ Connect(i)

Next ==
  \/ \E i \in Instances : \/ Activate(i) \/ Starts(i)
                          \/ ChildDies(i) \/ ReaderEnds(i) \/ EndActivity(i)
  \/ \E r \in Requests : \/ \E i \in Instances, kind \in Kinds : Ask(r, i, kind)
                         \/ Wait(r) \/ Act(r)
  \/ EnterCall \/ LeaveCall
  \/ BeginInstall \/ BeginUninstall \/ Cleanup \/ Management
  \/ BeginUpgrade \/ EndUpgrade
  \/ Crash

Spec == Init /\ [][Next]_vars

--------------------------------------------------------------------------------
(* Properties.                                                             *)

(* While an installation replaces the plugin nothing of it is in progress: *)
(* no call is admitted and no activity is held, even one that a backend    *)
(* asks for as it starts.                                                  *)
PausedIsQuiet == paused /\ mgr.kind = "install" => Quiet

(* An upgrade never freezes the host over work that outlives its call, and *)
(* none begins while it is frozen.                                         *)
FrozenIsIdle ==
  frozen => /\ Quiet
            /\ \A r \in Requests : req[r].pc = "idle"

(* Neither a replacement nor an upgrade meets work that it would cut off.  *)
HeldIsQuiet == PausedIsQuiet /\ FrozenIsIdle

(* What the host remembers of a plugin was said by a package whose         *)
(* installation was committed: the reports of a replacement wait, and are  *)
(* dropped when it is rolled back (plugin_lifecycle_tests.rs:616).         *)
IntentOutlivesInstallation == source.package # NoPackage => source.package \in good

(* The same, but for a package that the installer left running because it  *)
(* was busy when its installation failed.                                  *)
IntentIsCommitted ==
  source.package # NoPackage => source.package \in good \cup abandoned

(* A late report of an old instance never overwrites that of a newer one   *)
(* (plugin_lifecycle_tests.rs:616).                                        *)
LatestReportWins == [][source'.instance >= source.instance]_vars

(* Memory and file agree unless a diagnostic says otherwise, so what was   *)
(* acknowledged is what the next start of the host finds.                  *)
FileMatchesMemory ==
  ~mem.diagnostic =>
    /\ ~mem.damaged /\ ~mem.unreadable
    /\ file.kind # "damaged" /\ file.record = mem.record

(* Damaged records are copied before they are overwritten, and records     *)
(* that could not be read are not overwritten at all.                      *)
OriginalsKept ==
  [][file' # file => /\ ~mem.unreadable
                     /\ file.kind = "damaged" => backup']_vars

(* Activities belong to their instance: from the moment the reader tells   *)
(* the end of a backend it is not connected and holds none, and it never   *)
(* begins another (plugin_lifecycle.rs:1).                                 *)
ActivitiesEndWithInstance ==
  \A i \in Instances : Told(i) => acts[i] = 0 /\ connected # i

(* The same, but for a backend whose end was told before it was accepted:  *)
(* nothing clears such an instance again (plugin_runtime.rs:779).          *)
OnlyOvertakenLeftBehind ==
  \A i \in Instances :
    Told(i) /\ inst[i].worker # "late" => acts[i] = 0 /\ connected # i
================================================================================
