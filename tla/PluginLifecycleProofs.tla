------------------------- MODULE PluginLifecycleProofs -------------------------
(***************************************************************************)
(* Proofs about PluginLifecycle, for any number of workers, instances,     *)
(* packages and crashes, and whatever goes wrong.                          *)
(***************************************************************************)
EXTENDS PluginLifecycle, TLAPS

USE ConstantsAssumption

(* An installation under way has room for one more package, and a stop     *)
(* goes on to one of three steps.                                          *)
RoomToPlace ==
  /\ mgr.pc \in {"pause", "quiesce", "begin", "place"} => placed < MaxPackages
  /\ mgr.pc = "stop" /\ mgr.next = "begin" => placed < MaxPackages
  /\ mgr.pc = "stop" => mgr.next \in {"begin", "rollback", "remove"}

(* A request is one backend's.                                             *)
AskersNamed == \A r \in Requests : req[r].pc # "idle" => req[r].of \in Instances

(* An installation that has placed its package has one in place.           *)
PackageThere ==
  mgr.pc \in {"refresh", "start", "starting", "finish"} => bytes \in Packages

TInv == TypeOK /\ RoomToPlace /\ AskersNamed /\ PackageThere

--------------------------------------------------------------------------------
(* What the record file yields has the type of the memory.                 *)
LEMMA LoadedType == \A f \in Files : Loaded(f) \in Memories
  BY DEF Loaded, Files, Memories, Needs, NoRecord

(* So has what the store holds after it starts.                            *)
LEMMA LoadType == ASSUME TypeOK, Load PROVE mem' \in Memories
<1>1. Unread \in Memories
  BY DEF Unread, Memories
<1> QED
  BY <1>1, LoadedType DEF TypeOK, Load

(* A write, done or refused, keeps the types of the store.                 *)
LEMMA StoreType ==
  ASSUME TypeOK, NEW n \in Needs \cup {NoRecord}, Written(n) \/ Unwritten(n)
  PROVE  file' \in Files /\ mem' \in Memories /\ backup' \in BOOLEAN
<1>1. [kind |-> "ok", record |-> n] \in Files
  BY DEF Files
<1>2. Clean(n) \in Memories
  BY <1>1, LoadedType DEF Clean
<1> QED
  BY <1>1, <1>2 DEF TypeOK, Written, Unwritten, store, Memories

(* Stopping backends keeps the type of the backends.                       *)
LEMMA StoppingType ==
  ASSUME TypeOK, NEW I PROVE Stopping(I) \in [Instances -> Backends]
<1>1. inst \in [Instances -> Backends]
  BY DEF TypeOK, Backends
<1> QED
  BY <1>1 DEF Stopping, Backends

(* So does moving the worker of one of them on.                            *)
LEMMA WorkerType ==
  ASSUME NEW b \in [Instances -> Backends], NEW i \in Instances, NEW w \in Workers
  PROVE  [b EXCEPT ![i].worker = w] \in [Instances -> Backends]
  BY DEF Backends

(* Clearing instances keeps the type of the marks.                         *)
LEMMA ClearType ==
  ASSUME TypeOK, NEW I, Clear(I)
  PROVE  /\ connected' \in Instances \cup {NoInstance}
         /\ installing' \in BOOLEAN /\ paused' \in BOOLEAN
         /\ acts' \in [Instances -> Nat] /\ calls' \in 0..MaxCalls
  BY DEF TypeOK, Clear, Disconnected, Ended

(* Launching a backend keeps the types.                                    *)
LEMMA LaunchType ==
  ASSUME TypeOK, NEW i \in Instances, Launch(i)
  PROVE  inst' \in [Instances -> Backends] /\ rec' \in Records
<1>1. Stopping({rec.proc}) \in [Instances -> Backends]
  BY StoppingType
<1>2. [worker |-> "handshake", package |-> bytes, child |-> TRUE,
       alive |-> TRUE, reader |-> "reading"]
         \in Backends
  BY DEF TypeOK, Workers, Readers, Backends
<1>3. inst' \in [Instances -> Backends]
  BY <1>1, <1>2 DEF Launch, Backends
<1>4. rec' \in Records
  BY DEF TypeOK, Launch, Records, Runtimes, Instances
<1> QED
  BY <1>3, <1>4

--------------------------------------------------------------------------------
(* The types hold at first.                                                *)
LEMMA InitTInv == Init => TInv
<1> SUFFICES ASSUME Init PROVE TInv
  OBVIOUS
<1> USE DEF Init
<1>1. file \in Files
  BY DEF Files
<1>2. mem \in Memories
  <2>1. Unread \in Memories
    BY DEF Unread, Memories
  <2> QED
    BY <1>1, <2>1, LoadedType
<1>3. inst \in [Instances -> Backends]
  BY DEF NotStarted, Workers, Readers, NoPackage, Backends
<1>4. req \in [Requests -> Asked]
  BY DEF Idle, Kinds, Asked
<1>5. mgr \in Managers
  BY DEF IdleMgr, MgrPcs, Managers
<1>6. rec \in Records /\ source \in Sources
  BY DEF Unknown, Runtimes, Records, Sources
<1>7. bytes \in Packages /\ placed \in 0..MaxPackages /\ good \subseteq Packages
  BY DEF Packages
<1>8. /\ backup \in BOOLEAN /\ installing \in BOOLEAN /\ paused \in BOOLEAN
      /\ connected \in Instances \cup {NoInstance}
      /\ acts \in [Instances -> Nat] /\ calls \in 0..MaxCalls
      /\ frozen \in BOOLEAN /\ abandoned \subseteq Packages
      /\ crashes \in 0..MaxCrashes
  <2>1. acts \in [Instances -> Nat]
    OBVIOUS
  <2>2. /\ backup \in BOOLEAN /\ installing \in BOOLEAN /\ paused \in BOOLEAN
        /\ frozen \in BOOLEAN /\ abandoned \subseteq Packages
        /\ connected \in Instances \cup {NoInstance}
    OBVIOUS
  <2>3. calls \in 0..MaxCalls /\ crashes \in 0..MaxCrashes
    OBVIOUS
  <2> QED
    BY <2>1, <2>2, <2>3
<1>9. RoomToPlace
  BY DEF RoomToPlace, IdleMgr
<1>10. AskersNamed /\ PackageThere
  BY DEF AskersNamed, Idle, PackageThere, IdleMgr
<1> HIDE DEF Init
<1> QED
  BY <1>1, <1>2, <1>3, <1>4, <1>5, <1>6, <1>7, <1>8, <1>9, <1>10 DEF TInv, TypeOK

--------------------------------------------------------------------------------
(* Every step of a backend keeps the types.                                *)
LEMMA InstanceTInv ==
  ASSUME TInv, NEW i \in Instances,
         \/ Activate(i) \/ Starts(i) \/ ChildDies(i) \/ ReaderEnds(i)
         \/ EndActivity(i)
  PROVE  TInv'
<1> USE DEF TInv
<1>1. CASE Activate(i)
  <2>1. inst' \in [Instances -> Backends] /\ rec' \in Records
    BY <1>1, LaunchType DEF Activate
  <2>2. QED
    BY <1>1, <2>1, ClearType
       DEF Activate, Launch, TypeOK, RoomToPlace, AskersNamed, PackageThere, store, package
<1>2. CASE Hello(i)
  <2>1. inst' \in [Instances -> Backends]
    <3>1. "check" \in Workers
      BY DEF Workers
    <3>2. Stopping({i}) \in [Instances -> Backends] /\ inst \in [Instances -> Backends]
      BY StoppingType DEF TypeOK
    <3>3. /\ [Stopping({i}) EXCEPT ![i].worker = "check"] \in [Instances -> Backends]
          /\ [inst EXCEPT ![i].worker = "check"] \in [Instances -> Backends]
      BY <3>1, <3>2, WorkerType
    <3>4. QED
      BY <1>2, <3>3 DEF Hello
  <2>2. QED
    BY <1>2, <2>1, ClearType
       DEF Hello, TypeOK, RoomToPlace, AskersNamed, PackageThere, store, package, marks
<1>3. CASE Check(i)
  <2>1. inst' \in [Instances -> Backends]
    <3>1. "done" \in Workers /\ "connect" \in Workers
      BY DEF Workers
    <3>2. Stopping({i}) \in [Instances -> Backends] /\ inst \in [Instances -> Backends]
      BY StoppingType DEF TypeOK
    <3>3. /\ [Stopping({i}) EXCEPT ![i].worker = "done"] \in [Instances -> Backends]
          /\ [inst EXCEPT ![i].worker = "connect"] \in [Instances -> Backends]
          /\ [inst EXCEPT ![i].worker = "done"] \in [Instances -> Backends]
      BY <3>1, <3>2, WorkerType
    <3>4. QED
      BY <1>3, <3>3 DEF Check
  <2>2. rec' \in Records
    BY <1>3 DEF Check, TypeOK, Records, Runtimes
  <2>3. QED
    BY <1>3, <2>1, <2>2, ClearType
       DEF Check, TypeOK, RoomToPlace, AskersNamed, PackageThere, store, package, marks
<1>4. CASE Connect(i)
  <2>1. inst' \in [Instances -> Backends]
    BY <1>4, WorkerType DEF Connect, TypeOK, Workers
  <2>2. rec' \in Records
    BY <1>4 DEF Connect, TypeOK, Records, Runtimes, Instances
  <2>3. QED
    BY <1>4, <2>1, <2>2
       DEF Connect, TypeOK, RoomToPlace, AskersNamed, PackageThere, store, package
<1>5. CASE ChildDies(i)
  <2>1. inst' \in [Instances -> Backends]
    BY <1>5 DEF ChildDies, TypeOK, Backends
  <2>2. QED
    BY <1>5, <2>1
       DEF ChildDies, TypeOK, RoomToPlace, AskersNamed, PackageThere, store, package, marks
<1>6. CASE ReaderEnds(i)
  <2>1. inst' \in [Instances -> Backends]
    BY <1>6 DEF ReaderEnds, TypeOK, Backends, Readers
  <2>2. rec' \in Records
    BY <1>6 DEF ReaderEnds, TypeOK, Records, Runtimes, NoInstance
  <2>3. QED
    BY <1>6, <2>1, <2>2, ClearType
       DEF ReaderEnds, TypeOK, RoomToPlace, AskersNamed, PackageThere, store, package, marks
<1>7. CASE EndActivity(i)
  <2>1. acts' \in [Instances -> Nat]
    BY <1>7 DEF EndActivity, OneLess, TypeOK
  <2>2. QED
    BY <1>7, <2>1 DEF EndActivity, TypeOK, RoomToPlace, AskersNamed, PackageThere, store, package
<1> QED
  BY <1>1, <1>2, <1>3, <1>4, <1>5, <1>6, <1>7 DEF Starts

--------------------------------------------------------------------------------
(* A report or an erasure keeps the types of the store and of its source.  *)
LEMMA SourceType ==
  ASSUME TypeOK,
         \/ \E i \in Instances, n \in Needs : Report(i, n)
         \/ Erase
  PROVE  /\ file' \in Files /\ mem' \in Memories /\ backup' \in BOOLEAN
         /\ source' \in Sources
<1>1. CASE \E i \in Instances, n \in Needs : Report(i, n)
  <2>1. PICK i \in Instances, n \in Needs : Report(i, n)
    BY <1>1
  <2>2. file' \in Files /\ mem' \in Memories /\ backup' \in BOOLEAN
    BY <2>1, StoreType DEF Report, TypeOK, store
  <2>3. source' \in Sources
    BY <2>1 DEF Report, TypeOK, Sources, Backends
  <2>4. QED
    BY <2>2, <2>3
<1>2. CASE Erase
  <2>1. NoRecord \in Needs \cup {NoRecord}
    OBVIOUS
  <2>2. file' \in Files /\ mem' \in Memories /\ backup' \in BOOLEAN
    BY <1>2, <2>1, StoreType DEF Erase, TypeOK, store
  <2>3. source' \in Sources
    BY <1>2 DEF Erase, TypeOK, Sources
  <2>4. QED
    BY <2>2, <2>3
<1> QED
  BY <1>1, <1>2

(* Every step of a request or a call keeps the types.                      *)
LEMMA RequestTInv ==
  ASSUME TInv,
         \/ \E r \in Requests : \/ \E i \in Instances, kind \in Kinds : Ask(r, i, kind)
                                \/ Wait(r) \/ Act(r)
         \/ EnterCall \/ LeaveCall
  PROVE  TInv'
<1> USE DEF TInv
<1>1. ASSUME NEW r \in Requests, NEW i \in Instances, NEW kind \in Kinds,
             Ask(r, i, kind)
      PROVE  TInv'
  <2>1. req' \in [Requests -> Asked] /\ AskersNamed'
    BY <1>1 DEF Ask, TypeOK, Asked, AskersNamed
  <2>2. QED
    BY <1>1, <2>1 DEF Ask, TypeOK, RoomToPlace, PackageThere, store, package, marks
<1>2. ASSUME NEW r \in Requests, Wait(r) PROVE TInv'
  <2>1. Idle \in Asked
    BY DEF Idle, Asked, Kinds
  <2>2. req' \in [Requests -> Asked]
    BY <1>2, <2>1 DEF Wait, TypeOK, Asked
  <2>3. AskersNamed'
    BY <1>2, <2>2 DEF Wait, TypeOK, Asked, AskersNamed, Idle
  <2>4. QED
    BY <1>2, <2>2, <2>3 DEF Wait, TypeOK, RoomToPlace, PackageThere, store, package, marks
<1>3. ASSUME NEW r \in Requests, Act(r) PROVE TInv'
  <2>1. Idle \in Asked
    BY DEF Idle, Asked, Kinds
  <2>2. req' \in [Requests -> Asked]
    BY <1>3, <2>1 DEF Act, TypeOK
  <2>3. AskersNamed'
    BY <1>3, <2>2 DEF Act, TypeOK, AskersNamed, Idle
  <2>4. req[r].of \in Instances
    BY <1>3 DEF Act, AskersNamed
  <2>5. acts' \in [Instances -> Nat]
    BY <1>3, <2>4 DEF Act, TypeOK
  <2>6. /\ file' \in Files /\ mem' \in Memories /\ backup' \in BOOLEAN
        /\ source' \in Sources
    BY <1>3, <2>4, SourceType DEF Act, TypeOK, store
  <2>7. QED
    BY <1>3, <2>2, <2>3, <2>5, <2>6 DEF Act, TypeOK, RoomToPlace, PackageThere, package
<1>4. CASE EnterCall
  BY <1>4 DEF EnterCall, TypeOK, RoomToPlace, AskersNamed, PackageThere, store, package
<1>5. CASE LeaveCall
  BY <1>5 DEF LeaveCall, TypeOK, RoomToPlace, AskersNamed, PackageThere, store, package
<1> QED
  BY <1>1, <1>2, <1>3, <1>4, <1>5

--------------------------------------------------------------------------------
(* What the steps of the manager put in mgr has its type.                  *)
LEMMA ManagerType ==
  /\ IdleMgr \in Managers
  /\ \A m \in Managers, pc \in MgrPcs : [m EXCEPT !.pc = pc] \in Managers
<1>1. IdleMgr \in Managers
  BY DEF IdleMgr, Managers, MgrPcs
<1>2. \A m \in Managers, pc \in MgrPcs : [m EXCEPT !.pc = pc] \in Managers
  BY DEF Managers
<1> QED
  BY <1>1, <1>2

(* Taking the process out of the record keeps the types.                   *)
LEMMA TakeProcessType ==
  ASSUME TypeOK, NEW m \in Managers, NEW next \in {"begin", "rollback", "remove"},
         TakeProcess(m, next)
  PROVE  /\ rec' \in Records /\ mgr' \in Managers
         /\ mgr'.next = next
         /\ mgr'.pc \in {next, "stop"}
<1>1. rec' \in Records
  BY DEF TakeProcess, TypeOK, Records, Runtimes
<1>2. /\ mgr' \in Managers /\ mgr'.next = next
      /\ mgr'.pc \in {next, "stop"}
  BY DEF TakeProcess, TypeOK, Records, Managers, MgrPcs
<1> QED
  BY <1>1, <1>2

(* Every step that begins an operation keeps the types.                    *)
LEMMA BeginTInv ==
  ASSUME TInv, BeginInstall \/ BeginUninstall \/ Cleanup
  PROVE  TInv'
<1> USE DEF TInv
<1>1. CASE BeginInstall
  <2>1. mgr' \in Managers /\ mgr'.pc = "pause" /\ mgr'.next = "idle"
    <3>1. mgr' = [pc |-> "pause", kind |-> "install", victim |-> NoInstance,
                  next |-> "idle", was |-> FALSE, previous |-> bytes]
      BY <1>1 DEF BeginInstall, IdleMgr
    <3>2. bytes \in Packages \cup {NoPackage}
      BY DEF TypeOK
    <3>3. QED
      BY <3>1, <3>2 DEF Managers, MgrPcs
  <2>2. QED
    BY <1>1, <2>1
       DEF BeginInstall, TypeOK, RoomToPlace, AskersNamed, PackageThere, store, package,
           marks
<1>2. CASE BeginUninstall
  <2>1. [IdleMgr EXCEPT !.kind = "uninstall"] \in Managers
    BY DEF IdleMgr, Managers, MgrPcs
  <2>2. /\ rec' \in Records /\ mgr' \in Managers
        /\ mgr'.next = "remove" /\ mgr'.pc \in {"remove", "stop"}
    BY <1>2, <2>1, TakeProcessType DEF BeginUninstall
  <2>3. QED
    BY <1>2, <2>2
       DEF BeginUninstall, TypeOK, RoomToPlace, AskersNamed, PackageThere, store,
           package
<1>3. CASE Cleanup
  <2>1. /\ file' \in Files /\ mem' \in Memories /\ backup' \in BOOLEAN
        /\ source' \in Sources
    BY <1>3, SourceType DEF Cleanup
  <2>2. QED
    BY <1>3, <2>1
       DEF Cleanup, TypeOK, RoomToPlace, AskersNamed, PackageThere, marks, package
<1> QED
  BY <1>1, <1>2, <1>3

(* Every step of the operation in progress keeps the types.                *)
LEMMA ManagementTInv == ASSUME TInv, Management PROVE TInv'
<1> USE DEF TInv
<1>0. /\ \A pc \in MgrPcs : Goto(pc) => mgr' \in Managers /\ mgr'.pc = pc
                                        /\ mgr'.next = mgr.next
      /\ IdleMgr \in Managers /\ IdleMgr.pc = "idle" /\ IdleMgr.next = "idle"
      /\ mgr \in Managers
  BY ManagerType DEF Goto, TypeOK, Managers, IdleMgr
<1>a. {"idle", "pause", "quiesce", "stop", "begin", "place", "refresh", "start",
       "starting", "finish", "rollback", "refreshBack", "restart", "restarting",
       "release", "remove", "erase", "forget", "unpause"} \subseteq MgrPcs
  BY DEF MgrPcs
<1>b. /\ mgr.previous \in Packages \cup {NoPackage}
      /\ mgr.victim \in Instances \cup {NoInstance} /\ mgr.next \in MgrPcs
  BY DEF TypeOK, Managers
<1>1. CASE MgrPause
  BY <1>1, <1>0, <1>a
     DEF MgrPause, TypeOK, RoomToPlace, AskersNamed, PackageThere, store, package
<1>2. CASE MgrQuiesce
  <2>1. CASE Busy /\ Goto("unpause") /\ UNCHANGED rec
    BY <1>2, <2>1, <1>0, <1>a
       DEF MgrQuiesce, TypeOK, RoomToPlace, AskersNamed, PackageThere, store, package,
           marks
  <2>2. CASE TakeProcess([mgr EXCEPT !.was = /\ rec.runtime = "Running"
                                             /\ Alive(rec.proc)], "begin")
    <3>1. [mgr EXCEPT !.was = /\ rec.runtime = "Running" /\ Alive(rec.proc)] \in Managers
      BY <1>0 DEF Managers, Alive, TypeOK, Records, Backends
    <3>2. /\ rec' \in Records /\ mgr' \in Managers
          /\ mgr'.next = "begin" /\ mgr'.pc \in {"begin", "stop"}
      BY <2>2, <3>1, TakeProcessType
    <3>3. placed < MaxPackages
      BY <1>2 DEF MgrQuiesce, RoomToPlace
    <3>4. QED
      BY <1>2, <3>2, <3>3
         DEF MgrQuiesce, TypeOK, RoomToPlace, AskersNamed, PackageThere, store,
             package, marks
  <2>3. QED
    BY <1>2, <2>1, <2>2 DEF MgrQuiesce
<1>3. CASE MgrStop
  <2>1. inst' \in [Instances -> Backends]
    BY <1>3, StoppingType DEF MgrStop
  <2>2. rec' \in Records
    BY <1>3 DEF MgrStop, TypeOK, Records, Runtimes
  <2>3. mgr' \in Managers /\ mgr'.pc = mgr.next /\ mgr'.next = mgr.next
    BY <1>3, <1>0, <1>b DEF MgrStop, Managers
  <2>4. QED
    BY <1>3, <2>1, <2>2, <2>3, ClearType
       DEF MgrStop, TypeOK, RoomToPlace, AskersNamed, PackageThere, store, package
<1>4. CASE MgrBegin
  BY <1>4, <1>0, <1>a
     DEF MgrBegin, TypeOK, RoomToPlace, AskersNamed, PackageThere, store, package
<1>5. CASE MgrPlace
  <2>1. placed < MaxPackages
    BY <1>5 DEF MgrPlace, RoomToPlace
  <2>2. /\ bytes' \in Packages /\ placed' \in 0..MaxPackages
    BY <1>5, <2>1 DEF MgrPlace, TypeOK, Packages
  <2>3. QED
    BY <1>5, <2>2, <1>0, <1>a
       DEF MgrPlace, TypeOK, RoomToPlace, AskersNamed, PackageThere, store, marks
<1>6. CASE MgrRefresh
  <2>1. rec' \in Records
    BY <1>6 DEF MgrRefresh, Rescanned, TypeOK, Records, Runtimes
  <2>2. QED
    BY <1>6, <2>1, <1>0, <1>a
       DEF MgrRefresh, TypeOK, RoomToPlace, AskersNamed, PackageThere, store, package,
           marks
<1>7. CASE MgrStart
  <2>1. mgr.pc \in {"start", "restart"} /\ (mgr.pc = "start" => bytes \in Packages)
    BY <1>7 DEF MgrStart, PackageThere
  <2>2. /\ mgr' \in Managers /\ mgr'.pc \in {"starting", "restarting"}
        /\ mgr'.next = mgr.next /\ (mgr'.pc = "starting" => mgr.pc = "start")
    BY <1>7, <2>1, <1>0, <1>a DEF MgrStart
  <2>3. CASE UNCHANGED <<marks, rec, inst>>
    BY <1>7, <2>1, <2>2, <2>3
       DEF MgrStart, TypeOK, RoomToPlace, AskersNamed, PackageThere, store, package,
           marks
  <2>4. CASE \E i \in Fresh : Launch(i)
    <3>1. PICK i \in Fresh : Launch(i)
      BY <2>4
    <3>2. inst' \in [Instances -> Backends] /\ rec' \in Records
      BY <3>1, LaunchType DEF Fresh
    <3>3. Clear({rec.proc})
      BY <3>1 DEF Launch
    <3>4. QED
      BY <1>7, <2>1, <2>2, <3>2, <3>3, ClearType
         DEF MgrStart, TypeOK, RoomToPlace, AskersNamed, PackageThere, store, package
  <2>5. CASE rec' = [rec EXCEPT !.runtime = "Failed"] /\ UNCHANGED <<marks, inst>>
    <3>1. rec' \in Records
      BY <2>5 DEF TypeOK, Records, Runtimes
    <3>2. QED
      BY <1>7, <2>1, <2>2, <2>5, <3>1
         DEF MgrStart, TypeOK, RoomToPlace, AskersNamed, PackageThere, store, package,
             marks
  <2>6. QED
    BY <1>7, <2>3, <2>4, <2>5 DEF MgrStart
<1>8. CASE MgrStarted
  <2>1. /\ mgr' \in Managers /\ mgr'.next = mgr.next
        /\ mgr'.pc \in {"release", "finish", "rollback"}
        /\ mgr'.pc = "finish" => mgr.pc = "starting"
    <3>1. \/ Goto("release") \/ Goto("rollback")
          \/ Goto("finish") /\ mgr.pc = "starting"
      BY <1>8 DEF MgrStarted
    <3>2. QED
      BY <3>1, <1>0, <1>a
  <2>2. QED
    BY <1>8, <2>1
       DEF MgrStarted, TypeOK, RoomToPlace, AskersNamed, PackageThere, store, package,
           marks
<1>9. CASE MgrFinish
  <2>1. bytes \in Packages
    BY <1>9 DEF MgrFinish, PackageThere
  <2>2. CASE Goto("release") /\ UNCHANGED rec
    BY <1>9, <2>1, <2>2, <1>0, <1>a, <1>b
       DEF MgrFinish, TypeOK, RoomToPlace, AskersNamed, PackageThere, store, marks
  <2>3. CASE TakeProcess(mgr, "rollback") /\ UNCHANGED <<bytes, abandoned, good>>
    <3>1. /\ rec' \in Records /\ mgr' \in Managers
          /\ mgr'.next = "rollback" /\ mgr'.pc \in {"rollback", "stop"}
      BY <2>3, <1>0, TakeProcessType
    <3>2. QED
      BY <1>9, <2>3, <3>1
         DEF MgrFinish, TypeOK, RoomToPlace, AskersNamed, PackageThere, store, marks
  <2>4. QED
    BY <1>9, <2>2, <2>3 DEF MgrFinish
<1>10. CASE MgrRollback
  BY <1>10, <1>0, <1>a, <1>b
     DEF MgrRollback, TypeOK, RoomToPlace, AskersNamed, PackageThere, store, marks
<1>11. CASE MgrRefreshBack
  <2>1. rec' \in Records
    BY <1>11 DEF MgrRefreshBack, Rescanned, Unknown, TypeOK, Records, Runtimes
  <2>2. QED
    BY <1>11, <2>1, <1>0, <1>a
       DEF MgrRefreshBack, TypeOK, RoomToPlace, AskersNamed, PackageThere, store,
           package, marks
<1>12. CASE MgrRelease
  BY <1>12, <1>0, <1>a
     DEF MgrRelease, TypeOK, RoomToPlace, AskersNamed, PackageThere, store, package
<1>13. CASE MgrUnpause
  BY <1>13, <1>0
     DEF MgrUnpause, TypeOK, RoomToPlace, AskersNamed, PackageThere, store, package
<1>14. CASE MgrRemove
  BY <1>14, <1>0, <1>a
     DEF MgrRemove, TypeOK, RoomToPlace, AskersNamed, PackageThere, store, marks
<1>15. CASE MgrErase
  <2>1. /\ file' \in Files /\ mem' \in Memories /\ backup' \in BOOLEAN
        /\ source' \in Sources
    BY <1>15, SourceType DEF MgrErase
  <2>2. QED
    BY <1>15, <2>1, <1>0, <1>a
       DEF MgrErase, TypeOK, RoomToPlace, AskersNamed, PackageThere, marks, package
<1>16. CASE MgrForget
  <2>1. rec' \in Records
    BY <1>16 DEF MgrForget, Unknown, Records, Runtimes
  <2>2. QED
    BY <1>16, <2>1, <1>0, <1>a
       DEF MgrForget, TypeOK, RoomToPlace, AskersNamed, PackageThere, store, package,
           marks
<1> QED
  BY <1>1, <1>2, <1>3, <1>4, <1>5, <1>6, <1>7, <1>8, <1>9, <1>10, <1>11, <1>12,
     <1>13, <1>14, <1>15, <1>16 DEF Management

(* An upgrade and a crash keep the types.                                  *)
LEMMA HostTInv ==
  ASSUME TInv, BeginUpgrade \/ EndUpgrade \/ Crash PROVE TInv'
<1> USE DEF TInv
<1>1. CASE BeginUpgrade \/ EndUpgrade
  BY <1>1 DEF BeginUpgrade, EndUpgrade, TypeOK, RoomToPlace, AskersNamed, PackageThere,
              store, package, marks
<1>2. CASE Crash
  <2>1. mem' \in Memories
    BY <1>2, LoadType DEF Crash
  <2>2. bytes' \in Packages \cup {NoPackage}
    BY <1>2 DEF Crash, Installed, TypeOK, Managers
  <2>3. rec' \in Records
    BY <1>2 DEF Crash, Unknown, Records, Runtimes
  <2>4. inst' \in [Instances -> Backends]
    BY <1>2 DEF Crash, NotStarted, TypeOK, Backends, Workers, Readers
  <2>5. req' \in [Requests -> Asked] /\ AskersNamed'
    BY <1>2 DEF Crash, Idle, Asked, Kinds, AskersNamed
  <2>6. mgr' = IdleMgr /\ IdleMgr \in Managers
    BY <1>2, ManagerType DEF Crash
  <2>7. acts' \in [Instances -> Nat] /\ calls' \in 0..MaxCalls
    BY <1>2 DEF Crash
  <2>8. crashes' \in 0..MaxCrashes
    BY <1>2 DEF Crash, TypeOK
  <2>9. TypeOK'
    BY <1>2, <2>1, <2>2, <2>3, <2>4, <2>5, <2>6, <2>7, <2>8 DEF Crash, TypeOK
  <2>10. RoomToPlace' /\ PackageThere'
    BY <2>6 DEF RoomToPlace, PackageThere, IdleMgr
  <2>11. QED
    BY <2>5, <2>9, <2>10
<1> QED
  BY <1>1, <1>2

(* The types hold in every reachable state, with what they rest on: room   *)
(* for the package an installation is about to place, requests of a        *)
(* backend, and a package in place once the installation has placed it.    *)
THEOREM TypesHold == Spec => []TInv
<1>1. TInv /\ [Next]_vars => TInv'
  <2> SUFFICES ASSUME TInv, [Next]_vars PROVE TInv'
    OBVIOUS
  <2>1. CASE UNCHANGED vars
    BY <2>1 DEF vars, TInv, TypeOK, RoomToPlace, AskersNamed, PackageThere, store,
                package, marks
  <2>2. CASE Next
    BY <2>2, InstanceTInv, RequestTInv, BeginTInv, ManagementTInv, HostTInv DEF Next
  <2>3. QED
    BY <2>1, <2>2
<1>2. QED
  BY <1>1, InitTInv, PTL DEF Spec

(* TypeOK holds in every reachable state of plugin_lifecycle.rs.           *)
THEOREM TypeCorrect == Spec => []TypeOK
  BY TypesHold, PTL DEF TInv

--------------------------------------------------------------------------------
(* The record file and its memory.                                         *)

(* A file without a record has none to agree on; damage and a failed read  *)
(* are remembered, with a diagnostic, until they are repaired.             *)
StoreInv ==
  /\ file.kind # "ok" => file.record = NoRecord
  /\ file.kind = "damaged" => mem.damaged \/ mem.unreadable
  /\ mem.damaged \/ mem.unreadable => mem.diagnostic
  /\ ~mem.diagnostic => file.record = mem.record

(* All that a step does to the store: nothing, a write, a write that is    *)
(* refused or fails, or the reading of the file by the next host.          *)
LEMMA StoreSteps ==
  ASSUME [Next]_vars
  PROVE  \/ UNCHANGED store
         \/ \E n \in Needs \cup {NoRecord} : Written(n) \/ Unwritten(n)
         \/ Load /\ UNCHANGED <<file, backup>>
<1>1. CASE UNCHANGED vars
  BY <1>1 DEF vars
<1>2. ASSUME NEW i \in Instances,
             \/ Activate(i) \/ Starts(i) \/ ChildDies(i) \/ ReaderEnds(i)
             \/ EndActivity(i)
      PROVE  UNCHANGED store
  BY <1>2 DEF Activate, Starts, Hello, Check, Connect, ChildDies, ReaderEnds,
              EndActivity
<1>3. ASSUME NEW r \in Requests, NEW i \in Instances, NEW kind \in Kinds,
             Ask(r, i, kind) \/ Wait(r)
      PROVE  UNCHANGED store
  BY <1>3 DEF Ask, Wait
<1>4. ASSUME NEW r \in Requests, Act(r)
      PROVE  \/ UNCHANGED store
             \/ \E n \in Needs \cup {NoRecord} : Written(n) \/ Unwritten(n)
  BY <1>4 DEF Act, Report
<1>5. ASSUME Erase
      PROVE  \/ UNCHANGED store
             \/ \E n \in Needs \cup {NoRecord} : Written(n) \/ Unwritten(n)
  BY <1>5 DEF Erase
<1>6. CASE EnterCall \/ LeaveCall \/ BeginInstall \/ BeginUninstall
           \/ BeginUpgrade \/ EndUpgrade
  BY <1>6 DEF EnterCall, LeaveCall, BeginInstall, BeginUninstall, BeginUpgrade,
              EndUpgrade
<1>7. CASE Cleanup
  BY <1>7, <1>5 DEF Cleanup
<1>8. CASE Management
  BY <1>8, <1>5
     DEF Management, MgrPause, MgrQuiesce, MgrStop, MgrBegin, MgrPlace, MgrRefresh,
         MgrStart, MgrStarted, MgrFinish, MgrRollback, MgrRefreshBack, MgrRelease,
         MgrUnpause, MgrRemove, MgrErase, MgrForget
<1>9. CASE Crash
  BY <1>9 DEF Crash
<1>10. ASSUME NEW r \in Requests, Wait(r) PROVE UNCHANGED store
  BY <1>10 DEF Wait
<1>11. QED
  BY <1>1, <1>2, <1>3, <1>4, <1>6, <1>7, <1>8, <1>9, <1>10 DEF Next

(* The next host reads a state in which file and memory agree.             *)
LEMMA LoadStore ==
  ASSUME TypeOK, StoreInv, Load, UNCHANGED <<file, backup>> PROVE StoreInv'
<1>1. file' = file /\ file.kind \in {"absent", "damaged", "ok"}
  BY DEF TypeOK, Files
<1>2. CASE mem' = Loaded(file)
  BY <1>1, <1>2 DEF StoreInv, Loaded
<1>3. CASE mem' = Unread
  BY <1>1, <1>3 DEF StoreInv, Unread
<1> QED
  BY <1>2, <1>3 DEF Load

(* A write, done or refused, leaves file and memory in agreement.          *)
LEMMA WriteStore ==
  ASSUME TypeOK, StoreInv, NEW n \in Needs \cup {NoRecord}, Written(n) \/ Unwritten(n)
  PROVE  StoreInv'
<1>1. CASE Written(n)
  BY <1>1 DEF Written, Clean, Loaded, StoreInv
<1>2. CASE Unwritten(n)
  BY <1>2 DEF Unwritten, StoreInv, TypeOK, Memories, store
<1> QED
  BY <1>1, <1>2

(* StoreInv holds in every reachable state.                                *)
LEMMA StoreHolds == Spec => []StoreInv
<1>1. Init => StoreInv
  <2> SUFFICES ASSUME Init PROVE StoreInv
    OBVIOUS
  <2>1. file.kind \in {"absent", "damaged"} /\ file.record = NoRecord
    BY DEF Init
  <2>2. mem = Loaded(file) \/ mem = Unread
    BY DEF Init
  <2>3. CASE mem = Loaded(file)
    BY <2>1, <2>3 DEF StoreInv, Loaded
  <2>4. CASE mem = Unread
    BY <2>1, <2>4 DEF StoreInv, Unread
  <2>5. QED
    BY <2>2, <2>3, <2>4
<1>2. TInv /\ StoreInv /\ [Next]_vars => StoreInv'
  <2> SUFFICES ASSUME TInv, StoreInv, [Next]_vars PROVE StoreInv'
    OBVIOUS
  <2>1. CASE UNCHANGED store
    BY <2>1 DEF store, StoreInv
  <2>2. QED
    BY <2>1, StoreSteps, LoadStore, WriteStore DEF TInv
<1>3. QED
  BY <1>1, <1>2, TypesHold, PTL DEF Spec

(* FileMatchesMemory: without a diagnostic the file says what the host     *)
(* remembers, whatever write failed before.                                *)
THEOREM FileAgrees == Spec => []FileMatchesMemory
<1>1. TInv /\ StoreInv => FileMatchesMemory
  BY DEF TInv, TypeOK, Memories, StoreInv, FileMatchesMemory
<1> QED
  BY <1>1, TypesHold, StoreHolds, PTL

(* OriginalsKept: what could not be read is never overwritten, and damaged *)
(* bytes only with a copy of them.                                         *)
THEOREM DamageIsKept == Spec => OriginalsKept
<1>1. StoreInv /\ [Next]_vars =>
        [file' # file => /\ ~mem.unreadable
                         /\ file.kind = "damaged" => backup']_vars
  <2> SUFFICES ASSUME StoreInv, [Next]_vars, file' # file
               PROVE  ~mem.unreadable /\ (file.kind = "damaged" => backup')
    OBVIOUS
  <2>1. PICK n \in Needs \cup {NoRecord} : Written(n)
    BY StoreSteps DEF store, Unwritten
  <2>2. QED
    BY <2>1 DEF Written, StoreInv
<1> QED
  BY <1>1, StoreHolds, PTL DEF Spec, OriginalsKept

--------------------------------------------------------------------------------
(* Calls and activities while an installation or an upgrade is under way.  *)

(* Only an operation that has passed its pause holds the plugin paused.    *)
PausedIsManaged == paused => mgr.pc \notin {"idle", "pause"}

QuietInv == PausedIsManaged /\ PausedIsQuiet /\ FrozenIsIdle

(* Clearing instances begins nothing.                                      *)
LEMMA ClearQuiet ==
  ASSUME TypeOK, NEW I, Clear(I)
  PROVE  (Quiet => Quiet') /\ paused' = paused
  BY DEF TypeOK, Clear, Ended, Quiet

(* Backends, requests and calls break none of it: they begin work only     *)
(* where the plugin is not paused, and nothing begins in a frozen host.    *)
LEMMA WorkQuiet ==
  ASSUME TypeOK, QuietInv,
         \/ \E i \in Instances : \/ Activate(i) \/ Starts(i) \/ ChildDies(i)
                                 \/ ReaderEnds(i) \/ EndActivity(i)
         \/ \E r \in Requests : \/ \E i \in Instances, kind \in Kinds : Ask(r, i, kind)
                                \/ Wait(r) \/ Act(r)
         \/ EnterCall \/ LeaveCall
  PROVE  QuietInv'
<1> USE DEF QuietInv, PausedIsManaged, PausedIsQuiet, FrozenIsIdle
<1>1. ASSUME NEW i \in Instances,
             Activate(i) \/ Starts(i) \/ ChildDies(i) \/ ReaderEnds(i)
      PROVE  QuietInv'
  <2>1. /\ (\E I : Clear(I)) \/ UNCHANGED <<paused, acts, calls>>
        /\ UNCHANGED <<req, mgr, frozen>>
    BY <1>1 DEF Activate, Launch, Starts, Hello, Check, Connect, ChildDies,
                ReaderEnds, marks
  <2>2. QED
    BY <2>1, ClearQuiet DEF Quiet
<1>2. ASSUME NEW i \in Instances, EndActivity(i) PROVE QuietInv'
  BY <1>2 DEF EndActivity, OneLess, TypeOK, Quiet
<1>3. ASSUME NEW r \in Requests, NEW i \in Instances, NEW kind \in Kinds,
             Ask(r, i, kind)
      PROVE  QuietInv'
  BY <1>3 DEF Ask, Admitted, marks, Quiet
<1>4. ASSUME NEW r \in Requests, Wait(r) PROVE QuietInv'
  BY <1>4 DEF Wait, Idle, TypeOK, Asked, marks, Quiet
<1>5. ASSUME NEW r \in Requests, Act(r) PROVE QuietInv'
  <2>1. ~frozen /\ ~frozen' /\ UNCHANGED <<paused, calls, mgr>>
    BY <1>5 DEF Act
  <2>2. UNCHANGED acts \/ ~paused
    BY <1>5 DEF Act, MayBegin
  <2>3. QED
    BY <2>1, <2>2 DEF Quiet
<1>6. CASE EnterCall
  BY <1>6 DEF EnterCall, MayEnter, Quiet
<1>7. CASE LeaveCall
  BY <1>7 DEF LeaveCall, TypeOK, Quiet
<1> QED
  BY <1>1, <1>2, <1>3, <1>4, <1>5, <1>6, <1>7

(* Nor do installations, removals, upgrades and crashes: an installation   *)
(* pauses a quiet plugin only, and an upgrade freezes an idle host only.   *)
LEMMA ManagerQuiet ==
  ASSUME TInv, QuietInv,
         \/ BeginInstall \/ BeginUninstall \/ Cleanup \/ Management
         \/ BeginUpgrade \/ EndUpgrade \/ Crash
  PROVE  QuietInv'
<1> USE DEF QuietInv, PausedIsManaged, PausedIsQuiet, FrozenIsIdle
<1>0. mgr \in Managers
  BY DEF TInv, TypeOK
<1>1. CASE BeginInstall
  BY <1>1 DEF BeginInstall, IdleMgr, marks
<1>2. CASE BeginUninstall
  BY <1>2 DEF BeginUninstall, TakeProcess, IdleMgr
<1>3. CASE Cleanup
  BY <1>3 DEF Cleanup, marks, Quiet
<1>4. CASE MgrPause
  BY <1>4, <1>0 DEF MgrPause, Goto, IdleMgr, Managers, Quiet
<1>5. CASE MgrQuiesce
  BY <1>5, <1>0 DEF MgrQuiesce, TakeProcess, Goto, marks, Managers, Quiet
<1>6. CASE MgrStop
  <2>1. (Quiet => Quiet') /\ paused' = paused
    BY <1>6, ClearQuiet DEF MgrStop, TInv
  <2>2. mgr'.kind = mgr.kind /\ mgr'.pc \notin {"idle", "pause"}
    BY <1>6, <1>0 DEF MgrStop, TInv, RoomToPlace, Managers
  <2>3. QED
    BY <1>6, <2>1, <2>2 DEF MgrStop
<1>7. CASE MgrStart
  <2>1. (Quiet => Quiet') /\ paused' = paused
    BY <1>7, ClearQuiet DEF MgrStart, Launch, TInv, marks, Quiet
  <2>2. mgr'.kind = mgr.kind /\ mgr'.pc \notin {"idle", "pause"}
    BY <1>7, <1>0 DEF MgrStart, Goto, Managers
  <2>3. QED
    BY <1>7, <2>1, <2>2 DEF MgrStart
<1>8. CASE \/ MgrBegin \/ MgrPlace \/ MgrRefresh \/ MgrStarted \/ MgrRollback
           \/ MgrRefreshBack \/ MgrRelease \/ MgrRemove \/ MgrErase \/ MgrForget
  <2>1. \E pc \in MgrPcs \ {"idle", "pause"} : Goto(pc)
    BY <1>8 DEF MgrBegin, MgrPlace, MgrRefresh, MgrStarted, MgrRollback,
                MgrRefreshBack, MgrRelease, MgrRemove, MgrErase, MgrForget, MgrPcs
  <2>2. mgr'.kind = mgr.kind /\ mgr'.pc \notin {"idle", "pause"}
    BY <1>0, <2>1 DEF Goto, Managers
  <2>3. UNCHANGED <<paused, acts, calls, req, frozen>>
    BY <1>8 DEF MgrBegin, MgrPlace, MgrRefresh, MgrStarted, MgrRollback,
                MgrRefreshBack, MgrRelease, MgrRemove, MgrErase, MgrForget, marks
  <2>4. QED
    BY <2>2, <2>3 DEF Quiet
<1>9. CASE MgrFinish
  BY <1>9, <1>0 DEF MgrFinish, TakeProcess, Goto, Managers, marks, Quiet
<1>10. CASE MgrUnpause
  BY <1>10 DEF MgrUnpause, IdleMgr, Quiet
<1>11. CASE BeginUpgrade
  <2>1. Quiet /\ \A r \in Requests : req[r].pc = "idle"
    BY <1>11 DEF BeginUpgrade, Active, Quiet, TInv, TypeOK
  <2>2. QED
    BY <1>11, <2>1 DEF BeginUpgrade, marks, Quiet
<1>12. CASE EndUpgrade
  BY <1>12 DEF EndUpgrade, marks, Quiet
<1>13. CASE Crash
  BY <1>13 DEF Crash
<1> QED
  BY <1>1, <1>2, <1>3, <1>4, <1>5, <1>6, <1>7, <1>8, <1>9, <1>10, <1>11, <1>12,
     <1>13 DEF Management

(* QuietInv holds in every reachable state.                                *)
LEMMA QuietHolds == Spec => []QuietInv
<1>1. Init => QuietInv
  BY DEF Init, QuietInv, PausedIsManaged, PausedIsQuiet, FrozenIsIdle
<1>2. TInv /\ QuietInv /\ [Next]_vars => QuietInv'
  <2> SUFFICES ASSUME TInv, QuietInv, [Next]_vars PROVE QuietInv'
    OBVIOUS
  <2>1. CASE UNCHANGED vars
    BY <2>1 DEF vars, marks, QuietInv, PausedIsManaged, PausedIsQuiet, FrozenIsIdle,
                Quiet
  <2>2. CASE Next
    BY <2>2, WorkQuiet, ManagerQuiet DEF Next, TInv
  <2>3. QED
    BY <2>1, <2>2
<1>3. QED
  BY <1>1, <1>2, TypesHold, PTL DEF Spec

(* PausedIsQuiet: an installation replaces a plugin only while nothing of  *)
(* it is in progress, and nothing begins meanwhile.                        *)
THEOREM InstallMeetsNoWork == Spec => []PausedIsQuiet
  BY QuietHolds, PTL DEF QuietInv

(* FrozenIsIdle: an upgrade freezes a host without work in progress, and   *)
(* none begins until it ends.                                              *)
THEOREM UpgradeMeetsNoWork == Spec => []FrozenIsIdle
  BY QuietHolds, PTL DEF QuietInv

(* Both together, as the runs check them.                                  *)
THEOREM WorkIsNotCutOff == Spec => []HeldIsQuiet
  BY InstallMeetsNoWork, UpgradeMeetsNoWork, PTL DEF HeldIsQuiet

--------------------------------------------------------------------------------
(* Activities and the end of their backend.                                *)

(* Stopping touches no worker and no reader, and revives nobody.           *)
LEMMA StoppingFields ==
  ASSUME TypeOK, NEW I, NEW i \in Instances
  PROVE  /\ Stopping(I)[i].reader = inst[i].reader
         /\ Stopping(I)[i].worker = inst[i].worker
         /\ Stopping(I)[i].alive => inst[i].alive
<1>1. inst[i] \in Backends
  BY DEF TypeOK
<1>2. CASE i \in I
  <2>1. Stopping(I)[i] = [inst[i] EXCEPT !.alive = FALSE, !.child = FALSE]
    BY <1>2 DEF Stopping
  <2>2. QED
    BY <1>1, <2>1 DEF Backends
<1>3. CASE i \notin I
  BY <1>3 DEF Stopping
<1> QED
  BY <1>2, <1>3

(* Stopping and clearing backends leaves nothing to one whose end is told, *)
(* with the worker of one moved on but not past its acceptance.            *)
LEMMA StopLeaves ==
  ASSUME TypeOK, OnlyOvertakenLeftBehind, NEW I, NEW j \in Instances,
         NEW w \in Workers, inst[j].worker # "late",
         \/ inst' = Stopping(I)
         \/ inst' = [Stopping(I) EXCEPT ![j].worker = w],
         Clear(I)
  PROVE  OnlyOvertakenLeftBehind'
<1> SUFFICES ASSUME NEW i \in Instances, inst'[i].reader \in {"dead", "exit", "gone"},
                    inst'[i].worker # "late"
             PROVE  acts'[i] = 0 /\ connected' # i
  BY DEF OnlyOvertakenLeftBehind, Told
<1>1. /\ inst'[i].reader = inst[i].reader
      /\ inst[i].worker # "late"
  <2>1. CASE inst' = Stopping(I)
    BY <2>1, StoppingFields
  <2>2. CASE inst' = [Stopping(I) EXCEPT ![j].worker = w]
    <3>1. Stopping(I) \in [Instances -> Backends]
      BY StoppingType
    <3>2. /\ inst'[i].reader = Stopping(I)[i].reader
          /\ i # j => inst'[i].worker = Stopping(I)[i].worker
      BY <2>2, <3>1 DEF Backends
    <3>3. /\ Stopping(I)[i].reader = inst[i].reader
          /\ Stopping(I)[i].worker = inst[i].worker
      BY StoppingFields
    <3>4. QED
      BY <3>2, <3>3
  <2>3. QED
    BY <2>1, <2>2
<1>2. acts'[i] = 0 \/ acts'[i] = acts[i]
  BY DEF Clear, Ended
<1>3. connected' = i => connected = i
  BY DEF Clear, Disconnected, Instances, NoInstance
<1>4. acts[i] = 0 /\ connected # i
  BY <1>1 DEF OnlyOvertakenLeftBehind, Told
<1> QED
  BY <1>2, <1>3, <1>4

(* So does launching one.                                                  *)
LEMMA LaunchLeaves ==
  ASSUME TypeOK, OnlyOvertakenLeftBehind, NEW j \in Instances, Launch(j)
  PROVE  OnlyOvertakenLeftBehind'
<1> SUFFICES ASSUME NEW i \in Instances, inst'[i].reader \in {"dead", "exit", "gone"},
                    inst'[i].worker # "late"
             PROVE  acts'[i] = 0 /\ connected' # i
  BY DEF OnlyOvertakenLeftBehind, Told
<1> DEFINE new == [worker |-> "handshake", package |-> bytes, child |-> TRUE,
                   alive |-> TRUE, reader |-> "reading"]
<1>0. /\ Stopping({rec.proc}) \in [Instances -> Backends]
      /\ inst' = [Stopping({rec.proc}) EXCEPT ![j] = new]
  BY StoppingType DEF Launch
<1>1. i # j
  <2>1. new.reader = "reading"
    OBVIOUS
  <2> HIDE DEF new
  <2> QED
    BY <1>0, <2>1
<1>2. inst'[i].reader = inst[i].reader /\ inst'[i].worker = inst[i].worker
  <2>1. inst'[i] = Stopping({rec.proc})[i]
    BY <1>0, <1>1
  <2>2. QED
    BY <2>1, StoppingFields
<1>3. acts'[i] = 0 \/ acts'[i] = acts[i]
  BY DEF Launch, Clear, Ended
<1>4. connected' = i => connected = i
  BY DEF Launch, Clear, Disconnected, Instances, NoInstance
<1> QED
  BY <1>2, <1>3, <1>4 DEF OnlyOvertakenLeftBehind, Told

(* Every step of a backend keeps it: an acceptance that comes too late     *)
(* says so.                                                                *)
LEMMA BackendLeaves ==
  ASSUME TypeOK, OnlyOvertakenLeftBehind, NEW j \in Instances,
         \/ Activate(j) \/ Starts(j) \/ ChildDies(j) \/ ReaderEnds(j)
         \/ EndActivity(j)
  PROVE  OnlyOvertakenLeftBehind'
<1>0. inst \in [Instances -> Backends] /\ acts \in [Instances -> Nat]
  BY DEF TypeOK
<1>1. CASE Activate(j)
  BY <1>1, LaunchLeaves DEF Activate
<1>2. CASE Hello(j)
  <2>1. CASE inst' = [inst EXCEPT ![j].worker = "check"] /\ UNCHANGED marks
    BY <1>2, <2>1, <1>0 DEF Hello, OnlyOvertakenLeftBehind, Told, marks, Backends
  <2>2. CASE /\ inst' = [Stopping({j}) EXCEPT ![j].worker = "check"]
             /\ Clear({j})
    <3>1. "check" \in Workers /\ inst[j].worker # "late"
      BY <1>2 DEF Hello, Workers
    <3>2. QED
      BY <2>2, <3>1, StopLeaves
  <2>3. QED
    BY <1>2, <2>1, <2>2 DEF Hello
<1>3. CASE Check(j)
  <2>1. CASE inst' = [Stopping({j}) EXCEPT ![j].worker = "done"] /\ Clear({j})
    <3>1. "done" \in Workers /\ inst[j].worker # "late"
      BY <1>3 DEF Check, Workers
    <3>2. QED
      BY <2>1, <3>1, StopLeaves
  <2>2. CASE inst' = [inst EXCEPT ![j].worker = "connect"] /\ UNCHANGED marks
    BY <1>3, <2>2, <1>0 DEF Check, OnlyOvertakenLeftBehind, Told, marks, Backends
  <2>3. CASE inst' = [inst EXCEPT ![j].worker = "done"] /\ UNCHANGED marks
    BY <1>3, <2>3, <1>0 DEF Check, OnlyOvertakenLeftBehind, Told, marks, Backends
  <2>4. QED
    BY <1>3, <2>1, <2>2, <2>3 DEF Check
<1>4. CASE Connect(j)
  <2>1. /\ inst' = [inst EXCEPT ![j].worker = IF Told(j) THEN "late" ELSE "done"]
        /\ connected' = j /\ acts' = acts /\ inst[j].worker = "connect"
    BY <1>4 DEF Connect
  <2>2. \A i \in Instances : inst'[i].reader = inst[i].reader
    BY <1>0, <2>1 DEF Backends
  <2>3. \A i \in Instances \ {j} : inst'[i].worker = inst[i].worker
    BY <1>0, <2>1 DEF Backends
  <2>4. Told(j) => inst'[j].worker = "late"
    BY <1>0, <2>1 DEF Backends
  <2>5. QED
    BY <2>1, <2>2, <2>3, <2>4 DEF OnlyOvertakenLeftBehind, Told
<1>5. CASE ChildDies(j)
  BY <1>5, <1>0 DEF ChildDies, OnlyOvertakenLeftBehind, Told, marks, Backends
<1>6. CASE ReaderEnds(j)
  <2>1. CASE inst' = [inst EXCEPT ![j].reader = "dead"] /\ Clear({j})
    BY <2>1, <1>0
       DEF OnlyOvertakenLeftBehind, Told, Backends, Clear, Ended, Disconnected,
           Instances, NoInstance
  <2>2. CASE /\ inst[j].reader = "dead"
             /\ inst' = [inst EXCEPT ![j].reader = "exit", ![j].alive = FALSE]
             /\ UNCHANGED marks
    BY <2>2, <1>0 DEF OnlyOvertakenLeftBehind, Told, marks, Backends
  <2>3. CASE /\ inst[j].reader = "exit"
             /\ inst' = [inst EXCEPT ![j].reader = "gone"] /\ UNCHANGED marks
    BY <2>3, <1>0 DEF OnlyOvertakenLeftBehind, Told, marks, Backends
  <2>4. QED
    BY <1>6, <2>1, <2>2, <2>3 DEF ReaderEnds
<1>7. CASE EndActivity(j)
  BY <1>7, <1>0 DEF EndActivity, OneLess, OnlyOvertakenLeftBehind, Told
<1> QED
  BY <1>1, <1>2, <1>3, <1>4, <1>5, <1>6, <1>7 DEF Starts

(* OnlyOvertakenLeftBehind: whatever fails, a backend whose end was told   *)
(* holds no activity and is not connected, unless it was accepted after    *)
(* its end (plugin_runtime.rs:779, plugin_manager.rs:3257).                *)
THEOREM ActivitiesEnd == Spec => []OnlyOvertakenLeftBehind
<1>1. Init => OnlyOvertakenLeftBehind
  BY DEF Init, OnlyOvertakenLeftBehind, Told, NotStarted
<1>2. TInv /\ OnlyOvertakenLeftBehind /\ [Next]_vars => OnlyOvertakenLeftBehind'
  <2> SUFFICES ASSUME TInv, OnlyOvertakenLeftBehind, [Next]_vars
               PROVE  OnlyOvertakenLeftBehind'
    OBVIOUS
  <2> USE DEF TInv
  <2>1. ASSUME NEW j \in Instances,
               \/ Activate(j) \/ Starts(j) \/ ChildDies(j) \/ ReaderEnds(j)
               \/ EndActivity(j)
        PROVE  OnlyOvertakenLeftBehind'
    BY <2>1, BackendLeaves
  <2>2. ASSUME NEW r \in Requests, Act(r) PROVE OnlyOvertakenLeftBehind'
    BY <2>2 DEF Act, MayBegin, OnlyOvertakenLeftBehind, Told, TypeOK, AskersNamed
  <2>3. CASE MgrStop
    <3>1. inst' = Stopping({mgr.victim}) /\ Clear({mgr.victim})
      BY <2>3 DEF MgrStop
    <3>2. ASSUME NEW i \in Instances, inst'[i].reader \in {"dead", "exit", "gone"},
                    inst'[i].worker # "late"
          PROVE  acts'[i] = 0 /\ connected' # i
      <4>1. inst'[i].reader = inst[i].reader /\ inst'[i].worker = inst[i].worker
        BY <3>1, StoppingFields
      <4>2. (acts'[i] = 0 \/ acts'[i] = acts[i]) /\ (connected' = i => connected = i)
        BY <3>1 DEF Clear, Ended, Disconnected, Instances, NoInstance
      <4>3. QED
        BY <3>2, <4>1, <4>2 DEF OnlyOvertakenLeftBehind, Told
    <3>3. QED
      BY <3>2 DEF OnlyOvertakenLeftBehind, Told
  <2>4. CASE MgrStart
    BY <2>4, LaunchLeaves DEF MgrStart, marks, OnlyOvertakenLeftBehind, Told, Fresh
  <2>5. CASE Crash
    BY <2>5 DEF Crash, OnlyOvertakenLeftBehind, Told, NotStarted, Instances, NoInstance
  <2>6. CASE UNCHANGED <<connected, acts, inst>>
    BY <2>6 DEF OnlyOvertakenLeftBehind, Told
  <2>7. UNCHANGED <<connected, acts, inst>> \/ ~(\/ EnterCall \/ LeaveCall \/ BeginInstall
          \/ BeginUninstall \/ Cleanup \/ BeginUpgrade \/ EndUpgrade)
    BY DEF EnterCall, LeaveCall, BeginInstall, BeginUninstall, Cleanup, BeginUpgrade,
           EndUpgrade, marks
  <2>8. ASSUME NEW r \in Requests, NEW i \in Instances, NEW kind \in Kinds,
               Ask(r, i, kind)
        PROVE  UNCHANGED <<connected, acts, inst>>
    BY <2>8 DEF Ask, marks
  <2>9. ASSUME NEW r \in Requests, Wait(r)
        PROVE  UNCHANGED <<connected, acts, inst>>
    BY <2>9 DEF Wait, marks
  <2>10. Management => MgrStop \/ MgrStart \/ UNCHANGED <<connected, acts, inst>>
    BY DEF Management, MgrPause, MgrQuiesce, MgrBegin, MgrPlace, MgrRefresh,
           MgrStarted, MgrFinish, MgrRollback, MgrRefreshBack, MgrRelease,
           MgrUnpause, MgrRemove, MgrErase, MgrForget, marks
  <2>11. CASE UNCHANGED vars
    BY <2>6, <2>11 DEF vars, marks
  <2>12. QED
    BY <2>1, <2>2, <2>3, <2>4, <2>5, <2>6, <2>7, <2>8, <2>9, <2>10, <2>11 DEF Next
<1>3. QED
  BY <1>1, <1>2, TypesHold, PTL DEF Spec

--------------------------------------------------------------------------------
(* Reports of old backends.                                                *)

Started(i) == i \in Instances /\ inst[i].worker # "none"

(* Who wrote the record, the connected backend and the one being started   *)
(* follow each other in this order, and only the one being started is      *)
(* about to be connected.                                                  *)
OrderInv ==
  /\ source.instance # NoInstance => Started(source.instance)
  /\ connected # NoInstance => Started(connected) /\ source.instance <= connected
  /\ rec.start # NoInstance => /\ Started(rec.start)
                               /\ source.instance <= rec.start
                               /\ connected <= rec.start
  /\ \A i \in Instances : inst[i].worker = "connect" => rec.start = i

(* A step that starts nothing, connects nothing and reports nothing keeps  *)
(* the order.                                                              *)
LEMMA OrderKept ==
  ASSUME TypeOK, OrderInv,
         \A i \in Instances : /\ inst[i].worker # "none" => inst'[i].worker # "none"
                              /\ inst'[i].worker = "connect" => rec'.start = i,
         connected' \in {connected, NoInstance},
         rec'.start \in {rec.start, NoInstance},
         source'.instance = source.instance
  PROVE  OrderInv'
<1>1. /\ source.instance \in Instances \cup {NoInstance}
      /\ rec.start \in Instances \cup {NoInstance}
  BY DEF TypeOK, Sources, Records
<1>2. connected \in Instances \cup {NoInstance}
  BY DEF TypeOK
<1> QED
  BY <1>1, <1>2 DEF OrderInv, Started, Instances, NoInstance

(* Launching a backend keeps it: its number is above all those started.    *)
LEMMA OrderLaunch ==
  ASSUME TypeOK, OrderInv, NEW j \in Instances, Launch(j), UNCHANGED source
  PROVE  OrderInv'
<1>1. \A i \in Instances : Started(i) => i < j
  BY DEF Launch, IsNext, Fresh, Started, Instances
<1>2. rec'.start = j
  BY DEF Launch, TypeOK, Records
<1>3. connected' \in {connected, NoInstance}
  BY DEF Launch, Clear, Disconnected
<1>4. \A i \in Instances : /\ i # j => inst'[i].worker = inst[i].worker
                           /\ i = j => inst'[i].worker = "handshake"
  <2> SUFFICES ASSUME NEW i \in Instances
               PROVE  /\ i # j => inst'[i].worker = inst[i].worker
                      /\ i = j => inst'[i].worker = "handshake"
    OBVIOUS
  <2>1. Stopping({rec.proc}) \in [Instances -> Backends]
    BY StoppingType
  <2>2. QED
    BY <2>1, StoppingFields DEF Launch
<1>5. \A i \in Instances : inst[i].worker # "connect"
  BY DEF Launch, MayLaunch, StateFree
<1>6. \A i \in Instances : inst'[i].worker # "connect"
  BY <1>4, <1>5
<1>7. /\ Started(j)' /\ \A i \in Instances : Started(i) => Started(i)'
  BY <1>4 DEF Started
<1> QED
  BY <1>1, <1>2, <1>3, <1>6, <1>7
     DEF OrderInv, TypeOK, Sources, Instances, NoInstance, Started

(* The steps of a backend keep the order.                                  *)
LEMMA BackendOrder ==
  ASSUME TypeOK, OrderInv, NEW j \in Instances,
         \/ Activate(j) \/ Starts(j) \/ ChildDies(j) \/ ReaderEnds(j)
         \/ EndActivity(j)
  PROVE  OrderInv'
<1>0. inst \in [Instances -> Backends] /\ rec \in Records
  BY DEF TypeOK
<1>1. CASE Activate(j)
  BY <1>1, OrderLaunch DEF Activate
<1>2. CASE Hello(j) \/ Check(j)
  <2>1. /\ inst[j].worker # "none" /\ UNCHANGED source
        /\ rec'.start = rec.start
    BY <1>2, <1>0 DEF Hello, Check, Records
  <2>2. connected' \in {connected, NoInstance}
    BY <1>2 DEF Hello, Check, Clear, Disconnected, marks
  <2>3. ASSUME NEW i \in Instances, i # j
        PROVE  inst'[i].worker = inst[i].worker
    <3>1. Stopping({j}) \in [Instances -> Backends]
      BY StoppingType
    <3>2. Stopping({j})[i].worker = inst[i].worker
      BY StoppingFields
    <3>3. QED
      BY <1>2, <1>0, <2>3, <3>1, <3>2 DEF Hello, Check
  <2>4. inst'[j].worker # "none" /\ (inst'[j].worker = "connect" => rec.start = j)
    <3>1. Stopping({j}) \in [Instances -> Backends]
      BY StoppingType
    <3>2. ASSUME NEW B \in [Instances -> Backends], NEW w
          PROVE  [B EXCEPT ![j].worker = w][j].worker = w
      <4>1. B[j] \in Backends
        OBVIOUS
      <4>2. [B EXCEPT ![j].worker = w][j] = [B[j] EXCEPT !.worker = w]
        OBVIOUS
      <4>3. QED
        BY <4>1, <4>2 DEF Backends
    <3>3. CASE Hello(j)
      <4>1. inst' = [inst EXCEPT ![j].worker = "check"]
            \/ inst' = [Stopping({j}) EXCEPT ![j].worker = "check"]
        BY <3>3 DEF Hello
      <4>2. inst'[j].worker = "check"
        BY <1>0, <3>1, <3>2, <4>1
      <4>3. QED
        BY <4>2
    <3>4. CASE Check(j)
      <4>1. \/ inst' = [Stopping({j}) EXCEPT ![j].worker = "done"]
            \/ inst' = [inst EXCEPT ![j].worker = "done"]
            \/ inst' = [inst EXCEPT ![j].worker = "connect"] /\ Wanted(j)
        BY <3>4 DEF Check
      <4>2. inst'[j].worker = "done" \/ (inst'[j].worker = "connect" /\ Wanted(j))
        BY <1>0, <3>1, <3>2, <4>1
      <4>3. QED
        BY <4>2 DEF Wanted
    <3>5. QED
      BY <1>2, <3>3, <3>4
  <2>5. QED
    BY <2>1, <2>2, <2>3, <2>4, OrderKept DEF OrderInv
<1>3. CASE Connect(j)
  <2>1. rec'.start = rec.start /\ rec.start = j /\ connected' = j /\ UNCHANGED source
    BY <1>3, <1>0 DEF Connect, Records, OrderInv
  <2>2. \A i \in Instances : /\ Started(i) => Started(i)'
                             /\ inst'[i].worker = "connect" => inst[i].worker = "connect"
    BY <1>3, <1>0 DEF Connect, Started, Backends
  <2>3. QED
    BY <2>1, <2>2 DEF OrderInv, Started, Instances, NoInstance
<1>4. CASE ChildDies(j)
  BY <1>4, <1>0, OrderKept DEF ChildDies, marks, Backends, OrderInv
<1>5. CASE ReaderEnds(j)
  <2>1. \A i \in Instances : inst'[i].worker = inst[i].worker
    BY <1>5, <1>0 DEF ReaderEnds, Backends
  <2>2. rec'.start = rec.start
    BY <1>5, <1>0 DEF ReaderEnds, Records
  <2>3. connected' \in {connected, NoInstance} /\ UNCHANGED source
    BY <1>5 DEF ReaderEnds, Clear, Disconnected, marks
  <2>4. QED
    BY <2>1, <2>2, <2>3, OrderKept DEF OrderInv
<1>6. CASE EndActivity(j)
  BY <1>6, OrderKept DEF EndActivity, OrderInv
<1> QED
  BY <1>1, <1>2, <1>3, <1>4, <1>5, <1>6 DEF Starts

(* So do those of the operation in progress, all of which wait while a     *)
(* worker accepts a backend.                                               *)
LEMMA ManagementOrder == ASSUME TypeOK, OrderInv, Management PROVE OrderInv'
<1>0. inst \in [Instances -> Backends] /\ rec \in Records /\ source \in Sources
  BY DEF TypeOK
<1>1. CASE MgrStart
  <2>1. CASE \E i \in Fresh : Launch(i)
    BY <1>1, <2>1, OrderLaunch DEF MgrStart, Fresh
  <2>2. CASE /\ UNCHANGED <<marks, inst>>
             /\ rec' = rec \/ rec' = [rec EXCEPT !.runtime = "Failed"]
    <3>1. rec'.start = rec.start
      BY <1>0, <2>2 DEF Records
    <3>2. QED
      BY <1>1, <2>2, <3>1, OrderKept DEF MgrStart, marks, OrderInv
  <2>3. QED
    BY <1>1, <2>1, <2>2 DEF MgrStart
<1>2. CASE MgrStop
  <2>1. \A i \in Instances : inst'[i].worker = inst[i].worker
    BY <1>2, StoppingFields DEF MgrStop
  <2>2. rec'.start = rec.start
    BY <1>2, <1>0 DEF MgrStop, Records
  <2>3. connected' \in {connected, NoInstance} /\ UNCHANGED source
    BY <1>2 DEF MgrStop, Clear, Disconnected
  <2>4. QED
    BY <2>1, <2>2, <2>3, OrderKept DEF OrderInv
<1>3. CASE MgrQuiesce \/ MgrRefresh \/ MgrFinish \/ MgrRefreshBack \/ MgrForget
  <2>1. UNCHANGED <<connected, inst, source>>
    BY <1>3 DEF MgrQuiesce, MgrRefresh, MgrFinish, MgrRefreshBack, MgrForget, marks
  <2>2. UNCHANGED rec \/ StateFree
    BY <1>3 DEF MgrQuiesce, MgrRefresh, MgrFinish, MgrRefreshBack, MgrForget
  <2>3. rec'.start \in {rec.start, NoInstance}
    <3>1. ASSUME NEW m, NEW next, TakeProcess(m, next) PROVE rec'.start = NoInstance
      BY <3>1, <1>0 DEF TakeProcess, Records
    <3>2. ASSUME NEW known PROVE Rescanned(known).start = NoInstance
      <4>1. CASE known
        BY <4>1 DEF Rescanned
      <4>2. CASE ~known
        BY <4>2 DEF Rescanned, Unknown
      <4>3. QED
        BY <4>1, <4>2
    <3>3. CASE MgrRefresh \/ MgrRefreshBack \/ MgrForget
      <4>1. (\E known : rec' = Rescanned(known)) \/ rec' = Unknown
        BY <3>3 DEF MgrRefresh, MgrRefreshBack, MgrForget
      <4>2. Unknown.start = NoInstance
        BY DEF Unknown
      <4>3. QED
        BY <3>2, <4>1, <4>2
    <3>4. CASE MgrQuiesce \/ MgrFinish
      BY <3>1, <3>4 DEF MgrQuiesce, MgrFinish
    <3>5. QED
      BY <1>3, <3>3, <3>4
  <2>4. QED
    BY <2>1, <2>2, <2>3, OrderKept DEF OrderInv, StateFree
<1>4. CASE \/ MgrPause \/ MgrBegin \/ MgrPlace \/ MgrStarted \/ MgrRollback
           \/ MgrRelease \/ MgrUnpause \/ MgrRemove
  <2>1. UNCHANGED <<connected, inst, source, rec>>
    BY <1>4 DEF MgrPause, MgrBegin, MgrPlace, MgrStarted, MgrRollback, MgrRelease,
                MgrUnpause, MgrRemove, marks
  <2>2. QED
    BY <2>1, OrderKept DEF OrderInv
<1>5. CASE MgrErase
  <2>1. UNCHANGED <<connected, inst, rec>> /\ source'.instance = source.instance
    BY <1>5, <1>0 DEF MgrErase, Erase, marks, Sources
  <2>2. QED
    BY <2>1, OrderKept DEF OrderInv
<1> QED
  BY <1>1, <1>2, <1>3, <1>4, <1>5 DEF Management

(* LatestReportWins: of two reports the host took, the later is never that *)
(* of an older backend.                                                    *)
THEOREM LatestWins == Spec => LatestReportWins
<1>1. Init => OrderInv
  BY DEF Init, OrderInv, Unknown, NotStarted
<1>2. TInv /\ OrderInv /\ [Next]_vars =>
        OrderInv' /\ [source'.instance >= source.instance]_vars
  <2> SUFFICES ASSUME TypeOK, AskersNamed, OrderInv, [Next]_vars
               PROVE  OrderInv' /\ source'.instance >= source.instance
    BY DEF TInv
  <2>0. source \in Sources /\ source.instance >= source.instance
    BY DEF TypeOK, Sources, Instances, NoInstance
  <2>1. ASSUME NEW j \in Instances,
               \/ Activate(j) \/ Starts(j) \/ ChildDies(j) \/ ReaderEnds(j)
               \/ EndActivity(j)
        PROVE  OrderInv' /\ UNCHANGED source
    BY <2>1, BackendOrder
       DEF Activate, Starts, Hello, Check, Connect, ChildDies, ReaderEnds, EndActivity
  <2>2. CASE Management
    <3>1. source'.instance = source.instance
      BY <2>0, <2>2
         DEF Management, MgrPause, MgrQuiesce, MgrStop, MgrBegin, MgrPlace, MgrRefresh,
             MgrStart, MgrStarted, MgrFinish, MgrRollback, MgrRefreshBack,
             MgrRelease, MgrUnpause, MgrRemove, MgrErase, MgrForget, Erase, Sources
    <3>2. QED
      BY <2>0, <2>2, <3>1, ManagementOrder
  <2>3. ASSUME NEW r \in Requests, Act(r)
        PROVE  OrderInv' /\ source'.instance >= source.instance
    <3>1. UNCHANGED <<connected, inst, rec>>
      BY <2>3 DEF Act
    <3>2. CASE UNCHANGED source
      BY <2>0, <3>1, <3>2, OrderKept DEF OrderInv
    <3>3. CASE connected = req[r].of /\ source'.instance = connected
      <4>1. connected \in Instances
        BY <2>3, <3>3 DEF Act, AskersNamed
      <4>2. /\ source'.instance = connected /\ source.instance <= connected
            /\ rec.start # NoInstance => connected <= rec.start
            /\ Started(connected) /\ UNCHANGED <<connected, inst, rec>>
        BY <3>1, <3>3, <4>1 DEF OrderInv, Instances, NoInstance
      <4>3. QED
        BY <2>0, <4>1, <4>2 DEF OrderInv, Started, Instances, NoInstance, Sources
    <3>4. QED
      BY <2>3, <3>2, <3>3 DEF Act, Report, MayReport
  <2>4. ASSUME NEW r \in Requests, NEW i \in Instances, NEW kind \in Kinds,
               Ask(r, i, kind)
        PROVE  UNCHANGED <<connected, inst, rec, source>>
    BY <2>4 DEF Ask, marks
  <2>5. ASSUME NEW r \in Requests, Wait(r)
        PROVE  UNCHANGED <<connected, inst, rec, source>>
    BY <2>5 DEF Wait, marks
  <2>6. CASE BeginUninstall
    <3>1. rec'.start = NoInstance
      BY <2>6 DEF BeginUninstall, TakeProcess, TypeOK, Records
    <3>2. StateFree /\ UNCHANGED <<connected, inst, source>>
      BY <2>6 DEF BeginUninstall
    <3>3. QED
      BY <2>0, <3>1, <3>2, OrderKept DEF StateFree
  <2>7. CASE Cleanup
    <3>1. UNCHANGED <<connected, inst, rec>> /\ source'.instance = source.instance
      BY <2>0, <2>7 DEF Cleanup, Erase, marks, Sources
    <3>2. QED
      BY <2>0, <3>1, OrderKept DEF OrderInv
  <2>8. CASE Crash
    <3>1. connected' = NoInstance /\ rec'.start = NoInstance /\ UNCHANGED source
      BY <2>8 DEF Crash, Unknown
    <3>2. \A i \in Instances : /\ inst[i].worker # "none" => inst'[i].worker # "none"
                               /\ inst'[i].worker # "connect"
      BY <2>8 DEF Crash, NotStarted, Fresh
    <3>3. QED
      BY <2>0, <3>1, <3>2, OrderKept
  <2>9. CASE \/ EnterCall \/ LeaveCall \/ BeginInstall \/ BeginUpgrade \/ EndUpgrade
             \/ UNCHANGED vars
    BY <2>0, <2>9, OrderKept
       DEF EnterCall, LeaveCall, BeginInstall, BeginUpgrade, EndUpgrade, vars, marks,
           OrderInv
  <2>10. CASE UNCHANGED <<connected, inst, rec, source>>
    BY <2>0, <2>10, OrderKept DEF OrderInv
  <2>11. QED
    BY <2>0, <2>1, <2>2, <2>3, <2>4, <2>5, <2>6, <2>7, <2>8, <2>9, <2>10 DEF Next
<1>3. QED
  BY <1>1, <1>2, TypesHold, PTL DEF Spec, LatestReportWins

--------------------------------------------------------------------------------
(* Who speaks for the plugin.                                              *)

(* The packages that may: those of installations that were committed, and  *)
(* those left running when theirs failed.                                  *)
Vouched == good \cup abandoned \cup {NoPackage}

(* The steps at which the new package is in place and not yet vouched for. *)
OnTrial == \/ mgr.pc \in {"refresh", "start", "starting", "finish", "rollback"}
           \/ mgr.pc = "stop" /\ mgr.next = "rollback"

NoneAlive == \A i \in Instances : ~inst[i].alive

(* A living backend is the one in the record, or the manager is stopping   *)
(* it; none lives while the files of an installation go back or a removal  *)
(* goes on.                                                                *)
StopPcs == {"stop", "remove", "erase", "forget"}
QuietPcs == {"rollback", "refreshBack", "remove", "erase", "forget"}
LivingInRecord ==
  /\ \A i \in Instances :
       /\ inst[i].alive =>
            /\ inst[i].worker # "none" /\ inst[i].reader \notin {"exit", "gone"}
            /\ \/ rec.proc = i /\ rec.runtime \in {"Starting", "Running"}
               \/ mgr.pc = "stop" /\ mgr.victim = i
       /\ inst[i].worker = "connect" => Wanted(i)
  /\ rec.runtime = "Starting" => rec.proc \in {rec.start, NoInstance}
  /\ rec.runtime = "Stopping" => rec.proc = NoInstance
  /\ mgr.pc \in StopPcs => rec.runtime = "Stopping"
  /\ mgr.pc \in QuietPcs => NoneAlive

(* An operation that replaces the package is an installation, holds the    *)
(* plugin paused and says that it installs, and what it would put back is  *)
(* vouched for.                                                            *)
PausedPcs == {"quiesce", "begin", "place", "refresh", "start", "starting", "finish",
              "rollback", "refreshBack", "restart", "restarting"}
OpenInstall ==
  /\ mgr.pc \in PausedPcs => mgr.kind = "install" /\ paused
  /\ mgr.pc = "pause" => mgr.kind = "install"
  /\ mgr.pc = "stop" =>
       paused /\ mgr.kind = (IF mgr.next = "remove" THEN "uninstall" ELSE "install")
  /\ OnTrial \/ mgr.pc = "place" => installing
  /\ mgr.kind = "install" => mgr.previous \in Vouched

(* Only the package of an open installation is not vouched for, and a      *)
(* request that may act was not let through by a backend of it.            *)
SpeakersVouched ==
  /\ bytes \in Vouched \/ OnTrial
  /\ \A i \in Instances : inst[i].alive =>
       inst[i].package \in Vouched \/ (inst[i].package = bytes /\ OnTrial)
  /\ \A r \in Requests : req[r].pc = "act" =>
       inst[req[r].of].worker # "none" /\ inst[req[r].of].package \in Vouched
  /\ source.package \in Vouched

CommitInv == LivingInRecord /\ OpenInstall /\ SpeakersVouched

(* Moving the operation on changes its step only.                          *)
LEMMA GotoFields ==
  ASSUME TypeOK, NEW pc, Goto(pc)
  PROVE  /\ mgr'.pc = pc /\ mgr'.kind = mgr.kind /\ mgr'.previous = mgr.previous
         /\ mgr'.victim = mgr.victim /\ mgr'.next = mgr.next
  BY DEF TypeOK, Goto, Managers

(* What taking the process out of the record does.                         *)
LEMMA TakeFields ==
  ASSUME TypeOK, NEW m \in Managers, NEW next, TakeProcess(m, next)
  PROVE  /\ rec'.proc = NoInstance /\ rec'.start = NoInstance
         /\ rec'.runtime = IF rec.proc = NoInstance /\ m.kind = "install"
                           THEN "Stopped" ELSE "Stopping"
         /\ mgr'.pc = IF rec.proc = NoInstance THEN next ELSE "stop"
         /\ mgr'.kind = m.kind /\ mgr'.previous = m.previous
         /\ mgr'.victim = rec.proc /\ mgr'.next = next
<1>1. rec \in Records
  BY DEF TypeOK
<1>2. /\ rec'.proc = NoInstance /\ rec'.start = NoInstance
      /\ rec'.runtime = IF rec.proc = NoInstance /\ m.kind = "install"
                        THEN "Stopped" ELSE "Stopping"
  BY <1>1 DEF TakeProcess, Records
<1>3. mgr' = [m EXCEPT !.victim = rec.proc, !.next = next,
                       !.pc = IF rec.proc = NoInstance THEN next ELSE "stop"]
  BY DEF TakeProcess
<1> QED
  BY <1>2, <1>3 DEF Managers

(* In an installation past its pause nothing activates the plugin, where   *)
(* the host does not restore it.                                           *)
LEMMA NoActivation ==
  ASSUME QuietInv, ~Restores, NEW j \in Instances, Activate(j)
  PROVE  ~(paused /\ mgr.kind = "install")
  BY DEF QuietInv, PausedIsQuiet, Quiet, Activate

--------------------------------------------------------------------------------
(* Steps keep LivingInRecord.                                              *)

(* Where nobody comes to life and the record and the operation stay.       *)
LEMMA LivingKept ==
  ASSUME LivingInRecord, UNCHANGED <<rec, mgr>>,
         \A i \in Instances :
           /\ inst'[i].alive => inst[i].alive /\ inst'[i].worker # "none"
                                  /\ inst'[i].reader \notin {"exit", "gone"}
           /\ inst'[i].worker = "connect" => inst[i].worker = "connect" \/ Wanted(i)
  PROVE  LivingInRecord'
<1>1. \A i \in Instances : Wanted(i)' = Wanted(i)
  BY DEF Wanted
<1> QED
  BY <1>1 DEF LivingInRecord, NoneAlive

(* Where only the operation moves on.                                      *)
LEMMA LivingGoesOn ==
  ASSUME LivingInRecord, UNCHANGED <<rec, inst>>, mgr.pc # "stop", mgr'.pc # "stop",
         mgr'.pc \in {"remove", "erase", "forget"} =>
           mgr.pc \in {"remove", "erase", "forget"},
         mgr'.pc \in {"rollback", "refreshBack"} => NoneAlive
  PROVE  LivingInRecord'
<1>1. \A i \in Instances : Wanted(i)' = Wanted(i)
  BY DEF Wanted
<1> QED
  BY <1>1 DEF LivingInRecord, NoneAlive, StopPcs, QuietPcs

(* Where nobody is left alive.                                             *)
LEMMA NobodyLeft ==
  ASSUME NoneAlive', \A i \in Instances : inst'[i].worker # "connect",
         rec'.runtime = "Starting" => rec'.proc \in {rec'.start, NoInstance},
         rec'.runtime = "Stopping" => rec'.proc = NoInstance,
         mgr'.pc \in StopPcs => rec'.runtime = "Stopping"
  PROVE  LivingInRecord'
  BY DEF LivingInRecord, NoneAlive

LEMMA LaunchLiving ==
  ASSUME TypeOK, LivingInRecord, NEW j \in Instances, Launch(j),
         mgr'.pc \notin StopPcs \cup QuietPcs
  PROVE  /\ LivingInRecord'
         /\ \A i \in Instances : inst'[i].alive => i = j
         /\ inst'[j].package = bytes
         /\ \A i \in Instances : inst[i].worker # "none" =>
              inst'[i].worker # "none" /\ inst'[i].package = inst[i].package
<1> DEFINE new == [worker |-> "handshake", package |-> bytes, child |-> TRUE,
                   alive |-> TRUE, reader |-> "reading"]
<1>1. /\ Stopping({rec.proc}) \in [Instances -> Backends]
      /\ inst' = [Stopping({rec.proc}) EXCEPT ![j] = new]
      /\ inst[j].worker = "none" /\ rec.runtime # "Stopping" /\ ~Alive(rec.proc)
      /\ \A i \in Instances : inst[i].worker # "connect"
  BY StoppingType DEF Launch, Fresh, MayLaunch, StateFree
<1>2. inst'[j] = new /\ \A i \in Instances \ {j} : inst'[i] = Stopping({rec.proc})[i]
  BY <1>1
<1>3. \A i \in Instances : Stopping({rec.proc})[i].alive => inst[i].alive
  BY StoppingFields
<1>4. \A i \in Instances : ~inst[i].alive
  BY <1>1 DEF LivingInRecord, Alive, StopPcs, Instances, NoInstance
<1>5. \A i \in Instances : Stopping({rec.proc})[i].package = inst[i].package
  BY DEF Stopping, TypeOK, Backends
<1>6. rec'.runtime = "Starting" /\ rec'.proc = j /\ rec'.start = j
  BY DEF Launch, TypeOK, Records
<1>7. \A i \in Instances \ {j} : ~inst'[i].alive /\ inst'[i].worker # "connect"
  BY <1>1, <1>2, <1>3, <1>4, StoppingFields
<1>8. /\ inst'[j].worker = "handshake" /\ inst'[j].reader = "reading"
      /\ inst'[j].package = bytes
  BY <1>2
<1>9. LivingInRecord'
  BY <1>6, <1>7, <1>8 DEF LivingInRecord, StopPcs, QuietPcs
<1>10. ASSUME NEW i \in Instances, inst[i].worker # "none"
       PROVE  inst'[i].worker # "none" /\ inst'[i].package = inst[i].package
  BY <1>1, <1>2, <1>5, <1>10, StoppingFields
<1> QED
  BY <1>7, <1>8, <1>9, <1>10

LEMMA BackendLiving ==
  ASSUME TypeOK, LivingInRecord, NEW j \in Instances,
         Starts(j) \/ ChildDies(j) \/ ReaderEnds(j)
  PROVE  /\ LivingInRecord'
         /\ \A i \in Instances :
              /\ inst'[i].alive => inst[i].alive
              /\ inst[i].worker # "none" => inst'[i].worker # "none"
              /\ inst'[i].package = inst[i].package
<1> DEFINE Same(i) == /\ inst'[i].alive => inst[i].alive
                      /\ inst[i].worker # "none" => inst'[i].worker # "none"
                      /\ inst'[i].package = inst[i].package
<1>0. inst \in [Instances -> Backends] /\ rec \in Records /\ inst[j] \in Backends
  BY DEF TypeOK
<1>1. /\ Stopping({j}) \in [Instances -> Backends]
      /\ \A i \in Instances : /\ Stopping({j})[i].package = inst[i].package
                              /\ Stopping({j})[i].reader = inst[i].reader
                              /\ Stopping({j})[i].worker = inst[i].worker
                              /\ Stopping({j})[i].alive => inst[i].alive
  <2>1. \A i \in Instances : Stopping({j})[i].package = inst[i].package
    BY <1>0 DEF Stopping, Backends
  <2> QED
    BY <2>1, StoppingType, StoppingFields
(* The worker of j moves on, and j may have been stopped.                  *)
<1>2. ASSUME NEW B \in {inst, Stopping({j})}, NEW w \in {"check", "done", "late", "connect"},
             inst' = [B EXCEPT ![j].worker = w]
      PROVE  \A i \in Instances :
               /\ Same(i)
               /\ inst'[i].reader = inst[i].reader
               /\ inst'[i].worker = IF i = j THEN w ELSE inst[i].worker
  <2>1. /\ B \in [Instances -> Backends]
        /\ \A i \in Instances : /\ B[i].package = inst[i].package
                                /\ B[i].reader = inst[i].reader
                                /\ B[i].worker = inst[i].worker
                                /\ B[i].alive => inst[i].alive
    BY <1>0, <1>1, <1>2
  <2>2. \A i \in Instances \ {j} : inst'[i] = B[i]
    BY <1>2, <2>1
  <2>3. inst'[j] = [B[j] EXCEPT !.worker = w] /\ B[j] \in Backends
    BY <1>2, <2>1
  <2>4. /\ inst'[j].package = B[j].package /\ inst'[j].reader = B[j].reader
        /\ inst'[j].alive = B[j].alive /\ inst'[j].worker = w
    BY <2>3 DEF Backends
  <2>5. w # "none"
    BY <1>2
  <2> HIDE DEF Same
  <2>6. Same(j)
    BY <2>1, <2>4, <2>5 DEF Same
  <2>7. \A i \in Instances \ {j} : Same(i)
    BY <2>1, <2>2 DEF Same
  <2> QED
    BY <2>1, <2>2, <2>4, <2>6, <2>7
<1> HIDE DEF Same
<1>3. ASSUME \A i \in Instances :
               /\ Same(i)
               /\ inst'[i].alive => inst'[i].reader \notin {"exit", "gone"}
               /\ inst'[i].worker = "connect" => inst[i].worker = "connect" \/ Wanted(i),
             \A i \in Instances : inst[i].alive => inst[i].worker # "none",
             UNCHANGED <<rec, mgr>>
      PROVE  LivingInRecord'
  BY <1>3, LivingKept DEF Same
<1>4. \A i \in Instances : inst[i].alive =>
        inst[i].worker # "none" /\ inst[i].reader \notin {"exit", "gone"}
  BY DEF LivingInRecord
<1>5. CASE Hello(j)
  <2>1. /\ UNCHANGED <<rec, mgr>>
        /\ \E B \in {inst, Stopping({j})} : inst' = [B EXCEPT ![j].worker = "check"]
    BY <1>5 DEF Hello
  <2>2. \A i \in Instances :
           /\ Same(i)
           /\ inst'[i].reader = inst[i].reader
           /\ inst'[i].worker = IF i = j THEN "check" ELSE inst[i].worker
    BY <1>2, <2>1
  <2>3. \A i \in Instances : inst'[i].alive => inst[i].alive
    BY <2>2 DEF Same
  <2>4. LivingInRecord'
    BY <1>3, <1>4, <2>1, <2>2, <2>3
  <2> QED
    BY <2>2, <2>4 DEF Same
<1>6. CASE Check(j)
  <2>1. PICK w \in {"done", "connect"}, B \in {inst, Stopping({j})} :
          /\ inst' = [B EXCEPT ![j].worker = w]
          /\ w = "connect" => Wanted(j) /\ UNCHANGED rec
          /\ UNCHANGED rec \/ (/\ Wanted(j) /\ ~inst[j].alive
                               /\ rec' = [rec EXCEPT !.runtime = "Failed"])
    BY <1>6 DEF Check, marks
  <2>2. UNCHANGED mgr /\ StateFree
    BY <1>6 DEF Check
  <2>3. \A i \in Instances :
           /\ Same(i)
           /\ inst'[i].reader = inst[i].reader
           /\ inst'[i].worker = IF i = j THEN w ELSE inst[i].worker
    BY <1>2, <2>1
  <2>4. \A i \in Instances : inst'[i].alive => inst[i].alive
    BY <2>3 DEF Same
  <2>5. CASE UNCHANGED rec
    <3>1. LivingInRecord'
      BY <1>3, <1>4, <2>1, <2>2, <2>3, <2>4, <2>5
    <3> QED
      BY <2>3, <3>1 DEF Same
  <2>6. CASE /\ Wanted(j) /\ ~inst[j].alive
             /\ rec' = [rec EXCEPT !.runtime = "Failed"] /\ ~UNCHANGED rec
    <3>1. rec'.runtime = "Failed" /\ w # "connect"
      BY <1>0, <2>1, <2>6 DEF Records
    <3>2. \A i \in Instances : ~inst[i].alive
      BY <2>6 DEF LivingInRecord, Wanted, StopPcs, Instances, NoInstance
    <3>3. NoneAlive' /\ \A i \in Instances : inst'[i].worker # "connect"
      BY <2>2, <2>3, <2>4, <3>1, <3>2 DEF NoneAlive, StateFree
    <3>4. mgr'.pc \notin StopPcs
      BY <2>2, <2>6 DEF LivingInRecord, Wanted
    <3>5. LivingInRecord'
      BY <3>1, <3>3, <3>4, NobodyLeft
    <3> QED
      BY <2>3, <3>5 DEF Same
  <2> QED
    BY <2>1, <2>5, <2>6
<1>7. CASE Connect(j)
  <2>0. PICK w \in {"done", "late"} : inst' = [inst EXCEPT ![j].worker = w]
    BY <1>7 DEF Connect
  <2>1. /\ inst' = [inst EXCEPT ![j].worker = w]
        /\ UNCHANGED mgr /\ Wanted(j)
    BY <1>7, <2>0 DEF Connect, LivingInRecord
  <2>2. rec'.runtime = "Running" /\ rec'.proc = j
    BY <1>0, <1>7 DEF Connect, Records
  <2>3. \A i \in Instances :
           /\ Same(i)
           /\ inst'[i].reader = inst[i].reader
           /\ inst'[i].worker = IF i = j THEN w ELSE inst[i].worker
    BY <1>2, <2>1
  <2>4. \A i \in Instances : inst'[i].alive => inst[i].alive
    BY <2>3 DEF Same
  <2>5. mgr.pc \notin StopPcs
    BY <2>1 DEF LivingInRecord, Wanted
  <2>6. \A i \in Instances : inst[i].alive => i = j
    BY <2>1, <2>5 DEF LivingInRecord, Wanted, StopPcs, Instances, NoInstance
  <2>7. \A i \in Instances : inst'[i].worker # "connect"
    BY <2>1, <2>3 DEF LivingInRecord, Wanted
  <2>8. mgr.pc \in QuietPcs => NoneAlive'
    BY <2>4 DEF LivingInRecord, NoneAlive
  <2>9. LivingInRecord'
    <3>1. \A i \in Instances : inst'[i].alive =>
            /\ inst'[i].worker # "none" /\ inst'[i].reader \notin {"exit", "gone"}
            /\ rec'.proc = i
      BY <1>4, <2>2, <2>3, <2>4, <2>6
    <3> QED
      BY <2>1, <2>2, <2>5, <2>7, <2>8, <3>1 DEF LivingInRecord
  <2> QED
    BY <2>3, <2>9 DEF Same
<1>8. CASE ChildDies(j)
  <2>1. UNCHANGED <<rec, mgr>> /\ inst' = [inst EXCEPT ![j].child = FALSE]
    BY <1>8 DEF ChildDies
  <2>2. \A i \in Instances : /\ inst'[i].alive = inst[i].alive
                             /\ inst'[i].worker = inst[i].worker
                             /\ inst'[i].reader = inst[i].reader
                             /\ inst'[i].package = inst[i].package
    BY <1>0, <2>1 DEF Backends
  <2>3. LivingInRecord'
    BY <1>4, <2>1, <2>2, LivingKept
  <2> QED
    BY <2>2, <2>3
<1>9. CASE ReaderEnds(j)
  <2>1. /\ \A i \in Instances : /\ inst'[i].alive => inst[i].alive
                                /\ inst'[i].worker = inst[i].worker
                                /\ inst'[i].package = inst[i].package
                                /\ i # j => inst'[i].reader = inst[i].reader
        /\ inst'[j].reader \in {"exit", "gone"} => ~inst'[j].alive
    <3>1. CASE inst' = [inst EXCEPT ![j].reader = "dead"]
      BY <1>0, <3>1 DEF Backends
    <3>2. CASE inst' = [inst EXCEPT ![j].reader = "exit", ![j].alive = FALSE]
      BY <1>0, <3>2 DEF Backends
    <3>3. CASE inst' = [inst EXCEPT ![j].reader = "gone"] /\ inst[j].reader = "exit"
      BY <1>0, <1>4, <3>3 DEF Backends
    <3> QED
      BY <1>9, <3>1, <3>2, <3>3 DEF ReaderEnds
  <2>2. CASE UNCHANGED rec
    <3>1. UNCHANGED mgr
      BY <1>9 DEF ReaderEnds
    <3>2. LivingInRecord'
      BY <1>4, <2>1, <2>2, <3>1, LivingKept
    <3> QED
      BY <2>1, <3>2
  <2>3. CASE ~UNCHANGED rec
    <3>1. /\ inst[j].reader = "exit" /\ StateFree /\ rec.proc = j /\ UNCHANGED mgr
          /\ rec' = [rec EXCEPT !.proc = NoInstance,
                          !.runtime = CASE @ = "Starting" -> "Starting"
                                        [] @ \in {"Stopping", "Stopped"} -> "Stopped"
                                        [] OTHER -> "Failed"]
      BY <1>9, <2>3 DEF ReaderEnds
    <3>2. rec.runtime # "Stopping" /\ j # NoInstance
      BY <3>1 DEF LivingInRecord, Instances, NoInstance
    <3>3. mgr.pc \notin StopPcs
      BY <3>2 DEF LivingInRecord
    <3>4. \A i \in Instances : ~inst[i].alive
      BY <1>4, <3>1, <3>3 DEF LivingInRecord, StopPcs
    <3>5. rec'.proc = NoInstance /\ rec'.runtime # "Stopping"
      BY <1>0, <3>1 DEF Records
    <3>6. NoneAlive' /\ \A i \in Instances : inst'[i].worker # "connect"
      BY <2>1, <3>1, <3>4 DEF NoneAlive, StateFree
    <3>7. LivingInRecord'
      BY <3>1, <3>3, <3>5, <3>6, NobodyLeft
    <3> QED
      BY <2>1, <3>7
  <2> QED
    BY <2>2, <2>3
<1> QED
  BY <1>5, <1>6, <1>7, <1>8, <1>9 DEF Starts

(* The process leaves the record, to be stopped if there is one.           *)
LEMMA TakeLiving ==
  ASSUME TypeOK, LivingInRecord, NEW m \in Managers, NEW next, TakeProcess(m, next),
         mgr.pc # "stop", StateFree, UNCHANGED inst,
         next \in {"begin", "rollback", "remove"},
         m.kind = "install" <=> next # "remove"
  PROVE  LivingInRecord'
<1>1. /\ rec'.proc = NoInstance
      /\ rec'.runtime = IF rec.proc = NoInstance /\ m.kind = "install"
                        THEN "Stopped" ELSE "Stopping"
      /\ mgr'.pc = IF rec.proc = NoInstance THEN next ELSE "stop"
      /\ mgr'.victim = rec.proc
  BY TakeFields
<1>2. \A i \in Instances : inst[i].alive => rec.proc = i
  BY DEF LivingInRecord
<1>3. \A i \in Instances : inst[i].worker # "connect"
  BY DEF StateFree
<1>4. CASE rec.proc = NoInstance
  <2>1. NoneAlive'
    BY <1>2, <1>4 DEF NoneAlive, Instances, NoInstance
  <2> QED
    BY <1>1, <1>3, <1>4, <2>1, NobodyLeft DEF StopPcs
<1>5. CASE rec.proc # NoInstance
  BY <1>1, <1>2, <1>3, <1>5 DEF LivingInRecord, QuietPcs, StopPcs
<1> QED
  BY <1>4, <1>5

(* A scan keeps the living backend of the record.                          *)
LEMMA RescanLiving ==
  ASSUME LivingInRecord, NEW known \in BOOLEAN, rec' = Rescanned(known), UNCHANGED inst, StateFree,
         mgr.pc # "stop", mgr'.pc \notin StopPcs \cup QuietPcs, known \/ NoneAlive
  PROVE  LivingInRecord'
<1>1. \A i \in Instances : inst[i].worker # "connect"
  BY DEF StateFree
<1>2. CASE known
  <2>1. /\ rec'.proc = IF Alive(rec.proc) THEN rec.proc ELSE NoInstance
        /\ rec'.runtime = IF Alive(rec.proc) THEN "Running" ELSE "Stopped"
    BY <1>2 DEF Rescanned
  <2>2. \A i \in Instances : inst[i].alive => rec.proc = i /\ Alive(rec.proc)
    BY DEF LivingInRecord, Alive, Instances, NoInstance
  <2> QED
    BY <1>1, <2>1, <2>2 DEF LivingInRecord
<1>3. CASE ~known
  <2>1. rec'.runtime = "Stopped"
    BY <1>3 DEF Rescanned, Unknown
  <2> QED
    BY <1>1, <1>3, <2>1, NobodyLeft DEF NoneAlive
<1> QED
  BY <1>2, <1>3

LEMMA ManagementLiving ==
  ASSUME TInv, LivingInRecord, OpenInstall, Management
  PROVE  LivingInRecord'
<1>0. TypeOK /\ rec \in Records /\ mgr \in Managers /\ inst \in [Instances -> Backends]
  BY DEF TInv, TypeOK
<1>1. ASSUME NEW pc, Goto(pc), UNCHANGED <<rec, inst>>, mgr.pc # "stop",
             pc \notin StopPcs \cup QuietPcs
      PROVE  LivingInRecord'
  BY <1>0, <1>1, GotoFields, LivingGoesOn DEF StopPcs, QuietPcs
<1>2. CASE MgrPause \/ MgrUnpause
  <2>1. /\ UNCHANGED <<rec, inst>>
        /\ mgr.pc # "stop" /\ mgr'.pc \in {"quiesce", "begin", "idle"}
    BY <1>0, <1>2, GotoFields DEF MgrPause, MgrUnpause, IdleMgr, marks
  <2> QED
    BY <2>1, LivingGoesOn
<1>3. CASE MgrQuiesce
  <2>1. CASE Goto("unpause") /\ UNCHANGED rec
    BY <1>1, <1>3, <2>1 DEF MgrQuiesce, StopPcs, QuietPcs
  <2>2. CASE ~(Goto("unpause") /\ UNCHANGED rec)
    <3> DEFINE m == [mgr EXCEPT !.was = /\ rec.runtime = "Running"
                                        /\ Alive(rec.proc)]
    <3>1. m \in Managers /\ m.kind = mgr.kind
      BY <1>0 DEF Managers, Alive, TypeOK, Backends
    <3>2. TakeProcess(m, "begin")
      BY <1>3, <2>2 DEF MgrQuiesce
    <3>3. mgr.kind = "install" /\ mgr.pc = "quiesce" /\ StateFree /\ UNCHANGED inst
      BY <1>3 DEF MgrQuiesce, OpenInstall, PausedPcs
    <3> HIDE DEF m
    <3> QED
      BY <1>0, <3>1, <3>2, <3>3, TakeLiving
  <2> QED
    BY <2>1, <2>2
<1>4. CASE MgrStop
  <2>1. /\ StateFree /\ inst' = Stopping({mgr.victim})
        /\ mgr.pc = "stop" /\ mgr'.pc = mgr.next
        /\ mgr.next \in {"begin", "rollback", "remove"}
    BY <1>0, <1>4 DEF MgrStop, Managers, TInv, RoomToPlace
  <2>2. rec.runtime = "Stopping" /\ rec.proc = NoInstance
    BY <2>1 DEF LivingInRecord, StopPcs
  <2>3. \A i \in Instances : inst[i].alive => i = mgr.victim
    BY <2>2 DEF LivingInRecord
  <2>4. ASSUME NEW i \in Instances
        PROVE  ~inst'[i].alive /\ inst'[i].worker # "connect"
    <3>1. CASE i = mgr.victim
      <4>1. inst'[i] = [inst[i] EXCEPT !.alive = FALSE, !.child = FALSE]
        BY <2>1, <3>1 DEF Stopping
      <4>2. inst[i] \in Backends /\ inst[i].worker # "connect"
        BY <1>0, <2>1 DEF StateFree
      <4> QED
        BY <4>1, <4>2 DEF Backends
    <3>2. CASE i # mgr.victim
      <4>1. inst'[i] = inst[i]
        BY <2>1, <3>2 DEF Stopping
      <4> QED
        BY <2>1, <2>3, <3>2, <4>1 DEF StateFree
    <3> QED
      BY <3>1, <3>2
  <2>5. rec'.proc = NoInstance
        /\ rec'.runtime = IF mgr.kind = "install" THEN "Stopped" ELSE "Stopping"
    BY <1>0, <1>4, <2>2 DEF MgrStop, Records
  <2>6. mgr'.pc \in StopPcs => mgr.kind # "install"
    BY <2>1 DEF StopPcs, OpenInstall
  <2> QED
    BY <2>4, <2>5, <2>6, NobodyLeft DEF NoneAlive
<1>5. CASE MgrBegin \/ MgrPlace \/ MgrRelease
  BY <1>1, <1>5 DEF MgrBegin, MgrPlace, MgrRelease, marks, StopPcs, QuietPcs
<1>6. CASE MgrRefresh \/ MgrRefreshBack
  <2>1. \E pc \in {"start", "finish", "restart", "release"} : Goto(pc)
    BY <1>6 DEF MgrRefresh, MgrRefreshBack
  <2>2. mgr'.pc \notin StopPcs \cup QuietPcs
    BY <1>0, <2>1, GotoFields DEF StopPcs, QuietPcs
  <2>3. PICK known \in BOOLEAN : rec' = Rescanned(known) /\ (known \/ mgr.pc = "refreshBack")
    BY <1>6 DEF MgrRefresh, MgrRefreshBack
  <2>4. mgr.pc # "stop" /\ StateFree /\ UNCHANGED inst /\ (known \/ NoneAlive)
    BY <1>6, <2>3 DEF MgrRefresh, MgrRefreshBack, LivingInRecord, QuietPcs
  <2> QED
    BY <2>2, <2>3, <2>4, RescanLiving
<1>7. CASE MgrStart
  <2>1. mgr.pc \in {"start", "restart"} /\ mgr'.pc \in {"starting", "restarting"} /\ StateFree
    BY <1>0, <1>7, GotoFields DEF MgrStart
  <2>2. CASE UNCHANGED <<rec, inst>>
    BY <2>1, <2>2, LivingGoesOn
  <2>3. CASE \E i \in Fresh : Launch(i)
    BY <1>0, <2>1, <2>3, LaunchLiving DEF Fresh, StopPcs, QuietPcs
  <2>4. CASE /\ MayLaunch /\ UNCHANGED inst
             /\ rec' = [rec EXCEPT !.runtime = "Failed"]
    <3>1. rec'.runtime = "Failed"
      BY <1>0, <2>4 DEF Records
    <3>2. NoneAlive'
      BY <2>1, <2>4 DEF MayLaunch, LivingInRecord, NoneAlive, Alive, Instances, NoInstance
    <3>3. \A i \in Instances : inst'[i].worker # "connect"
      BY <2>1, <2>4 DEF StateFree
    <3> QED
      BY <2>1, <3>1, <3>2, <3>3, NobodyLeft DEF StopPcs
  <2> QED
    BY <1>7, <2>2, <2>3, <2>4 DEF MgrStart, marks
<1>8. CASE MgrStarted
  <2>1. UNCHANGED <<rec, inst>> /\ rec.runtime # "Starting"
    BY <1>8 DEF MgrStarted
  <2>2. CASE \E pc \in {"release", "finish"} : Goto(pc)
    BY <1>1, <1>8, <2>1, <2>2 DEF MgrStarted, StopPcs, QuietPcs
  <2>3. CASE mgr.pc = "starting" /\ ~MayFinish /\ Goto("rollback")
    <3>1. NoneAlive
      BY <2>1, <2>3 DEF MayFinish, LivingInRecord, NoneAlive, Alive, Instances, NoInstance
    <3>2. mgr'.pc = "rollback"
      BY <1>0, <2>3, GotoFields
    <3> QED
      BY <2>1, <2>3, <3>1, <3>2, LivingGoesOn
  <2> QED
    BY <1>8, <2>2, <2>3 DEF MgrStarted
<1>9. CASE MgrFinish
  <2>1. UNCHANGED inst /\ mgr.pc = "finish"
    BY <1>9 DEF MgrFinish
  <2>2. CASE Goto("release") /\ UNCHANGED rec
    BY <1>1, <2>1, <2>2 DEF StopPcs, QuietPcs
  <2>3. CASE StateFree /\ TakeProcess(mgr, "rollback")
    <3>1. mgr.kind = "install"
      BY <2>1 DEF OpenInstall, PausedPcs
    <3> QED
      BY <1>0, <2>1, <2>3, <3>1, TakeLiving
  <2> QED
    BY <1>9, <2>2, <2>3 DEF MgrFinish
<1>10. CASE MgrRollback
  <2>1. UNCHANGED <<rec, inst>> /\ mgr.pc = "rollback" /\ mgr'.pc = "refreshBack"
    BY <1>0, <1>10, GotoFields DEF MgrRollback
  <2>2. NoneAlive
    BY <2>1 DEF LivingInRecord, QuietPcs
  <2> QED
    BY <2>1, <2>2, LivingGoesOn
<1>11. CASE MgrRemove \/ MgrErase
  <2>1. /\ UNCHANGED <<rec, inst>> /\ mgr.pc \in {"remove", "erase"}
        /\ mgr'.pc \in {"erase", "forget"}
    BY <1>0, <1>11, GotoFields DEF MgrRemove, MgrErase
  <2> QED
    BY <2>1, LivingGoesOn
<1>12. CASE MgrForget
  <2>1. mgr.pc = "forget" /\ mgr'.pc = "unpause" /\ StateFree /\ UNCHANGED inst
        /\ rec'.runtime = "Stopped"
    BY <1>0, <1>12, GotoFields DEF MgrForget, Unknown
  <2>2. NoneAlive'
    BY <2>1 DEF LivingInRecord, QuietPcs, NoneAlive
  <2>3. \A i \in Instances : inst'[i].worker # "connect"
    BY <2>1 DEF StateFree
  <2> QED
    BY <2>1, <2>2, <2>3, NobodyLeft DEF StopPcs
<1> QED
  BY <1>2, <1>3, <1>4, <1>5, <1>6, <1>7, <1>8, <1>9, <1>10, <1>11, <1>12 DEF Management

(* The operations that begin, and the crash.                               *)
LEMMA BeginLiving ==
  ASSUME TypeOK, LivingInRecord, BeginInstall \/ BeginUninstall \/ Crash
  PROVE  LivingInRecord'
<1>1. CASE BeginInstall
  <2>1. UNCHANGED <<rec, inst>> /\ mgr.pc = "idle" /\ mgr'.pc = "pause"
    BY <1>1 DEF BeginInstall, IdleMgr
  <2> QED
    BY <2>1, LivingGoesOn
<1>2. CASE BeginUninstall
  <2> DEFINE m == [IdleMgr EXCEPT !.kind = "uninstall"]
  <2>1. m \in Managers /\ m.kind = "uninstall"
    BY DEF IdleMgr, Managers, MgrPcs
  <2>2. TakeProcess(m, "remove") /\ mgr.pc = "idle" /\ StateFree /\ UNCHANGED inst
    BY <1>2 DEF BeginUninstall
  <2> HIDE DEF m
  <2> QED
    BY <2>1, <2>2, TakeLiving
<1>3. CASE Crash
  <2>1. rec'.runtime = "Stopped" /\ mgr'.pc = "idle"
    BY <1>3 DEF Crash, Unknown, IdleMgr
  <2>2. ASSUME NEW i \in Instances
        PROVE  ~inst'[i].alive /\ inst'[i].worker # "connect"
    <3>1. CASE i \in Fresh
      <4>1. inst'[i] = inst[i] /\ inst[i].worker = "none"
        BY <1>3, <3>1 DEF Crash, Fresh
      <4> QED
        BY <4>1 DEF LivingInRecord
    <3>2. CASE i \notin Fresh
      <4>1. inst'[i] = [NotStarted EXCEPT !.worker = "done", !.reader = "gone"]
        BY <1>3, <3>2 DEF Crash
      <4> QED
        BY <4>1 DEF NotStarted
    <3> QED
      BY <3>1, <3>2
  <2> QED
    BY <2>1, <2>2, NobodyLeft DEF NoneAlive, StopPcs
<1> QED
  BY <1>1, <1>2, <1>3

--------------------------------------------------------------------------------
(* Steps keep OpenInstall.                                                 *)

LEMMA OpenKept ==
  ASSUME OpenInstall, UNCHANGED <<mgr, paused, installing, good, abandoned>>
  PROVE  OpenInstall'
  BY DEF OpenInstall, OnTrial, Vouched

(* Where the operation moves on within its pause.                          *)
LEMMA OpenGoesOn ==
  ASSUME OpenInstall, mgr'.kind = mgr.kind, mgr'.previous = mgr.previous,
         Vouched \subseteq Vouched', UNCHANGED paused,
         mgr'.pc \notin {"pause", "stop"},
         mgr'.pc \in PausedPcs => mgr.kind = "install" /\ paused,
         mgr'.pc \in {"place", "refresh", "start", "starting", "finish", "rollback"} =>
           installing'
  PROVE  OpenInstall'
  BY DEF OpenInstall, OnTrial

LEMMA ManagementOpen ==
  ASSUME TInv, OpenInstall, Management
  PROVE  OpenInstall'
<1>0. TypeOK /\ mgr \in Managers
  BY DEF TInv, TypeOK
<1>1. ASSUME NEW pc, Goto(pc), Vouched \subseteq Vouched', UNCHANGED paused,
             mgr.pc \in PausedPcs, pc \notin {"pause", "stop"},
             pc \in {"place", "refresh", "start", "starting", "finish", "rollback"} =>
               installing'
      PROVE  OpenInstall'
  BY <1>0, <1>1, GotoFields, OpenGoesOn DEF OpenInstall
<1>2. CASE MgrPause
  <2>1. CASE mgr' = IdleMgr
    BY <2>1 DEF IdleMgr, OpenInstall, OnTrial, PausedPcs
  <2>2. CASE paused' = TRUE /\ \E pc \in {"quiesce", "begin"} : Goto(pc)
    <3>1. /\ mgr'.pc \in {"quiesce", "begin"} /\ mgr'.kind = "install" /\ paused'
          /\ mgr'.previous = mgr.previous /\ mgr.kind = "install"
      BY <1>0, <1>2, <2>2, GotoFields DEF MgrPause, OpenInstall
    <3>2. Vouched' = Vouched
      BY <1>2 DEF MgrPause, package, Vouched
    <3> QED
      BY <3>1, <3>2 DEF OpenInstall, OnTrial
  <2> QED
    BY <1>2, <2>1, <2>2 DEF MgrPause
<1>3. CASE MgrQuiesce
  <2>1. /\ Vouched' = Vouched /\ UNCHANGED <<paused, installing>> /\ mgr.pc = "quiesce"
        /\ mgr.kind = "install" /\ paused /\ mgr.previous \in Vouched
    BY <1>3 DEF MgrQuiesce, package, marks, Vouched, OpenInstall, PausedPcs
  <2>2. CASE Goto("unpause")
    BY <1>1, <2>1, <2>2 DEF PausedPcs
  <2>3. CASE ~Goto("unpause")
    <3> DEFINE m == [mgr EXCEPT !.was = /\ rec.runtime = "Running"
                                        /\ Alive(rec.proc)]
    <3>1. m \in Managers /\ m.kind = mgr.kind /\ m.previous = mgr.previous
      BY <1>0 DEF Managers, Alive, TypeOK, Backends
    <3>2. TakeProcess(m, "begin")
      BY <1>3, <2>3 DEF MgrQuiesce
    <3> HIDE DEF m
    <3>3. /\ mgr'.pc \in {"begin", "stop"} /\ mgr'.kind = "install"
          /\ mgr'.previous = mgr.previous /\ mgr'.next = "begin"
      BY <1>0, <2>1, <3>1, <3>2, TakeFields
    <3> QED
      BY <2>1, <3>3 DEF OpenInstall, OnTrial
  <2> QED
    BY <2>2, <2>3
<1>4. CASE MgrStop
  <2>1. /\ Vouched' = Vouched /\ UNCHANGED <<paused, installing>> /\ mgr.pc = "stop"
    BY <1>4 DEF MgrStop, package, Clear, Vouched
  <2>2. /\ mgr'.kind = mgr.kind /\ mgr'.previous = mgr.previous /\ mgr'.pc = mgr.next
        /\ mgr.next \in {"begin", "rollback", "remove"}
    BY <1>0, <1>4 DEF MgrStop, Managers, TInv, RoomToPlace
  <2>3. /\ mgr'.pc \in PausedPcs => mgr.kind = "install" /\ paused
        /\ mgr'.pc = "rollback" => installing
    BY <2>1, <2>2 DEF OpenInstall, OnTrial, PausedPcs
  <2> QED
    BY <2>1, <2>2, <2>3, OpenGoesOn
<1>5. CASE MgrBegin \/ MgrPlace
  <2>1. /\ Vouched' = Vouched /\ UNCHANGED paused /\ installing'
        /\ mgr.pc \in PausedPcs /\ \E pc \in {"place", "refresh"} : Goto(pc)
    BY <1>5 DEF MgrBegin, MgrPlace, package, marks, Vouched, OpenInstall, PausedPcs
  <2> QED
    BY <1>1, <2>1
<1>6. CASE MgrRefresh \/ MgrStart \/ MgrStarted \/ MgrRollback \/ MgrRefreshBack
  <2>1. /\ Vouched' = Vouched /\ UNCHANGED <<paused, installing>>
    BY <1>6 DEF MgrRefresh, MgrStart, MgrStarted, MgrRollback, MgrRefreshBack, package, marks,
       Vouched, Launch, Clear
  <2>2. mgr.pc \in PausedPcs
    BY <1>6 DEF MgrRefresh, MgrStart, MgrStarted, MgrRollback, MgrRefreshBack, PausedPcs
  <2>3. \/ /\ mgr.pc \in {"refresh", "start", "starting"}
           /\ \E pc \in {"start", "finish", "starting", "rollback"} : Goto(pc)
        \/ \E pc \in {"restart", "restarting", "release", "refreshBack"} : Goto(pc)
    BY <1>6 DEF MgrRefresh, MgrStart, MgrStarted, MgrRollback, MgrRefreshBack
  <2>4. mgr.pc \in {"refresh", "start", "starting"} => installing
    BY DEF OpenInstall, OnTrial
  <2> QED
    BY <1>1, <2>1, <2>2, <2>3, <2>4
<1>7. CASE MgrFinish
  <2>1. /\ Vouched \subseteq Vouched' /\ UNCHANGED <<paused, installing>> /\ mgr.pc = "finish"
    BY <1>7 DEF MgrFinish, marks, Vouched
  <2>2. CASE Goto("release")
    BY <1>1, <2>1, <2>2 DEF PausedPcs
  <2>3. CASE TakeProcess(mgr, "rollback")
    <3>1. /\ mgr'.pc \in {"rollback", "stop"} /\ mgr'.kind = mgr.kind
          /\ mgr'.previous = mgr.previous /\ mgr'.next = "rollback"
      BY <1>0, <2>3, TakeFields
    <3>2. mgr.kind = "install" /\ paused /\ installing
      BY <2>1 DEF OpenInstall, OnTrial, PausedPcs
    <3> QED
      BY <2>1, <3>1, <3>2 DEF OpenInstall
  <2> QED
    BY <1>7, <2>2, <2>3 DEF MgrFinish
<1>8. CASE MgrRelease \/ MgrRemove \/ MgrErase \/ MgrForget
  <2>1. /\ Vouched' = Vouched /\ UNCHANGED paused
        /\ \E pc \in {"unpause", "erase", "forget"} : Goto(pc)
    BY <1>8 DEF MgrRelease, MgrRemove, MgrErase, MgrForget, package, marks, Vouched
  <2>2. /\ mgr'.kind = mgr.kind /\ mgr'.previous = mgr.previous
        /\ mgr'.pc \in {"unpause", "erase", "forget"}
    BY <1>0, <2>1, GotoFields
  <2> QED
    BY <2>1, <2>2, OpenGoesOn DEF PausedPcs
<1>9. CASE MgrUnpause
  BY <1>9 DEF MgrUnpause, IdleMgr, OpenInstall, OnTrial, PausedPcs
<1> QED
  BY <1>2, <1>3, <1>4, <1>5, <1>6, <1>7, <1>8, <1>9 DEF Management

LEMMA BeginOpen ==
  ASSUME TypeOK, OpenInstall, SpeakersVouched, BeginInstall \/ BeginUninstall \/ Crash
  PROVE  OpenInstall'
<1>1. CASE BeginInstall
  <2>1. mgr'.pc = "pause" /\ mgr'.kind = "install" /\ mgr'.previous = bytes
    BY <1>1 DEF BeginInstall, IdleMgr
  <2>2. bytes \in Vouched /\ Vouched' = Vouched
    BY <1>1 DEF BeginInstall, SpeakersVouched, OnTrial, Vouched, package
  <2> QED
    BY <2>1, <2>2 DEF OpenInstall, OnTrial, PausedPcs
<1>2. CASE BeginUninstall
  <2> DEFINE m == [IdleMgr EXCEPT !.kind = "uninstall"]
  <2>1. m \in Managers /\ m.kind = "uninstall"
    BY DEF IdleMgr, Managers, MgrPcs
  <2>2. TakeProcess(m, "remove") /\ paused'
    BY <1>2 DEF BeginUninstall
  <2> HIDE DEF m
  <2>3. mgr'.pc \in {"remove", "stop"} /\ mgr'.kind = "uninstall" /\ mgr'.next = "remove"
    BY <2>1, <2>2, TakeFields
  <2> QED
    BY <2>2, <2>3 DEF OpenInstall, OnTrial, PausedPcs
<1>3. CASE Crash
  BY <1>3 DEF Crash, IdleMgr, OpenInstall, OnTrial, PausedPcs
<1> QED
  BY <1>1, <1>2, <1>3

--------------------------------------------------------------------------------
(* Steps keep SpeakersVouched.                                             *)

(* What the conclusions below need of a step.                              *)
AskersStay == \A r \in Requests : req'[r].pc = "act" => req'[r] = req[r]
BackendsStay == \A i \in Instances : inst[i].worker # "none" =>
                  inst'[i].worker # "none" /\ inst'[i].package = inst[i].package

LEMMA SpeakersGoOn ==
  ASSUME TInv, SpeakersVouched, AskersStay, BackendsStay,
         Vouched \subseteq Vouched', source'.package \in Vouched',
         bytes' \in Vouched' \/ OnTrial',
         \A i \in Instances : inst'[i].alive =>
           inst'[i].package \in Vouched' \/ (inst'[i].package = bytes' /\ OnTrial')
  PROVE  SpeakersVouched'
<1>1. ASSUME NEW r \in Requests, req'[r].pc = "act"
      PROVE  inst'[req'[r].of].worker # "none" /\ inst'[req'[r].of].package \in Vouched'
  <2>1. req'[r] = req[r] /\ req[r].pc = "act"
    BY <1>1 DEF AskersStay
  <2>2. req[r].of \in Instances
    BY <2>1 DEF TInv, AskersNamed
  <2>3. inst[req[r].of].worker # "none" /\ inst[req[r].of].package \in Vouched
    BY <2>1 DEF SpeakersVouched
  <2> QED
    BY <2>1, <2>2, <2>3 DEF BackendsStay
<1> QED
  BY <1>1 DEF SpeakersVouched

(* Where the package stays and nobody comes to life.                       *)
LEMMA SpeakersKept ==
  ASSUME TInv, SpeakersVouched, AskersStay, BackendsStay,
         Vouched \subseteq Vouched', source'.package \in Vouched', bytes' = bytes,
         OnTrial => OnTrial' \/ bytes \in Vouched',
         \A i \in Instances : inst'[i].alive => /\ inst[i].alive
                                                /\ inst'[i].package = inst[i].package
  PROVE  SpeakersVouched'
<1>1. bytes' \in Vouched' \/ OnTrial'
  BY DEF SpeakersVouched
<1>2. ASSUME NEW i \in Instances, inst'[i].alive
      PROVE  inst'[i].package \in Vouched' \/ (inst'[i].package = bytes' /\ OnTrial')
  BY <1>2 DEF SpeakersVouched
<1> QED
  BY <1>1, <1>2, SpeakersGoOn

LEMMA SpeakersLaunch ==
  ASSUME TInv, LivingInRecord, SpeakersVouched, NEW j \in Instances, Launch(j),
         mgr'.pc \notin StopPcs \cup QuietPcs, UNCHANGED <<req, source, package>>,
         bytes \in Vouched \/ OnTrial'
  PROVE  SpeakersVouched'
<1>1. /\ \A i \in Instances : inst'[i].alive => i = j
      /\ inst'[j].package = bytes /\ BackendsStay
  BY LaunchLiving DEF TInv, BackendsStay
<1>2. Vouched' = Vouched /\ bytes' = bytes /\ source' = source
  BY DEF package, Vouched
<1>3. AskersStay /\ source.package \in Vouched
  BY DEF AskersStay, SpeakersVouched
<1> QED
  BY <1>1, <1>2, <1>3, SpeakersGoOn

(* What makes a backend a speaker: it is let through while nothing         *)
(* installs, so its package is not on trial.                               *)
LEMMA RequestSpeakers ==
  ASSUME TInv, LivingInRecord, OpenInstall, SpeakersVouched, NEW r \in Requests,
         (\E i \in Instances, kind \in Kinds : Ask(r, i, kind)) \/ Wait(r) \/ Act(r)
  PROVE  SpeakersVouched'
<1>0. req \in [Requests -> Asked] /\ source \in Sources
  BY DEF TInv, TypeOK
<1>1. /\ UNCHANGED <<inst, package, mgr>> /\ Vouched' = Vouched /\ bytes' = bytes
      /\ OnTrial' = OnTrial
  BY DEF Ask, Wait, Act, package, Vouched, OnTrial
<1>2. BackendsStay
  BY <1>1 DEF BackendsStay
<1>3. ASSUME AskersStay, source'.package \in Vouched
      PROVE  SpeakersVouched'
  BY <1>1, <1>2, <1>3, SpeakersKept
<1>4. CASE \E i \in Instances, kind \in Kinds : Ask(r, i, kind)
  <2>1. \E i \in Instances, kind \in Kinds :
          req' = [req EXCEPT ![r] = [pc |-> "wait", of |-> i, kind |-> kind]]
    BY <1>4 DEF Ask
  <2>2. AskersStay
    BY <1>0, <2>1 DEF AskersStay
  <2> QED
    BY <1>3, <1>4, <2>2 DEF Ask, SpeakersVouched
<1>5. CASE Wait(r)
  <2>1. source' = source /\ req[r].pc = "wait"
    BY <1>5 DEF Wait
  <2>2. CASE req' = [req EXCEPT ![r] = Idle]
    <3>1. AskersStay
      BY <1>0, <2>2 DEF AskersStay, Idle
    <3> QED
      BY <1>3, <2>1, <3>1 DEF SpeakersVouched
  <2>3. CASE /\ inst[req[r].of].alive /\ ~Held(req[r].of)
             /\ req' = [req EXCEPT ![r].pc = "act"]
    <3>1. req[r].of \in Instances /\ ~installing
      BY <2>1, <2>3 DEF TInv, AskersNamed, Held
    <3>2. ~OnTrial
      BY <3>1 DEF OpenInstall
    <3>3. inst[req[r].of].package \in Vouched /\ inst[req[r].of].worker # "none"
      BY <2>3, <3>1, <3>2 DEF SpeakersVouched, LivingInRecord
    <3>4. req'[r].of = req[r].of /\ \A s \in Requests \ {r} : req'[s] = req[s]
      BY <1>0, <2>3 DEF Asked
    <3> QED
      BY <1>1, <2>1, <3>3, <3>4 DEF SpeakersVouched
  <2> QED
    BY <1>5, <2>2, <2>3 DEF Wait
<1>6. CASE Act(r)
  <2>1. req[r].pc = "act" /\ req' = [req EXCEPT ![r] = Idle]
    BY <1>6 DEF Act
  <2>2. AskersStay
    BY <1>0, <2>1 DEF AskersStay, Idle
  <2>3. inst[req[r].of].package \in Vouched
    BY <2>1 DEF SpeakersVouched
  <2>4. \/ source' = source
        \/ source' = [instance |-> req[r].of, package |-> inst[req[r].of].package]
    BY <1>6 DEF Act, Report
  <2>5. source'.package \in Vouched
    BY <2>3, <2>4 DEF SpeakersVouched
  <2> QED
    BY <1>3, <2>2, <2>5
<1> QED
  BY <1>4, <1>5, <1>6

(* Erasing the record names no new package.                                *)
LEMMA EraseSource ==
  ASSUME TypeOK, SpeakersVouched, Erase, Vouched' = Vouched
  PROVE  source'.package \in Vouched'
<1>1. source' = source \/ source' = [source EXCEPT !.package = NoPackage]
  BY DEF Erase
<1>2. source \in Sources /\ source.package \in Vouched /\ NoPackage \in Vouched
  BY DEF TypeOK, SpeakersVouched, Vouched
<1> QED
  BY <1>1, <1>2 DEF Sources

LEMMA ManagementSpeakers ==
  ASSUME TInv, LivingInRecord, OpenInstall, SpeakersVouched, Management
  PROVE  SpeakersVouched'
<1>0. TypeOK /\ mgr \in Managers /\ source.package \in Vouched
  BY DEF TInv, TypeOK, SpeakersVouched
<1>1. UNCHANGED req /\ AskersStay
  BY DEF Management, MgrPause, MgrQuiesce, MgrStop, MgrBegin, MgrPlace, MgrRefresh, MgrStart,
     MgrStarted, MgrFinish, MgrRollback, MgrRefreshBack, MgrRelease, MgrUnpause, MgrRemove,
     MgrErase, MgrForget, AskersStay
<1>2. ASSUME UNCHANGED inst PROVE BackendsStay
  BY <1>2 DEF BackendsStay
(* The steps that leave the package and the backends alone.                *)
<1>3. ASSUME UNCHANGED <<inst, source, bytes>>, Vouched \subseteq Vouched',
             OnTrial => OnTrial' \/ bytes \in Vouched'
      PROVE  SpeakersVouched'
  BY <1>0, <1>1, <1>2, <1>3, SpeakersKept
<1>4. ASSUME UNCHANGED package PROVE Vouched' = Vouched /\ bytes' = bytes
  BY <1>4 DEF package, Vouched
<1>5. CASE MgrPause \/ MgrQuiesce \/ MgrBegin \/ MgrRefreshBack \/ MgrRelease \/ MgrUnpause
           \/ MgrForget
  <2>1. /\ UNCHANGED <<inst, source, package>>
        /\ mgr.pc \in {"pause", "quiesce", "begin", "refreshBack", "release", "unpause",
                       "forget"}
    BY <1>5 DEF MgrPause, MgrQuiesce, MgrBegin, MgrRefreshBack, MgrRelease, MgrUnpause,
       MgrForget
  <2> QED
    BY <1>3, <1>4, <2>1 DEF OnTrial
<1>6. CASE MgrStop
  <2>1. /\ UNCHANGED <<source, package>> /\ inst' = Stopping({mgr.victim})
        /\ mgr.pc = "stop" /\ mgr'.pc = mgr.next
    BY <1>0, <1>6 DEF MgrStop, Managers
  <2>2. OnTrial => OnTrial'
    BY <2>1 DEF OnTrial
  <2>3. \A i \in Instances : /\ inst'[i].alive => inst[i].alive
                             /\ inst'[i].package = inst[i].package
                             /\ inst'[i].worker = inst[i].worker
    BY <1>0, <2>1 DEF Stopping, TypeOK, Backends
  <2> QED
    BY <1>0, <1>1, <1>4, <2>1, <2>2, <2>3, SpeakersKept DEF BackendsStay
<1>7. CASE MgrPlace
  <2>1. /\ UNCHANGED <<inst, source>> /\ Vouched' = Vouched /\ ~OnTrial
        /\ Goto("refresh")
    BY <1>7 DEF MgrPlace, OnTrial, Vouched
  <2>2. OnTrial'
    BY <1>0, <2>1, GotoFields DEF OnTrial
  <2> QED
    BY <1>0, <1>1, <1>2, <2>1, <2>2, SpeakersGoOn DEF SpeakersVouched
<1>8. CASE MgrRefresh
  <2>1. /\ UNCHANGED <<inst, source, package>>
        /\ \E pc \in {"start", "finish"} : Goto(pc)
    BY <1>8 DEF MgrRefresh
  <2>2. OnTrial'
    BY <1>0, <2>1, GotoFields DEF OnTrial
  <2> QED
    BY <1>3, <1>4, <2>1, <2>2
<1>9. CASE MgrStart
  <2>1. /\ UNCHANGED <<source, package>> /\ mgr.pc \in {"start", "restart"}
        /\ mgr'.pc = IF mgr.pc = "start" THEN "starting" ELSE "restarting"
    BY <1>0, <1>9, GotoFields DEF MgrStart
  <2>2. /\ OnTrial => OnTrial'
        /\ mgr.pc = "restart" => ~OnTrial
        /\ mgr.pc = "start" => OnTrial'
    BY <2>1 DEF OnTrial
  <2>3. CASE UNCHANGED inst
    BY <1>3, <1>4, <2>1, <2>2, <2>3
  <2>4. CASE \E i \in Fresh : Launch(i)
    <3>1. PICK j \in Instances : Launch(j)
      BY <2>4 DEF Fresh
    <3>2. bytes \in Vouched \/ OnTrial'
      BY <2>1, <2>2 DEF SpeakersVouched
    <3>3. mgr'.pc \notin StopPcs \cup QuietPcs
      BY <2>1 DEF StopPcs, QuietPcs
    <3> QED
      BY <1>1, <2>1, <3>1, <3>2, <3>3, SpeakersLaunch
  <2> QED
    BY <1>9, <2>3, <2>4 DEF MgrStart
<1>10. CASE MgrStarted
  <2>1. /\ UNCHANGED <<inst, source, package>>
        /\ \/ mgr.pc = "restarting"
           \/ \E pc \in {"finish", "rollback"} : Goto(pc)
    BY <1>10 DEF MgrStarted
  <2>2. OnTrial => OnTrial'
    BY <1>0, <2>1, GotoFields DEF OnTrial
  <2> QED
    BY <1>3, <1>4, <2>1, <2>2
<1>11. CASE MgrFinish
  <2>1. UNCHANGED <<inst, source>> /\ mgr.pc = "finish"
    BY <1>11 DEF MgrFinish
  <2>2. CASE good' = good \cup {bytes} /\ UNCHANGED <<bytes, abandoned>>
    BY <1>3, <2>1, <2>2 DEF Vouched
  <2>3. CASE /\ UNCHANGED good /\ bytes' = mgr.previous
             /\ abandoned' = abandoned \cup {bytes}
    <3>1. mgr.previous \in Vouched /\ Vouched \subseteq Vouched' /\ bytes \in Vouched'
      BY <2>1, <2>3 DEF OpenInstall, PausedPcs, Vouched
    <3>2. \A i \in Instances : inst'[i].alive => inst'[i].package \in Vouched'
      BY <2>1, <3>1 DEF SpeakersVouched
    <3> QED
      BY <1>0, <1>1, <1>2, <2>1, <2>3, <3>1, <3>2, SpeakersGoOn
  <2>4. CASE /\ UNCHANGED <<good, bytes, abandoned>>
             /\ TakeProcess(mgr, "rollback")
    <3>1. OnTrial'
      BY <1>0, <2>4, TakeFields DEF OnTrial
    <3> QED
      BY <1>3, <2>1, <2>4, <3>1 DEF Vouched
  <2> QED
    BY <1>11, <2>2, <2>3, <2>4 DEF MgrFinish
<1>12. CASE MgrRollback \/ MgrRemove
  <2>1. /\ UNCHANGED <<inst, source, good, abandoned>> /\ mgr.pc \in {"rollback", "remove"}
        /\ bytes' \in {mgr.previous, NoPackage}
        /\ bytes' # NoPackage => mgr.pc = "rollback" /\ bytes' = mgr.previous
    BY <1>12 DEF MgrRollback, MgrRemove
  <2>2. mgr.pc = "rollback" => mgr.previous \in Vouched
    BY DEF OpenInstall, PausedPcs
  <2>3. Vouched' = Vouched /\ bytes' \in Vouched
    BY <2>1, <2>2 DEF Vouched
  <2>4. \A i \in Instances : ~inst'[i].alive
    BY <2>1 DEF LivingInRecord, QuietPcs, NoneAlive
  <2> QED
    BY <1>0, <1>1, <1>2, <2>1, <2>3, <2>4, SpeakersGoOn
<1>13. CASE MgrErase
  <2>1. UNCHANGED <<inst, package>> /\ mgr.pc = "erase" /\ Erase
    BY <1>13 DEF MgrErase
  <2>2. source'.package \in Vouched' /\ ~OnTrial
    BY <1>0, <1>4, <2>1, EraseSource DEF OnTrial
  <2> QED
    BY <1>1, <1>2, <1>4, <2>1, <2>2, SpeakersKept
<1> QED
  BY <1>5, <1>6, <1>7, <1>8, <1>9, <1>10, <1>11, <1>12, <1>13 DEF Management

(* The operations that begin, and the crash: nothing is on trial before an *)
(* installation, and recovery leaves what is vouched for.                  *)
LEMMA BeginSpeakers ==
  ASSUME TInv, LivingInRecord, OpenInstall, SpeakersVouched,
         BeginInstall \/ BeginUninstall \/ Crash
  PROVE  SpeakersVouched'
<1>1. CASE BeginInstall \/ BeginUninstall
  <2>1. UNCHANGED <<inst, req, source, package>> /\ mgr.pc = "idle"
    BY <1>1 DEF BeginInstall, BeginUninstall
  <2>2. Vouched' = Vouched /\ bytes' = bytes /\ ~OnTrial /\ AskersStay /\ BackendsStay
    BY <2>1 DEF package, Vouched, OnTrial, AskersStay, BackendsStay
  <2> QED
    BY <2>1, <2>2, SpeakersKept DEF SpeakersVouched
<1>2. CASE Crash
  <2>1. Vouched' = Vouched /\ source' = source /\ bytes' = Installed
    BY <1>2 DEF Crash, Vouched
  <2>2. \A r \in Requests : req'[r].pc # "act"
    BY <1>2 DEF Crash, Idle
  <2>3. Installed \in Vouched
    <3>1. OnTrial => mgr.kind = "install"
      BY DEF OnTrial, OpenInstall, PausedPcs
    <3>2. CASE mgr.kind = "install" /\ bytes \notin good
      BY <3>2 DEF Installed, OpenInstall
    <3>3. CASE ~(mgr.kind = "install" /\ bytes \notin good)
      BY <3>1, <3>3 DEF Installed, SpeakersVouched, Vouched
    <3> QED
      BY <3>2, <3>3
  <2>4. \A i \in Instances : ~inst'[i].alive
    <3>1. LivingInRecord'
      BY <1>2, BeginLiving DEF TInv
    <3>2. rec'.runtime = "Stopped" /\ mgr'.pc = "idle"
      BY <1>2 DEF Crash, Unknown, IdleMgr
    <3> QED
      BY <3>1, <3>2 DEF LivingInRecord
  <2> QED
    BY <2>1, <2>2, <2>3, <2>4 DEF SpeakersVouched
<1> QED
  BY <1>1, <1>2

--------------------------------------------------------------------------------
(* CommitInv holds in every reachable state, where the plugin is not       *)
(* restored in the background.                                             *)

LEMMA ActivateCommit ==
  ASSUME TInv, QuietInv, CommitInv, ~Restores, NEW j \in Instances, Activate(j)
  PROVE  CommitInv'
<1>1. Launch(j) /\ UNCHANGED <<req, mgr, package, source>> /\ rec.runtime # "Stopping"
  BY DEF Activate, Launch, MayLaunch
<1>2. ~(paused /\ mgr.kind = "install")
  BY NoActivation
<1>3. mgr.pc \notin PausedPcs /\ ~OnTrial
  BY <1>2 DEF CommitInv, OpenInstall, OnTrial, PausedPcs
<1>4. mgr'.pc \notin StopPcs \cup QuietPcs
  BY <1>1, <1>3 DEF CommitInv, LivingInRecord, StopPcs, QuietPcs, PausedPcs
<1>5. LivingInRecord'
  BY <1>1, <1>4, LaunchLiving DEF TInv, CommitInv
<1>6. SpeakersVouched'
  BY <1>1, <1>3, <1>4, SpeakersLaunch DEF CommitInv, SpeakersVouched
<1>7. OpenInstall'
  BY <1>1, OpenKept DEF CommitInv, Launch, Clear, package
<1> QED
  BY <1>5, <1>6, <1>7 DEF CommitInv

LEMMA BackendCommit ==
  ASSUME TInv, CommitInv, NEW j \in Instances,
         Starts(j) \/ ChildDies(j) \/ ReaderEnds(j)
  PROVE  CommitInv'
<1>1. /\ LivingInRecord'
      /\ \A i \in Instances :
           /\ inst'[i].alive => inst[i].alive
           /\ inst[i].worker # "none" => inst'[i].worker # "none"
           /\ inst'[i].package = inst[i].package
  BY BackendLiving DEF TInv, CommitInv
<1>2. UNCHANGED <<req, mgr, package, source, paused, installing>>
  BY DEF Starts, Hello, Check, Connect, ChildDies, ReaderEnds, Clear, marks
<1>3. /\ Vouched' = Vouched /\ OnTrial' = OnTrial /\ bytes' = bytes
      /\ AskersStay /\ BackendsStay
  BY <1>1, <1>2 DEF package, Vouched, OnTrial, AskersStay, BackendsStay
<1>4. SpeakersVouched'
  BY <1>1, <1>2, <1>3, SpeakersKept DEF CommitInv, SpeakersVouched
<1>5. OpenInstall'
  BY <1>2, OpenKept DEF CommitInv, package
<1> QED
  BY <1>1, <1>4, <1>5 DEF CommitInv

(* The other steps of backends, callers and the host, and stuttering.      *)
LEMMA OtherCommit ==
  ASSUME TInv, CommitInv,
         \/ \E i \in Instances : EndActivity(i)
         \/ EnterCall \/ LeaveCall \/ Cleanup \/ BeginUpgrade \/ EndUpgrade
         \/ UNCHANGED vars
  PROVE  CommitInv'
<1>1. UNCHANGED <<inst, rec, req, mgr, package, paused, installing>>
  BY DEF EndActivity, EnterCall, LeaveCall, Cleanup, BeginUpgrade, EndUpgrade, marks, vars
<1>2. /\ Vouched' = Vouched /\ OnTrial' = OnTrial /\ bytes' = bytes
      /\ AskersStay /\ BackendsStay
  BY <1>1 DEF package, Vouched, OnTrial, AskersStay, BackendsStay
<1>3. source' = source \/ Erase
  BY DEF EndActivity, EnterCall, LeaveCall, Cleanup, BeginUpgrade, EndUpgrade, vars
<1>4. source'.package \in Vouched'
  BY <1>2, <1>3, EraseSource DEF TInv, CommitInv, SpeakersVouched
<1>5. SpeakersVouched'
  BY <1>1, <1>2, <1>4, SpeakersKept DEF CommitInv
<1>6. OpenInstall'
  BY <1>1, OpenKept DEF CommitInv, package
<1>7. \A i \in Instances : Wanted(i)' = Wanted(i)
  BY <1>1 DEF Wanted
<1>8. LivingInRecord'
  BY <1>1, <1>7 DEF CommitInv, LivingInRecord, NoneAlive
<1> QED
  BY <1>5, <1>6, <1>8 DEF CommitInv

LEMMA RequestCommit ==
  ASSUME TInv, CommitInv, NEW r \in Requests,
         (\E i \in Instances, kind \in Kinds : Ask(r, i, kind)) \/ Wait(r) \/ Act(r)
  PROVE  CommitInv'
<1>1. UNCHANGED <<inst, rec, mgr, package, paused, installing>>
  BY DEF Ask, Wait, Act, marks
<1>2. OpenInstall'
  BY <1>1, OpenKept DEF CommitInv, package
<1>3. \A i \in Instances : Wanted(i)' = Wanted(i)
  BY <1>1 DEF Wanted
<1>4. LivingInRecord'
  BY <1>1, <1>3 DEF CommitInv, LivingInRecord, NoneAlive
<1> QED
  BY <1>2, <1>4, RequestSpeakers DEF CommitInv

LEMMA CommitHolds == ASSUME ~Restores PROVE Spec => []CommitInv
<1>1. Init => CommitInv
  <2> SUFFICES ASSUME Init PROVE CommitInv
    OBVIOUS
  <2>1. \A i \in Instances : inst[i] = NotStarted
    BY DEF Init
  <2>2. rec = [Unknown EXCEPT !.known = TRUE] /\ mgr = IdleMgr
    BY DEF Init
  <2>3. rec.runtime = "Stopped" /\ mgr.pc = "idle" /\ mgr.kind = "none"
    BY <2>2 DEF Unknown, IdleMgr
  <2>4. LivingInRecord
    BY <2>1, <2>3 DEF LivingInRecord, NotStarted, StopPcs, QuietPcs
  <2>5. OpenInstall
    BY <2>3 DEF OpenInstall, OnTrial, PausedPcs
  <2>6. bytes \in Vouched /\ source.package \in Vouched
    BY DEF Init, Vouched
  <2>7. \A r \in Requests : req[r].pc # "act"
    BY DEF Init, Idle
  <2>8. SpeakersVouched
    BY <2>1, <2>6, <2>7 DEF SpeakersVouched, NotStarted
  <2> QED
    BY <2>4, <2>5, <2>8 DEF CommitInv
<1>2. TInv /\ QuietInv /\ CommitInv /\ [Next]_vars => CommitInv'
  <2> SUFFICES ASSUME TInv, QuietInv, CommitInv, [Next]_vars PROVE CommitInv'
    OBVIOUS
  <2>1. CASE Management
    BY <2>1, ManagementLiving, ManagementOpen, ManagementSpeakers DEF CommitInv
  <2>2. CASE BeginInstall \/ BeginUninstall \/ Crash
    BY <2>2, BeginLiving, BeginOpen, BeginSpeakers DEF CommitInv, TInv
  <2>3. CASE \E i \in Instances : Activate(i)
    BY <2>3, ActivateCommit
  <2>4. CASE \E i \in Instances : Starts(i) \/ ChildDies(i) \/ ReaderEnds(i)
    BY <2>4, BackendCommit
  <2>5. CASE \E r \in Requests : \/ \E i \in Instances, kind \in Kinds : Ask(r, i, kind)
                                 \/ Wait(r) \/ Act(r)
    BY <2>5, RequestCommit
  <2>6. CASE \/ \E i \in Instances : EndActivity(i)
             \/ EnterCall \/ LeaveCall \/ Cleanup \/ BeginUpgrade \/ EndUpgrade
             \/ UNCHANGED vars
    BY <2>6, OtherCommit
  <2> QED
    BY <2>1, <2>2, <2>3, <2>4, <2>5, <2>6 DEF Next
<1> QED
  BY <1>1, <1>2, TypesHold, QuietHolds, PTL DEF Spec

(* IntentIsCommitted: where the host does not restore the plugin in the    *)
(* background, what it remembers of it was said by a package whose         *)
(* installation was committed, or that was left running when its own       *)
(* failed.  Reports of a replacement wait (begin_install, wait_instance),  *)
(* and end with it.                                                        *)
THEOREM IntentCommitted == ASSUME ~Restores PROVE Spec => []IntentIsCommitted
<1>1. CommitInv => IntentIsCommitted
  BY DEF CommitInv, SpeakersVouched, Vouched, IntentIsCommitted
<1> QED
  BY <1>1, CommitHolds, PTL

(* Nothing was left running when its installation failed.                  *)
NoneAbandoned == abandoned = {}

(* IntentOutlivesInstallation: where in addition the completion marker of  *)
(* an installation can always be written, no package is left running when  *)
(* its installation failed, and only committed ones are believed.  So the  *)
(* failure of that write is all that the property can fail by.             *)
THEOREM IntentOutlives ==
  ASSUME ~Restores, "commit" \notin Faults
  PROVE  Spec => []IntentOutlivesInstallation
<1>1. Init => NoneAbandoned
  BY DEF Init, NoneAbandoned
<1>2. NoneAbandoned /\ [Next]_vars => NoneAbandoned'
  <2> SUFFICES ASSUME abandoned = {}, [Next]_vars PROVE abandoned' = {}
    BY DEF NoneAbandoned
  <2>1. CASE Management
    BY <2>1 DEF Management, MgrPause, MgrQuiesce, MgrStop, MgrBegin, MgrPlace, MgrRefresh,
       MgrStart, MgrStarted, MgrFinish, MgrRollback, MgrRefreshBack, MgrRelease, MgrUnpause,
       MgrRemove, MgrErase, MgrForget, package, Fault
  <2>2. CASE UNCHANGED package \/ UNCHANGED abandoned
    BY <2>2 DEF package
  <2>3. CASE ~Management /\ Next
    BY <2>2, <2>3 DEF Next, Activate, Starts, Hello, Check, Connect, ChildDies, ReaderEnds,
       EndActivity, Ask, Wait, Act, EnterCall, LeaveCall, BeginInstall, BeginUninstall,
       Cleanup, BeginUpgrade, EndUpgrade, Crash
  <2>4. CASE UNCHANGED vars
    BY <2>4 DEF vars, package
  <2> QED
    BY <2>1, <2>3, <2>4
<1>3. IntentIsCommitted /\ NoneAbandoned => IntentOutlivesInstallation
  BY DEF NoneAbandoned, IntentIsCommitted, IntentOutlivesInstallation
<1>4. Spec => []IntentIsCommitted
  BY IntentCommitted
<1> QED
  BY <1>1, <1>2, <1>3, <1>4, PTL DEF Spec

================================================================================
