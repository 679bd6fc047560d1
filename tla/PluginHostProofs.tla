---------------------------- MODULE PluginHostProofs ----------------------------
(***************************************************************************)
(* Proofs about PluginHost for every set of plugins, packages, callers,    *)
(* restoring threads and workers, every number of process objects and      *)
(* every budget of calls, operations and faults; the last two theorems     *)
(* name what an installation must not meet.                                *)
(***************************************************************************)
EXTENDS PluginHost, FiniteSetTheorems, SequenceTheorems, TLAPS

--------------------------------------------------------------------------------
(* The inductive invariant.                                                *)

(* What a record, a worker's task and a management operation refer to,     *)
(* given the process objects ps: a record or a thread that names a process *)
(* names one of its plugin.                                                *)
RecordSound(p, r, ps) ==
  /\ r \in Record
  /\ r.known <=> r.pkg # None
  /\ r.enabled => r.known
  /\ r.proc # NoProc => ps[r.proc].plugin = p

TaskSound(t, ps) ==
  /\ t \in Task
  /\ t.pc \in TaskPcs => t.plugin \in Plugins
  /\ t.pc \in StartPcs => t.pkg \in Packages
  /\ t.pc \in {"stopPrevious", "register", "hello", "reject", "discard"} => t.proc # NoProc
  /\ t.proc # NoProc => ps[t.proc].plugin = t.plugin

UserSound(t) == t \in User /\ (t.pc # "idle" => t.plugin \in Plugins)

OperationSound(m, ps) ==
  /\ m \in Operation
  /\ m.pc # "idle" => m.plugin \in Plugins
  /\ m.pc \in {"invalidate", "stop"} => m.kind \in {"disable", "uninstall", "install"}
  /\ m.pc \in {"pause", "unlink", "place", "refresh", "rollback", "refreshBack"}
       => m.kind = "install"
  /\ m.kind = "install" => m.new \in Packages
  /\ m.pc \in {"rollback", "refreshBack"} => m.old \in Packages
  /\ m.proc # NoProc => ps[m.proc].plugin = m.plugin

RecordsSound == rec \in [Plugins -> Record] /\ \A p \in Plugins : RecordSound(p, rec[p], procs)
TasksSound == worker \in [Workers -> Task] /\ \A w \in Workers : TaskSound(worker[w], procs)
UsersSound == user \in [Users -> User] /\ \A u \in Users : UserSound(user[u])
ManagerSound == OperationSound(mgr, procs)

QueueTyped ==
  /\ att \in [Plugins -> Attempt \cup {None}]
  /\ pending \in Seq(Plugins) /\ IsInjective(pending)
  /\ closed \in BOOLEAN

RestTyped ==
  /\ disk \in [Plugins -> [Places -> Packages \cup {None}]]
  /\ sd \in [pc : SdPcs, procs : SUBSET ProcIds]
  /\ frozen \in BOOLEAN
  /\ budget \in Budget

ProcsTyped == procs \in [ProcIds -> Process]

Typed == /\ RecordsSound /\ TasksSound /\ UsersSound /\ ManagerSound
         /\ QueueTyped /\ RestTyped /\ ProcsTyped

(* A step that changes no process object anyone refers to into one of      *)
(* another plugin.                                                         *)
ProcsKept ==
  /\ ProcsTyped'
  /\ \A s \in ProcIds : Referenced(s) => procs'[s].plugin = procs[s].plugin

(* One attempt per plugin, queued or held by one worker, and a thread that *)
(* waits has one.                                                          *)
Holds(w, p) == HasTask(w) /\ ~worker[w].cancelled /\ worker[w].plugin = p

QueueSound ==
  /\ \A p \in Plugins : Contains(pending, p) =>
       /\ att[p] # None
       /\ \A w \in Workers : ~Holds(w, p)
  /\ \A p \in Plugins, w \in Workers : Holds(w, p) =>
       /\ att[p] # None
       /\ \A v \in Workers : Holds(v, p) => v = w
  /\ \A p \in Plugins : att[p] # None => Contains(pending, p) \/ \E w \in Workers : Holds(w, p)
  /\ pending # <<>> => \E w \in Workers : worker[w].pc # "off"
  /\ closed => pending = <<>>
  /\ \A u \in Users : user[u].pc = "wait" => att[user[u].plugin] # None

(* A plugin that is disabled, and every plugin once shutdown took the      *)
(* processes, is down.                                                     *)
MustBeDown(p) == ~rec[p].enabled \/ sd.pc \in {"stopping", "done"}
KeptDown ==
  \A p \in Plugins : MustBeDown(p) =>
    rec[p].runtime \notin {"Starting", "Running"} /\ ~Alive(rec[p].proc)

(* The worker that will record the result of the start of p.               *)
Starts(w, p) == /\ worker[w].pc \in StartPcs
                /\ worker[w].plugin = p /\ worker[w].rev = rec[p].rev
                /\ PlaceOf[worker[w].pkg] = PlaceOf[rec[p].pkg]
StartsOwned ==
  \A p \in Plugins : rec[p].runtime = "Starting" /\ sd.pc = "no" => \E w \in Workers : Starts(w, p)

(* The manager that will record the end of a stop.                         *)
StopsOwned ==
  /\ \A p \in Plugins : rec[p].runtime = "Stopping" =>
       mgr.plugin = p /\ mgr.pc \in {"invalidate", "stop", "remove", "forget"}
  /\ mgr.pc = "invalidate" /\ mgr.kind = "install" /\ mgr.proc = NoProc
       => rec[mgr.plugin].runtime # "Stopping"

(* The freeze of a Core upgrade.                                           *)
FreezeHolds ==
  frozen => /\ FrozenIsQuiet
            /\ mgr.pc = "idle"
            /\ \A p \in Plugins : att[p] = None
--------------------------------------------------------------------------------
(* The pending queue.                                                      *)

USE ConstantsAssumption

LEMMA WithoutQueue ==
  ASSUME NEW q \in Seq(Plugins), IsInjective(q), NEW p \in Plugins
  PROVE  /\ Without(q, p) \in Seq(Plugins)
         /\ IsInjective(Without(q, p))
         /\ \A x \in Plugins : Contains(Without(q, p), x) <=> Contains(q, x) /\ x # p
<1>1. CASE ~Contains(q, p)
  BY <1>1 DEF Without
<1>2. CASE Contains(q, p)
  <2> DEFINE i == Position(q, p)
             a == SubSeq(q, 1, i - 1)
             b == SubSeq(q, i + 1, Len(q))
             r == a \o b
  <2>1. i \in 1..Len(q) /\ q[i] = p
    BY <1>2 DEF Contains, Position
  <2> HIDE DEF i
  <2>2. Len(q) \in Nat /\ (\A j \in 1..Len(q) : q[j] \in Plugins) /\ DOMAIN q = 1..Len(q)
    BY LenProperties, ElementOfSeq
  <2>3. /\ a \in Seq(Plugins) /\ Len(a) = i - 1
        /\ \A j \in 1..(i - 1) : a[j] = q[j]
    <3>1. \A j \in 1..(i - 1) : q[j] \in Plugins
      BY <2>1, <2>2
    <3>2. /\ a \in Seq(Plugins) /\ Len(a) = IF 1 <= i - 1 THEN i - 1 - 1 + 1 ELSE 0
          /\ \A j \in 1..(i - 1 - 1 + 1) : a[j] = q[1 + j - 1]
      BY <2>1, <2>2, <3>1, SubSeqProperties
    <3> QED
      BY <2>1, <2>2, <3>2
  <2>4. /\ b \in Seq(Plugins) /\ Len(b) = Len(q) - i
        /\ \A j \in 1..(Len(q) - i) : b[j] = q[i + j]
    <3>1. \A j \in (i + 1)..Len(q) : q[j] \in Plugins
      BY <2>1, <2>2
    <3>2. /\ b \in Seq(Plugins) /\ Len(b) = IF i + 1 <= Len(q) THEN Len(q) - (i + 1) + 1 ELSE 0
          /\ \A j \in 1..(Len(q) - (i + 1) + 1) : b[j] = q[(i + 1) + j - 1]
      BY <2>1, <2>2, <3>1, SubSeqProperties
    <3> HIDE DEF b
    <3>3. Len(b) = Len(q) - i
      <4>1. Len(b) = IF i + 1 <= Len(q) THEN Len(q) - (i + 1) + 1 ELSE 0
        BY <3>2
      <4>2. CASE i + 1 <= Len(q)
        BY <2>1, <2>2, <4>1, <4>2
      <4>3. CASE i = Len(q)
        BY <2>1, <2>2, <4>1, <4>3
      <4>4. i \in 1..Len(q) /\ Len(q) \in Nat
        BY <2>1, <2>2
      <4>5. i + 1 <= Len(q) \/ i = Len(q)
        BY <4>4
      <4> QED
        BY <4>2, <4>3, <4>5
    <3>4. ASSUME NEW j \in 1..(Len(q) - i)
          PROVE  b[j] = q[i + j]
      <4>1. j \in 1..(Len(q) - (i + 1) + 1) /\ (i + 1) + j - 1 = i + j
        BY <2>1, <2>2
      <4> QED
        BY <3>2, <4>1
    <3> QED
      BY <3>2, <3>3, <3>4
  <2> HIDE DEF a, b
  <2>5. /\ r \in Seq(Plugins) /\ Len(r) = Len(q) - 1
        /\ \A j \in 1..(Len(q) - 1) : r[j] = IF j < i THEN q[j] ELSE q[j + 1]
    <3>0. a \in Seq(Plugins) /\ b \in Seq(Plugins)
      BY <2>3, <2>4
    <3>1. /\ r \in Seq(Plugins) /\ Len(r) = Len(a) + Len(b)
          /\ \A j \in 1..(Len(a) + Len(b)) : r[j] = IF j <= Len(a) THEN a[j] ELSE b[j - Len(a)]
      BY <3>0, ConcatProperties, Zenon
    <3> HIDE DEF r
    <3>2. Len(a) + Len(b) = Len(q) - 1
      BY <2>1, <2>2, <2>3, <2>4
    <3>3. ASSUME NEW j \in 1..(Len(q) - 1)
          PROVE  r[j] = IF j < i THEN q[j] ELSE q[j + 1]
      <4>1. CASE j < i
        BY <2>1, <2>2, <2>3, <3>1, <3>2, <4>1
      <4>2. CASE j >= i
        <5>1. j - (i - 1) \in 1..(Len(q) - i) /\ i + (j - (i - 1)) = j + 1 /\ ~(j <= i - 1)
          BY <2>1, <2>2, <4>2
        <5>2. b[j - (i - 1)] = q[j + 1]
          BY <2>4, <5>1
        <5> QED
          BY <2>1, <2>3, <3>1, <3>2, <4>2, <5>1, <5>2
      <4> QED
        BY <2>1, <2>2, <4>1, <4>2
    <3> QED
      BY <3>1, <3>2, <3>3
  <2>6. Without(q, p) = r
    BY <1>2 DEF Without, RemoveAt, i, a, b
  <2> HIDE DEF r
  <2>7. \A j, k \in 1..Len(q) : q[j] = q[k] => j = k
    BY <2>2 DEF IsInjective
  <2>8. IsInjective(r)
    <3>1. DOMAIN r = 1..(Len(q) - 1)
      BY <2>5, LenProperties
    <3>2. ASSUME NEW j \in 1..(Len(q) - 1), NEW k \in 1..(Len(q) - 1), r[j] = r[k]
          PROVE  j = k
      BY <2>1, <2>2, <2>5, <2>7, <3>2
    <3> QED
      BY <3>1, <3>2 DEF IsInjective
  <2>9. ASSUME NEW x \in Plugins
        PROVE  Contains(r, x) <=> Contains(q, x) /\ x # p
    <3>1. ASSUME NEW j \in 1..Len(r), r[j] = x
          PROVE  Contains(q, x) /\ x # p
      BY <2>1, <2>2, <2>5, <2>7, <3>1 DEF Contains
    <3>2. ASSUME NEW j \in 1..Len(q), q[j] = x, x # p
          PROVE  Contains(r, x)
      <4>1. CASE j < i
        BY <2>1, <2>2, <2>5, <3>2, <4>1 DEF Contains
      <4>2. CASE j > i
        <5>1. j - 1 \in 1..Len(r) /\ r[j - 1] = q[j]
          BY <2>1, <2>2, <2>5, <4>2
        <5> QED
          BY <3>2, <5>1 DEF Contains
      <4> QED
        BY <2>1, <2>2, <3>2, <4>1, <4>2
    <3> QED
      BY <3>1, <3>2 DEF Contains
  <2> QED
    BY <2>5, <2>6, <2>8, <2>9
<1> QED
  BY <1>1, <1>2

LEMMA FrontQueue ==
  ASSUME NEW q \in Seq(Plugins), IsInjective(q), NEW p \in Plugins, ~Contains(q, p)
  PROVE  /\ <<p>> \o q \in Seq(Plugins)
         /\ IsInjective(<<p>> \o q)
         /\ \A x \in Plugins : Contains(<<p>> \o q, x) <=> Contains(q, x) \/ x = p
<1> DEFINE r == <<p>> \o q
<1>1. Len(q) \in Nat /\ DOMAIN q = 1..Len(q)
  BY LenProperties
<1>2. /\ r \in Seq(Plugins) /\ Len(r) = 1 + Len(q)
      /\ \A j \in 1..(1 + Len(q)) : r[j] = IF j <= 1 THEN p ELSE q[j - 1]
  <2>1. <<p>> \in Seq(Plugins) /\ Len(<<p>>) = 1 /\ <<p>>[1] = p
    OBVIOUS
  <2>2. /\ r \in Seq(Plugins) /\ Len(r) = Len(<<p>>) + Len(q)
        /\ \A j \in 1..(Len(<<p>>) + Len(q)) :
             r[j] = IF j <= Len(<<p>>) THEN <<p>>[j] ELSE q[j - Len(<<p>>)]
    BY <2>1, ConcatProperties
  <2> QED
    BY <1>1, <2>1, <2>2
<1> HIDE DEF r
<1>3. DOMAIN r = 1..(1 + Len(q))
  BY <1>2, LenProperties
<1>4. IsInjective(r)
  <2>1. \A j, k \in 1..Len(q) : q[j] = q[k] => j = k
    BY <1>1 DEF IsInjective
  <2>2. \A j \in 1..(1 + Len(q)) : j = 1 \/ (j - 1 \in 1..Len(q) /\ ~(j <= 1))
    BY <1>1
  <2>3. ASSUME NEW j \in 1..(1 + Len(q)), NEW k \in 1..(1 + Len(q)), r[j] = r[k]
        PROVE  j = k
    <3>1. CASE j = 1 /\ k # 1
      BY <1>2, <2>2, <2>3, <3>1 DEF Contains
    <3>2. CASE j # 1 /\ k = 1
      BY <1>2, <2>2, <2>3, <3>2 DEF Contains
    <3>3. CASE j # 1 /\ k # 1
      <4>1. r[j] = q[j - 1] /\ r[k] = q[k - 1] /\ j - 1 \in 1..Len(q) /\ k - 1 \in 1..Len(q)
        BY <1>2, <2>2, <3>3
      <4>2. j - 1 = k - 1
        BY <2>1, <2>3, <4>1
      <4> QED
        BY <4>2
    <3> QED
      BY <3>1, <3>2, <3>3
  <2> QED
    BY <1>3, <2>3 DEF IsInjective
<1>5. ASSUME NEW x \in Plugins
      PROVE  Contains(r, x) <=> Contains(q, x) \/ x = p
  <2>1. ASSUME NEW j \in 1..Len(r), r[j] = x
        PROVE  Contains(q, x) \/ x = p
    BY <1>1, <1>2, <2>1 DEF Contains
  <2>2. ASSUME NEW j \in 1..Len(q), q[j] = x
        PROVE  Contains(r, x)
    <3>1. j + 1 \in 1..Len(r) /\ r[j + 1] = q[j]
      BY <1>1, <1>2
    <3> QED
      BY <2>2, <3>1 DEF Contains
  <2>3. Contains(r, p)
    <3>1. 1 \in 1..Len(r) /\ r[1] = p
      BY <1>1, <1>2
    <3> QED
      BY <3>1 DEF Contains
  <2> QED
    BY <2>1, <2>2, <2>3 DEF Contains
<1> QED
  BY <1>2, <1>4, <1>5 DEF r

LEMMA BackQueue ==
  ASSUME NEW q \in Seq(Plugins), IsInjective(q), NEW p \in Plugins, ~Contains(q, p)
  PROVE  /\ Append(q, p) \in Seq(Plugins)
         /\ IsInjective(Append(q, p))
         /\ \A x \in Plugins : Contains(Append(q, p), x) <=> Contains(q, x) \/ x = p
<1> DEFINE r == Append(q, p)
<1>1. Len(q) \in Nat /\ DOMAIN q = 1..Len(q)
  BY LenProperties
<1>2. /\ r \in Seq(Plugins) /\ Len(r) = 1 + Len(q)
      /\ \A j \in 1..Len(q) : r[j] = q[j]
      /\ r[1 + Len(q)] = p
  BY <1>1, AppendProperties
<1> HIDE DEF r
<1>3. DOMAIN r = 1..(1 + Len(q))
  BY <1>2, LenProperties
<1>4. \A j \in 1..(1 + Len(q)) : j \in 1..Len(q) \/ j = 1 + Len(q)
  BY <1>1
<1>5. IsInjective(r)
  BY <1>1, <1>2, <1>3, <1>4 DEF IsInjective, Contains
<1>6. ASSUME NEW x \in Plugins
      PROVE  Contains(r, x) <=> Contains(q, x) \/ x = p
  <2>1. ASSUME NEW j \in 1..Len(r), r[j] = x
        PROVE  Contains(q, x) \/ x = p
    BY <1>1, <1>2, <1>4, <2>1 DEF Contains
  <2>2. ASSUME NEW j \in 1..Len(q), q[j] = x
        PROVE  Contains(r, x)
    <3>1. j \in 1..Len(r) /\ r[j] = q[j]
      BY <1>1, <1>2
    <3> QED
      BY <2>2, <3>1 DEF Contains
  <2>3. Contains(r, p)
    <3>1. 1 + Len(q) \in 1..Len(r)
      BY <1>1, <1>2
    <3> QED
      BY <1>2, <3>1 DEF Contains
  <2> QED
    BY <2>1, <2>2, <2>3 DEF Contains
<1> QED
  BY <1>2, <1>5, <1>6 DEF r

LEMMA TailQueue ==
  ASSUME NEW q \in Seq(Plugins), IsInjective(q), q # <<>>
  PROVE  /\ Head(q) \in Plugins /\ Contains(q, Head(q))
         /\ Tail(q) \in Seq(Plugins)
         /\ IsInjective(Tail(q))
         /\ \A x \in Plugins : Contains(Tail(q), x) <=> Contains(q, x) /\ x # Head(q)
<1> DEFINE r == Tail(q)
<1>1. Len(q) \in Nat \ {0} /\ DOMAIN q = 1..Len(q) /\ Head(q) = q[1]
  BY LenProperties, EmptySeq
<1>2. /\ Head(q) \in Plugins /\ r \in Seq(Plugins) /\ Len(r) = Len(q) - 1
      /\ \A j \in 1..(Len(q) - 1) : r[j] = q[j + 1]
  BY HeadTailProperties
<1> HIDE DEF r
<1>3. DOMAIN r = 1..(Len(q) - 1)
  BY <1>2, LenProperties
<1>4. \A j, k \in 1..Len(q) : q[j] = q[k] => j = k
  BY <1>1 DEF IsInjective
<1>5. IsInjective(r)
  <2>1. ASSUME NEW j \in 1..(Len(q) - 1), NEW k \in 1..(Len(q) - 1), r[j] = r[k]
        PROVE  j = k
    BY <1>1, <1>2, <1>4, <2>1
  <2> QED
    BY <1>3, <2>1 DEF IsInjective
<1>6. ASSUME NEW x \in Plugins
      PROVE  Contains(r, x) <=> Contains(q, x) /\ x # Head(q)
  <2>1. ASSUME NEW j \in 1..Len(r), r[j] = x
        PROVE  Contains(q, x) /\ x # Head(q)
    <3>1. j + 1 \in 1..Len(q) /\ 1 \in 1..Len(q) /\ j + 1 # 1 /\ r[j] = q[j + 1]
      BY <1>1, <1>2
    <3> QED
      BY <1>1, <1>4, <2>1, <3>1 DEF Contains
  <2>2. ASSUME NEW j \in 1..Len(q), q[j] = x, x # Head(q)
        PROVE  Contains(r, x)
    <3>1. j # 1
      BY <1>1, <2>2
    <3>2. j - 1 \in 1..Len(r) /\ r[j - 1] = q[j]
      BY <1>1, <1>2, <3>1
    <3> QED
      BY <2>2, <3>2 DEF Contains
  <2> QED
    BY <2>1, <2>2 DEF Contains
<1>7. Contains(q, Head(q))
  <2>1. 1 \in 1..Len(q)
    BY <1>1
  <2> QED
    BY <1>1, <2>1 DEF Contains
<1> QED
  BY <1>2, <1>5, <1>6, <1>7 DEF r


--------------------------------------------------------------------------------
(* Types.                                                                  *)

LEMMA TypedGivesTypeOK ==
  ASSUME Typed PROVE TypeOK
BY DEF Typed, TypeOK, RecordsSound, RecordSound, TasksSound, UsersSound, ManagerSound,
       OperationSound, QueueTyped, RestTyped, ProcsTyped

LEMMA KeptRefs ==
  ASSUME Typed, ProcsKept
  PROVE  /\ \A p \in Plugins : RecordSound(p, rec[p], procs')
         /\ \A w \in Workers : TaskSound(worker[w], procs')
         /\ OperationSound(mgr, procs')
<1>1. ASSUME NEW p \in Plugins
      PROVE  RecordSound(p, rec[p], procs')
  <2>1. RecordSound(p, rec[p], procs) /\ rec[p].proc \in Slots
    BY DEF Typed, RecordsSound, Record
  <2>2. rec[p].proc # NoProc => procs'[rec[p].proc].plugin = procs[rec[p].proc].plugin
    BY <2>1 DEF ProcsKept, Referenced, Slots
  <2> QED
    BY <2>1, <2>2 DEF RecordSound
<1>2. ASSUME NEW w \in Workers
      PROVE  TaskSound(worker[w], procs')
  <2>1. TaskSound(worker[w], procs) /\ worker[w].proc \in Slots
    BY DEF Typed, TasksSound, Task
  <2>2. worker[w].proc # NoProc => procs'[worker[w].proc].plugin = procs[worker[w].proc].plugin
    BY <2>1 DEF ProcsKept, Referenced, Slots
  <2> QED
    BY <2>1, <2>2 DEF TaskSound
<1>3. OperationSound(mgr, procs')
  <2>1. OperationSound(mgr, procs) /\ mgr.proc \in Slots
    BY DEF Typed, ManagerSound, OperationSound, Operation
  <2>2. mgr.proc # NoProc => procs'[mgr.proc].plugin = procs[mgr.proc].plugin
    BY <2>1 DEF ProcsKept, Referenced, Slots
  <2> QED
    BY <2>1, <2>2 DEF OperationSound
<1> QED
  BY <1>1, <1>2, <1>3

LEMMA SameProcs ==
  ASSUME Typed, UNCHANGED procs PROVE ProcsKept
BY DEF Typed, ProcsKept, ProcsTyped

LEMMA StoppedProcs ==
  ASSUME Typed, NEW s \in ProcIds,
         \/ procs' = Stopped(s) \/ procs' = Unstopped(s)
  PROVE  ProcsKept
<1>1. procs \in [ProcIds -> Process] /\ procs[s] \in Process
  BY DEF Typed, ProcsTyped
<1>2. CASE procs' = Stopped(s)
  <2> DEFINE x == [procs[s] EXCEPT !.alive = FALSE, !.child = FALSE]
  <2>1. x \in Process /\ x.plugin = procs[s].plugin
    BY <1>1 DEF Process
  <2>2. procs' = [procs EXCEPT ![s] = x]
    BY <1>2 DEF Stopped
  <2> HIDE DEF x
  <2> QED
    BY <1>1, <2>1, <2>2 DEF ProcsKept, ProcsTyped
<1>3. CASE procs' = Unstopped(s)
  <2> DEFINE x == [procs[s] EXCEPT !.alive = FALSE]
  <2>1. x \in Process /\ x.plugin = procs[s].plugin
    BY <1>1 DEF Process
  <2>2. procs' = [procs EXCEPT ![s] = x]
    BY <1>3 DEF Unstopped
  <2> HIDE DEF x
  <2> QED
    BY <1>1, <2>1, <2>2 DEF ProcsKept, ProcsTyped
<1> QED
  BY <1>2, <1>3

LEMMA SameRecords ==
  ASSUME Typed, ProcsKept, UNCHANGED rec PROVE RecordsSound'
BY KeptRefs DEF Typed, RecordsSound

LEMMA OneRecord ==
  ASSUME Typed, ProcsKept, NEW p \in Plugins, NEW r, RecordSound(p, r, procs'),
         rec' = [rec EXCEPT ![p] = r]
  PROVE  RecordsSound'
<1>1. r \in Record
  BY DEF RecordSound
<1>2. rec' \in [Plugins -> Record] /\ rec'[p] = r
      /\ \A q \in Plugins \ {p} : rec'[q] = rec[q]
  BY <1>1 DEF Typed, RecordsSound
<1> QED
  BY <1>2, KeptRefs DEF RecordsSound

LEMMA SameTasks ==
  ASSUME Typed, ProcsKept, UNCHANGED worker PROVE TasksSound'
BY KeptRefs DEF Typed, TasksSound

LEMMA OneTask ==
  ASSUME Typed, ProcsKept, NEW w \in Workers, NEW t, TaskSound(t, procs'),
         worker' = [worker EXCEPT ![w] = t]
  PROVE  TasksSound'
<1>1. t \in Task
  BY DEF TaskSound
<1>2. worker' \in [Workers -> Task] /\ worker'[w] = t
      /\ \A v \in Workers \ {w} : worker'[v] = worker[v]
  BY <1>1 DEF Typed, TasksSound
<1> QED
  BY <1>2, KeptRefs DEF TasksSound

LEMMA SameUsers ==
  ASSUME Typed, UNCHANGED user PROVE UsersSound'
BY DEF Typed, UsersSound

LEMMA OneUser ==
  ASSUME Typed, NEW u \in Users, NEW t, UserSound(t), user' = [user EXCEPT ![u] = t]
  PROVE  UsersSound'
<1>1. t \in User
  BY DEF UserSound
<1>2. user' \in [Users -> User] /\ user'[u] = t
      /\ \A v \in Users \ {u} : user'[v] = user[v]
  BY <1>1 DEF Typed, UsersSound
<1> QED
  BY <1>2 DEF Typed, UsersSound

LEMMA SameManager ==
  ASSUME Typed, ProcsKept, UNCHANGED mgr PROVE ManagerSound'
BY KeptRefs DEF ManagerSound

(* Waking waiting threads leaves the threads well typed.                   *)
LEMMA AnswerSound ==
  ASSUME NEW u \in Users, NEW p \in Plugins, NEW s \in Slots
  PROVE  /\ UserSound(Answer(u, p, s))
         /\ Answer(u, p, s).pc \in {"idle", "ok", "err"}
         /\ u \in Restorers => Answer(u, p, s) = IdleUser
<1>1. CASE u = Manager
  <2>1. Answer(u, p, s) = [pc |-> IF s = NoProc THEN "err" ELSE "ok", plugin |-> p,
                           proc |-> NoProc]
    BY <1>1 DEF Answer
  <2> QED
    BY <1>1, <2>1 DEF UserSound, User, UserPcs, Slots, Users
<1>2. CASE u # Manager /\ u \in Callers /\ s # NoProc
  <2>1. Answer(u, p, s) = [pc |-> "ok", plugin |-> p, proc |-> s]
    BY <1>2 DEF Answer
  <2> QED
    BY <1>2, <2>1 DEF UserSound, User, UserPcs, Slots, Users
<1>3. CASE u # Manager /\ ~(u \in Callers /\ s # NoProc)
  <2>1. Answer(u, p, s) = IdleUser
    BY <1>3 DEF Answer
  <2> QED
    BY <1>3, <2>1 DEF UserSound, User, UserPcs, Slots, IdleUser
<1> QED
  BY <1>1, <1>2, <1>3

LEMMA AnsweredUsers ==
  ASSUME NEW us \in [Users -> User], \A u \in Users : UserSound(us[u]),
         NEW ps \in SUBSET Plugins, NEW s \in Slots
  PROVE  /\ Answered(us, ps, s) \in [Users -> User]
         /\ \A u \in Users :
              /\ UserSound(Answered(us, ps, s)[u])
              /\ Answered(us, ps, s)[u].pc = "wait" =>
                   us[u].pc = "wait" /\ Answered(us, ps, s)[u] = us[u] /\ us[u].plugin \notin ps
              /\ us[u].pc # "wait" => Answered(us, ps, s)[u] = us[u]
<1> DEFINE v == Answered(us, ps, s)
<1>1. ASSUME NEW u \in Users
      PROVE  /\ v[u] \in User
             /\ UserSound(v[u])
             /\ v[u].pc = "wait" => us[u].pc = "wait" /\ v[u] = us[u] /\ us[u].plugin \notin ps
             /\ us[u].pc # "wait" => v[u] = us[u]
  <2>1. v[u] = IF us[u].pc = "wait" /\ us[u].plugin \in ps
               THEN Answer(u, us[u].plugin, s) ELSE us[u]
    BY DEF Answered
  <2> HIDE DEF v
  <2>2. us[u].plugin \in ps => /\ UserSound(Answer(u, us[u].plugin, s))
                               /\ Answer(u, us[u].plugin, s).pc # "wait"
    BY AnswerSound
  <2> QED
    BY <2>1, <2>2 DEF UserSound
<1>2. v = [u \in Users |-> v[u]]
  BY DEF Answered
<1> HIDE DEF v
<1> QED
  BY <1>1, <1>2 DEF v

(* The queue that activate leaves holds what it held, and the plugin, if   *)
(* that one had no attempt.                                                *)
LEMMA QueuedQueue ==
  ASSUME QueueTyped, NEW p \in Plugins, NEW background \in BOOLEAN,
         att[p] = None => ~Contains(pending, p)
  PROVE  /\ Queued(p, background) \in Seq(Plugins)
         /\ IsInjective(Queued(p, background))
         /\ \A x \in Plugins : Contains(Queued(p, background), x)
                                 <=> Contains(pending, x) \/ (x = p /\ att[p] = None)
<1> DEFINE q == Queued(p, background)
<1>0. pending \in Seq(Plugins) /\ IsInjective(pending)
  BY DEF QueueTyped
<1>1. CASE att[p] = None /\ background
  <2>1. q = Append(pending, p)
    BY <1>1 DEF Queued
  <2>2. /\ Append(pending, p) \in Seq(Plugins) /\ IsInjective(Append(pending, p))
        /\ \A x \in Plugins : Contains(Append(pending, p), x) <=> Contains(pending, x) \/ x = p
    BY <1>0, <1>1, BackQueue, Zenon
  <2> HIDE DEF q
  <2> QED
    BY <1>1, <2>1, <2>2 DEF q
<1>2. CASE att[p] = None /\ ~background
  <2>1. q = <<p>> \o pending
    BY <1>2 DEF Queued
  <2> HIDE DEF q
  <2> QED
    BY <1>0, <1>2, <2>1, FrontQueue DEF q
<1>3. CASE att[p] # None /\ ~background /\ att[p].background /\ Contains(pending, p)
  <2>1. q = <<p>> \o Without(pending, p)
    BY <1>3 DEF Queued
  <2>2. /\ Without(pending, p) \in Seq(Plugins) /\ IsInjective(Without(pending, p))
        /\ \A x \in Plugins : Contains(Without(pending, p), x) <=> Contains(pending, x) /\ x # p
    BY <1>0, WithoutQueue
  <2> HIDE DEF q
  <2> QED
    BY <1>3, <2>1, <2>2, FrontQueue DEF q
<1>4. CASE att[p] # None /\ ~(~background /\ att[p].background /\ Contains(pending, p))
  <2>1. q = pending
    BY <1>4 DEF Queued
  <2> HIDE DEF q
  <2> QED
    BY <1>0, <1>4, <2>1 DEF q
<1> QED
  BY <1>1, <1>2, <1>3, <1>4

LEMMA EnqueueTyped ==
  ASSUME Typed, NEW u \in Users, NEW p \in Plugins, NEW background \in BOOLEAN,
         att[p] = None => ~Contains(pending, p),
         Enqueue(u, p, background), UNCHANGED <<procs, closed>>
  PROVE  RecordsSound' /\ TasksSound' /\ UsersSound' /\ QueueTyped'
<1> DEFINE q == Queued(p, background)
           asked == [user EXCEPT ![u] = Waits(p)]
           entered == IF att[p] # None THEN att
                      ELSE [att EXCEPT ![p] = [rev |-> rec[p].rev, background |-> background]]
           off == {w \in Workers : worker[w].pc = "off"}
           failed == ToSet(q)
<1>1. ProcsKept
  BY SameProcs
<1>2. q \in Seq(Plugins) /\ IsInjective(q)
  BY QueuedQueue DEF Typed
<1>3. rec[p] \in Record /\ RecordSound(p, rec[p], procs')
  BY <1>1, KeptRefs DEF Typed, RecordsSound
<1>4. RecordsSound'
  <2> DEFINE r == [rec[p] EXCEPT !.runtime = IF @ = "Failed" THEN "Stopped" ELSE @]
  <2>1. rec' = [rec EXCEPT ![p] = r]
    BY DEF Enqueue
  <2>2. RecordSound(p, r, procs')
    BY <1>3 DEF RecordSound, Record, Runtimes
  <2> HIDE DEF r
  <2> QED
    BY <1>1, <2>1, <2>2, OneRecord
<1>5. entered \in [Plugins -> Attempt \cup {None}]
  <2>1. [rev |-> rec[p].rev, background |-> background] \in Attempt
    BY <1>3 DEF Record, Attempt
  <2> QED
    BY <2>1 DEF Typed, QueueTyped
<1>6. Waits(p) \in User /\ UserSound(Waits(p))
  BY DEF Waits, UserSound, User, UserPcs, Slots
<1>7. asked \in [Users -> User] /\ \A v \in Users : UserSound(asked[v])
  BY <1>6 DEF Typed, UsersSound
<1>8. Typed => TasksSound /\ \A w \in Workers : worker[w] \in Task
  BY DEF Typed, TasksSound
<1> HIDE DEF q, asked, entered
<1>9. CASE att' = entered /\ pending' = q /\ user' = asked /\ UNCHANGED worker
  BY <1>1, <1>2, <1>4, <1>5, <1>7, <1>9, SameTasks DEF QueueTyped, UsersSound, Typed
<1>10. ASSUME NEW w \in off, worker' = [worker EXCEPT ![w] = [Off EXCEPT !.pc = "pick"]],
              att' = entered, pending' = q, user' = asked
       PROVE  RecordsSound' /\ TasksSound' /\ UsersSound' /\ QueueTyped'
  <2>1. TaskSound([Off EXCEPT !.pc = "pick"], procs')
    BY DEF TaskSound, Task, Off, TaskPcs, StartPcs, Slots
  <2>2. TasksSound'
    BY <1>1, <1>10, <2>1, OneTask
  <2> QED
    BY <1>2, <1>4, <1>5, <1>7, <1>10, <2>2 DEF QueueTyped, UsersSound, Typed
<1>11. CASE /\ att' = [x \in Plugins |-> IF x \in failed THEN None ELSE entered[x]]
            /\ pending' = <<>>
            /\ user' = Answered(asked, failed, NoProc)
            /\ UNCHANGED worker
  <2>1. failed \subseteq Plugins
    <3>1. \A i \in DOMAIN q : q[i] \in Plugins
      BY <1>2
    <3> QED
      BY <3>1 DEF ToSet
  <2>2. UsersSound'
    BY <1>7, <1>11, <2>1, AnsweredUsers DEF UsersSound, Slots
  <2>3. att' \in [Plugins -> Attempt \cup {None}]
    BY <1>5, <1>11
  <2>4. pending' \in Seq(Plugins) /\ IsInjective(pending')
    BY <1>11 DEF IsInjective
  <2> QED
    BY <1>1, <1>4, <1>11, <2>2, <2>3, <2>4, SameTasks DEF QueueTyped, Typed
<1> QED
  BY <1>9, <1>10, <1>11 DEF Enqueue, q, asked, entered

LEMMA ActivateTyped ==
  ASSUME Typed, NEW u \in Users, NEW p \in Plugins, NEW retry \in BOOLEAN,
         NEW background \in BOOLEAN, att[p] = None => ~Contains(pending, p),
         Activate(u, p, retry, background)
  PROVE  RecordsSound' /\ TasksSound' /\ UsersSound' /\ QueueTyped'
<1>1. ProcsKept /\ UNCHANGED <<procs, closed>>
  BY SameProcs DEF Activate
<1>2. CASE Enqueue(u, p, background)
  BY <1>1, <1>2, EnqueueTyped
<1>3. ASSUME NEW s \in Slots, user' = [user EXCEPT ![u] = Answer(u, p, s)],
             UNCHANGED <<rec, att, pending, worker>>
      PROVE  RecordsSound' /\ TasksSound' /\ UsersSound' /\ QueueTyped'
  <2>1. UsersSound'
    BY <1>3, AnswerSound, OneUser
  <2> QED
    BY <1>1, <1>3, <2>1, SameRecords, SameTasks DEF Typed, QueueTyped
<1>4. NoProc \in Slots /\ rec[p].proc \in Slots
  BY DEF Slots, Typed, RecordsSound, Record
<1> QED
  BY <1>2, <1>3, <1>4 DEF Activate

LEMMA TaskOf ==
  ASSUME Typed, NEW w \in Workers
  PROVE  /\ TaskSound(worker[w], procs) /\ worker[w] \in Task
         /\ HasTask(w) => /\ worker[w].plugin \in Plugins
                          /\ rec[worker[w].plugin] \in Record
                          /\ RecordSound(worker[w].plugin, rec[worker[w].plugin], procs)
BY DEF Typed, TasksSound, TaskSound, HasTask, RecordsSound

(* What a worker's step changes of its task.                               *)
LEMMA GotoSound ==
  ASSUME NEW t, NEW ps, TaskSound(t, ps), t.pc \in TaskPcs, NEW pc \in TaskPcs,
         pc \in StartPcs => t.pkg \in Packages,
         pc \in {"stopPrevious", "register", "hello", "reject", "discard"} => t.proc # NoProc
  PROVE  TaskSound([t EXCEPT !.pc = pc], ps)
BY DEF TaskSound, Task

LEMMA DropSound ==
  ASSUME NEW t, NEW ps, TaskSound(t, ps), t.pc \in TaskPcs,
         NEW pc \in {"launch", "finish", "failed", "succeeded"},
         pc \in StartPcs => t.pkg \in Packages
  PROVE  TaskSound([t EXCEPT !.pc = pc, !.proc = NoProc], ps)
BY DEF TaskSound, Task, TaskPcs, StartPcs, Slots

LEMMA GotoTyped ==
  ASSUME Typed, ProcsKept, NEW w \in Workers, HasTask(w), NEW pc \in TaskPcs,
         pc \in StartPcs => worker[w].pkg \in Packages,
         pc \in {"stopPrevious", "register", "hello", "reject", "discard"}
           => worker[w].proc # NoProc,
         worker' = Goto(w, pc)
  PROVE  TasksSound'
<1> DEFINE t == [worker[w] EXCEPT !.pc = pc]
<1>1. TaskSound(worker[w], procs')
  BY KeptRefs
<1>2. TaskSound(t, procs')
  BY <1>1, GotoSound DEF HasTask
<1>3. worker' = [worker EXCEPT ![w] = t]
  BY DEF Goto
<1> HIDE DEF t
<1> QED
  BY <1>2, <1>3, OneTask

LEMMA DropTyped ==
  ASSUME Typed, ProcsKept, NEW w \in Workers, HasTask(w),
         NEW pc \in {"launch", "finish", "failed", "succeeded"},
         pc \in StartPcs => worker[w].pkg \in Packages,
         worker' = Drop(w, pc)
  PROVE  TasksSound'
<1> DEFINE t == [worker[w] EXCEPT !.pc = pc, !.proc = NoProc]
<1>1. TaskSound(worker[w], procs')
  BY KeptRefs
<1>2. TaskSound(t, procs')
  BY <1>1, DropSound DEF HasTask
<1>3. worker' = [worker EXCEPT ![w] = t]
  BY DEF Drop
<1> HIDE DEF t
<1> QED
  BY <1>2, <1>3, OneTask

LEMMA FieldProcs ==
  ASSUME Typed, NEW s \in ProcIds, NEW x \in Process, x.plugin = procs[s].plugin,
         procs' = [procs EXCEPT ![s] = x]
  PROVE  ProcsKept
BY DEF Typed, ProcsTyped, ProcsKept

LEMMA PickTyped ==
  ASSUME Typed, QueueSound, NEW w \in Workers, Pick(w) PROVE Typed'
<1>1. ProcsKept
  BY SameProcs DEF Pick
<1>2. CASE worker' = [worker EXCEPT ![w] = Off] /\ UNCHANGED pending
  <2>1. TaskSound(Off, procs')
    BY DEF TaskSound, Off, Task, TaskPcs, StartPcs, Slots
  <2>2. TasksSound'
    BY <1>1, <1>2, <2>1, OneTask
  <2> QED
    BY <1>1, <1>2, <2>2, SameRecords, SameUsers, SameManager
       DEF Pick, Typed, QueueTyped, RestTyped, ProcsTyped
<1>3. CASE /\ pending # <<>>
           /\ worker' = [worker EXCEPT ![w] = [Off EXCEPT !.pc = "begin",
                          !.plugin = Head(pending), !.rev = att[Head(pending)].rev]]
           /\ pending' = Tail(pending)
  <2> DEFINE h == Head(pending)
             t == [Off EXCEPT !.pc = "begin", !.plugin = h, !.rev = att[h].rev]
  <2>1. /\ h \in Plugins /\ Contains(pending, h)
        /\ Tail(pending) \in Seq(Plugins) /\ IsInjective(Tail(pending))
    BY <1>3, TailQueue DEF Typed, QueueTyped
  <2>2. att[h] \in Attempt
    BY <2>1 DEF Typed, QueueTyped, QueueSound
  <2>3. TaskSound(t, procs')
    <3>1. att[h].rev \in Nat
      BY <2>2 DEF Attempt
    <3> QED
      BY <2>1, <3>1 DEF TaskSound, Off, Task, TaskPcs, StartPcs, Slots
  <2> HIDE DEF t
  <2>4. TasksSound'
    BY <1>1, <1>3, <2>3, OneTask DEF t
  <2> QED
    BY <1>1, <1>3, <2>1, <2>4, SameRecords, SameUsers, SameManager
       DEF Pick, Typed, QueueTyped, RestTyped, ProcsTyped
<1> QED
  BY <1>2, <1>3 DEF Pick

LEMMA BeginTyped ==
  ASSUME Typed, QueueSound, NEW w \in Workers, Begin(w) PROVE Typed'
<1> DEFINE t == worker[w]
           p == t.plugin
           r == rec[p]
<1>1. ProcsKept
  BY SameProcs DEF Begin
<1>2. HasTask(w) /\ t.pc = "begin"
  BY DEF Begin, HasTask, TaskPcs
<1>3. /\ TaskSound(t, procs') /\ t \in Task /\ p \in Plugins
      /\ r \in Record /\ RecordSound(p, r, procs')
  BY <1>1, <1>2, TaskOf, KeptRefs
<1> HIDE DEF t, p, r
<1>4. ASSUME NEW pc \in {"failed", "succeeded"}, worker' = Goto(w, pc), UNCHANGED rec
      PROVE  TasksSound' /\ RecordsSound'
  <2>1. TasksSound'
    BY <1>1, <1>2, <1>4, GotoTyped DEF TaskPcs, StartPcs
  <2> QED
    BY <1>1, <1>4, <2>1, SameRecords
<1>5. ASSUME r.known,
             rec' = [rec EXCEPT ![p] = [r EXCEPT !.runtime = "Starting", !.rev = r.rev + 1,
                                                 !.proc = NoProc]],
             worker' = [worker EXCEPT ![w] =
                          [t EXCEPT !.rev = r.rev + 1, !.pkg = r.pkg, !.proc = r.proc,
                             !.pc = IF r.proc = NoProc THEN "launch" ELSE "stopPrevious"]]
      PROVE  TasksSound' /\ RecordsSound'
  <2> DEFINE x == [r EXCEPT !.runtime = "Starting", !.rev = r.rev + 1, !.proc = NoProc]
             y == [t EXCEPT !.rev = r.rev + 1, !.pkg = r.pkg, !.proc = r.proc,
                     !.pc = IF r.proc = NoProc THEN "launch" ELSE "stopPrevious"]
  <2>1. RecordSound(p, x, procs')
    <3>1. r \in Record
      BY <1>3
    <3>2. x \in Record
      <4>1. r.rev + 1 \in Nat /\ NoProc \in Slots
        BY <3>1 DEF Record, Slots
      <4> QED
        BY <3>1, <4>1 DEF Record, Runtimes
    <3>3. x.known = r.known /\ x.enabled = r.enabled /\ x.pkg = r.pkg /\ x.proc = NoProc
      BY <3>1 DEF Record
    <3> QED
      BY <1>3, <3>2, <3>3 DEF RecordSound
  <2>2. TaskSound(y, procs')
    <3>1. r.pkg \in Packages
      <4>1. r.known
        BY <1>5
      <4> QED
        BY <1>3, <4>1 DEF RecordSound, Record
    <3>2. y \in Task
      <4>1. r.rev + 1 \in Nat /\ r.proc \in Slots
        BY <1>3 DEF Record
      <4>2. t \in Task
        BY <1>3
      <4> QED
        BY <3>1, <4>1, <4>2 DEF Task, TaskPcs, StartPcs
    <3>3. /\ y.plugin = t.plugin /\ y.pkg = r.pkg /\ y.proc = r.proc
          /\ y.pc = IF r.proc = NoProc THEN "launch" ELSE "stopPrevious"
      <4>1. t \in Task
        BY <1>3
      <4> QED
        BY <4>1 DEF Task
    <3>4. t.plugin = p
      BY DEF p
    <3> QED
      BY <1>3, <3>1, <3>2, <3>3, <3>4 DEF TaskSound, RecordSound, TaskPcs, StartPcs
  <2> HIDE DEF x, y
  <2>3. rec' = [rec EXCEPT ![p] = x] /\ worker' = [worker EXCEPT ![w] = y]
    BY <1>5 DEF x, y
  <2>4. RecordsSound'
    BY <1>1, <1>3, <2>1, <2>3, OneRecord
  <2>5. TasksSound'
    BY <1>1, <2>2, <2>3, OneTask
  <2> QED
    BY <2>4, <2>5
<1>6. TasksSound' /\ RecordsSound'
  BY <1>4, <1>5 DEF Begin, t, p, r, Current
<1> QED
  BY <1>1, <1>6, SameUsers, SameManager DEF Begin, Typed, QueueTyped, RestTyped, ProcsTyped, queue

LEMMA StopPreviousTyped ==
  ASSUME Typed, QueueSound, NEW w \in Workers, StopPrevious(w) PROVE Typed'
<1> DEFINE t == worker[w]
           p == t.plugin
<1>1. HasTask(w) /\ t.pc = "stopPrevious"
  BY DEF StopPrevious, HasTask, TaskPcs, StartPcs
<1>2. /\ TaskSound(t, procs) /\ t \in Task /\ p \in Plugins /\ t.proc \in ProcIds
      /\ t.pkg \in Packages
  BY <1>1, TaskOf DEF TaskSound, Task, Slots, StartPcs
<1>3. ProcsKept
  BY <1>2, StoppedProcs DEF StopPrevious
<1>4. CASE worker' = Drop(w, "launch") /\ UNCHANGED rec
  <2>1. TasksSound'
    BY <1>1, <1>2, <1>3, <1>4, DropTyped
  <2> QED
    BY <1>3, <1>4, <2>1, SameRecords, SameUsers, SameManager
       DEF StopPrevious, Typed, QueueTyped, RestTyped, ProcsTyped, queue, ProcsKept
<1>5. CASE /\ rec' = IF ~rec[p].known THEN rec
                     ELSE [rec EXCEPT ![p] = [@ EXCEPT !.proc = t.proc, !.runtime = "Failed"]]
           /\ worker' = Drop(w, "failed")
  <2>1. TasksSound'
    BY <1>1, <1>3, <1>5, DropTyped DEF StartPcs
  <2>2. RecordsSound'
    <3>1. CASE ~rec[p].known
      BY <1>3, <1>5, <3>1, SameRecords
    <3>2. CASE rec[p].known
      <4> DEFINE x == [rec[p] EXCEPT !.proc = t.proc, !.runtime = "Failed"]
      <4>1. rec[p] \in Record /\ RecordSound(p, rec[p], procs') /\ TaskSound(t, procs')
        BY <1>2, <1>3, KeptRefs DEF Typed, RecordsSound
      <4>2. RecordSound(p, x, procs')
        BY <1>2, <4>1 DEF RecordSound, TaskSound, Record, Runtimes, Slots
      <4>3. rec' = [rec EXCEPT ![p] = x]
        BY <1>5, <3>2
      <4> HIDE DEF x
      <4> QED
        BY <1>2, <1>3, <4>2, <4>3, OneRecord
    <3> QED
      BY <3>1, <3>2
  <2> QED
    BY <1>3, <2>1, <2>2, SameUsers, SameManager
       DEF StopPrevious, Typed, QueueTyped, RestTyped, ProcsTyped, queue, ProcsKept
<1> QED
  BY <1>4, <1>5 DEF StopPrevious

(* No record, thread or operation refers to the slot of a new process.     *)
LEMMA LaunchTyped ==
  ASSUME Typed, QueueSound, NEW w \in Workers, Launch(w) PROVE Typed'
<1> DEFINE t == worker[w]
           k == disk[t.plugin][PlaceOf[t.pkg]]
<1>1. HasTask(w) /\ t.pc = "launch"
  BY DEF Launch, HasTask, TaskPcs, StartPcs
<1>2. /\ TaskSound(t, procs) /\ t \in Task /\ t.plugin \in Plugins /\ t.pkg \in Packages
      /\ k \in Packages \cup {None}
  <2>1. TaskSound(t, procs) /\ t \in Task /\ t.plugin \in Plugins /\ t.pkg \in Packages
    BY <1>1, TaskOf DEF TaskSound, StartPcs
  <2>2. PlaceOf[t.pkg] \in Places
    BY <2>1
  <2> QED
    BY <2>1, <2>2 DEF Typed, RestTyped
<1>3. CASE worker' = Goto(w, NotStarted) /\ UNCHANGED procs
  <2>1. ProcsKept
    BY <1>3, SameProcs
  <2>2. TasksSound'
    BY <1>1, <1>2, <1>3, <2>1, GotoTyped DEF NotStarted, TaskPcs, StartPcs
  <2> QED
    BY <2>1, <2>2, SameRecords, SameUsers, SameManager
       DEF Launch, Typed, QueueTyped, RestTyped, ProcsKept, queue
<1>4. ASSUME NEW s \in FreeSlots, k # None,
             procs' = [procs EXCEPT ![s] =
                         [plugin |-> t.plugin, pkg |-> k, alive |-> TRUE,
                          child |-> TRUE, hello |-> FALSE, reader |-> "none"]],
             worker' = [worker EXCEPT ![w] = [t EXCEPT !.pc = "register", !.proc = s]]
      PROVE  Typed'
  <2> DEFINE x == [plugin |-> t.plugin, pkg |-> k, alive |-> TRUE,
                   child |-> TRUE, hello |-> FALSE, reader |-> "none"]
             y == [t EXCEPT !.pc = "register", !.proc = s]
  <2>1. s \in ProcIds /\ ~Referenced(s)
    BY DEF FreeSlots
  <2>2. x \in Process /\ x.plugin = t.plugin
    BY <1>2, <1>4 DEF Process, Readers
  <2> HIDE DEF x
  <2>3. procs' = [procs EXCEPT ![s] = x]
    BY <1>4 DEF x
  <2>4. ProcsKept /\ procs'[s] = x
    BY <2>1, <2>2, <2>3 DEF ProcsKept, ProcsTyped, Typed
  <2>5. TaskSound(y, procs')
    <3>1. s # NoProc /\ s \in Slots
      BY <2>1 DEF ProcIds, NoProc, Slots
    <3>2. y \in Task
      BY <1>2, <3>1 DEF Task, TaskPcs, StartPcs
    <3>3. y.plugin = t.plugin /\ y.pkg = t.pkg /\ y.proc = s /\ y.pc = "register"
      BY <1>2 DEF Task
    <3> HIDE DEF y
    <3> QED
      BY <1>2, <2>2, <2>4, <3>1, <3>2, <3>3 DEF TaskSound, TaskPcs, StartPcs
  <2> HIDE DEF y
  <2>6. worker' = [worker EXCEPT ![w] = y]
    BY <1>4 DEF y
  <2>7. TasksSound'
    BY <2>4, <2>5, <2>6, OneTask
  <2> QED
    BY <2>4, <2>7, SameRecords, SameUsers, SameManager
       DEF Launch, Typed, QueueTyped, RestTyped, ProcsKept, queue
<1> QED
  BY <1>3, <1>4 DEF Launch

LEMMA RegisterTyped ==
  ASSUME Typed, QueueSound, NEW w \in Workers, Register(w) PROVE Typed'
<1> DEFINE t == worker[w]
           p == t.plugin
<1>1. HasTask(w) /\ t.pc = "register"
  BY DEF Register, HasTask, TaskPcs, StartPcs
<1>2. /\ TaskSound(t, procs) /\ t \in Task /\ p \in Plugins /\ t.pkg \in Packages
      /\ t.proc \in ProcIds /\ t.proc # NoProc /\ procs[t.proc].plugin = p
  BY <1>1, TaskOf DEF TaskSound, Task, Slots, StartPcs
<1>3. CASE worker' = Goto(w, "reject") /\ UNCHANGED <<rec, procs>>
  <2>1. ProcsKept
    BY <1>3, SameProcs
  <2>2. TasksSound'
    BY <1>1, <1>2, <1>3, <2>1, GotoTyped DEF TaskPcs, StartPcs
  <2> QED
    BY <1>3, <2>1, <2>2, SameRecords, SameUsers, SameManager
       DEF Register, Typed, QueueTyped, RestTyped, ProcsKept, queue
<1>4. CASE /\ rec' = [rec EXCEPT ![p].proc = t.proc]
           /\ procs' = [procs EXCEPT ![t.proc].reader = "reading"]
           /\ worker' = Goto(w, "hello")
  <2> DEFINE x == [rec[p] EXCEPT !.proc = t.proc]
             y == [procs[t.proc] EXCEPT !.reader = "reading"]
  <2>1. y \in Process /\ y.plugin = procs[t.proc].plugin
    <3>1. procs[t.proc] \in Process
      BY <1>2 DEF Typed, ProcsTyped
    <3> QED
      BY <3>1 DEF Process, Readers
  <2>2. procs' = [procs EXCEPT ![t.proc] = y] /\ rec' = [rec EXCEPT ![p] = x]
    BY <1>4
  <2> HIDE DEF y
  <2>3. ProcsKept /\ procs'[t.proc].plugin = p
    BY <1>2, <2>1, <2>2, FieldProcs DEF Typed, ProcsTyped
  <2>4. RecordSound(p, x, procs')
    <3>1. rec[p] \in Record /\ RecordSound(p, rec[p], procs)
      BY <1>2 DEF Typed, RecordsSound
    <3>2. x \in Record /\ x.proc = t.proc /\ x.pkg = rec[p].pkg /\ x.known = rec[p].known
          /\ x.enabled = rec[p].enabled
      BY <1>2, <3>1 DEF Record, Slots
    <3> HIDE DEF x
    <3> QED
      BY <2>3, <3>1, <3>2 DEF RecordSound
  <2> HIDE DEF x
  <2>5. RecordsSound'
    BY <1>2, <2>2, <2>3, <2>4, OneRecord
  <2>6. TasksSound'
    BY <1>1, <1>2, <1>4, <2>3, GotoTyped DEF TaskPcs, StartPcs
  <2> QED
    BY <2>3, <2>5, <2>6, SameUsers, SameManager
       DEF Register, Typed, QueueTyped, RestTyped, ProcsKept, queue
<1> QED
  BY <1>3, <1>4 DEF Register

LEMMA HelloTyped ==
  ASSUME Typed, QueueSound, NEW w \in Workers, Hello(w) PROVE Typed'
<1> DEFINE t == worker[w]
           s == t.proc
<1>1. HasTask(w) /\ t.pc = "hello"
  BY DEF Hello, HasTask, TaskPcs, StartPcs
<1>2. /\ TaskSound(t, procs) /\ t \in Task /\ t.pkg \in Packages
      /\ s \in ProcIds /\ s # NoProc
  BY <1>1, TaskOf DEF TaskSound, Task, Slots, StartPcs
<1>3. CASE worker' = Goto(w, "reject") /\ UNCHANGED procs
  <2>1. ProcsKept
    BY <1>3, SameProcs
  <2>2. TasksSound'
    BY <1>1, <1>2, <1>3, <2>1, GotoTyped DEF TaskPcs, StartPcs
  <2> QED
    BY <1>3, <2>1, <2>2, SameRecords, SameUsers, SameManager
       DEF Hello, Typed, QueueTyped, RestTyped, ProcsKept, queue
<1>4. CASE procs' = [procs EXCEPT ![s].hello = TRUE] /\ worker' = Goto(w, "finish")
  <2> DEFINE y == [procs[s] EXCEPT !.hello = TRUE]
  <2>1. y \in Process /\ y.plugin = procs[s].plugin
    <3>1. procs[s] \in Process
      BY <1>2 DEF Typed, ProcsTyped
    <3> QED
      BY <3>1 DEF Process
  <2>2. procs' = [procs EXCEPT ![s] = y]
    BY <1>4
  <2> HIDE DEF y
  <2>3. ProcsKept
    BY <1>2, <2>1, <2>2, FieldProcs
  <2>4. TasksSound'
    BY <1>1, <1>2, <1>4, <2>3, GotoTyped DEF TaskPcs, StartPcs
  <2> QED
    BY <2>3, <2>4, SameRecords, SameUsers, SameManager
       DEF Hello, Typed, QueueTyped, RestTyped, ProcsKept, queue
<1> QED
  BY <1>3, <1>4 DEF Hello

LEMMA StopTyped ==
  ASSUME Typed, QueueSound, NEW w \in Workers, Reject(w) \/ Discard(w) PROVE Typed'
<1> DEFINE t == worker[w]
<1>1. HasTask(w) /\ t.pc \in {"reject", "discard"}
  BY DEF Reject, Discard, HasTask, TaskPcs, StartPcs
<1>2. TaskSound(t, procs) /\ t.proc \in ProcIds /\ (t.pc = "reject" => t.pkg \in Packages)
  BY <1>1, TaskOf DEF TaskSound, Task, Slots, StartPcs
<1>3. ProcsKept
  BY <1>2, StoppedProcs DEF Reject, Discard, StartupGuard, StopAnyway
<1>4. \/ worker' = Drop(w, "finish") /\ t.pkg \in Packages
      \/ worker' = Drop(w, "failed")
  BY <1>2 DEF Reject, Discard, NotStarted
<1>5. TasksSound'
  BY <1>1, <1>3, <1>4, DropTyped DEF StartPcs
<1> QED
  BY <1>3, <1>5, SameRecords, SameUsers, SameManager
     DEF Reject, Discard, Typed, QueueTyped, RestTyped, ProcsKept, queue

LEMMA FinishTyped ==
  ASSUME Typed, QueueSound, NEW w \in Workers, Finish(w) PROVE Typed'
<1> DEFINE t == worker[w]
           p == t.plugin
<1>1. HasTask(w) /\ t.pc = "finish"
  BY DEF Finish, HasTask, TaskPcs, StartPcs
<1>2. /\ TaskSound(t, procs) /\ t \in Task /\ p \in Plugins /\ t.pkg \in Packages
      /\ rec[p] \in Record /\ RecordSound(p, rec[p], procs)
  BY <1>1, TaskOf DEF TaskSound, StartPcs
<1>3. ProcsKept
  BY SameProcs DEF Finish
<1>4. CASE worker' = Goto(w, IF t.proc = NoProc THEN "failed" ELSE "discard") /\ UNCHANGED rec
  <2>1. TasksSound'
    <3>1. CASE t.proc = NoProc
      BY <1>1, <1>3, <1>4, <3>1, GotoTyped DEF TaskPcs, StartPcs
    <3>2. CASE t.proc # NoProc
      BY <1>1, <1>3, <1>4, <3>2, GotoTyped DEF TaskPcs, StartPcs
    <3> QED
      BY <3>1, <3>2
  <2> QED
    BY <1>3, <1>4, <2>1, SameRecords, SameUsers, SameManager
       DEF Finish, Typed, QueueTyped, RestTyped, ProcsKept, queue
<1>5. ASSUME NEW x, x \in Record, x.known = rec[p].known, x.enabled = rec[p].enabled,
             x.pkg = rec[p].pkg, x.proc \in {rec[p].proc, t.proc}, rec' = [rec EXCEPT ![p] = x],
             NEW pc \in {"succeeded", "failed"}, worker' = Drop(w, pc)
      PROVE  Typed'
  <2>1. RecordSound(p, x, procs')
    BY <1>2, <1>3, <1>5, KeptRefs DEF RecordSound, TaskSound
  <2>2. RecordsSound'
    BY <1>2, <1>3, <1>5, <2>1, OneRecord
  <2>3. TasksSound'
    BY <1>1, <1>3, <1>5, DropTyped DEF StartPcs
  <2> QED
    BY <1>3, <2>2, <2>3, SameUsers, SameManager
       DEF Finish, Typed, QueueTyped, RestTyped, ProcsKept, queue
<1>6. CASE /\ rec' = [rec EXCEPT ![p] = [@ EXCEPT !.runtime = "Running", !.proc = t.proc]]
           /\ worker' = Drop(w, "succeeded")
  <2> DEFINE x == [rec[p] EXCEPT !.runtime = "Running", !.proc = t.proc]
  <2>1. x \in Record /\ x.known = rec[p].known /\ x.enabled = rec[p].enabled
        /\ x.pkg = rec[p].pkg /\ x.proc = t.proc
    <3>1. t.proc \in Slots
      BY <1>2 DEF Task
    <3> QED
      BY <1>2, <3>1 DEF Record, Runtimes
  <2>2. rec' = [rec EXCEPT ![p] = x]
    BY <1>6
  <2> HIDE DEF x
  <2> QED
    BY <1>5, <1>6, <2>1, <2>2
<1>7. CASE rec' = [rec EXCEPT ![p].runtime = "Failed"] /\ worker' = Drop(w, "failed")
  <2> DEFINE x == [rec[p] EXCEPT !.runtime = "Failed"]
  <2>1. x \in Record /\ x.known = rec[p].known /\ x.enabled = rec[p].enabled
        /\ x.pkg = rec[p].pkg /\ x.proc = rec[p].proc
    BY <1>2 DEF Record, Runtimes
  <2>2. rec' = [rec EXCEPT ![p] = x]
    BY <1>7
  <2> HIDE DEF x
  <2> QED
    BY <1>5, <1>7, <2>1, <2>2
<1> QED
  BY <1>4, <1>6, <1>7 DEF Finish

LEMMA CompleteTyped ==
  ASSUME Typed, QueueSound, NEW w \in Workers, Complete(w) PROVE Typed'
<1> DEFINE t == worker[w]
           p == t.plugin
           r == rec[p]
           result == IF t.pc = "succeeded" /\ Alive(r.proc) THEN r.proc ELSE NoProc
<1>1. HasTask(w)
  BY DEF Complete, HasTask, TaskPcs
<1>2. p \in Plugins /\ r \in Record
  BY <1>1, TaskOf
<1>3. ProcsKept
  BY SameProcs DEF Complete
<1>4. TasksSound'
  <2>1. TaskSound([Off EXCEPT !.pc = "pick"], procs')
    BY DEF TaskSound, Task, Off, TaskPcs, StartPcs, Slots
  <2> QED
    BY <1>3, <2>1, OneTask DEF Complete
<1>5. UsersSound' /\ att' \in [Plugins -> Attempt \cup {None}]
  <2>1. CASE UNCHANGED <<att, user>>
    BY <2>1, SameUsers DEF Typed, QueueTyped
  <2>2. CASE /\ att' = [att EXCEPT ![p] = None]
             /\ user' = Answered(user, {p}, result)
    <3>1. result \in Slots /\ {p} \in SUBSET Plugins
      BY <1>2 DEF Record, Slots
    <3> HIDE DEF result
    <3>2. UsersSound'
      BY <2>2, <3>1, AnsweredUsers DEF Typed, UsersSound
    <3> QED
      BY <1>2, <2>2, <3>2 DEF Typed, QueueTyped
  <2> QED
    BY <2>1, <2>2 DEF Complete
<1> QED
  BY <1>3, <1>4, <1>5, SameRecords, SameManager
     DEF Complete, Typed, QueueTyped, RestTyped, ProcsKept

LEMMA ProcessTyped ==
  ASSUME Typed, QueueSound, NEW s \in ProcIds,
         Read(s) \/ ChildDies(s)
  PROVE  Typed'
<1>1. procs[s] \in Process
  BY DEF Typed, ProcsTyped
<1>2. ASSUME NEW y, y \in Process, y.plugin = procs[s].plugin, procs' = [procs EXCEPT ![s] = y],
             UNCHANGED rec
      PROVE  ProcsKept /\ RecordsSound'
  <2>1. ProcsKept
    BY <1>2, FieldProcs
  <2> QED
    BY <1>2, <2>1, SameRecords
<1>3. CASE ChildDies(s)
  <2> DEFINE y == [procs[s] EXCEPT !.child = FALSE]
  <2>1. y \in Process /\ y.plugin = procs[s].plugin
    BY <1>1 DEF Process
  <2>2. procs' = [procs EXCEPT ![s] = y]
    BY <1>3 DEF ChildDies
  <2> HIDE DEF y
  <2>3. ProcsKept /\ RecordsSound'
    BY <1>2, <1>3, <2>1, <2>2 DEF ChildDies
  <2> QED
    BY <1>3, <2>3, SameTasks, SameUsers, SameManager
       DEF ChildDies, Typed, QueueTyped, RestTyped, ProcsKept, queue
<1>4. CASE ReaderEnds(s)
  <2> DEFINE y == [procs[s] EXCEPT !.alive = FALSE, !.reader = "ended"]
  <2>1. y \in Process /\ y.plugin = procs[s].plugin
    BY <1>1 DEF Process, Readers
  <2>2. procs' = [procs EXCEPT ![s] = y]
    BY <1>4 DEF ReaderEnds
  <2> HIDE DEF y
  <2>3. ProcsKept /\ RecordsSound'
    BY <1>2, <1>4, <2>1, <2>2 DEF ReaderEnds
  <2> QED
    BY <1>4, <2>3, SameTasks, SameUsers, SameManager
       DEF ReaderEnds, Typed, QueueTyped, RestTyped, ProcsKept, queue
<1>5. CASE Reap(s)
  <2>1. ProcsKept
    BY <1>5, StoppedProcs DEF Reap, Killed
  <2> QED
    BY <1>5, <2>1, SameRecords, SameTasks, SameUsers, SameManager
       DEF Reap, Typed, QueueTyped, RestTyped, ProcsKept, queue
<1>6. CASE ProcessExited(s)
  <2> DEFINE y == [procs[s] EXCEPT !.reader = "gone"]
             p == procs[s].plugin
             x == [rec[p] EXCEPT !.proc = NoProc, !.runtime = WithoutProc(rec[p].runtime)]
  <2>1. y \in Process /\ y.plugin = procs[s].plugin
    BY <1>1 DEF Process, Readers
  <2>2. procs' = [procs EXCEPT ![s] = y]
    BY <1>6 DEF ProcessExited
  <2> HIDE DEF y
  <2>3. ProcsKept
    BY <2>1, <2>2, FieldProcs
  <2>4. RecordsSound'
    <3>1. CASE UNCHANGED rec
      BY <2>3, <3>1, SameRecords
    <3>2. CASE rec[p].proc = s /\ rec' = [rec EXCEPT ![p] = x]
      <4>1. CASE p \in Plugins
        <5>1. rec[p] \in Record /\ RecordSound(p, rec[p], procs)
          BY <4>1 DEF Typed, RecordsSound
        <5>2. WithoutProc(rec[p].runtime) \in Runtimes
          BY DEF WithoutProc, Runtimes
        <5>3. x \in Record /\ x.proc = NoProc /\ x.pkg = rec[p].pkg /\ x.known = rec[p].known
              /\ x.enabled = rec[p].enabled
          <6>1. NoProc \in Slots
            BY DEF Slots
          <6> QED
            BY <5>1, <5>2, <6>1 DEF Record
        <5> HIDE DEF x
        <5>4. RecordSound(p, x, procs')
          BY <5>1, <5>3 DEF RecordSound
        <5> QED
          BY <2>3, <3>2, <4>1, <5>4, OneRecord
      <4>2. CASE p \notin Plugins
        <5>1. rec' = rec
          BY <3>2, <4>2 DEF Typed, RecordsSound
        <5> QED
          BY <2>3, <5>1, SameRecords
      <4> QED
        BY <4>1, <4>2
    <3>3. rec' = IF rec[p].proc # s THEN rec ELSE [rec EXCEPT ![p] = x]
      BY <1>6, Zenon DEF ProcessExited
    <3> HIDE DEF x
    <3> QED
      BY <3>1, <3>2, <3>3
  <2> QED
    BY <1>6, <2>3, <2>4, SameTasks, SameUsers, SameManager
       DEF ProcessExited, Typed, QueueTyped, RestTyped, ProcsKept, queue
<1> QED
  BY <1>3, <1>4, <1>5, <1>6 DEF Read

(* Budgets stay budgets.                                                   *)
LEMMA SpentBudget ==
  ASSUME Typed
  PROVE  /\ budget.calls > 0 => [budget EXCEPT !.calls = @ - 1] \in Budget
         /\ budget.operations > 0 => [budget EXCEPT !.operations = @ - 1] \in Budget
         /\ budget.plugins \subseteq Plugins /\ budget.packages \subseteq Packages
         /\ budget.kinds \subseteq AllOps
<1>1. budget \in Budget /\ budget.calls \in Nat /\ budget.operations \in Nat
  BY DEF Typed, RestTyped, Budget
<1>2. budget.calls > 0 => budget.calls - 1 \in Nat
  BY <1>1
<1>3. budget.operations > 0 => budget.operations - 1 \in Nat
  BY <1>1
<1> QED
  BY <1>1, <1>2, <1>3 DEF Budget

LEMMA CallTyped ==
  ASSUME Typed, QueueSound, NEW c \in Callers,
         \/ \E p \in budget.plugins : EnterCall(c, p)
         \/ CallActivates(c) \/ GiveUp(c) \/ Dispatch(c) \/ EndCall(c)
  PROVE  Typed'
<1>0. c \in Users /\ user[c] \in User /\ UserSound(user[c])
  BY DEF Users, Typed, UsersSound
<1>1. ASSUME NEW p \in budget.plugins, EnterCall(c, p)
      PROVE  Typed'
  <2> DEFINE t == [pc |-> "enter", plugin |-> p, proc |-> NoProc]
  <2>1. UserSound(t)
    BY SpentBudget DEF UserSound, User, UserPcs, Slots
  <2>2. UsersSound'
    BY <1>0, <1>1, <2>1, OneUser DEF EnterCall
  <2>3. ProcsKept /\ budget' \in Budget
    BY <1>1, SameProcs, SpentBudget DEF EnterCall, Calls
  <2> QED
    BY <1>1, <2>2, <2>3, SameRecords, SameTasks, SameManager
       DEF EnterCall, Typed, QueueTyped, RestTyped, ProcsKept, queue
<1>2. CASE CallActivates(c)
  <2>1. user[c].plugin \in Plugins
    BY <1>0, <1>2 DEF CallActivates, UserSound
  <2>2. RecordsSound' /\ TasksSound' /\ UsersSound' /\ QueueTyped'
    <3>1. PICK retry \in BOOLEAN : Activate(c, user[c].plugin, retry, FALSE)
      BY <1>2 DEF CallActivates
    <3>2. att[user[c].plugin] = None => ~Contains(pending, user[c].plugin)
      BY <2>1 DEF QueueSound
    <3> QED
      BY <1>0, <2>1, <3>1, <3>2, ActivateTyped
  <2>3. ProcsKept
    BY <1>2, SameProcs DEF CallActivates, Activate
  <2> QED
    BY <1>2, <2>2, <2>3, SameManager
       DEF CallActivates, Activate, Typed, RestTyped, ProcsKept
<1>3. ASSUME NEW t, UserSound(t), user' = [user EXCEPT ![c] = t],
             UNCHANGED <<rec, disk, procs, queue, worker, mgr, sd, frozen, budget>>
      PROVE  Typed'
  <2>1. ProcsKept /\ UsersSound'
    BY <1>0, <1>3, SameProcs, OneUser
  <2> QED
    BY <1>3, <2>1, SameRecords, SameTasks, SameManager
       DEF Typed, QueueTyped, RestTyped, ProcsKept, queue
<1>4. UserSound(IdleUser)
  BY DEF UserSound, IdleUser, User, UserPcs, Slots
<1>5. CASE GiveUp(c) \/ EndCall(c)
  BY <1>3, <1>4, <1>5 DEF GiveUp, EndCall
<1>6. CASE Dispatch(c)
  <2> DEFINE t == [user[c] EXCEPT !.pc = "call"]
  <2>1. CASE user' = [user EXCEPT ![c] = t]
    <3>1. UserSound(t)
      BY <1>0, <1>6 DEF Dispatch, UserSound, User, UserPcs
    <3> HIDE DEF t
    <3> QED
      BY <1>3, <1>6, <2>1, <3>1 DEF Dispatch
  <2>2. CASE user' = [user EXCEPT ![c] = IdleUser]
    BY <1>3, <1>4, <1>6, <2>2 DEF Dispatch
  <2> QED
    BY <1>6, <2>1, <2>2 DEF Dispatch
<1> QED
  BY <1>1, <1>2, <1>5, <1>6

LEMMA RestoreTyped ==
  ASSUME Typed, QueueSound, NEW u \in Restorers, NEW p \in budget.plugins, Restore(u, p)
  PROVE  Typed'
<1>1. u \in Users /\ p \in Plugins
  BY SpentBudget DEF Users
<1>2. RecordsSound' /\ TasksSound' /\ UsersSound' /\ QueueTyped'
  BY <1>1, ActivateTyped DEF Restore, QueueSound
<1>3. ProcsKept /\ budget' \in Budget
  BY SameProcs, SpentBudget DEF Restore, Activate, Calls
<1> QED
  BY <1>2, <1>3, SameManager DEF Restore, Activate, Typed, RestTyped, ProcsKept

LEMMA IdleOperation ==
  ASSUME NEW ps PROVE OperationSound(IdleMgr, ps)
BY DEF OperationSound, Operation, IdleMgr, MgrPcs, AllOps, Slots

(* How a management operation goes on.                                     *)
LEMMA ContinueTyped ==
  ASSUME Typed, ProcsKept, mgr.pc # "idle", NEW pc \in MgrPcs \ {"invalidate"},
         pc = "stop" => mgr.kind \in {"disable", "uninstall", "install"},
         pc \in {"pause", "unlink", "place", "refresh", "rollback", "refreshBack"}
           => mgr.kind = "install",
         pc \in {"rollback", "refreshBack"} => mgr.old \in Packages,
         Continue(pc)
  PROVE  ManagerSound'
<1>1. OperationSound(mgr, procs')
  BY KeptRefs
<1>2. mgr' = [mgr EXCEPT !.pc = pc]
  BY DEF Continue
<1> QED
  BY <1>1, <1>2 DEF ManagerSound, OperationSound, Operation, MgrPcs

LEMMA OpEndsTyped ==
  ASSUME OpEnds PROVE ManagerSound'
BY IdleOperation DEF OpEnds, ManagerSound

LEMMA MgrOf ==
  ASSUME Typed, mgr.pc # "idle"
  PROVE  /\ mgr \in Operation /\ OperationSound(mgr, procs)
         /\ mgr.plugin \in Plugins
         /\ rec[mgr.plugin] \in Record
         /\ RecordSound(mgr.plugin, rec[mgr.plugin], procs)
BY DEF Typed, ManagerSound, OperationSound, RecordsSound

LEMMA PutTyped ==
  ASSUME Typed, mgr.pc # "idle", mgr.new \in Packages, NEW k \in Packages \cup {None}, Put(k)
  PROVE  disk' \in [Plugins -> [Places -> Packages \cup {None}]]
<1> DEFINE p == mgr.plugin
           l == PlaceOf[mgr.new]
           x == [disk[p] EXCEPT ![l] = k]
<1>1. p \in Plugins /\ l \in Places /\ disk \in [Plugins -> [Places -> Packages \cup {None}]]
  BY MgrOf DEF Typed, RestTyped
<1>2. disk' = [disk EXCEPT ![p] = x]
  BY DEF Put
<1>3. x \in [Places -> Packages \cup {None}]
  BY <1>1
<1> HIDE DEF x
<1> QED
  BY <1>1, <1>2, <1>3

LEMMA BeginOperationTyped ==
  ASSUME Typed, QueueSound, NEW p \in budget.plugins,
         \/ Enable(p)
         \/ \E kind \in {"disable", "uninstall"} : Disable(kind, p)
         \/ \E k \in budget.packages : Install(p, k)
  PROVE  Typed'
<1>1. /\ p \in Plugins /\ rec[p] \in Record /\ RecordSound(p, rec[p], procs)
      /\ rec[p].proc \in Slots
  BY SpentBudget DEF Typed, RecordsSound, Record
<1>2. ProcsKept
  BY SameProcs DEF Enable, Disable, Install
<1>3. budget' \in Budget
  BY SpentBudget DEF Enable, Disable, Install, Operate
<1>4. CASE Enable(p)
  <2> DEFINE x == [rec[p] EXCEPT !.enabled = TRUE]
  <2>1. rec' = [rec EXCEPT ![p] = x]
    BY <1>4 DEF Enable
  <2>2. x \in Record /\ x.known = rec[p].known /\ x.pkg = rec[p].pkg /\ x.proc = rec[p].proc
    BY <1>1 DEF Record
  <2> HIDE DEF x
  <2>3. RecordSound(p, x, procs')
    BY <1>1, <1>2, <1>4, <2>2, KeptRefs DEF RecordSound, Enable
  <2>4. RecordsSound'
    BY <1>1, <1>2, <2>1, <2>3, OneRecord
  <2>5. ManagerSound'
    <3>1. OperationSound([IdleMgr EXCEPT !.kind = "enable", !.plugin = p, !.pc = "start"], procs')
      BY <1>1 DEF OperationSound, Operation, IdleMgr, MgrPcs, AllOps, Slots
    <3> QED
      BY <1>4, <3>1, IdleOperation DEF Enable, ManagerSound
  <2> QED
    BY <1>2, <1>3, <1>4, <2>4, <2>5, SameTasks, SameUsers
       DEF Enable, Typed, QueueTyped, RestTyped, ProcsKept, queue
<1>5. ASSUME NEW kind \in {"disable", "uninstall"}, Disable(kind, p)
      PROVE  Typed'
  <2> DEFINE x == [rec[p] EXCEPT !.enabled = FALSE, !.runtime = "Stopping",
                                 !.rev = rec[p].rev + 1, !.proc = NoProc]
             m == [IdleMgr EXCEPT !.kind = kind, !.plugin = p, !.pc = "invalidate",
                                  !.proc = rec[p].proc]
  <2>1. rec' = [rec EXCEPT ![p] = x] /\ mgr' = m
    BY <1>5 DEF Disable
  <2>2. x \in Record /\ x.known = rec[p].known /\ x.pkg = rec[p].pkg /\ x.proc = NoProc
        /\ x.enabled = FALSE
    <3>1. rec[p].rev + 1 \in Nat /\ NoProc \in Slots
      BY <1>1 DEF Record, Slots
    <3> QED
      BY <1>1, <3>1 DEF Record, Runtimes
  <2> HIDE DEF x
  <2>3. RecordSound(p, x, procs')
    BY <1>1, <2>2 DEF RecordSound
  <2>4. RecordsSound'
    BY <1>1, <1>2, <2>1, <2>3, OneRecord
  <2>5. ManagerSound'
    <3>1. rec[p].proc # NoProc => procs'[rec[p].proc].plugin = p
      BY <1>1, <1>2, KeptRefs DEF RecordSound
    <3>2. /\ m.kind = kind /\ m.plugin = p /\ m.pc = "invalidate" /\ m.proc = rec[p].proc
          /\ m \in Operation
      BY <1>1 DEF Operation, IdleMgr, MgrPcs, AllOps
    <3> HIDE DEF m
    <3>3. OperationSound(m, procs')
      BY <1>1, <3>1, <3>2 DEF OperationSound
    <3> QED
      BY <2>1, <3>3 DEF ManagerSound
  <2> QED
    BY <1>2, <1>3, <1>5, <2>4, <2>5, SameTasks, SameUsers
       DEF Disable, Typed, QueueTyped, RestTyped, ProcsKept, queue
<1>6. ASSUME NEW k \in budget.packages, Install(p, k)
      PROVE  Typed'
  <2> DEFINE m == [IdleMgr EXCEPT !.kind = "install", !.plugin = p, !.pc = "pause",
                                  !.old = rec[p].pkg, !.new = k]
  <2>1. OperationSound(m, procs')
    <3>1. k \in Packages /\ rec[p].pkg \in Packages \cup {None}
      BY <1>1, SpentBudget DEF Record
    <3>2. /\ m.kind = "install" /\ m.plugin = p /\ m.pc = "pause" /\ m.proc = NoProc
          /\ m.new = k /\ m \in Operation
      BY <1>1, <3>1 DEF Operation, IdleMgr, MgrPcs, AllOps, Slots
    <3> HIDE DEF m
    <3> QED
      BY <1>1, <3>1, <3>2 DEF OperationSound
  <2>2. ManagerSound'
    BY <1>6, <2>1 DEF Install, ManagerSound
  <2> QED
    BY <1>2, <1>3, <1>6, <2>2, SameRecords, SameTasks, SameUsers
       DEF Install, Typed, QueueTyped, RestTyped, ProcsKept, queue
<1> QED
  BY <1>4, <1>5, <1>6

LEMMA PauseTyped ==
  ASSUME Typed, QueueSound, Pause PROVE Typed'
<1> DEFINE p == mgr.plugin
           r == rec[p]
<1>1. mgr.pc = "pause" /\ mgr.pc # "idle"
  BY DEF Pause
<1>2. /\ p \in Plugins /\ r \in Record /\ RecordSound(p, r, procs) /\ mgr \in Operation
      /\ OperationSound(mgr, procs) /\ mgr.kind = "install"
  BY <1>1, MgrOf DEF OperationSound
<1>3. ProcsKept
  BY SameProcs DEF Pause
<1>4. CASE (OpEnds \/ Continue("unlink")) /\ UNCHANGED rec
  <2>1. ManagerSound'
    BY <1>1, <1>2, <1>3, <1>4, OpEndsTyped, ContinueTyped DEF MgrPcs
  <2> QED
    BY <1>3, <1>4, <2>1, SameRecords, SameTasks, SameUsers
       DEF Pause, Typed, QueueTyped, RestTyped, ProcsKept, queue
<1> DEFINE x == [r EXCEPT !.rev = r.rev + 1, !.proc = NoProc,
                   !.runtime = IF r.proc = NoProc THEN "Stopped" ELSE "Stopping"]
           m == [mgr EXCEPT !.pc = "invalidate", !.proc = r.proc,
                   !.was = r.runtime = "Running" /\ Alive(r.proc)]
<1>5. CASE rec' = [rec EXCEPT ![p] = x] /\ mgr' = m
  <2>1. x \in Record /\ x.known = r.known /\ x.pkg = r.pkg /\ x.proc = NoProc
        /\ x.enabled = r.enabled
    <3>1. r.rev + 1 \in Nat /\ NoProc \in Slots
      BY <1>2 DEF Record, Slots
    <3> HIDE DEF r
    <3> QED
      BY <1>2, <3>1 DEF Record, Runtimes
  <2> HIDE DEF x
  <2>2. RecordSound(p, x, procs')
    BY <1>2, <2>1 DEF RecordSound
  <2>3. RecordsSound'
    BY <1>2, <1>3, <1>5, <2>2, OneRecord
  <2>4. ManagerSound'
    <3>1. r.proc # NoProc => procs'[r.proc].plugin = p
      BY <1>2, <1>3, KeptRefs DEF RecordSound
    <3>2. r.proc \in Slots /\ (r.runtime = "Running" /\ Alive(r.proc)) \in BOOLEAN
      BY <1>2 DEF Record
    <3>3. /\ m.kind = "install" /\ m.plugin = p /\ m.pc = "invalidate" /\ m.proc = r.proc
          /\ m.new = mgr.new /\ m \in Operation
      <4> DEFINE b == r.runtime = "Running" /\ Alive(r.proc)
      <4> HIDE DEF r, b
      <4>1. m = [mgr EXCEPT !.pc = "invalidate", !.proc = r.proc, !.was = b]
        BY DEF b
      <4>2. b \in BOOLEAN /\ r.proc \in Slots
        BY <3>2 DEF b
      <4> HIDE DEF m
      <4> QED
        BY <1>2, <4>1, <4>2 DEF Operation, MgrPcs
    <3> HIDE DEF m
    <3>4. OperationSound(m, procs')
      BY <1>2, <3>1, <3>3 DEF OperationSound
    <3> QED
      BY <1>5, <3>4 DEF ManagerSound
  <2> QED
    BY <1>3, <1>5, <2>3, <2>4, SameTasks, SameUsers
       DEF Pause, Typed, QueueTyped, RestTyped, ProcsKept, queue
<1> QED
  BY <1>4, <1>5 DEF Pause

(* Cancelling attempts changes nothing else of a task.                     *)
LEMMA CancelledTasks ==
  ASSUME Typed, ProcsKept,
         worker' = [w \in Workers |-> worker'[w]],
         \A w \in Workers : worker'[w] \in {worker[w], [worker[w] EXCEPT !.cancelled = TRUE]}
  PROVE  TasksSound'
<1>1. ASSUME NEW w \in Workers
      PROVE  TaskSound(worker'[w], procs')
  <2>1. TaskSound(worker[w], procs')
    BY KeptRefs
  <2>2. TaskSound([worker[w] EXCEPT !.cancelled = TRUE], procs')
    BY <2>1 DEF TaskSound, Task
  <2> QED
    BY <2>1, <2>2
<1> QED
  BY <1>1 DEF TasksSound, TaskSound

LEMMA MgrInvalidateTyped ==
  ASSUME Typed, QueueSound, MgrInvalidate PROVE Typed'
<1> DEFINE p == mgr.plugin
<1>1. mgr.pc = "invalidate" /\ mgr.pc # "idle"
  BY DEF MgrInvalidate
<1>2. /\ p \in Plugins /\ mgr \in Operation /\ OperationSound(mgr, procs)
      /\ mgr.kind \in {"disable", "uninstall", "install"}
  BY <1>1, MgrOf DEF OperationSound
<1>3. ProcsKept
  BY SameProcs DEF MgrInvalidate
<1>4. ManagerSound'
  <2>1. CASE Continue("unlink") /\ mgr.kind = "install"
    BY <1>1, <1>3, <2>1, ContinueTyped DEF MgrPcs
  <2>2. CASE Continue("stop")
    BY <1>1, <1>2, <1>3, <2>2, ContinueTyped DEF MgrPcs
  <2> QED
    BY <2>1, <2>2 DEF MgrInvalidate
<1>5. TasksSound'
  <2>1. worker' = Cancelled(p)
    BY DEF MgrInvalidate, Invalidate
  <2> QED
    BY <1>3, <2>1, CancelledTasks DEF Cancelled
<1>6. UsersSound'
  <2>1. {p} \in SUBSET Plugins /\ NoProc \in Slots
    BY <1>2 DEF Slots
  <2> QED
    BY <2>1, AnsweredUsers DEF MgrInvalidate, Invalidate, Typed, UsersSound
<1>7. QueueTyped'
  <2>1. Without(pending, p) \in Seq(Plugins) /\ IsInjective(Without(pending, p))
    BY <1>2, WithoutQueue DEF Typed, QueueTyped
  <2> QED
    BY <1>2, <2>1 DEF MgrInvalidate, Invalidate, Typed, QueueTyped
<1> QED
  BY <1>3, <1>4, <1>5, <1>6, <1>7, SameRecords
     DEF MgrInvalidate, Typed, RestTyped, ProcsKept

LEMMA MgrStopTyped ==
  ASSUME Typed, QueueSound, MgrStop PROVE Typed'
<1> DEFINE p == mgr.plugin
           s == mgr.proc
<1>1. mgr.pc = "stop" /\ mgr.pc # "idle"
  BY DEF MgrStop
<1>2. /\ p \in Plugins /\ mgr \in Operation /\ OperationSound(mgr, procs) /\ s \in Slots
      /\ mgr.kind \in {"disable", "uninstall", "install"}
      /\ rec[p] \in Record /\ RecordSound(p, rec[p], procs)
  BY <1>1, MgrOf DEF OperationSound, Operation
<1>3. ProcsKept
  <2>1. CASE s = NoProc
    BY <2>1, SameProcs DEF MgrStop
  <2>2. CASE s # NoProc
    BY <1>2, <2>2, StoppedProcs DEF MgrStop, Slots
  <2> QED
    BY <2>1, <2>2
<1>4. OperationSound(mgr, procs') /\ RecordSound(p, rec[p], procs')
  BY <1>2, <1>3, KeptRefs
<1>5. ASSUME NEW x, RecordSound(p, x, procs'), rec' = [rec EXCEPT ![p] = x]
      PROVE  RecordsSound'
  BY <1>2, <1>3, <1>5, OneRecord
<1>6. ASSUME NEW pc \in {"remove", "unlink"}, mgr' = [mgr EXCEPT !.pc = pc, !.proc = NoProc],
             pc = "unlink" => mgr.kind = "install"
      PROVE  ManagerSound'
  <2>1. mgr' \in Operation /\ mgr'.kind = mgr.kind /\ mgr'.plugin = p /\ mgr'.pc = pc
        /\ mgr'.proc = NoProc /\ mgr'.new = mgr.new
    BY <1>2, <1>6 DEF Operation, MgrPcs, Slots
  <2> QED
    BY <1>2, <1>6, <2>1 DEF ManagerSound, OperationSound
<1>7. CASE /\ rec' = IF mgr.kind = "uninstall" THEN rec
                     ELSE [rec EXCEPT ![p].runtime = "Stopped"]
           /\ CASE mgr.kind = "disable" -> OpEnds
                [] mgr.kind = "uninstall" -> mgr' = [mgr EXCEPT !.pc = "remove", !.proc = NoProc]
                [] mgr.kind = "install" -> mgr' = [mgr EXCEPT !.pc = "unlink", !.proc = NoProc]
  <2>1. ManagerSound'
    <3>1. CASE mgr.kind = "disable"
      BY <1>7, <3>1, OpEndsTyped
    <3>2. CASE mgr.kind = "uninstall"
      BY <1>6, <1>7, <3>2
    <3>3. CASE mgr.kind = "install"
      BY <1>6, <1>7, <3>3
    <3> QED
      BY <1>2, <3>1, <3>2, <3>3
  <2>2. RecordsSound'
    <3> DEFINE x == [rec[p] EXCEPT !.runtime = "Stopped"]
    <3>1. RecordSound(p, x, procs')
      BY <1>4 DEF RecordSound, Record, Runtimes
    <3>2. UNCHANGED rec \/ rec' = [rec EXCEPT ![p] = x]
      BY <1>7
    <3> HIDE DEF x
    <3> QED
      BY <1>3, <1>5, <3>1, <3>2, SameRecords
  <2> QED
    BY <1>3, <2>1, <2>2, SameTasks, SameUsers
       DEF MgrStop, Typed, QueueTyped, RestTyped, ProcsKept, queue
<1>8. CASE /\ s # NoProc
           /\ rec' = [rec EXCEPT ![p] = [@ EXCEPT !.proc = s, !.runtime = "Failed"]]
           /\ OpEnds
  <2> DEFINE x == [rec[p] EXCEPT !.proc = s, !.runtime = "Failed"]
  <2>1. RecordSound(p, x, procs')
    <3>1. procs'[s].plugin = p
      BY <1>4, <1>8 DEF OperationSound
    <3>2. x \in Record /\ x.proc = s /\ x.known = rec[p].known /\ x.pkg = rec[p].pkg
          /\ x.enabled = rec[p].enabled
      BY <1>2 DEF Record, Runtimes
    <3> HIDE DEF x
    <3> QED
      BY <1>4, <3>1, <3>2 DEF RecordSound
  <2>2. rec' = [rec EXCEPT ![p] = x]
    BY <1>8
  <2> HIDE DEF x
  <2>3. RecordsSound' /\ ManagerSound'
    BY <1>5, <1>8, <2>1, <2>2, OpEndsTyped
  <2> QED
    BY <1>3, <2>3, SameTasks, SameUsers
       DEF MgrStop, Typed, QueueTyped, RestTyped, ProcsKept, queue
<1> QED
  BY <1>7, <1>8 DEF MgrStop

LEMMA RemoveTyped ==
  ASSUME Typed, QueueSound, RemovePackage \/ ForgetPlugin PROVE Typed'
<1> DEFINE p == mgr.plugin
<1>1. mgr.pc # "idle"
  BY DEF RemovePackage, ForgetPlugin
<1>2. p \in Plugins /\ rec[p] \in Record /\ RecordSound(p, rec[p], procs)
  BY <1>1, MgrOf
<1>3. ProcsKept
  BY SameProcs DEF RemovePackage, ForgetPlugin
<1>4. ManagerSound'
  BY <1>1, <1>3, OpEndsTyped, ContinueTyped DEF RemovePackage, ForgetPlugin, MgrPcs
<1>5. RecordSound(p, rec[p], procs')
  BY <1>2, <1>3, KeptRefs
<1>6. CASE RemovePackage
  <2> DEFINE x == [rec[p] EXCEPT !.runtime = "Stopped"]
  <2>1. RecordSound(p, x, procs')
    BY <1>5 DEF RecordSound, Record, Runtimes
  <2>2. \/ UNCHANGED rec /\ disk' = [disk EXCEPT ![p] = [l \in Places |-> None]]
        \/ UNCHANGED disk /\ rec' = [rec EXCEPT ![p] = x]
    BY <1>6 DEF RemovePackage
  <2> HIDE DEF x
  <2>3. RecordsSound'
    BY <1>2, <1>3, <2>1, <2>2, SameRecords, OneRecord
  <2>4. disk' \in [Plugins -> [Places -> Packages \cup {None}]]
    <3>1. [l \in Places |-> None] \in [Places -> Packages \cup {None}]
      OBVIOUS
    <3> QED
      BY <2>2, <3>1 DEF Typed, RestTyped
  <2> QED
    BY <1>3, <1>4, <1>6, <2>3, <2>4, SameTasks, SameUsers
       DEF RemovePackage, Typed, QueueTyped, RestTyped, ProcsKept, queue
<1>7. CASE ForgetPlugin
  <2>1. RecordSound(p, Unknown, procs')
    BY DEF RecordSound, Unknown, Record, Runtimes, Slots
  <2>2. RecordsSound'
    BY <1>2, <1>3, <1>7, <2>1, OneRecord DEF ForgetPlugin
  <2> QED
    BY <1>3, <1>4, <1>7, <2>2, SameTasks, SameUsers
       DEF ForgetPlugin, Typed, QueueTyped, RestTyped, ProcsKept, queue
<1> QED
  BY <1>6, <1>7

LEMMA FilesTyped ==
  ASSUME Typed, QueueSound, Unlink \/ Place \/ Rollback PROVE Typed'
<1>1. mgr.pc \in {"unlink", "place", "rollback"} /\ mgr.pc # "idle"
  BY DEF Unlink, Place, Rollback
<1>2. /\ mgr \in Operation /\ OperationSound(mgr, procs) /\ mgr.plugin \in Plugins
      /\ mgr.kind = "install" /\ mgr.new \in Packages /\ mgr.had \in Packages \cup {None}
      /\ mgr.pc = "rollback" => mgr.old \in Packages
  BY <1>1, MgrOf DEF OperationSound, Operation
<1>3. ProcsKept
  BY SameProcs DEF Unlink, Place, Rollback
<1>4. disk' \in [Plugins -> [Places -> Packages \cup {None}]]
  BY <1>1, <1>2, PutTyped DEF Unlink, Place, Rollback
<1>5. ManagerSound'
  <2>1. CASE Unlink
    <3> DEFINE h == disk[mgr.plugin][PlaceOf[mgr.new]]
    <3>1. h \in Packages \cup {None}
      <4>1. PlaceOf[mgr.new] \in Places
        BY <1>2
      <4> QED
        BY <1>2, <4>1 DEF Typed, RestTyped
    <3>2. mgr' = [mgr EXCEPT !.pc = "place", !.had = h]
      BY <2>1 DEF Unlink
    <3> HIDE DEF h
    <3>3. mgr' \in Operation /\ mgr'.kind = mgr.kind /\ mgr'.plugin = mgr.plugin
          /\ mgr'.pc = "place" /\ mgr'.proc = mgr.proc /\ mgr'.new = mgr.new
      BY <1>2, <3>1, <3>2 DEF Operation, MgrPcs
    <3>4. OperationSound(mgr, procs')
      BY <1>3, KeptRefs
    <3> QED
      BY <1>2, <3>3, <3>4 DEF ManagerSound, OperationSound
  <2>2. CASE Place
    BY <1>1, <1>2, <1>3, <2>2, OpEndsTyped, ContinueTyped DEF Place, MgrPcs
  <2>3. CASE Rollback
    BY <1>1, <1>2, <1>3, <2>3, ContinueTyped DEF Rollback, MgrPcs
  <2> QED
    BY <2>1, <2>2, <2>3
<1> QED
  BY <1>3, <1>4, <1>5, SameRecords, SameTasks, SameUsers
     DEF Unlink, Place, Rollback, Typed, QueueTyped, RestTyped, ProcsKept, queue

(* What a scan makes of a record.                                          *)
LEMMA ScannedSound ==
  ASSUME NEW p \in Plugins, NEW r, NEW ps, RecordSound(p, r, ps), NEW k \in Packages
  PROVE  RecordSound(p, Scanned(r, k), ps)
<1> DEFINE x == Scanned(r, k)
<1>1. /\ x.known = TRUE /\ x.pkg = k /\ x.enabled = (IF r.known THEN r.enabled ELSE TRUE)
      /\ x.rev = (IF r.known THEN r.rev + 1 ELSE 0)
      /\ x.proc = (IF Keeps(r, k) THEN r.proc ELSE NoProc)
      /\ x.runtime = (IF Keeps(r, k) THEN "Running" ELSE "Stopped")
      /\ x = [known |-> x.known, pkg |-> x.pkg, enabled |-> x.enabled, rev |-> x.rev,
              proc |-> x.proc, runtime |-> x.runtime]
  BY DEF Scanned
<1> HIDE DEF x
<1>2. r \in Record /\ r.rev \in Nat /\ r.proc \in Slots /\ r.enabled \in BOOLEAN
  BY DEF RecordSound, Record
<1>3. x.rev \in Nat /\ x.proc \in Slots /\ x.runtime \in Runtimes /\ x.enabled \in BOOLEAN
      /\ x.known \in BOOLEAN /\ x.pkg \in Packages \cup {None}
  <2>1. x.rev \in Nat
    BY <1>1, <1>2
  <2>2. x.proc \in Slots
    BY <1>1, <1>2 DEF Slots
  <2>3. x.runtime \in Runtimes
    BY <1>1 DEF Runtimes
  <2>4. x.enabled \in BOOLEAN
    <3>1. CASE r.known
      BY <1>1, <1>2, <3>1
    <3>2. CASE ~r.known
      BY <1>1, <3>2
    <3> QED
      BY <3>1, <3>2
  <2> QED
    BY <1>1, <2>1, <2>2, <2>3, <2>4
<1>4. x \in Record
  BY <1>1, <1>3 DEF Record
<1>5. x.proc # NoProc => ps[x.proc].plugin = p
  BY <1>1 DEF RecordSound
<1>6. x.known <=> x.pkg # None
  BY <1>1
<1> QED
  BY <1>1, <1>4, <1>5, <1>6 DEF RecordSound, x

LEMMA RefreshedSound ==
  ASSUME Typed, ProcsKept, NEW k \in Packages, rec' = Refreshed(k)
  PROVE  RecordsSound'
<1>1. ASSUME NEW p \in Plugins
      PROVE  RecordSound(p, rec'[p], procs')
  <2>1. RecordSound(p, rec[p], procs')
    BY KeptRefs
  <2>2. rec'[p] = IF p = mgr.plugin THEN Scanned(rec[p], k)
                  ELSE IF rec[p].known THEN Scanned(rec[p], rec[p].pkg) ELSE rec[p]
    BY DEF Refreshed
  <2>3. rec[p].known => rec[p].pkg \in Packages
    BY <2>1 DEF RecordSound, Record
  <2>4. RecordSound(p, Scanned(rec[p], k), procs')
    BY <2>1, ScannedSound
  <2>5. rec[p].known => RecordSound(p, Scanned(rec[p], rec[p].pkg), procs')
    BY <2>1, <2>3, ScannedSound
  <2> QED
    BY <2>1, <2>2, <2>4, <2>5
<1>2. rec' = [p \in Plugins |-> rec'[p]]
  BY DEF Refreshed
<1> QED
  BY <1>1, <1>2 DEF RecordsSound, RecordSound

LEMMA RefreshTyped ==
  ASSUME Typed, QueueSound, Refresh \/ RefreshBack PROVE Typed'
<1>1. mgr.pc \in {"refresh", "refreshBack"} /\ mgr.pc # "idle"
  BY DEF Refresh, RefreshBack
<1>2. /\ mgr \in Operation /\ mgr.plugin \in Plugins
      /\ mgr.kind = "install" /\ mgr.new \in Packages /\ mgr.had \in Packages \cup {None}
      /\ mgr.pc = "refreshBack" => mgr.old \in Packages
  BY <1>1, MgrOf DEF OperationSound, Operation
<1>3. ProcsKept
  BY SameProcs DEF Refresh, RefreshBack
<1>4. disk' \in [Plugins -> [Places -> Packages \cup {None}]]
  <2>1. UNCHANGED disk \/ Put(mgr.had)
    BY DEF Refresh, RefreshBack
  <2> QED
    BY <1>1, <1>2, <2>1, PutTyped DEF Typed, RestTyped
<1>5. ManagerSound'
  <2>1. OpEnds \/ Continue("start") \/ Continue("restart")
    BY DEF Refresh, RefreshBack, AfterScan
  <2> QED
    BY <1>1, <1>3, <2>1, OpEndsTyped, ContinueTyped DEF MgrPcs
<1>6. RecordsSound'
  <2>1. UNCHANGED rec \/ rec' = Refreshed(mgr.new)
          \/ (mgr.old \in Packages /\ rec' = Refreshed(mgr.old))
    BY <1>2 DEF Refresh, RefreshBack
  <2> QED
    BY <1>2, <1>3, <2>1, SameRecords, RefreshedSound
<1> QED
  BY <1>3, <1>4, <1>5, <1>6, SameTasks, SameUsers
     DEF Refresh, RefreshBack, Typed, QueueTyped, RestTyped, ProcsKept, queue

LEMMA StartsTyped ==
  ASSUME Typed, QueueSound, Start \/ Restart \/ StartEnds PROVE Typed'
<1>1. mgr.pc # "idle" /\ mgr.plugin \in Plugins /\ mgr \in Operation
      /\ Manager \in Users
  BY MgrOf DEF Start, Restart, MgrActivates, StartEnds, Users
<1>2. ProcsKept
  BY SameProcs DEF Start, Restart, MgrActivates, Activate, StartEnds
<1>3. CASE Start \/ Restart
  <2>1. Activate(Manager, mgr.plugin, TRUE, FALSE) /\ (Continue("starting") \/ Continue("restarting"))
        /\ UNCHANGED budget
    BY <1>3 DEF Start, Restart, MgrActivates
  <2>2. att[mgr.plugin] = None => ~Contains(pending, mgr.plugin)
    BY <1>1 DEF QueueSound
  <2>3. RecordsSound' /\ TasksSound' /\ UsersSound' /\ QueueTyped'
    BY <1>1, <2>1, <2>2, ActivateTyped
  <2>4. ManagerSound'
    BY <1>1, <1>2, <2>1, ContinueTyped DEF MgrPcs
  <2> QED
    BY <1>2, <2>1, <2>3, <2>4 DEF Activate, Typed, RestTyped, ProcsKept
<1>4. CASE StartEnds
  <2>1. UserSound(IdleUser)
    BY DEF UserSound, IdleUser, User, UserPcs, Slots
  <2>2. UsersSound'
    BY <1>1, <1>4, <2>1, OneUser DEF StartEnds
  <2>3. ManagerSound'
    <3>1. OpEnds \/ (Continue("rollback") /\ mgr.kind = "install" /\ mgr.old # None)
      BY <1>4 DEF StartEnds
    <3>2. mgr.old # None => mgr.old \in Packages
      BY <1>1 DEF Operation
    <3> QED
      BY <1>1, <1>2, <3>1, <3>2, OpEndsTyped, ContinueTyped DEF MgrPcs
  <2> QED
    BY <1>2, <1>4, <2>2, <2>3, SameRecords, SameTasks
       DEF StartEnds, Typed, QueueTyped, RestTyped, ProcsKept, queue
<1> QED
  BY <1>3, <1>4

LEMMA ManagementTyped ==
  ASSUME Typed, QueueSound, Management PROVE Typed'
BY PauseTyped, MgrInvalidateTyped, MgrStopTyped, RemoveTyped, FilesTyped, RefreshTyped,
   StartsTyped DEF Management

LEMMA HostTyped ==
  ASSUME Typed, QueueSound,
         BeginUpgrade \/ EndUpgrade \/ BeginShutdown \/ Shutdown
  PROVE  Typed'
<1>1. CASE BeginUpgrade \/ EndUpgrade \/ BeginShutdown
  <2>1. sd' \in [pc : SdPcs, procs : SUBSET ProcIds] /\ frozen' \in BOOLEAN
    BY <1>1 DEF BeginUpgrade, EndUpgrade, BeginShutdown, Typed, RestTyped, SdPcs
  <2>2. ProcsKept
    BY <1>1, SameProcs DEF BeginUpgrade, EndUpgrade, BeginShutdown
  <2> QED
    BY <1>1, <2>1, <2>2, SameRecords, SameTasks, SameUsers, SameManager
       DEF BeginUpgrade, EndUpgrade, BeginShutdown, Typed, QueueTyped, RestTyped, ProcsKept,
           queue
<1>2. CASE CloseQueue
  <2>1. ProcsKept
    BY <1>2, SameProcs DEF CloseQueue
  <2>2. TasksSound'
    BY <1>2, <2>1, CancelledTasks DEF CloseQueue
  <2>3. UsersSound'
    <3>1. NoProc \in Slots
      BY DEF Slots
    <3> QED
      BY <1>2, <3>1, AnsweredUsers DEF CloseQueue, Typed, UsersSound
  <2>4. QueueTyped'
    BY <1>2 DEF CloseQueue, QueueTyped, IsInjective
  <2>5. sd' \in [pc : SdPcs, procs : SUBSET ProcIds]
    BY <1>2 DEF CloseQueue, Typed, RestTyped, SdPcs
  <2> QED
    BY <1>2, <2>1, <2>2, <2>3, <2>4, <2>5, SameRecords, SameManager
       DEF CloseQueue, Typed, RestTyped, ProcsKept
<1>3. CASE TakeProcesses
  <2>1. ProcsKept
    BY <1>3, SameProcs DEF TakeProcesses
  <2>2. ASSUME NEW p \in Plugins
        PROVE  RecordSound(p, rec'[p], procs')
    <3> DEFINE r == rec[p]
               x == [r EXCEPT !.rev = @ + 1, !.runtime = "Stopped", !.proc = NoProc]
    <3>1. r \in Record /\ RecordSound(p, r, procs')
      BY <2>1, KeptRefs DEF Typed, RecordsSound
    <3>2. rec'[p] = IF ~r.known THEN r ELSE x
      BY <1>3 DEF TakeProcesses
    <3> HIDE DEF r
    <3>3. x \in Record /\ x.known = r.known /\ x.pkg = r.pkg /\ x.proc = NoProc
          /\ x.enabled = r.enabled
      <4>1. r.rev + 1 \in Nat /\ NoProc \in Slots
        BY <3>1 DEF Record, Slots
      <4> QED
        BY <3>1, <4>1 DEF Record, Runtimes
    <3> HIDE DEF x
    <3> QED
      BY <3>1, <3>2, <3>3 DEF RecordSound
  <2>3. RecordsSound'
    <3>1. rec' = [p \in Plugins |-> rec'[p]]
      BY <1>3 DEF TakeProcesses
    <3> QED
      BY <2>2, <3>1 DEF RecordsSound, RecordSound
  <2>4. sd' \in [pc : SdPcs, procs : SUBSET ProcIds]
    <3>1. {rec[p].proc : p \in Plugins} \ {NoProc} \subseteq ProcIds
      BY DEF Typed, RecordsSound, Record, Slots
    <3> QED
      BY <1>3, <3>1 DEF TakeProcesses, SdPcs
  <2> QED
    BY <1>3, <2>1, <2>3, <2>4, SameTasks, SameUsers, SameManager
       DEF TakeProcesses, Typed, QueueTyped, RestTyped, ProcsKept, queue
<1>4. CASE StopTaken
  <2>1. sd \in [pc : SdPcs, procs : SUBSET ProcIds]
    BY DEF Typed, RestTyped
  <2>2. ProcsKept
    BY <1>4, <2>1, StoppedProcs, SameProcs DEF StopTaken, StopAnyway
  <2>3. sd' \in [pc : SdPcs, procs : SUBSET ProcIds]
    BY <1>4, <2>1 DEF StopTaken, SdPcs
  <2> QED
    BY <1>4, <2>2, <2>3, SameRecords, SameTasks, SameUsers, SameManager
       DEF StopTaken, Typed, QueueTyped, RestTyped, ProcsKept, queue
<1> QED
  BY <1>1, <1>2, <1>3, <1>4 DEF Shutdown

LEMMA WorkTyped ==
  ASSUME Typed, QueueSound, NEW w \in Workers, Work(w) PROVE Typed'
BY PickTyped, BeginTyped, StopPreviousTyped, LaunchTyped, RegisterTyped, HelloTyped, StopTyped,
   FinishTyped, CompleteTyped DEF Work

LEMMA StillTyped ==
  ASSUME Typed, QueueSound, UNCHANGED vars PROVE Typed'
<1>1. ProcsKept
  BY SameProcs DEF vars
<1> QED
  BY <1>1, SameRecords, SameTasks, SameUsers, SameManager
     DEF vars, Typed, QueueTyped, RestTyped, ProcsKept, queue

LEMMA NextTyped ==
  ASSUME Typed, QueueSound, [Next]_vars PROVE Typed'
BY WorkTyped, ProcessTyped, CallTyped, RestoreTyped, BeginOperationTyped, ManagementTyped,
   HostTyped, StillTyped DEF Next

--------------------------------------------------------------------------------
(* The queue.                                                              *)

LEMMA QueueFrame ==
  ASSUME QueueSound, UNCHANGED queue,
         \A w \in Workers, p \in Plugins : Holds(w, p)' <=> Holds(w, p),
         \A w \in Workers : worker[w].pc # "off" => worker'[w].pc # "off",
         \A u \in Users : user'[u].pc = "wait" =>
           user[u].pc = "wait" /\ user'[u].plugin = user[u].plugin
  PROVE  QueueSound'
<1>1. att' = att /\ pending' = pending /\ closed' = closed
  BY DEF queue
<1> QED
  BY <1>1 DEF QueueSound

(* A step of everything but the workers and the queue, in which no thread  *)
(* begins to wait.                                                         *)
LEMMA QueueElsewhere ==
  ASSUME Typed, QueueSound, UNCHANGED <<queue, worker>>,
         \/ UNCHANGED user
         \/ \E u \in Users : \E t \in User : /\ t.pc # "wait"
                                             /\ user' = [user EXCEPT ![u] = t]
  PROVE  QueueSound'
<1>1. \A w \in Workers, p \in Plugins : Holds(w, p)' <=> Holds(w, p)
  BY DEF Holds, HasTask
<1>2. \A u \in Users : user'[u].pc = "wait" =>
        user[u].pc = "wait" /\ user'[u].plugin = user[u].plugin
  BY DEF Typed, UsersSound
<1> QED
  BY <1>1, <1>2, QueueFrame

(* A step of a worker within its task.                                     *)
LEMMA QueueWithinTask ==
  ASSUME Typed, QueueSound, UNCHANGED <<queue, user>>, NEW w \in Workers, HasTask(w),
         NEW t, t.pc \in TaskPcs, t.plugin = worker[w].plugin,
         t.cancelled = worker[w].cancelled, worker' = [worker EXCEPT ![w] = t]
  PROVE  QueueSound'
<1>1. worker'[w] = t /\ \A v \in Workers \ {w} : worker'[v] = worker[v]
  BY DEF Typed, TasksSound
<1>2. \A v \in Workers, p \in Plugins : Holds(v, p)' <=> Holds(v, p)
  <2>1. \A p \in Plugins : Holds(w, p)' <=> Holds(w, p)
    BY <1>1 DEF Holds, HasTask
  <2>2. \A v \in Workers \ {w}, p \in Plugins : Holds(v, p)' <=> Holds(v, p)
    BY <1>1 DEF Holds, HasTask
  <2> QED
    BY <2>1, <2>2
<1>3. \A v \in Workers : worker[v].pc # "off" => worker'[v].pc # "off"
  BY <1>1 DEF TaskPcs, StartPcs
<1> QED
  BY <1>2, <1>3, QueueFrame

LEMMA TaskQueue ==
  ASSUME Typed, QueueSound, NEW w \in Workers,
         \/ Begin(w) \/ StopPrevious(w) \/ Launch(w) \/ Register(w)
         \/ Hello(w) \/ Reject(w) \/ Finish(w) \/ Discard(w)
  PROVE  QueueSound'
<1> DEFINE t == worker[w]
<1>1. HasTask(w) /\ t \in Task /\ UNCHANGED <<queue, user>>
  BY TaskOf DEF Begin, StopPrevious, Launch, Register, Hello, Reject, Finish, Discard, HasTask,
                TaskPcs, StartPcs
<1>2. ASSUME NEW pc \in TaskPcs, worker' = Goto(w, pc) \/ worker' = Drop(w, pc)
      PROVE  QueueSound'
  <2>1. PICK x \in {[t EXCEPT !.pc = pc], [t EXCEPT !.pc = pc, !.proc = NoProc]} :
          worker' = [worker EXCEPT ![w] = x]
    BY <1>2 DEF Goto, Drop
  <2>2. x.pc = pc /\ x.plugin = t.plugin /\ x.cancelled = t.cancelled
    BY <1>1 DEF Task
  <2> QED
    BY <1>1, <1>2, <2>1, <2>2, QueueWithinTask
<1>3. CASE Begin(w)
  <2>1. \/ worker' = Goto(w, "failed") \/ worker' = Goto(w, "succeeded")
        \/ worker' = [worker EXCEPT ![w] =
             [t EXCEPT !.rev = rec[t.plugin].rev + 1, !.pkg = rec[t.plugin].pkg,
                       !.proc = rec[t.plugin].proc,
                       !.pc = IF rec[t.plugin].proc = NoProc THEN "launch" ELSE "stopPrevious"]]
    BY <1>3 DEF Begin
  <2> DEFINE x == [t EXCEPT !.rev = rec[t.plugin].rev + 1, !.pkg = rec[t.plugin].pkg,
                       !.proc = rec[t.plugin].proc,
                       !.pc = IF rec[t.plugin].proc = NoProc THEN "launch" ELSE "stopPrevious"]
  <2>2. x.pc \in TaskPcs /\ x.plugin = t.plugin /\ x.cancelled = t.cancelled
    BY <1>1 DEF Task, TaskPcs, StartPcs
  <2> HIDE DEF x
  <2>3. CASE worker' = [worker EXCEPT ![w] = x]
    BY <1>1, <2>2, <2>3, QueueWithinTask
  <2> QED
    BY <1>2, <2>1, <2>3 DEF TaskPcs, x
<1>4. CASE Launch(w)
  <2>1. worker' = Goto(w, NotStarted)
          \/ \E s \in FreeSlots : worker' = [worker EXCEPT ![w] =
                                    [t EXCEPT !.pc = "register", !.proc = s]]
    BY <1>4 DEF Launch
  <2>2. ASSUME NEW s \in FreeSlots,
               worker' = [worker EXCEPT ![w] = [t EXCEPT !.pc = "register", !.proc = s]]
        PROVE  QueueSound'
    <3> DEFINE x == [t EXCEPT !.pc = "register", !.proc = s]
    <3>1. x.pc \in TaskPcs /\ x.plugin = t.plugin /\ x.cancelled = t.cancelled
      BY <1>1 DEF Task, TaskPcs, StartPcs
    <3>2. worker' = [worker EXCEPT ![w] = x]
      BY <2>2
    <3> HIDE DEF x
    <3> QED
      BY <1>1, <3>1, <3>2, QueueWithinTask
  <2> QED
    BY <1>2, <2>1, <2>2 DEF TaskPcs, StartPcs, NotStarted
<1>5. CASE StopPrevious(w)
  BY <1>2, <1>5 DEF StopPrevious, TaskPcs, StartPcs
<1>6. CASE Register(w)
  BY <1>2, <1>6 DEF Register, TaskPcs, StartPcs
<1>7. CASE Hello(w)
  BY <1>2, <1>7 DEF Hello, TaskPcs, StartPcs
<1>8. CASE Reject(w) \/ Discard(w)
  BY <1>2, <1>8 DEF Reject, Discard, NotStarted, TaskPcs, StartPcs
<1>9. CASE Finish(w)
  <2>1. PICK pc \in TaskPcs : worker' = Goto(w, pc) \/ worker' = Drop(w, pc)
    BY <1>9 DEF Finish, TaskPcs
  <2> QED
    BY <1>2, <2>1
<1> QED
  BY <1>3, <1>4, <1>5, <1>6, <1>7, <1>8, <1>9

LEMMA PickQueue ==
  ASSUME Typed, QueueSound, NEW w \in Workers, Pick(w)
  PROVE  QueueSound'
<1>1. worker[w].pc = "pick" /\ \A p \in Plugins : ~Holds(w, p)
  BY DEF Pick, Holds, HasTask, TaskPcs, StartPcs
<1>2. UNCHANGED <<att, closed, user>>
  BY DEF Pick
<1>3. CASE /\ closed \/ pending = <<>>
           /\ worker' = [worker EXCEPT ![w] = Off]
           /\ UNCHANGED pending
  <2>1. pending = <<>>
    BY <1>3 DEF QueueSound
  <2>2. worker'[w] = Off /\ \A v \in Workers \ {w} : worker'[v] = worker[v]
    BY <1>3 DEF Typed, TasksSound
  <2>3. \A v \in Workers, p \in Plugins : Holds(v, p)' <=> Holds(v, p)
    <3>1. \A p \in Plugins : ~Holds(w, p)'
      BY <2>2 DEF Holds, HasTask, Off, TaskPcs, StartPcs
    <3>2. \A v \in Workers \ {w}, p \in Plugins : Holds(v, p)' <=> Holds(v, p)
      BY <2>2 DEF Holds, HasTask
    <3> QED
      BY <1>1, <3>1, <3>2
  <2> QED
    BY <1>2, <1>3, <2>1, <2>3 DEF QueueSound
<1>4. CASE /\ ~closed /\ pending # <<>>
           /\ worker' = [worker EXCEPT ![w] = [Off EXCEPT !.pc = "begin",
                          !.plugin = Head(pending), !.rev = att[Head(pending)].rev]]
           /\ pending' = Tail(pending)
  <2> DEFINE h == Head(pending)
  <2>1. /\ h \in Plugins /\ Contains(pending, h)
        /\ \A x \in Plugins : Contains(pending', x) <=> Contains(pending, x) /\ x # h
    BY <1>4, TailQueue DEF Typed, QueueTyped
  <2>2. /\ worker'[w].pc = "begin" /\ worker'[w].plugin = h /\ worker'[w].cancelled = FALSE
        /\ \A v \in Workers \ {w} : worker'[v] = worker[v]
    BY <1>4 DEF Typed, TasksSound, Off
  <2>3. \A p \in Plugins : Holds(w, p)' <=> p = h
    BY <2>2 DEF Holds, HasTask, TaskPcs
  <2>4. \A v \in Workers \ {w}, p \in Plugins : Holds(v, p)' <=> Holds(v, p)
    BY <2>2 DEF Holds, HasTask
  <2> HIDE DEF h
  <2>5. att[h] # None /\ \A v \in Workers : ~Holds(v, h)
    BY <2>1 DEF QueueSound
  <2>6. \A p \in Plugins : Contains(pending', p) =>
          /\ att'[p] # None
          /\ \A v \in Workers : ~Holds(v, p)'
    BY <1>1, <1>2, <2>1, <2>3, <2>4 DEF QueueSound
  <2>7. \A p \in Plugins, v \in Workers : Holds(v, p)' =>
          /\ att'[p] # None
          /\ \A x \in Workers : Holds(x, p)' => x = v
    BY <1>2, <2>3, <2>4, <2>5 DEF QueueSound
  <2>8. \A p \in Plugins : att'[p] # None => Contains(pending', p) \/ \E v \in Workers : Holds(v, p)'
    <3>1. ASSUME NEW p \in Plugins, att[p] # None, p # h
          PROVE  Contains(pending', p) \/ \E v \in Workers : Holds(v, p)'
      BY <1>1, <2>1, <2>4, <3>1 DEF QueueSound
    <3> QED
      BY <1>2, <2>3, <3>1
  <2>9. worker'[w].pc # "off" /\ ~closed'
    BY <1>2, <1>4, <2>2
  <2>10. \A u \in Users : user'[u].pc = "wait" => att'[user'[u].plugin] # None
    BY <1>2 DEF QueueSound
  <2> QED
    BY <2>6, <2>7, <2>8, <2>9, <2>10 DEF QueueSound
<1> QED
  BY <1>3, <1>4 DEF Pick

LEMMA CompleteQueue ==
  ASSUME Typed, QueueSound, NEW w \in Workers, Complete(w)
  PROVE  QueueSound'
<1> DEFINE t == worker[w]
           p == t.plugin
           result == IF t.pc = "succeeded" /\ Alive(rec[p].proc) THEN rec[p].proc ELSE NoProc
<1>1. HasTask(w)
  BY DEF Complete, HasTask, TaskPcs
<1>2. p \in Plugins /\ t \in Task /\ rec[p] \in Record
  BY <1>1, TaskOf
<1>3. worker'[w].pc = "pick" /\ \A v \in Workers \ {w} : worker'[v] = worker[v]
  BY DEF Complete, Typed, TasksSound, Off
<1>4. (\A x \in Plugins : ~Holds(w, x)')
      /\ \A v \in Workers \ {w}, x \in Plugins : Holds(v, x)' <=> Holds(v, x)
  BY <1>3 DEF Holds, HasTask, TaskPcs, StartPcs
<1>5. UNCHANGED <<pending, closed>>
  BY DEF Complete
<1>6. CASE t.cancelled /\ UNCHANGED <<att, user>>
  <2>1. \A x \in Plugins : ~Holds(w, x)
    BY <1>6 DEF Holds
  <2>2. \A v \in Workers, x \in Plugins : Holds(v, x)' <=> Holds(v, x)
    BY <1>4, <2>1
  <2> QED
    BY <1>3, <1>5, <1>6, <2>2, QueueFrame DEF queue
<1>7. CASE /\ ~t.cancelled /\ att' = [att EXCEPT ![p] = None]
           /\ user' = Answered(user, {p}, result)
  <2>1. Holds(w, p)
    BY <1>1, <1>7 DEF Holds
  <2>2. ~Contains(pending, p) /\ \A v \in Workers : Holds(v, p) => v = w
    BY <1>2, <2>1 DEF QueueSound
  <2>3. att'[p] = None /\ \A x \in Plugins \ {p} : att'[x] = att[x]
    BY <1>2, <1>7 DEF Typed, QueueTyped
  <2>4. \A x \in Plugins \ {p} : ~Holds(w, x)
    BY DEF Holds
  <2>5. \A u \in Users : user'[u].pc = "wait" => user[u].pc = "wait" /\ user'[u] = user[u]
                                                  /\ user[u].plugin # p
    <3>1. result \in Slots
      BY <1>2 DEF Record, Slots
    <3> HIDE DEF result
    <3>2. {p} \in SUBSET Plugins /\ user \in [Users -> User] /\ \A u \in Users : UserSound(user[u])
      BY <1>2 DEF Typed, UsersSound
    <3>3. \A u \in Users :
            user'[u].pc = "wait" =>
              user[u].pc = "wait" /\ user'[u] = user[u] /\ user[u].plugin \notin {p}
      BY <1>7, <3>1, <3>2, AnsweredUsers
    <3> QED
      BY <3>3
  <2>6. \A u \in Users : user'[u].pc = "wait" => att'[user'[u].plugin] # None
    <3>1. \A u \in Users : user[u].pc = "wait" => user[u].plugin \in Plugins
      BY DEF Typed, UsersSound, UserSound
    <3> QED
      BY <2>3, <2>5, <3>1 DEF QueueSound
  <2> HIDE DEF p
  <2>7. \A x \in Plugins : Contains(pending', x) =>
          /\ att'[x] # None
          /\ \A v \in Workers : ~Holds(v, x)'
    BY <1>4, <1>5, <2>2, <2>3 DEF QueueSound
  <2>8. \A x \in Plugins, v \in Workers : Holds(v, x)' =>
          /\ att'[x] # None
          /\ \A y \in Workers : Holds(y, x)' => y = v
    BY <1>4, <2>2, <2>3 DEF QueueSound
  <2>9. \A x \in Plugins : att'[x] # None => Contains(pending', x) \/ \E v \in Workers : Holds(v, x)'
    BY <1>4, <1>5, <2>3, <2>4 DEF QueueSound
  <2>10. pending' # <<>> => worker'[w].pc # "off"
    BY <1>3
  <2>11. closed' => pending' = <<>>
    BY <1>5 DEF QueueSound
  <2> QED
    BY <2>6, <2>7, <2>8, <2>9, <2>10, <2>11 DEF QueueSound
<1> QED
  BY <1>6, <1>7 DEF Complete

LEMMA EnqueueQueue ==
  ASSUME Typed, QueueSound, NEW u \in Users, NEW p \in Plugins, NEW background \in BOOLEAN,
         Enqueue(u, p, background), ~closed, UNCHANGED closed
  PROVE  QueueSound'
<1> DEFINE q == Queued(p, background)
           asked == [user EXCEPT ![u] = Waits(p)]
           e == [rev |-> rec[p].rev, background |-> background]
           entered == IF att[p] # None THEN att ELSE [att EXCEPT ![p] = e]
           off == {w \in Workers : worker[w].pc = "off"}
           failed == ToSet(q)
<1>1. /\ q \in Seq(Plugins) /\ IsInjective(q)
      /\ \A x \in Plugins : Contains(q, x) <=> Contains(pending, x) \/ (x = p /\ att[p] = None)
  BY QueuedQueue DEF Typed, QueueSound
<1>2. /\ \A x \in Plugins \ {p} : entered[x] = att[x]
      /\ att[p] # None => entered[p] = att[p]
  BY DEF Typed, QueueTyped
<1>3. entered[p] # None
  <2>1. e \in Attempt
    BY DEF Typed, RecordsSound, Record, Attempt
  <2>2. e # None
    BY <2>1
  <2> HIDE DEF e
  <2> QED
    BY <2>2 DEF Typed, QueueTyped
<1>4. /\ asked[u].pc = "wait" /\ asked[u].plugin = p
      /\ \A v \in Users \ {u} : asked[v] = user[v]
      /\ asked \in [Users -> User] /\ \A v \in Users : UserSound(asked[v])
  <2>1. Waits(p) \in User /\ UserSound(Waits(p)) /\ Waits(p).pc = "wait" /\ Waits(p).plugin = p
    BY DEF Waits, UserSound, User, UserPcs, Slots
  <2> QED
    BY <2>1 DEF Typed, UsersSound
<1>5. \A v \in Users : asked[v].pc = "wait" => asked[v].plugin \in Plugins
                                               /\ entered[asked[v].plugin] # None
  <2>1. ASSUME NEW v \in Users, v # u, user[v].pc = "wait"
        PROVE  user[v].plugin \in Plugins /\ entered[user[v].plugin] # None
    <3>1. user[v].plugin \in Plugins /\ att[user[v].plugin] # None
      BY <2>1 DEF Typed, UsersSound, UserSound, QueueSound
    <3> HIDE DEF entered
    <3> QED
      BY <1>2, <1>3, <3>1
  <2> QED
    BY <1>3, <1>4, <2>1
<1> HIDE DEF q, asked, entered
(* In the first two outcomes the attempt is queued and a worker runs.      *)
<1>6. ASSUME att' = entered, pending' = q, user' = asked,
             \A v \in Workers, x \in Plugins : Holds(v, x)' <=> Holds(v, x),
             pending' # <<>> => \E w \in Workers : worker'[w].pc # "off"
      PROVE  QueueSound'
  <2>1. \A x \in Plugins : Contains(pending', x) =>
          /\ att'[x] # None
          /\ \A v \in Workers : ~Holds(v, x)'
    <3>1. ASSUME NEW x \in Plugins, Contains(pending, x)
          PROVE  entered[x] # None /\ \A v \in Workers : ~Holds(v, x)
      BY <1>2, <1>3, <3>1 DEF QueueSound
    <3>2. att[p] = None => \A v \in Workers : ~Holds(v, p)
      BY DEF QueueSound
    <3> QED
      BY <1>1, <1>3, <1>6, <3>1, <3>2
  <2>2. \A x \in Plugins, v \in Workers : Holds(v, x)' =>
          /\ att'[x] # None
          /\ \A y \in Workers : Holds(y, x)' => y = v
    BY <1>2, <1>3, <1>6 DEF QueueSound
  <2>3. \A x \in Plugins : att'[x] # None => Contains(pending', x) \/ \E v \in Workers : Holds(v, x)'
    <3>1. ASSUME NEW x \in Plugins, att[x] # None
          PROVE  Contains(q, x) \/ \E v \in Workers : Holds(v, x)
      BY <1>1, <3>1 DEF QueueSound
    <3>2. ASSUME att[p] = None
          PROVE  Contains(q, p)
      BY <1>1, <3>2
    <3> QED
      BY <1>2, <1>6, <3>1, <3>2
  <2>4. \A v \in Users : user'[v].pc = "wait" => att'[user'[v].plugin] # None
    BY <1>5, <1>6
  <2> QED
    BY <1>6, <2>1, <2>2, <2>3, <2>4 DEF QueueSound
<1>7. ASSUME off = {} \/ q = <<>> \/ off # Workers,
             att' = entered, pending' = q, user' = asked, UNCHANGED worker
      PROVE  QueueSound'
  <2>1. \A v \in Workers, x \in Plugins : Holds(v, x)' <=> Holds(v, x)
    BY <1>7 DEF Holds, HasTask
  <2>2. pending' # <<>> => \E w \in Workers : worker'[w].pc # "off"
    BY <1>7
  <2> QED
    BY <1>6, <1>7, <2>1, <2>2
<1>8. ASSUME NEW w \in off, worker' = [worker EXCEPT ![w] = [Off EXCEPT !.pc = "pick"]],
             att' = entered, pending' = q, user' = asked
      PROVE  QueueSound'
  <2>1. /\ w \in Workers /\ worker[w].pc = "off" /\ worker'[w].pc = "pick"
        /\ \A v \in Workers \ {w} : worker'[v] = worker[v]
    BY <1>8 DEF Typed, TasksSound, Off
  <2>2. \A x \in Plugins : ~Holds(w, x) /\ ~Holds(w, x)'
    BY <2>1 DEF Holds, HasTask, TaskPcs, StartPcs
  <2>3. \A v \in Workers \ {w}, x \in Plugins : Holds(v, x)' <=> Holds(v, x)
    BY <2>1 DEF Holds, HasTask
  <2>4. \A v \in Workers, x \in Plugins : Holds(v, x)' <=> Holds(v, x)
    BY <2>2, <2>3
  <2> QED
    BY <1>6, <1>8, <2>1, <2>4
(* In the third nothing is queued and nobody waits any more.               *)
<1>9. ASSUME off = Workers,
             att' = [x \in Plugins |-> IF x \in failed THEN None ELSE entered[x]],
             pending' = <<>>, user' = Answered(asked, failed, NoProc), UNCHANGED worker
      PROVE  QueueSound'
  <2>1. \A v \in Workers, x \in Plugins : ~Holds(v, x) /\ ~Holds(v, x)'
    BY <1>9 DEF Holds, HasTask, TaskPcs, StartPcs
  <2>2. \A x \in Plugins : Contains(q, x) => x \in failed
    BY <1>1 DEF Contains, ToSet
  <2>3. ASSUME NEW x \in Plugins
        PROVE  att'[x] = None
    <3>1. CASE x \in failed
      BY <1>9, <3>1
    <3>2. CASE x \notin failed
      <4>1. ~Contains(q, x)
        BY <2>2, <3>2
      <4>2. ~Contains(pending, x) /\ ~(x = p /\ att[p] = None)
        BY <1>1, <4>1
      <4>3. att[x] = None
        BY <2>1, <4>2 DEF QueueSound
      <4>4. x # p
        BY <4>2, <4>3
      <4> QED
        BY <1>2, <1>9, <3>2, <4>3, <4>4
    <3> QED
      BY <3>1, <3>2
  <2>4. failed \in SUBSET Plugins
    <3>1. \A i \in DOMAIN q : q[i] \in Plugins
      BY <1>1
    <3> QED
      BY <3>1 DEF ToSet
  <2>5. ASSUME NEW v \in Users, user'[v].pc = "wait"
        PROVE  FALSE
    <3>1. /\ asked[v].pc = "wait" /\ asked[v].plugin \notin failed
      <4>1. NoProc \in Slots
        BY DEF Slots
      <4> QED
        BY <1>4, <1>9, <2>4, <2>5, <4>1, AnsweredUsers
    <3>2. asked[v].plugin \in Plugins /\ entered[asked[v].plugin] # None
      BY <1>5, <3>1
    <3>3. att'[asked[v].plugin] = entered[asked[v].plugin]
      BY <1>9, <3>1, <3>2
    <3> QED
      BY <2>3, <3>2, <3>3
  <2>6. \A x \in Plugins : ~Contains(pending', x)
    BY <1>9 DEF Contains
  <2> QED
    BY <1>9, <2>1, <2>3, <2>5, <2>6 DEF QueueSound
<1> QED
  BY <1>7, <1>8, <1>9 DEF Enqueue, q, asked, entered

LEMMA ActivateQueue ==
  ASSUME Typed, QueueSound, NEW u \in Users, NEW p \in Plugins, NEW retry \in BOOLEAN,
         NEW background \in BOOLEAN, Activate(u, p, retry, background)
  PROVE  QueueSound'
<1>1. CASE Enqueue(u, p, background) /\ ~closed /\ UNCHANGED closed
  BY <1>1, EnqueueQueue
<1>2. ASSUME NEW s \in Slots, user' = [user EXCEPT ![u] = Answer(u, p, s)],
             UNCHANGED <<att, pending, closed, worker>>
      PROVE  QueueSound'
  <2>1. Answer(u, p, s) \in User /\ Answer(u, p, s).pc # "wait"
    BY AnswerSound DEF UserSound
  <2> QED
    BY <1>2, <2>1, QueueElsewhere DEF queue
<1>3. NoProc \in Slots /\ rec[p].proc \in Slots
  BY DEF Slots, Typed, RecordsSound, Record
<1> QED
  BY <1>1, <1>2, <1>3 DEF Activate

LEMMA InvalidateQueue ==
  ASSUME Typed, QueueSound, NEW p \in Plugins, Invalidate(p)
  PROVE  QueueSound'
<1>1. \A x \in Plugins : Contains(pending', x) <=> Contains(pending, x) /\ x # p
  BY WithoutQueue DEF Invalidate, Typed, QueueTyped
<1>2. att'[p] = None /\ \A x \in Plugins \ {p} : att'[x] = att[x]
  BY DEF Invalidate, Typed, QueueTyped
<1>3. \A w \in Workers :
        /\ worker'[w] = IF HasTask(w) /\ worker[w].plugin = p /\ att[p] # None
                        THEN [worker[w] EXCEPT !.cancelled = TRUE] ELSE worker[w]
        /\ worker[w] \in Task
  BY DEF Invalidate, Cancelled, Typed, TasksSound
<1>4. \A w \in Workers : ~Holds(w, p)'
  <2>1. ASSUME NEW w \in Workers, HasTask(w), worker[w].plugin = p, att[p] # None
        PROVE  ~Holds(w, p)'
    <3>1. worker'[w].cancelled
      BY <1>3, <2>1 DEF Task
    <3> QED
      BY <3>1 DEF Holds
  <2>2. ASSUME NEW w \in Workers, ~(HasTask(w) /\ worker[w].plugin = p /\ att[p] # None)
        PROVE  ~Holds(w, p)'
    <3>1. worker'[w] = worker[w] /\ ~Holds(w, p)
      BY <1>3, <2>2 DEF Holds, QueueSound
    <3> QED
      BY <3>1 DEF Holds, HasTask
  <2> QED
    BY <2>1, <2>2
<1>5. \A w \in Workers, x \in Plugins \ {p} : Holds(w, x)' <=> Holds(w, x)
  <2>1. ASSUME NEW w \in Workers, NEW x \in Plugins \ {p}
        PROVE  Holds(w, x)' <=> Holds(w, x)
    <3>1. CASE worker'[w] = worker[w]
      BY <3>1 DEF Holds, HasTask
    <3>2. CASE worker[w].plugin = p /\ worker'[w] = [worker[w] EXCEPT !.cancelled = TRUE]
      <4>1. worker'[w].plugin = p
        BY <1>3, <3>2 DEF Task
      <4> QED
        BY <3>2, <4>1 DEF Holds
    <3> QED
      BY <1>3, <3>1, <3>2
  <2> QED
    BY <2>1
<1>6. \A w \in Workers : worker'[w].pc = worker[w].pc
  BY <1>3 DEF Task
<1>7. \A u \in Users : user'[u].pc = "wait" => att'[user'[u].plugin] # None
  <2>1. {p} \in SUBSET Plugins /\ NoProc \in Slots
    BY DEF Slots
  <2>2. \A u \in Users : user'[u].pc = "wait" =>
          user[u].pc = "wait" /\ user'[u] = user[u] /\ user[u].plugin \notin {p}
    BY <2>1, AnsweredUsers DEF Invalidate, Typed, UsersSound
  <2>3. \A u \in Users : user[u].pc = "wait" => user[u].plugin \in Plugins
    BY DEF Typed, UsersSound, UserSound
  <2> QED
    BY <1>2, <2>2, <2>3 DEF QueueSound
<1>8. \A x \in Plugins : Contains(pending', x) =>
        /\ att'[x] # None
        /\ \A v \in Workers : ~Holds(v, x)'
  BY <1>1, <1>2, <1>5 DEF QueueSound
<1>9. \A x \in Plugins, v \in Workers : Holds(v, x)' =>
        /\ att'[x] # None
        /\ \A y \in Workers : Holds(y, x)' => y = v
  BY <1>2, <1>4, <1>5 DEF QueueSound
<1>10. \A x \in Plugins : att'[x] # None => Contains(pending', x) \/ \E v \in Workers : Holds(v, x)'
  BY <1>1, <1>2, <1>5 DEF QueueSound
<1>11. pending = <<>> => pending' = <<>>
  BY DEF Invalidate, Without, Contains
<1>12. closed' => pending' = <<>>
  BY <1>11 DEF Invalidate, QueueSound
<1>13. pending' # <<>> => \E w \in Workers : worker'[w].pc # "off"
  BY <1>6, <1>11 DEF QueueSound
<1> QED
  BY <1>7, <1>8, <1>9, <1>10, <1>12, <1>13 DEF QueueSound

LEMMA CloseQueueQueue ==
  ASSUME Typed, QueueSound, CloseQueue
  PROVE  QueueSound'
<1>1. \A x \in Plugins : att'[x] = None /\ ~Contains(pending', x)
  BY DEF CloseQueue, Contains
<1>2. \A w \in Workers, x \in Plugins : ~Holds(w, x)'
  <2>1. ASSUME NEW w \in Workers, NEW x \in Plugins
        PROVE  ~Holds(w, x)'
    <3>1. worker[w] \in Task /\
          worker'[w] = IF HasTask(w) THEN [worker[w] EXCEPT !.cancelled = TRUE] ELSE worker[w]
      BY DEF CloseQueue, Typed, TasksSound
    <3>2. CASE HasTask(w)
      <4>1. worker'[w].cancelled
        BY <3>1, <3>2 DEF Task
      <4> QED
        BY <4>1 DEF Holds
    <3>3. CASE ~HasTask(w)
      BY <3>1, <3>3 DEF Holds, HasTask
    <3> QED
      BY <3>2, <3>3
  <2> QED
    BY <2>1
<1>3. \A u \in Users : user'[u].pc # "wait"
  <2>1. Plugins \in SUBSET Plugins /\ NoProc \in Slots
    BY DEF Slots
  <2>2. \A u \in Users : user'[u].pc = "wait" =>
          user[u].pc = "wait" /\ user'[u] = user[u] /\ user[u].plugin \notin Plugins
    BY <2>1, AnsweredUsers DEF CloseQueue, Typed, UsersSound
  <2>3. \A u \in Users : user[u].pc = "wait" => user[u].plugin \in Plugins
    BY DEF Typed, UsersSound, UserSound
  <2> QED
    BY <2>2, <2>3
<1>4. pending' = <<>>
  BY DEF CloseQueue
<1> QED
  BY <1>1, <1>2, <1>3, <1>4 DEF QueueSound

LEMMA NextQueue ==
  ASSUME Typed, QueueSound, [Next]_vars PROVE QueueSound'
<1>1. ASSUME NEW w \in Workers, Work(w)
      PROVE  QueueSound'
  BY <1>1, PickQueue, TaskQueue, CompleteQueue DEF Work
<1>2. ASSUME NEW s \in ProcIds, Read(s) \/ ChildDies(s)
      PROVE  QueueSound'
  BY <1>2, QueueElsewhere DEF Read, ReaderEnds, ProcessExited, Reap, ChildDies
<1>3. IdleUser \in User /\ IdleUser.pc # "wait"
  BY DEF IdleUser, User, UserPcs, Slots
<1>4. ASSUME NEW c \in Callers,
             \/ \E p \in budget.plugins : EnterCall(c, p)
             \/ CallActivates(c) \/ GiveUp(c) \/ Dispatch(c) \/ EndCall(c)
      PROVE  QueueSound'
  <2>0. c \in Users /\ user[c] \in User /\ UserSound(user[c])
    BY DEF Users, Typed, UsersSound
  <2>1. ASSUME NEW p \in budget.plugins, EnterCall(c, p)
        PROVE  QueueSound'
    <3> DEFINE t == [pc |-> "enter", plugin |-> p, proc |-> NoProc]
    <3>1. t \in User /\ t.pc # "wait"
      BY SpentBudget DEF User, UserPcs, Slots
    <3>2. user' = [user EXCEPT ![c] = t] /\ UNCHANGED <<queue, worker>>
      BY <2>1 DEF EnterCall
    <3> HIDE DEF t
    <3> QED
      BY <2>0, <3>1, <3>2, QueueElsewhere
  <2>2. CASE CallActivates(c)
    <3>1. user[c].plugin \in Plugins
      BY <2>0, <2>2 DEF CallActivates, UserSound
    <3>2. PICK retry \in BOOLEAN : Activate(c, user[c].plugin, retry, FALSE)
      BY <2>2 DEF CallActivates
    <3> QED
      BY <2>0, <3>1, <3>2, ActivateQueue
  <2>3. CASE GiveUp(c) \/ EndCall(c)
    BY <1>3, <2>0, <2>3, QueueElsewhere DEF GiveUp, EndCall
  <2>4. CASE Dispatch(c)
    <3> DEFINE t == [user[c] EXCEPT !.pc = "call"]
    <3>1. t \in User /\ t.pc # "wait"
      BY <2>0 DEF User, UserPcs
    <3>2. /\ user' = [user EXCEPT ![c] = t] \/ user' = [user EXCEPT ![c] = IdleUser]
          /\ UNCHANGED <<queue, worker>>
      BY <2>4 DEF Dispatch
    <3> HIDE DEF t
    <3> QED
      BY <1>3, <2>0, <3>1, <3>2, QueueElsewhere
  <2> QED
    BY <1>4, <2>1, <2>2, <2>3, <2>4
<1>5. ASSUME NEW u \in Restorers, NEW p \in budget.plugins, Restore(u, p)
      PROVE  QueueSound'
  BY <1>5, SpentBudget, ActivateQueue DEF Restore, Users
<1>6. ASSUME NEW p \in budget.plugins,
             \/ Enable(p)
             \/ \E kind \in {"disable", "uninstall"} : Disable(kind, p)
             \/ \E k \in budget.packages : Install(p, k)
      PROVE  QueueSound'
  BY <1>6, QueueElsewhere DEF Enable, Disable, Install
<1>7. CASE Management
  <2>1. mgr.pc # "idle" => mgr.plugin \in Plugins
    BY MgrOf
  <2>2. CASE MgrInvalidate
    BY <2>1, <2>2, InvalidateQueue DEF MgrInvalidate
  <2>3. CASE Start \/ Restart
    BY <2>1, <2>3, ActivateQueue DEF Start, Restart, MgrActivates, Users
  <2>4. CASE StartEnds
    BY <1>3, <2>4, QueueElsewhere DEF StartEnds, Users
  <2>5. CASE Pause \/ MgrStop \/ RemovePackage \/ ForgetPlugin \/ Unlink \/ Place \/ Refresh
               \/ Rollback \/ RefreshBack
    BY <2>5, QueueElsewhere
       DEF Pause, MgrStop, RemovePackage, ForgetPlugin, Unlink, Place, Refresh, Rollback,
           RefreshBack
  <2> QED
    BY <1>7, <2>2, <2>3, <2>4, <2>5 DEF Management
<1>8. CASE BeginUpgrade \/ EndUpgrade \/ BeginShutdown \/ TakeProcesses \/ StopTaken \/ UNCHANGED vars
  <2>1. UNCHANGED <<queue, worker>> /\ UNCHANGED user
    BY <1>8 DEF BeginUpgrade, EndUpgrade, BeginShutdown, TakeProcesses, StopTaken, vars, queue
  <2> QED
    BY <2>1, QueueElsewhere
<1> QED
  BY <1>1, <1>2, <1>4, <1>5, <1>6, <1>7, <1>8, CloseQueueQueue DEF Next, Shutdown

--------------------------------------------------------------------------------
(* What must be down.                                                      *)

(* No process object anyone refers to comes alive again.                   *)
NoRevival == \A s \in ProcIds : Referenced(s) /\ procs'[s].alive => procs[s].alive

LEMMA StopRevivesNone ==
  ASSUME Typed, NEW s \in ProcIds, procs' = Stopped(s) \/ procs' = Unstopped(s)
  PROVE  NoRevival /\ ~procs'[s].alive
<1>1. procs \in [ProcIds -> Process] /\ procs[s] \in Process
  BY DEF Typed, ProcsTyped
<1>2. PICK x : /\ procs' = [procs EXCEPT ![s] = x]
               /\ x \in {[procs[s] EXCEPT !.alive = FALSE, !.child = FALSE],
                         [procs[s] EXCEPT !.alive = FALSE]}
  BY DEF Stopped, Unstopped
<1>3. x.alive = FALSE
  BY <1>1, <1>2 DEF Process
<1> QED
  BY <1>1, <1>2, <1>3 DEF NoRevival

LEMMA FieldRevivesNone ==
  ASSUME Typed, NEW s \in ProcIds, NEW x, x.alive => procs[s].alive,
         procs' = [procs EXCEPT ![s] = x]
  PROVE  NoRevival
BY DEF Typed, ProcsTyped, NoRevival

LEMMA NextRevivesNone ==
  ASSUME Typed, QueueSound, [Next]_vars PROVE NoRevival
<1>1. CASE UNCHANGED procs
  BY <1>1 DEF NoRevival
<1>2. ASSUME NEW w \in Workers, Work(w)
      PROVE  NoRevival
  <2> DEFINE t == worker[w]
             s == t.proc
  <2>1. t \in Task /\ TaskSound(t, procs) /\ s \in Slots
    BY TaskOf DEF Task
  <2>2. CASE StopPrevious(w) \/ Reject(w) \/ Discard(w)
    <3>1. s \in ProcIds
      BY <2>1, <2>2 DEF StopPrevious, Reject, Discard, TaskSound, Slots
    <3> QED
      BY <2>2, <3>1, StopRevivesNone DEF StopPrevious, Reject, Discard, StartupGuard, StopAnyway
  <2>3. CASE Register(w)
    <3> DEFINE x == [procs[s] EXCEPT !.reader = "reading"]
    <3>1. s \in ProcIds
      BY <2>1, <2>3 DEF Register, TaskSound, Slots
    <3>2. procs[s] \in Process
      BY <3>1 DEF Typed, ProcsTyped
    <3>3. x.alive = procs[s].alive
      BY <3>2 DEF Process
    <3>4. UNCHANGED procs \/ procs' = [procs EXCEPT ![s] = x]
      BY <2>3 DEF Register
    <3> HIDE DEF x
    <3> QED
      BY <1>1, <3>1, <3>3, <3>4, FieldRevivesNone
  <2>4. CASE Hello(w)
    <3> DEFINE x == [procs[s] EXCEPT !.hello = TRUE]
    <3>1. s \in ProcIds
      BY <2>1, <2>4 DEF Hello, TaskSound, Slots
    <3>2. procs[s] \in Process
      BY <3>1 DEF Typed, ProcsTyped
    <3>3. x.alive = procs[s].alive
      BY <3>2 DEF Process
    <3>4. UNCHANGED procs \/ procs' = [procs EXCEPT ![s] = x]
      BY <2>4 DEF Hello
    <3> HIDE DEF x
    <3> QED
      BY <1>1, <3>1, <3>3, <3>4, FieldRevivesNone
  <2>5. CASE Launch(w)
    <3>1. ASSUME NEW i \in FreeSlots, NEW x, procs' = [procs EXCEPT ![i] = x]
          PROVE  NoRevival
      BY <3>1 DEF FreeSlots, NoRevival, Typed, ProcsTyped
    <3> QED
      BY <1>1, <2>5, <3>1 DEF Launch
  <2>6. CASE Pick(w) \/ Begin(w) \/ Finish(w) \/ Complete(w)
    BY <1>1, <2>6 DEF Pick, Begin, Finish, Complete
  <2> QED
    BY <1>2, <2>2, <2>3, <2>4, <2>5, <2>6 DEF Work
<1>3. ASSUME NEW s \in ProcIds, Read(s) \/ ChildDies(s)
      PROVE  NoRevival
  <2>1. procs[s] \in Process
    BY DEF Typed, ProcsTyped
  <2>2. CASE Reap(s)
    BY <2>2, StopRevivesNone DEF Reap, Killed
  <2>3. CASE ChildDies(s) \/ ReaderEnds(s) \/ ProcessExited(s)
    <3>1. PICK x : /\ procs' = [procs EXCEPT ![s] = x]
                   /\ x \in {[procs[s] EXCEPT !.child = FALSE],
                             [procs[s] EXCEPT !.alive = FALSE, !.reader = "ended"],
                             [procs[s] EXCEPT !.reader = "gone"]}
      BY <2>3 DEF ChildDies, ReaderEnds, ProcessExited
    <3>2. x.alive => procs[s].alive
      BY <2>1, <3>1 DEF Process
    <3> QED
      BY <3>1, <3>2, FieldRevivesNone
  <2> QED
    BY <1>3, <2>2, <2>3 DEF Read
<1>4. CASE MgrStop
  <2>1. UNCHANGED procs \/ (mgr.proc \in ProcIds /\ (procs' = Stopped(mgr.proc) \/ procs' = Unstopped(mgr.proc)))
    BY <1>4, MgrOf DEF MgrStop, Operation, Slots
  <2> QED
    BY <1>1, <2>1, StopRevivesNone
<1>5. CASE StopTaken
  <2>1. sd.procs \subseteq ProcIds
    BY DEF Typed, RestTyped
  <2> QED
    BY <1>1, <1>5, <2>1, StopRevivesNone DEF StopTaken, StopAnyway
<1>6. ASSUME NEW c \in Callers,
             \/ \E p \in budget.plugins : EnterCall(c, p)
             \/ CallActivates(c) \/ GiveUp(c) \/ Dispatch(c) \/ EndCall(c)
      PROVE  UNCHANGED procs
  BY <1>6 DEF EnterCall, CallActivates, Activate, GiveUp, Dispatch, EndCall
<1>7. ASSUME NEW u \in Restorers, NEW p \in budget.plugins, Restore(u, p)
      PROVE  UNCHANGED procs
  BY <1>7 DEF Restore, Activate
<1>8. ASSUME NEW p \in budget.plugins,
             \/ Enable(p)
             \/ \E kind \in {"disable", "uninstall"} : Disable(kind, p)
             \/ \E k \in budget.packages : Install(p, k)
      PROVE  UNCHANGED procs
  BY <1>8 DEF Enable, Disable, Install
<1>9. CASE Management /\ ~MgrStop
  BY <1>1, <1>9 DEF Management, Pause, MgrInvalidate, RemovePackage, ForgetPlugin, Unlink, Place,
       Refresh, Start, Restart, MgrActivates, Activate, StartEnds, Rollback, RefreshBack
<1>10. CASE BeginUpgrade \/ EndUpgrade \/ BeginShutdown \/ CloseQueue \/ TakeProcesses \/ UNCHANGED vars
  BY <1>1, <1>10 DEF BeginUpgrade, EndUpgrade, BeginShutdown, CloseQueue, TakeProcesses, vars
<1> QED
  BY <1>1, <1>2, <1>3, <1>4, <1>5, <1>6, <1>7, <1>8, <1>9, <1>10 DEF Next, Shutdown

LEMMA DownSame ==
  ASSUME Typed, KeptDown, NoRevival, UNCHANGED rec,
         sd'.pc \in {"stopping", "done"} => sd.pc \in {"stopping", "done"}
  PROVE  KeptDown'
<1>1. \A p \in Plugins : Alive(rec[p].proc)' => Alive(rec[p].proc)
  BY DEF Typed, RecordsSound, Record, Slots, NoRevival, Referenced, Alive
<1> QED
  BY <1>1 DEF KeptDown, MustBeDown

LEMMA DownOne ==
  ASSUME Typed, KeptDown, NoRevival, UNCHANGED sd, NEW p \in Plugins, NEW x,
         rec' = [rec EXCEPT ![p] = x],
         ~x.enabled \/ sd.pc \in {"stopping", "done"} =>
           /\ x.runtime \notin {"Starting", "Running"}
           /\ x.proc # NoProc => ~procs'[x.proc].alive
  PROVE  KeptDown'
<1>1. \A q \in Plugins : Alive(rec[q].proc) \/ rec[q].proc = NoProc \/ ~procs'[rec[q].proc].alive
  BY DEF Typed, RecordsSound, Record, Slots, NoRevival, Referenced, Alive
<1>2. rec'[p] = x /\ \A q \in Plugins \ {p} : rec'[q] = rec[q]
  BY DEF Typed, RecordsSound
<1>3. ASSUME NEW q \in Plugins \ {p}, MustBeDown(q)'
      PROVE  rec'[q].runtime \notin {"Starting", "Running"} /\ ~Alive(rec[q].proc)'
  <2>1. rec'[q] = rec[q] /\ MustBeDown(q)
    BY <1>2, <1>3 DEF MustBeDown
  <2> QED
    BY <1>1, <2>1 DEF KeptDown, Alive
<1>4. ASSUME MustBeDown(p)'
      PROVE  rec'[p].runtime \notin {"Starting", "Running"} /\ ~Alive(rec[p].proc)'
  BY <1>2, <1>4 DEF MustBeDown, Alive
<1> QED
  BY <1>3, <1>4 DEF KeptDown

(* What the record of p may become when only its state changes.            *)
LEMMA DownState ==
  ASSUME Typed, KeptDown, NoRevival, UNCHANGED sd, NEW p \in Plugins, NEW x,
         rec' = [rec EXCEPT ![p] = x],
         x.enabled = rec[p].enabled, x.proc \in {rec[p].proc, NoProc},
         x.runtime \in {"Starting", "Running"} =>
           rec[p].runtime \in {"Starting", "Running"} \/ ~MustBeDown(p)
  PROVE  KeptDown'
<1>1. rec[p].proc # NoProc /\ procs'[rec[p].proc].alive => Alive(rec[p].proc)
  BY DEF Typed, RecordsSound, Record, Slots, NoRevival, Referenced, Alive
<1>2. MustBeDown(p) => rec[p].runtime \notin {"Starting", "Running"} /\ ~Alive(rec[p].proc)
  BY DEF KeptDown
<1>3. ~x.enabled \/ sd.pc \in {"stopping", "done"} => MustBeDown(p)
  BY DEF MustBeDown
<1> QED
  BY <1>1, <1>2, <1>3, DownOne

LEMMA EnqueueDown ==
  ASSUME Typed, KeptDown, NoRevival, NEW u \in Users, NEW p \in Plugins, NEW retry \in BOOLEAN,
         NEW background \in BOOLEAN, Activate(u, p, retry, background)
  PROVE  KeptDown'
<1>1. UNCHANGED sd
  BY DEF Activate
<1>2. CASE UNCHANGED rec
  BY <1>1, <1>2, DownSame
<1>3. CASE Enqueue(u, p, background)
  <2> DEFINE x == [rec[p] EXCEPT !.runtime = IF @ = "Failed" THEN "Stopped" ELSE @]
  <2>1. rec' = [rec EXCEPT ![p] = x]
    BY <1>3 DEF Enqueue
  <2>2. x.enabled = rec[p].enabled /\ x.proc = rec[p].proc
        /\ (x.runtime \in {"Starting", "Running"} => x.runtime = rec[p].runtime)
    BY DEF Typed, RecordsSound, Record
  <2> HIDE DEF x
  <2> QED
    BY <1>1, <2>1, <2>2, DownState
<1> QED
  BY <1>2, <1>3 DEF Activate

LEMMA WorkDown ==
  ASSUME Typed, KeptDown, NoRevival, NEW w \in Workers, Work(w)
  PROVE  KeptDown'
<1> DEFINE t == worker[w]
           p == t.plugin
           r == rec[p]
<1>1. UNCHANGED sd
  BY DEF Work, Pick, Begin, StopPrevious, Launch, Register, Hello, Reject, Finish, Discard, Complete
<1>2. CASE UNCHANGED rec
  BY <1>1, <1>2, DownSame
<1>3. HasTask(w) => /\ p \in Plugins /\ r \in Record /\ t \in Task /\ TaskSound(t, procs)
  BY TaskOf
<1>4. ASSUME Begin(w), ~UNCHANGED rec
      PROVE  KeptDown'
  <2> DEFINE x == [r EXCEPT !.runtime = "Starting", !.rev = r.rev + 1, !.proc = NoProc]
  <2>1. rec' = [rec EXCEPT ![p] = x] /\ r.enabled /\ ~ShuttingDown /\ HasTask(w)
    BY <1>4 DEF Begin, HasTask, TaskPcs
  <2>2. x.enabled = r.enabled /\ x.proc = NoProc
    BY <1>3, <2>1 DEF Record
  <2> HIDE DEF x
  <2> QED
    BY <1>1, <1>3, <2>1, <2>2, DownOne DEF ShuttingDown
<1>5. ASSUME StopPrevious(w), ~UNCHANGED rec
      PROVE  KeptDown'
  <2> DEFINE x == [r EXCEPT !.proc = t.proc, !.runtime = "Failed"]
  <2>1. /\ rec' = [rec EXCEPT ![p] = x] /\ procs' = Unstopped(t.proc) /\ HasTask(w)
        /\ t.pc = "stopPrevious"
    BY <1>5 DEF StopPrevious, HasTask, TaskPcs, StartPcs
  <2>2. x.proc = t.proc /\ x.runtime = "Failed" /\ t.proc \in ProcIds
    BY <1>3, <2>1 DEF Record, Task, TaskSound, Slots
  <2>3. ~procs'[t.proc].alive
    BY <2>1, <2>2, StopRevivesNone
  <2> HIDE DEF x
  <2> QED
    BY <1>1, <1>3, <2>1, <2>2, <2>3, DownOne
<1>6. ASSUME Register(w), ~UNCHANGED rec
      PROVE  KeptDown'
  <2> DEFINE x == [r EXCEPT !.proc = t.proc]
  <2>1. rec' = [rec EXCEPT ![p] = x] /\ r.enabled /\ ~ShuttingDown /\ HasTask(w)
    BY <1>6 DEF Register, HasTask, TaskPcs, StartPcs
  <2>2. x.enabled = r.enabled
    BY <1>3, <2>1 DEF Record
  <2> HIDE DEF x
  <2> QED
    BY <1>1, <1>3, <2>1, <2>2, DownOne DEF ShuttingDown
<1>7. ASSUME Finish(w), ~UNCHANGED rec
      PROVE  KeptDown'
  <2>1. PICK x : /\ rec' = [rec EXCEPT ![p] = x]
                 /\ x \in {[r EXCEPT !.runtime = "Running", !.proc = t.proc],
                           [r EXCEPT !.runtime = "Failed"]}
    BY <1>7 DEF Finish
  <2>2. StillStarting(r, t) /\ HasTask(w)
    BY <1>7 DEF Finish, HasTask, TaskPcs, StartPcs
  <2>3. x.enabled = r.enabled
    BY <1>3, <2>1, <2>2 DEF Record
  <2> QED
    BY <1>1, <1>3, <2>1, <2>2, <2>3, DownOne DEF ShuttingDown, StillStarting
<1> QED
  BY <1>2, <1>4, <1>5, <1>6, <1>7
     DEF Work, Pick, Launch, Hello, Reject, Discard, Complete

LEMMA ExitDown ==
  ASSUME Typed, KeptDown, NoRevival, NEW s \in ProcIds, Read(s) \/ ChildDies(s)
  PROVE  KeptDown'
<1> DEFINE p == procs[s].plugin
           x == [rec[p] EXCEPT !.proc = NoProc, !.runtime = WithoutProc(rec[p].runtime)]
<1>1. UNCHANGED sd
  BY DEF Read, ReaderEnds, ProcessExited, Reap, ChildDies
<1>2. CASE UNCHANGED rec
  BY <1>1, <1>2, DownSame
<1>3. CASE rec' = [rec EXCEPT ![p] = x] /\ p \in Plugins
  <2>1. x.enabled = rec[p].enabled /\ x.proc = NoProc
        /\ x.runtime = WithoutProc(rec[p].runtime)
    BY <1>3 DEF Typed, RecordsSound, Record
  <2>2. x.runtime \in {"Starting", "Running"} => rec[p].runtime = "Starting"
    BY <2>1 DEF WithoutProc
  <2> HIDE DEF x
  <2> QED
    BY <1>1, <1>3, <2>1, <2>2, DownState
<1>4. UNCHANGED rec \/ rec' = [rec EXCEPT ![p] = x]
  <2>1. CASE ProcessExited(s)
    <3>1. rec' = IF rec[p].proc # s THEN rec ELSE [rec EXCEPT ![p] = x]
      BY <2>1, Zenon DEF ProcessExited
    <3> QED
      BY <3>1
  <2> QED
    BY <2>1 DEF Read, ReaderEnds, Reap, ChildDies
<1>5. p \notin Plugins /\ rec' = [rec EXCEPT ![p] = x] => UNCHANGED rec
  BY DEF Typed, RecordsSound
<1> QED
  BY <1>2, <1>3, <1>4, <1>5

(* Only an enabled plugin with a live process is taken over by a scan.     *)
LEMMA RefreshedDown ==
  ASSUME Typed, KeptDown, NoRevival, UNCHANGED <<sd, procs>>, NEW k \in Packages,
         mgr.plugin \in Plugins, rec' = Refreshed(k)
  PROVE  KeptDown'
<1>1. ASSUME NEW p \in Plugins, NEW j, rec'[p] = Scanned(rec[p], j), MustBeDown(p)'
      PROVE  rec'[p].runtime \notin {"Starting", "Running"} /\ ~Alive(rec[p].proc)'
  <2>1. /\ rec'[p].enabled = (IF rec[p].known THEN rec[p].enabled ELSE TRUE)
        /\ rec'[p].proc = (IF Keeps(rec[p], j) THEN rec[p].proc ELSE NoProc)
        /\ rec'[p].runtime = (IF Keeps(rec[p], j) THEN "Running" ELSE "Stopped")
    BY <1>1 DEF Scanned
  <2>2. rec[p].known => MustBeDown(p)
    BY <1>1, <2>1 DEF MustBeDown
  <2>3. Keeps(rec[p], j) => rec[p].known /\ Alive(rec[p].proc)
    BY DEF Keeps
  <2>4. ~Keeps(rec[p], j)
    BY <2>2, <2>3 DEF KeptDown
  <2> QED
    BY <2>1, <2>4 DEF Alive
<1>2. ASSUME NEW p \in Plugins, rec'[p] = rec[p], MustBeDown(p)'
      PROVE  rec'[p].runtime \notin {"Starting", "Running"} /\ ~Alive(rec[p].proc)'
  BY <1>2 DEF KeptDown, MustBeDown, Alive
<1>3. ASSUME NEW p \in Plugins
      PROVE  rec'[p] = Scanned(rec[p], k) \/ rec'[p] = Scanned(rec[p], rec[p].pkg) \/ rec'[p] = rec[p]
  BY DEF Refreshed
<1> QED
  BY <1>1, <1>2, <1>3 DEF KeptDown

LEMMA ManagementDown ==
  ASSUME Typed, KeptDown, NoRevival, Management
  PROVE  KeptDown'
<1> DEFINE p == mgr.plugin
           r == rec[p]
<1>1. /\ p \in Plugins /\ r \in Record /\ mgr \in Operation /\ OperationSound(mgr, procs)
      /\ mgr.proc \in Slots
  <2>1. mgr.pc # "idle"
    BY DEF Management, Pause, MgrInvalidate, MgrStop, RemovePackage, ForgetPlugin, Unlink, Place,
       Refresh, Start, Restart, MgrActivates, StartEnds, Rollback, RefreshBack
  <2> QED
    BY <2>1, MgrOf DEF Operation
<1>2. UNCHANGED sd
  BY DEF Management, Pause, MgrInvalidate, MgrStop, RemovePackage, ForgetPlugin, Unlink, Place,
     Refresh, Start, Restart, MgrActivates, Activate, StartEnds, Rollback, RefreshBack
<1>3. CASE UNCHANGED rec
  BY <1>2, <1>3, DownSame
<1>4. ASSUME Pause, ~UNCHANGED rec
      PROVE  KeptDown'
  <2> DEFINE x == [r EXCEPT !.rev = r.rev + 1, !.proc = NoProc,
                     !.runtime = IF r.proc = NoProc THEN "Stopped" ELSE "Stopping"]
  <2>1. rec' = [rec EXCEPT ![p] = x]
    BY <1>4 DEF Pause
  <2>2. x.proc = NoProc /\ x.runtime \in {"Stopped", "Stopping"}
    <3> HIDE DEF r
    <3> QED
      BY <1>1 DEF Record
  <2> HIDE DEF x
  <2> QED
    BY <1>1, <1>2, <2>1, <2>2, DownOne
<1>5. ASSUME MgrStop, ~UNCHANGED rec
      PROVE  KeptDown'
  <2>1. CASE rec' = [rec EXCEPT ![p].runtime = "Stopped"]
    <3> DEFINE x == [r EXCEPT !.runtime = "Stopped"]
    <3>1. x.enabled = r.enabled /\ x.proc = r.proc /\ x.runtime = "Stopped"
      BY <1>1 DEF Record
    <3>2. rec' = [rec EXCEPT ![p] = x]
      BY <2>1
    <3> HIDE DEF x
    <3> QED
      BY <1>1, <1>2, <3>1, <3>2, DownState
  <2>2. CASE /\ mgr.proc # NoProc /\ procs' = Unstopped(mgr.proc)
             /\ rec' = [rec EXCEPT ![p] = [@ EXCEPT !.proc = mgr.proc, !.runtime = "Failed"]]
    <3> DEFINE x == [r EXCEPT !.proc = mgr.proc, !.runtime = "Failed"]
    <3>1. x.proc = mgr.proc /\ x.runtime = "Failed"
      BY <1>1 DEF Record
    <3>2. rec' = [rec EXCEPT ![p] = x]
      BY <2>2
    <3>3. mgr.proc \in ProcIds
      BY <1>1, <2>2 DEF Slots
    <3>4. ~procs'[mgr.proc].alive
      BY <2>2, <3>3, StopRevivesNone
    <3> HIDE DEF x
    <3> QED
      BY <1>1, <1>2, <3>1, <3>2, <3>4, DownOne
  <2> QED
    BY <1>5, <2>1, <2>2 DEF MgrStop
<1>6. ASSUME RemovePackage, ~UNCHANGED rec
      PROVE  KeptDown'
  <2> DEFINE x == [r EXCEPT !.runtime = "Stopped"]
  <2>1. x.enabled = r.enabled /\ x.proc = r.proc /\ x.runtime = "Stopped"
    BY <1>1 DEF Record
  <2>2. rec' = [rec EXCEPT ![p] = x]
    BY <1>6 DEF RemovePackage
  <2> HIDE DEF x
  <2> QED
    BY <1>1, <1>2, <2>1, <2>2, DownState
<1>7. CASE ForgetPlugin
  <2>1. Unknown.runtime = "Stopped" /\ Unknown.proc = NoProc
    BY DEF Unknown
  <2> QED
    BY <1>1, <1>2, <1>7, <2>1, DownOne DEF ForgetPlugin
<1>8. ASSUME Refresh \/ RefreshBack, ~UNCHANGED rec
      PROVE  KeptDown'
  <2>1. PICK k \in Packages : rec' = Refreshed(k)
    BY <1>1, <1>8 DEF Refresh, RefreshBack, OperationSound
  <2> QED
    BY <1>1, <1>2, <1>8, <2>1, RefreshedDown DEF Refresh, RefreshBack
<1>9. CASE Start \/ Restart
  BY <1>1, <1>9, EnqueueDown DEF Start, Restart, MgrActivates, Users
<1> QED
  BY <1>3, <1>4, <1>5, <1>6, <1>7, <1>8, <1>9
     DEF Management, MgrInvalidate, Unlink, Place, StartEnds, Rollback

LEMMA NextDown ==
  ASSUME Typed, QueueSound, KeptDown, [Next]_vars PROVE KeptDown'
<1>0. NoRevival
  BY NextRevivesNone
<1>1. ASSUME NEW c \in Callers,
             \/ \E p \in budget.plugins : EnterCall(c, p)
             \/ CallActivates(c) \/ GiveUp(c) \/ Dispatch(c) \/ EndCall(c)
      PROVE  KeptDown'
  <2>1. CASE CallActivates(c)
    <3>1. c \in Users /\ user[c].plugin \in Plugins
      BY <2>1 DEF CallActivates, Users, Typed, UsersSound, UserSound
    <3>2. PICK retry \in BOOLEAN : Activate(c, user[c].plugin, retry, FALSE)
      BY <2>1 DEF CallActivates
    <3> QED
      BY <1>0, <3>1, <3>2, EnqueueDown
  <2>2. CASE UNCHANGED <<rec, sd>>
    BY <1>0, <2>2, DownSame
  <2> QED
    BY <1>1, <2>1, <2>2 DEF EnterCall, GiveUp, Dispatch, EndCall
<1>2. ASSUME NEW u \in Restorers, NEW p \in budget.plugins, Restore(u, p)
      PROVE  KeptDown'
  BY <1>0, <1>2, SpentBudget, EnqueueDown DEF Restore, Users
<1>3. ASSUME NEW p \in budget.plugins,
             \/ Enable(p)
             \/ \E kind \in {"disable", "uninstall"} : Disable(kind, p)
             \/ \E k \in budget.packages : Install(p, k)
      PROVE  KeptDown'
  <2>1. p \in Plugins /\ rec[p] \in Record /\ UNCHANGED sd
    BY <1>3, SpentBudget DEF Typed, RecordsSound, Enable, Disable, Install
  <2>2. CASE Enable(p)
    <3> DEFINE x == [rec[p] EXCEPT !.enabled = TRUE]
    <3>1. x.enabled = TRUE /\ rec' = [rec EXCEPT ![p] = x] /\ ~ShuttingDown
      BY <2>1, <2>2 DEF Enable, Operate, Record
    <3> HIDE DEF x
    <3> QED
      BY <1>0, <2>1, <3>1, DownOne DEF ShuttingDown
  <2>3. ASSUME NEW kind \in {"disable", "uninstall"}, Disable(kind, p)
        PROVE  KeptDown'
    <3> DEFINE x == [rec[p] EXCEPT !.enabled = FALSE, !.runtime = "Stopping",
                                   !.rev = rec[p].rev + 1, !.proc = NoProc]
    <3>1. x.runtime = "Stopping" /\ x.proc = NoProc /\ rec' = [rec EXCEPT ![p] = x]
      BY <2>1, <2>3 DEF Disable, Record
    <3> HIDE DEF x
    <3> QED
      BY <1>0, <2>1, <3>1, DownOne
  <2>4. ASSUME NEW k \in budget.packages, Install(p, k)
        PROVE  KeptDown'
    BY <1>0, <2>1, <2>4, DownSame DEF Install
  <2> QED
    BY <1>3, <2>2, <2>3, <2>4
<1>4. CASE TakeProcesses
  <2>1. ASSUME NEW p \in Plugins
        PROVE  rec'[p].runtime \notin {"Starting", "Running"} /\ ~Alive(rec[p].proc)'
    <3>1. rec[p] \in Record /\ RecordSound(p, rec[p], procs) /\ procs' = procs
      BY <1>4 DEF Typed, RecordsSound, TakeProcesses
    <3>2. CASE ~rec[p].known
      <4>1. rec'[p] = rec[p]
        BY <1>4, <3>2 DEF TakeProcesses
      <4>2. MustBeDown(p)
        BY <3>1, <3>2 DEF RecordSound, MustBeDown
      <4> QED
        BY <3>1, <4>1, <4>2 DEF KeptDown, Alive
    <3>3. CASE rec[p].known
      <4>1. rec'[p] = [rec[p] EXCEPT !.rev = @ + 1, !.runtime = "Stopped", !.proc = NoProc]
        BY <1>4, <3>3 DEF TakeProcesses
      <4>2. rec'[p].runtime = "Stopped" /\ rec'[p].proc = NoProc
        BY <3>1, <4>1 DEF Record
      <4> QED
        BY <4>2 DEF Alive
    <3> QED
      BY <3>2, <3>3
  <2> QED
    BY <2>1 DEF KeptDown
<1>5. CASE BeginUpgrade \/ EndUpgrade \/ BeginShutdown \/ CloseQueue \/ StopTaken \/ UNCHANGED vars
  <2>1. UNCHANGED rec
    BY <1>5 DEF BeginUpgrade, EndUpgrade, BeginShutdown, CloseQueue, StopTaken, vars
  <2>2. sd'.pc \in {"stopping", "done"} => sd.pc \in {"stopping", "done"}
    BY <1>5 DEF BeginUpgrade, EndUpgrade, BeginShutdown, CloseQueue, StopTaken, vars, Typed, RestTyped
  <2> QED
    BY <1>0, <2>1, <2>2, DownSame
<1> QED
  BY <1>0, <1>1, <1>2, <1>3, <1>4, <1>5, WorkDown, ExitDown, ManagementDown DEF Next, Shutdown

--------------------------------------------------------------------------------
(* Transitions and their owners.                                           *)

(* A worker that starts a plugin goes on with it.                          *)
WorkersGoOn ==
  \A w \in Workers : worker[w].pc \in StartPcs =>
    /\ worker'[w].pc \in StartPcs /\ worker'[w].plugin = worker[w].plugin
    /\ worker'[w].rev = worker[w].rev /\ worker'[w].pkg = worker[w].pkg

(* No plugin enters the state, and one that keeps it keeps its revision    *)
(* and package.                                                            *)
NoneEnters(runtime) ==
  \A p \in Plugins : rec'[p].runtime = runtime =>
    rec[p].runtime = runtime /\ rec'[p].rev = rec[p].rev /\ rec'[p].pkg = rec[p].pkg

LEMMA StartsGoOn ==
  ASSUME StartsOwned, WorkersGoOn, NoneEnters("Starting"), sd'.pc = "no" => sd.pc = "no"
  PROVE  StartsOwned'
<1>1. ASSUME NEW p \in Plugins, rec'[p].runtime = "Starting", sd'.pc = "no"
      PROVE  \E w \in Workers : Starts(w, p)'
  <2>1. rec[p].runtime = "Starting" /\ rec'[p].rev = rec[p].rev /\ rec'[p].pkg = rec[p].pkg
    BY <1>1 DEF NoneEnters
  <2>2. PICK w \in Workers : Starts(w, p)
    BY <1>1, <2>1 DEF StartsOwned
  <2>3. Starts(w, p)'
    BY <2>1, <2>2 DEF WorkersGoOn, Starts
  <2> QED
    BY <2>3
<1> QED
  BY <1>1 DEF StartsOwned

LEMMA StopsGoOn ==
  ASSUME Typed, StopsOwned, UNCHANGED mgr, NoneEnters("Stopping")
  PROVE  StopsOwned'
BY DEF StopsOwned, NoneEnters, Typed, ManagerSound, OperationSound

LEMMA SameEntersNone ==
  ASSUME UNCHANGED rec, NEW runtime PROVE NoneEnters(runtime)
BY DEF NoneEnters

LEMMA OneEntersNone ==
  ASSUME Typed, NEW p \in Plugins, NEW x, rec' = [rec EXCEPT ![p] = x], NEW runtime,
         x.runtime = runtime =>
           rec[p].runtime = runtime /\ x.rev = rec[p].rev /\ x.pkg = rec[p].pkg
  PROVE  NoneEnters(runtime)
BY DEF NoneEnters, Typed, RecordsSound

LEMMA SameWorkers ==
  ASSUME UNCHANGED worker PROVE WorkersGoOn
BY DEF WorkersGoOn

LEMMA OneWorker ==
  ASSUME Typed, NEW w \in Workers, NEW t, worker' = [worker EXCEPT ![w] = t],
         worker[w].pc \in StartPcs =>
           /\ t.pc \in StartPcs /\ t.plugin = worker[w].plugin
           /\ t.rev = worker[w].rev /\ t.pkg = worker[w].pkg
  PROVE  WorkersGoOn
BY DEF WorkersGoOn, Typed, TasksSound

LEMMA GotoGoesOn ==
  ASSUME Typed, NEW w \in Workers, NEW pc,
         worker[w].pc \in StartPcs => pc \in StartPcs,
         worker' = Goto(w, pc) \/ worker' = Drop(w, pc)
  PROVE  WorkersGoOn
<1> DEFINE t == worker[w]
<1>1. PICK x \in {[t EXCEPT !.pc = pc], [t EXCEPT !.pc = pc, !.proc = NoProc]} :
        worker' = [worker EXCEPT ![w] = x]
  BY DEF Goto, Drop
<1>2. x.pc = pc /\ x.plugin = t.plugin /\ x.rev = t.rev /\ x.pkg = t.pkg
  BY DEF Typed, TasksSound, Task
<1> QED
  BY <1>1, <1>2, OneWorker

(* Steps that keep every owner: an activation, the end of a process.       *)
LEMMA ActivateOwned ==
  ASSUME Typed, NEW u \in Users, NEW p \in Plugins, NEW retry \in BOOLEAN,
         NEW background \in BOOLEAN, Activate(u, p, retry, background)
  PROVE  WorkersGoOn /\ NoneEnters("Starting") /\ NoneEnters("Stopping") /\ UNCHANGED sd
<1>1. CASE UNCHANGED <<rec, worker>>
  BY <1>1, SameEntersNone, SameWorkers DEF Activate
<1>2. CASE Enqueue(u, p, background)
  <2> DEFINE x == [rec[p] EXCEPT !.runtime = IF @ = "Failed" THEN "Stopped" ELSE @]
  <2>1. rec' = [rec EXCEPT ![p] = x]
    BY <1>2 DEF Enqueue
  <2>2. /\ x.rev = rec[p].rev /\ x.pkg = rec[p].pkg
        /\ x.runtime \in {"Starting", "Stopping"} => x.runtime = rec[p].runtime
    BY DEF Typed, RecordsSound, Record
  <2> HIDE DEF x
  <2>3. NoneEnters("Starting") /\ NoneEnters("Stopping")
    BY <2>1, <2>2, OneEntersNone
  <2>4. WorkersGoOn
    <3>1. CASE UNCHANGED worker
      BY <3>1, SameWorkers
    <3>2. ASSUME NEW w \in Workers, worker[w].pc = "off",
                 worker' = [worker EXCEPT ![w] = [Off EXCEPT !.pc = "pick"]]
          PROVE  WorkersGoOn
      BY <3>2, OneWorker DEF StartPcs
    <3> QED
      BY <1>2, <3>1, <3>2 DEF Enqueue
  <2> QED
    BY <2>3, <2>4 DEF Activate
<1> QED
  BY <1>1, <1>2 DEF Activate

LEMMA ExitOwned ==
  ASSUME Typed, NEW s \in ProcIds, Read(s) \/ ChildDies(s)
  PROVE  NoneEnters("Starting") /\ NoneEnters("Stopping")
<1> DEFINE p == procs[s].plugin
           x == [rec[p] EXCEPT !.proc = NoProc, !.runtime = WithoutProc(rec[p].runtime)]
<1>1. CASE UNCHANGED rec
  BY <1>1, SameEntersNone
<1>2. CASE rec' = [rec EXCEPT ![p] = x] /\ p \in Plugins
  <2>1. x.rev = rec[p].rev /\ x.pkg = rec[p].pkg /\ x.runtime = WithoutProc(rec[p].runtime)
    BY <1>2 DEF Typed, RecordsSound, Record
  <2>2. /\ x.runtime = "Starting" => rec[p].runtime = "Starting"
        /\ x.runtime # "Stopping"
    BY <2>1 DEF WithoutProc
  <2> HIDE DEF x
  <2> QED
    BY <1>2, <2>1, <2>2, OneEntersNone
<1>3. UNCHANGED rec \/ rec' = [rec EXCEPT ![p] = x]
  <2>1. CASE ProcessExited(s)
    <3>1. rec' = IF rec[p].proc # s THEN rec ELSE [rec EXCEPT ![p] = x]
      BY <2>1, Zenon DEF ProcessExited
    <3> QED
      BY <3>1
  <2> QED
    BY <2>1 DEF Read, ReaderEnds, Reap, ChildDies
<1>4. p \notin Plugins /\ rec' = [rec EXCEPT ![p] = x] => UNCHANGED rec
  BY DEF Typed, RecordsSound
<1> QED
  BY <1>1, <1>2, <1>3, <1>4

LEMMA WorkStops ==
  ASSUME Typed, StopsOwned, NEW w \in Workers, Work(w) PROVE StopsOwned'
<1> DEFINE t == worker[w]
           p == t.plugin
           r == rec[p]
<1>1. UNCHANGED mgr
  BY DEF Work, Pick, Begin, StopPrevious, Launch, Register, Hello, Reject, Finish, Discard, Complete
<1>2. CASE UNCHANGED rec
  BY <1>1, <1>2, SameEntersNone, StopsGoOn
<1>3. HasTask(w) => p \in Plugins /\ r \in Record /\ t \in Task
  BY TaskOf
<1>4. CASE Begin(w) \/ StopPrevious(w) \/ Register(w) \/ Finish(w)
  <2>1. HasTask(w)
    BY <1>4 DEF Begin, StopPrevious, Register, Finish, HasTask, TaskPcs, StartPcs
  <2>2. ASSUME ~UNCHANGED rec
        PROVE  \E x \in {[r EXCEPT !.runtime = "Starting", !.rev = r.rev + 1, !.proc = NoProc],
                         [r EXCEPT !.proc = t.proc, !.runtime = "Failed"],
                         [r EXCEPT !.proc = t.proc],
                         [r EXCEPT !.runtime = "Running", !.proc = t.proc],
                         [r EXCEPT !.runtime = "Failed"]} : rec' = [rec EXCEPT ![p] = x]
    BY <1>4, <2>2 DEF Begin, StopPrevious, Register, Finish
  <2>3. ASSUME NEW x \in {[r EXCEPT !.runtime = "Starting", !.rev = r.rev + 1, !.proc = NoProc],
                          [r EXCEPT !.proc = t.proc, !.runtime = "Failed"],
                          [r EXCEPT !.proc = t.proc],
                          [r EXCEPT !.runtime = "Running", !.proc = t.proc],
                          [r EXCEPT !.runtime = "Failed"]},
               rec' = [rec EXCEPT ![p] = x]
        PROVE  StopsOwned'
    <3>1. x.runtime = "Stopping" => r.runtime = "Stopping" /\ x.rev = r.rev /\ x.pkg = r.pkg
      <4>1. r \in Record
        BY <1>3, <2>1
      <4> HIDE DEF r
      <4> QED
        BY <2>3, <4>1 DEF Record
    <3>2. NoneEnters("Stopping")
      BY <1>3, <2>1, <2>3, <3>1, OneEntersNone
    <3> QED
      BY <1>1, <3>2, StopsGoOn
  <2> QED
    BY <1>2, <2>2, <2>3
<1> QED
  BY <1>2, <1>4 DEF Work, Pick, Launch, Hello, Reject, Discard, Complete

(* A worker gives up the start of a plugin only with a step that records   *)
(* the result, or when the plugin is not starting at its revision any more.*)
LEMMA WorkStarts ==
  ASSUME Typed, KeptDown, StartsOwned, NEW w \in Workers, Work(w) PROVE StartsOwned'
<1> DEFINE t == worker[w]
           p == t.plugin
           r == rec[p]
<1>1. UNCHANGED sd
  BY DEF Work, Pick, Begin, StopPrevious, Launch, Register, Hello, Reject, Finish, Discard, Complete
<1>2. HasTask(w) => p \in Plugins /\ r \in Record /\ RecordSound(p, r, procs) /\ t \in Task
  BY TaskOf
<1>3. ASSUME WorkersGoOn, UNCHANGED rec
      PROVE  StartsOwned'
  BY <1>1, <1>3, SameEntersNone, StartsGoOn
<1>4. CASE Pick(w) \/ Complete(w)
  <2>1. PICK x : worker' = [worker EXCEPT ![w] = x]
    BY <1>4 DEF Pick, Complete
  <2>2. WorkersGoOn
    BY <1>4, <2>1, OneWorker DEF Pick, Complete, StartPcs
  <2> QED
    BY <1>3, <1>4, <2>2 DEF Pick, Complete
<1>5. CASE Launch(w)
  <2>1. CASE worker' = Goto(w, NotStarted)
    BY <1>3, <1>5, <2>1, GotoGoesOn DEF Launch, NotStarted, StartPcs
  <2>2. ASSUME NEW s, worker' = [worker EXCEPT ![w] = [t EXCEPT !.pc = "register", !.proc = s]]
        PROVE  StartsOwned'
    <3> DEFINE x == [t EXCEPT !.pc = "register", !.proc = s]
    <3>1. x.pc = "register" /\ x.plugin = t.plugin /\ x.rev = t.rev /\ x.pkg = t.pkg
      BY DEF Typed, TasksSound, Task
    <3>2. worker' = [worker EXCEPT ![w] = x]
      BY <2>2
    <3> HIDE DEF x
    <3>3. WorkersGoOn
      BY <3>1, <3>2, OneWorker DEF StartPcs
    <3> QED
      BY <1>3, <1>5, <3>3 DEF Launch
  <2> QED
    BY <1>5, <2>1, <2>2 DEF Launch
<1>6. CASE Hello(w) \/ Reject(w) \/ Discard(w)
  <2>1. WorkersGoOn
    BY <1>6, GotoGoesOn DEF Hello, Reject, Discard, NotStarted, StartPcs
  <2> QED
    BY <1>3, <1>6, <2>1 DEF Hello, Reject, Discard
<1>7. CASE Register(w)
  <2>1. WorkersGoOn
    BY <1>7, GotoGoesOn DEF Register, StartPcs
  <2>2. CASE rec' = [rec EXCEPT ![p].proc = t.proc] /\ HasTask(w)
    <3> DEFINE x == [r EXCEPT !.proc = t.proc]
    <3>1. x.runtime = r.runtime /\ x.rev = r.rev /\ x.pkg = r.pkg
      BY <1>2, <2>2 DEF Record
    <3>2. rec' = [rec EXCEPT ![p] = x]
      BY <2>2
    <3> HIDE DEF x
    <3>3. NoneEnters("Starting")
      BY <1>2, <2>2, <3>1, <3>2, OneEntersNone
    <3> QED
      BY <1>1, <2>1, <3>3, StartsGoOn
  <2> QED
    BY <1>3, <1>7, <2>1, <2>2 DEF Register, HasTask, TaskPcs, StartPcs
<1>8. CASE Begin(w)
  <2>1. CASE UNCHANGED rec /\ (worker' = Goto(w, "failed") \/ worker' = Goto(w, "succeeded"))
    <3>1. WorkersGoOn
      BY <1>8, <2>1, GotoGoesOn DEF Begin, StartPcs
    <3> QED
      BY <1>3, <2>1, <3>1
  <2> DEFINE x == [r EXCEPT !.runtime = "Starting", !.rev = r.rev + 1, !.proc = NoProc]
             y == [t EXCEPT !.rev = r.rev + 1, !.pkg = r.pkg, !.proc = r.proc,
                     !.pc = IF r.proc = NoProc THEN "launch" ELSE "stopPrevious"]
  <2>2. CASE rec' = [rec EXCEPT ![p] = x] /\ worker' = [worker EXCEPT ![w] = y]
    <3>0. HasTask(w) /\ t.pc \notin StartPcs
      BY <1>8 DEF Begin, HasTask, TaskPcs, StartPcs
    <3>1. /\ y.pc \in StartPcs /\ y.plugin = p /\ y.rev = r.rev + 1 /\ y.pkg = r.pkg
      BY <1>2, <3>0 DEF Task, StartPcs
    <3>2. x.rev = r.rev + 1 /\ x.pkg = r.pkg
      <4>1. r \in Record
        BY <1>2, <3>0
      <4> HIDE DEF r
      <4> QED
        BY <4>1 DEF Record
    <3> HIDE DEF x, y
    <3>3. WorkersGoOn
      BY <2>2, <3>0, OneWorker
    <3>4. /\ rec'[p] = x /\ \A q \in Plugins \ {p} : rec'[q] = rec[q]
          /\ worker'[w] = y
      BY <1>2, <2>2, <3>0 DEF Typed, RecordsSound, TasksSound
    <3>5. ASSUME NEW q \in Plugins \ {p}, rec'[q].runtime = "Starting", sd'.pc = "no"
          PROVE  \E v \in Workers : Starts(v, q)'
      <4>1. PICK v \in Workers : Starts(v, q)
        BY <1>1, <3>4, <3>5 DEF StartsOwned
      <4>2. Starts(v, q)'
        BY <3>3, <3>4, <4>1 DEF WorkersGoOn, Starts
      <4> QED
        BY <4>2
    <3>6. ASSUME NEW q \in Plugins, q = p
          PROVE  Starts(w, q)'
      BY <3>1, <3>2, <3>4, <3>6 DEF Starts
    <3> QED
      BY <3>5, <3>6 DEF StartsOwned
  <2> QED
    BY <1>8, <2>1, <2>2 DEF Begin
<1>9. CASE StopPrevious(w)
  <2>1. CASE worker' = Drop(w, "launch") /\ UNCHANGED rec
    <3>1. WorkersGoOn
      BY <2>1, GotoGoesOn DEF StartPcs
    <3> QED
      BY <1>3, <2>1, <3>1
  <2> DEFINE x == [r EXCEPT !.proc = t.proc, !.runtime = "Failed"]
  <2>2. CASE /\ rec' = IF ~r.known THEN rec ELSE [rec EXCEPT ![p] = x]
             /\ worker' = Drop(w, "failed")
    <3>0. HasTask(w)
      BY <1>9 DEF StopPrevious, HasTask, TaskPcs, StartPcs
    <3>1. x.runtime = "Failed"
      BY <1>2, <3>0 DEF Record
    <3> HIDE DEF x
    <3>2. /\ rec'[p].runtime # "Starting" /\ \A q \in Plugins \ {p} : rec'[q] = rec[q]
      <4>1. CASE r.known
        BY <1>2, <2>2, <3>0, <3>1, <4>1 DEF Typed, RecordsSound
      <4>2. CASE ~r.known
        <5>1. MustBeDown(p)
          BY <1>2, <3>0, <4>2 DEF RecordSound, MustBeDown
        <5> QED
          BY <1>2, <2>2, <3>0, <4>2, <5>1 DEF KeptDown
      <4> QED
        BY <4>1, <4>2
    <3>3. \A v \in Workers \ {w} : worker'[v] = worker[v]
      BY <2>2 DEF Drop, Typed, TasksSound
    <3>4. ASSUME NEW q \in Plugins \ {p}, rec'[q].runtime = "Starting", sd'.pc = "no"
          PROVE  \E v \in Workers : Starts(v, q)'
      <4>1. PICK v \in Workers : Starts(v, q)
        BY <1>1, <3>2, <3>4 DEF StartsOwned
      <4>2. v # w
        BY <4>1 DEF Starts
      <4>3. Starts(v, q)'
        BY <3>2, <3>3, <4>1, <4>2 DEF Starts
      <4> QED
        BY <4>3
    <3> QED
      BY <3>2, <3>4 DEF StartsOwned
  <2> QED
    BY <1>9, <2>1, <2>2 DEF StopPrevious
<1>10. CASE Finish(w)
  <2>0. HasTask(w) /\ t.pc = "finish"
    BY <1>10 DEF Finish, HasTask, TaskPcs, StartPcs
  <2>1. \A v \in Workers \ {w} : worker'[v] = worker[v]
    BY <1>10 DEF Finish, Goto, Drop, Typed, TasksSound
  <2>2. \A q \in Plugins \ {p} : rec'[q] = rec[q]
    BY <1>2, <1>10, <2>0 DEF Finish, Typed, RecordsSound
  <2>3. ASSUME NEW q \in Plugins \ {p}, rec'[q].runtime = "Starting", sd'.pc = "no"
        PROVE  \E v \in Workers : Starts(v, q)'
    <3>1. PICK v \in Workers : Starts(v, q)
      BY <1>1, <2>2, <2>3 DEF StartsOwned
    <3>2. v # w
      BY <3>1 DEF Starts
    <3>3. Starts(v, q)'
      BY <2>1, <2>2, <3>1, <3>2 DEF Starts
    <3> QED
      BY <3>3
  <2>4. ASSUME NEW q \in Plugins, q = p, rec'[q].runtime = "Starting", sd'.pc = "no"
        PROVE  \E v \in Workers : Starts(v, q)'
    <3>1. CASE StillStarting(r, t)
      <4>1. PICK x : /\ rec' = [rec EXCEPT ![p] = x]
                     /\ x \in {[r EXCEPT !.runtime = "Running", !.proc = t.proc],
                               [r EXCEPT !.runtime = "Failed"]}
        BY <1>10, <3>1 DEF Finish
      <4>2. x.runtime \in {"Running", "Failed"}
        BY <1>2, <2>0, <4>1 DEF Record
      <4> QED
        BY <1>2, <2>0, <2>4, <4>1, <4>2 DEF Typed, RecordsSound
    <3>2. CASE ~StillStarting(r, t)
      <4>1. UNCHANGED rec
        BY <1>10, <3>2 DEF Finish
      <4>2. r.runtime = "Starting" /\ sd.pc = "no"
        BY <1>1, <2>4, <4>1
      <4>3. r.enabled /\ r.known
        BY <1>2, <2>0, <4>2 DEF KeptDown, MustBeDown, RecordSound
      <4>4. PICK v \in Workers : Starts(v, q)
        BY <2>4, <4>2 DEF StartsOwned
      <4>5. v # w
        BY <2>4, <3>2, <4>2, <4>3, <4>4 DEF Starts, StillStarting, Current, ShuttingDown
      <4>6. Starts(v, q)'
        BY <2>1, <4>1, <4>4, <4>5 DEF Starts
      <4> QED
        BY <4>6
    <3> QED
      BY <3>1, <3>2
  <2> QED
    BY <2>3, <2>4 DEF StartsOwned
<1> QED
  BY <1>4, <1>5, <1>6, <1>7, <1>8, <1>9, <1>10 DEF Work
LEMMA EndedIsIdle ==
  ASSUME OpEnds PROVE mgr'.pc = "idle"
BY DEF OpEnds, IdleMgr

(* Begun operations: a plugin that is Starting is not set to Stopping      *)
(* without a new revision, and the manager is there to end the stop.       *)
LEMMA BeginOperationOwned ==
  ASSUME Typed, StartsOwned, StopsOwned, NEW p \in budget.plugins,
         \/ Enable(p)
         \/ \E kind \in {"disable", "uninstall"} : Disable(kind, p)
         \/ \E k \in budget.packages : Install(p, k)
  PROVE  StartsOwned' /\ StopsOwned'
<1>1. p \in Plugins /\ rec[p] \in Record /\ UNCHANGED <<sd, worker>> /\ mgr.pc = "idle"
  BY SpentBudget DEF Typed, RecordsSound, Enable, Disable, Install, Operate
<1>2. WorkersGoOn
  BY <1>1, SameWorkers
<1>3. \A q \in Plugins : rec[q].runtime # "Stopping"
  BY <1>1 DEF StopsOwned
<1>4. ASSUME NoneEnters("Stopping"), mgr'.pc # "invalidate"
      PROVE  StopsOwned'
  BY <1>3, <1>4 DEF NoneEnters, StopsOwned
<1>5. CASE Enable(p)
  <2> DEFINE x == [rec[p] EXCEPT !.enabled = TRUE]
  <2>1. rec' = [rec EXCEPT ![p] = x] /\ x.runtime = rec[p].runtime /\ x.rev = rec[p].rev
        /\ x.pkg = rec[p].pkg
    BY <1>1, <1>5 DEF Enable, Record
  <2> HIDE DEF x
  <2>2. mgr'.pc # "invalidate"
    <3>1. \/ mgr' = IdleMgr
          \/ mgr' = [IdleMgr EXCEPT !.kind = "enable", !.plugin = p, !.pc = "start"]
      BY <1>5 DEF Enable
    <3>2. CASE mgr' = IdleMgr
      BY <3>2 DEF IdleMgr
    <3>3. CASE mgr' = [IdleMgr EXCEPT !.kind = "enable", !.plugin = p, !.pc = "start"]
      BY <3>3 DEF IdleMgr
    <3> QED
      BY <3>1, <3>2, <3>3
  <2>3. NoneEnters("Starting") /\ NoneEnters("Stopping")
    BY <1>1, <2>1, OneEntersNone
  <2> QED
    BY <1>1, <1>2, <1>4, <2>2, <2>3, StartsGoOn
<1>6. ASSUME NEW kind \in {"disable", "uninstall"}, Disable(kind, p)
      PROVE  StartsOwned' /\ StopsOwned'
  <2> DEFINE x == [rec[p] EXCEPT !.enabled = FALSE, !.runtime = "Stopping",
                                 !.rev = rec[p].rev + 1, !.proc = NoProc]
  <2>1. rec' = [rec EXCEPT ![p] = x] /\ x.runtime = "Stopping"
    BY <1>1, <1>6 DEF Disable, Record
  <2>2. mgr'.plugin = p /\ mgr'.pc = "invalidate" /\ mgr'.kind # "install"
    BY <1>6 DEF Disable, IdleMgr
  <2> HIDE DEF x
  <2>3. NoneEnters("Starting")
    BY <1>1, <2>1, OneEntersNone
  <2>4. StopsOwned'
    BY <1>1, <1>3, <2>1, <2>2 DEF StopsOwned, Typed, RecordsSound
  <2> QED
    BY <1>1, <1>2, <2>3, <2>4, StartsGoOn
<1>7. ASSUME NEW k \in budget.packages, Install(p, k)
      PROVE  StartsOwned' /\ StopsOwned'
  <2>1. NoneEnters("Starting") /\ NoneEnters("Stopping")
    BY <1>7, SameEntersNone DEF Install
  <2>2. mgr'.pc # "invalidate"
    BY <1>7 DEF Install, IdleMgr
  <2> QED
    BY <1>1, <1>2, <1>4, <2>1, <2>2, StartsGoOn
<1> QED
  BY <1>5, <1>6, <1>7

(* A scan leaves nothing in a transition but what it does not know.        *)
LEMMA RefreshedEntersNone ==
  ASSUME Typed, NEW k \in Packages, rec' = Refreshed(k), NEW runtime \in {"Starting", "Stopping"}
  PROVE  NoneEnters(runtime)
<1>1. ASSUME NEW p \in Plugins, NEW j, rec'[p] = Scanned(rec[p], j)
      PROVE  rec'[p].runtime # runtime
  <2>1. rec'[p].runtime = (IF Keeps(rec[p], j) THEN "Running" ELSE "Stopped")
    BY <1>1 DEF Scanned
  <2> QED
    BY <2>1
<1>2. ASSUME NEW p \in Plugins
      PROVE  rec'[p] = Scanned(rec[p], k) \/ rec'[p] = Scanned(rec[p], rec[p].pkg) \/ rec'[p] = rec[p]
  BY DEF Refreshed
<1> QED
  BY <1>1, <1>2 DEF NoneEnters

LEMMA ManagementOwned ==
  ASSUME Typed, StartsOwned, StopsOwned, Management
  PROVE  StartsOwned' /\ StopsOwned'
<1> DEFINE p == mgr.plugin
           r == rec[p]
<1>1. /\ p \in Plugins /\ r \in Record /\ mgr \in Operation /\ OperationSound(mgr, procs)
      /\ mgr.pc # "idle"
  <2>1. mgr.pc # "idle"
    BY DEF Management, Pause, MgrInvalidate, MgrStop, RemovePackage, ForgetPlugin, Unlink, Place,
       Refresh, Start, Restart, MgrActivates, StartEnds, Rollback, RefreshBack
  <2> QED
    BY <2>1, MgrOf
<1>2. UNCHANGED sd
  BY DEF Management, Pause, MgrInvalidate, MgrStop, RemovePackage, ForgetPlugin, Unlink, Place,
     Refresh, Start, Restart, MgrActivates, Activate, StartEnds, Rollback, RefreshBack
(* Where nothing is stopping before the step and nothing enters.           *)
<1>4. ASSUME mgr.pc \notin {"invalidate", "stop", "remove", "forget"},
             NoneEnters("Stopping"), mgr'.pc # "invalidate"
      PROVE  StopsOwned'
  BY <1>4 DEF NoneEnters, StopsOwned
<1>5. CASE Pause
  <2> DEFINE x == [r EXCEPT !.rev = r.rev + 1, !.proc = NoProc,
                     !.runtime = IF r.proc = NoProc THEN "Stopped" ELSE "Stopping"]
             m == [mgr EXCEPT !.pc = "invalidate", !.proc = r.proc,
                     !.was = r.runtime = "Running" /\ Alive(r.proc)]
  <2>1. WorkersGoOn
    BY <1>5, SameWorkers DEF Pause
  <2>2. CASE UNCHANGED rec /\ (OpEnds \/ Continue("unlink"))
    <3>1. mgr'.pc # "invalidate"
      BY <1>1, <2>2 DEF OpEnds, IdleMgr, Continue, Operation
    <3>2. NoneEnters("Starting") /\ NoneEnters("Stopping")
      BY <2>2, SameEntersNone
    <3> QED
      BY <1>2, <1>4, <1>5, <2>1, <3>1, <3>2, StartsGoOn DEF Pause
  <2>3. CASE rec' = [rec EXCEPT ![p] = x] /\ mgr' = m
    <3>1. x.runtime = IF r.proc = NoProc THEN "Stopped" ELSE "Stopping"
      <4> HIDE DEF r
      <4> QED
        BY <1>1 DEF Record
    <3>2. m.plugin = p /\ m.pc = "invalidate" /\ m.proc = r.proc
      <4> DEFINE b == r.runtime = "Running" /\ Alive(r.proc)
      <4> HIDE DEF r, b
      <4>1. m = [mgr EXCEPT !.pc = "invalidate", !.proc = r.proc, !.was = b]
        BY DEF b
      <4> HIDE DEF m
      <4> QED
        BY <1>1, <4>1 DEF Operation
    <3> HIDE DEF x, m
    <3>3. NoneEnters("Starting")
      BY <1>1, <2>3, <3>1, OneEntersNone
    <3>4. \A q \in Plugins : rec[q].runtime # "Stopping"
      BY <1>5 DEF Pause, StopsOwned
    <3>5. rec'[p] = x /\ (\A q \in Plugins \ {p} : rec'[q] = rec[q]) /\ mgr'.plugin = p
      BY <1>1, <2>3, <3>2 DEF Typed, RecordsSound
    <3>6. StopsOwned'
      BY <2>3, <3>1, <3>2, <3>4, <3>5 DEF StopsOwned
    <3> QED
      BY <1>2, <2>1, <3>3, <3>6, StartsGoOn
  <2> QED
    BY <1>5, <2>2, <2>3 DEF Pause
<1>6. CASE MgrInvalidate
  <2>1. WorkersGoOn
    <3>1. ASSUME NEW w \in Workers
          PROVE  worker'[w] = worker[w] \/ worker'[w] = [worker[w] EXCEPT !.cancelled = TRUE]
      BY <1>6 DEF MgrInvalidate, Invalidate, Cancelled
    <3>2. \A w \in Workers : worker[w] \in Task
      BY DEF Typed, TasksSound
    <3> QED
      BY <3>1, <3>2 DEF WorkersGoOn, Task
  <2>2. NoneEnters("Starting") /\ NoneEnters("Stopping")
    BY <1>6, SameEntersNone DEF MgrInvalidate
  <2>3. /\ mgr'.plugin = p
        /\ mgr'.pc = IF mgr.kind = "install" /\ mgr.proc = NoProc THEN "unlink" ELSE "stop"
    BY <1>1, <1>6 DEF MgrInvalidate, Continue, Operation
  <2>4. rec' = rec /\ mgr.pc = "invalidate"
    BY <1>6 DEF MgrInvalidate
  <2>5. StopsOwned'
    BY <2>3, <2>4 DEF StopsOwned
  <2> QED
    BY <1>2, <2>1, <2>2, <2>5, StartsGoOn
<1>7. CASE MgrStop
  <2>1. WorkersGoOn
    BY <1>7, SameWorkers DEF MgrStop
  <2>2. CASE UNCHANGED rec /\ mgr' = [mgr EXCEPT !.pc = "remove", !.proc = NoProc]
    <3>1. mgr'.plugin = p /\ mgr'.pc = "remove"
      BY <1>1, <2>2 DEF Operation
    <3>2. StopsOwned'
      BY <1>7, <2>2, <3>1 DEF StopsOwned, MgrStop
    <3>3. NoneEnters("Starting")
      BY <2>2, SameEntersNone
    <3> QED
      BY <1>2, <2>1, <3>2, <3>3, StartsGoOn
  <2>3. ASSUME NEW x, rec' = [rec EXCEPT ![p] = x], x.runtime \in {"Stopped", "Failed"},
               mgr'.pc # "invalidate"
        PROVE  StartsOwned' /\ StopsOwned'
    <3>1. NoneEnters("Starting")
      BY <1>1, <2>3, OneEntersNone
    <3>2. rec'[p] = x /\ \A q \in Plugins \ {p} : rec'[q] = rec[q]
      BY <1>1, <2>3 DEF Typed, RecordsSound
    <3>3. StopsOwned'
      BY <2>3, <3>2 DEF StopsOwned
    <3> QED
      BY <1>2, <2>1, <3>1, <3>3, StartsGoOn
  <2>4. CASE rec' = [rec EXCEPT ![p].runtime = "Stopped"]
             /\ (OpEnds \/ mgr' = [mgr EXCEPT !.pc = "unlink", !.proc = NoProc])
    <3> DEFINE x == [r EXCEPT !.runtime = "Stopped"]
    <3>1. x.runtime = "Stopped" /\ rec' = [rec EXCEPT ![p] = x]
      BY <1>1, <2>4 DEF Record
    <3> HIDE DEF x
    <3>2. mgr'.pc # "invalidate"
      <4>1. CASE OpEnds
        BY <4>1, EndedIsIdle
      <4>2. CASE mgr' = [mgr EXCEPT !.pc = "unlink", !.proc = NoProc]
        <5> HIDE DEF p, r
        <5> QED
          BY <1>1, <4>2 DEF Operation
      <4> QED
        BY <2>4, <4>1, <4>2
    <3> QED
      BY <2>3, <3>1, <3>2
  <2>5. CASE rec' = [rec EXCEPT ![p] = [@ EXCEPT !.proc = mgr.proc, !.runtime = "Failed"]] /\ OpEnds
    <3> DEFINE x == [r EXCEPT !.proc = mgr.proc, !.runtime = "Failed"]
    <3>1. x.runtime = "Failed" /\ rec' = [rec EXCEPT ![p] = x]
      BY <1>1, <2>5 DEF Record
    <3>2. mgr'.pc # "invalidate"
      BY <1>1, <2>5 DEF OpEnds, IdleMgr, Operation
    <3> HIDE DEF x
    <3> QED
      BY <2>3, <3>1, <3>2
  <2>6. mgr.kind \in {"disable", "uninstall", "install"}
    BY <1>1, <1>7 DEF MgrStop, OperationSound
  <2>7. CASE /\ rec' = IF mgr.kind = "uninstall" THEN rec
                       ELSE [rec EXCEPT ![p].runtime = "Stopped"]
             /\ CASE mgr.kind = "disable" -> OpEnds
                  [] mgr.kind = "uninstall" -> mgr' = [mgr EXCEPT !.pc = "remove", !.proc = NoProc]
                  [] mgr.kind = "install" -> mgr' = [mgr EXCEPT !.pc = "unlink", !.proc = NoProc]
    <3>1. CASE mgr.kind = "disable"
      BY <2>4, <2>7, <3>1
    <3>2. CASE mgr.kind = "uninstall"
      BY <2>2, <2>7, <3>2
    <3>3. CASE mgr.kind = "install"
      BY <2>4, <2>7, <3>3
    <3> QED
      BY <2>6, <3>1, <3>2, <3>3
  <2> QED
    BY <1>7, <2>5, <2>7 DEF MgrStop
<1>8. CASE RemovePackage \/ ForgetPlugin
  <2>1. WorkersGoOn
    BY <1>8, SameWorkers DEF RemovePackage, ForgetPlugin
  <2>2. CASE Continue("forget") /\ UNCHANGED rec /\ mgr.pc = "remove"
    <3>1. mgr'.plugin = p /\ mgr'.pc = "forget"
      BY <1>1, <2>2 DEF Continue, Operation
    <3>2. StopsOwned'
      BY <2>2, <3>1 DEF StopsOwned
    <3>3. NoneEnters("Starting")
      BY <2>2, SameEntersNone
    <3> QED
      BY <1>2, <2>1, <3>2, <3>3, StartsGoOn
  <2>3. ASSUME NEW x, rec' = [rec EXCEPT ![p] = x], x.runtime = "Stopped", OpEnds
        PROVE  StartsOwned' /\ StopsOwned'
    <3>1. NoneEnters("Starting")
      BY <1>1, <2>3, OneEntersNone
    <3>2. rec'[p] = x /\ \A q \in Plugins \ {p} : rec'[q] = rec[q]
      BY <1>1, <2>3 DEF Typed, RecordsSound
    <3>3. mgr'.pc # "invalidate"
      BY <2>3 DEF OpEnds, IdleMgr
    <3>4. StopsOwned'
      BY <2>3, <3>2, <3>3 DEF StopsOwned
    <3> QED
      BY <1>2, <2>1, <3>1, <3>4, StartsGoOn
  <2>4. CASE rec' = [rec EXCEPT ![p].runtime = "Stopped"] /\ OpEnds
    <3> DEFINE x == [r EXCEPT !.runtime = "Stopped"]
    <3>1. x.runtime = "Stopped" /\ rec' = [rec EXCEPT ![p] = x]
      BY <1>1, <2>4 DEF Record
    <3> HIDE DEF x
    <3> QED
      BY <2>3, <2>4, <3>1
  <2>5. CASE ForgetPlugin
    <3>1. rec' = [rec EXCEPT ![p] = Unknown] /\ OpEnds
      BY <2>5 DEF ForgetPlugin
    <3>2. Unknown.runtime = "Stopped"
      BY DEF Unknown
    <3> QED
      BY <2>3, <3>1, <3>2
  <2> QED
    BY <1>8, <2>2, <2>4, <2>5 DEF RemovePackage
<1>9. CASE Unlink \/ Place \/ Rollback \/ StartEnds
  <2>1. WorkersGoOn /\ NoneEnters("Starting") /\ NoneEnters("Stopping")
    BY <1>9, SameWorkers, SameEntersNone DEF Unlink, Place, Rollback, StartEnds
  <2>2. mgr'.pc # "invalidate"
    <3> HIDE DEF p, r
    <3>1. CASE OpEnds
      BY <3>1, EndedIsIdle
    <3>2. CASE \E pc \in {"refresh", "restart", "rollback", "refreshBack"} : Continue(pc)
      BY <1>1, <3>2 DEF Continue, Operation
    <3>3. CASE Unlink
      <4> DEFINE k == disk[mgr.plugin][PlaceOf[mgr.new]]
      <4> HIDE DEF k
      <4>1. mgr' = [mgr EXCEPT !.pc = "place", !.had = k]
        BY <3>3 DEF Unlink, k
      <4> QED
        BY <1>1, <4>1 DEF Operation
    <3> QED
      BY <1>9, <3>1, <3>2, <3>3 DEF Place, Rollback, StartEnds
  <2>3. mgr.pc \notin {"invalidate", "stop", "remove", "forget"}
    BY <1>9 DEF Unlink, Place, Rollback, StartEnds
  <2> QED
    BY <1>2, <1>4, <2>1, <2>2, <2>3, StartsGoOn
<1>10. CASE Refresh \/ RefreshBack
  <2>1. UNCHANGED rec \/ \E k \in Packages : rec' = Refreshed(k)
    BY <1>1, <1>10 DEF Refresh, RefreshBack, OperationSound
  <2>2. WorkersGoOn /\ NoneEnters("Starting") /\ NoneEnters("Stopping")
    BY <1>10, <2>1, SameWorkers, SameEntersNone, RefreshedEntersNone DEF Refresh, RefreshBack
  <2>3. mgr'.pc # "invalidate"
    BY <1>1, <1>10 DEF Refresh, RefreshBack, AfterScan, OpEnds, IdleMgr, Continue, Operation
  <2>4. mgr.pc \notin {"invalidate", "stop", "remove", "forget"}
    BY <1>10 DEF Refresh, RefreshBack
  <2> QED
    BY <1>2, <1>4, <2>2, <2>3, <2>4, StartsGoOn
<1>11. CASE Start \/ Restart
  <2>1. WorkersGoOn /\ NoneEnters("Starting") /\ NoneEnters("Stopping")
    BY <1>1, <1>11, ActivateOwned DEF Start, Restart, MgrActivates, Users
  <2>2. mgr'.pc # "invalidate"
    BY <1>1, <1>11 DEF Start, Restart, MgrActivates, Continue, Operation
  <2>3. mgr.pc \notin {"invalidate", "stop", "remove", "forget"}
    BY <1>11 DEF Start, Restart, MgrActivates
  <2> QED
    BY <1>2, <1>4, <2>1, <2>2, <2>3, StartsGoOn
<1> QED
  BY <1>5, <1>6, <1>7, <1>8, <1>9, <1>10, <1>11 DEF Management

(* Shutdown puts every record it resets to Stopped.                        *)
LEMMA TakenEntersNone ==
  ASSUME Typed, TakeProcesses
  PROVE  NoneEnters("Starting") /\ NoneEnters("Stopping")
<1>1. ASSUME NEW p \in Plugins, rec'[p].runtime \in {"Starting", "Stopping"}
      PROVE  rec'[p] = rec[p]
  <2>1. rec[p] \in Record
    BY DEF Typed, RecordsSound
  <2>2. rec'[p] = IF ~rec[p].known THEN rec[p]
                  ELSE [rec[p] EXCEPT !.rev = @ + 1, !.runtime = "Stopped", !.proc = NoProc]
    BY DEF TakeProcesses
  <2>3. [rec[p] EXCEPT !.rev = @ + 1, !.runtime = "Stopped", !.proc = NoProc].runtime = "Stopped"
    BY <2>1 DEF Record
  <2> QED
    BY <1>1, <2>2, <2>3
<1> QED
  BY <1>1 DEF NoneEnters

LEMMA NextOwned ==
  ASSUME Typed, KeptDown, StartsOwned, StopsOwned, [Next]_vars
  PROVE  StartsOwned' /\ StopsOwned'
<1>1. ASSUME WorkersGoOn, NoneEnters("Starting"), NoneEnters("Stopping"), UNCHANGED mgr,
             sd'.pc = "no" => sd.pc = "no"
      PROVE  StartsOwned' /\ StopsOwned'
  BY <1>1, StartsGoOn, StopsGoOn
<1>2. ASSUME NEW s \in ProcIds, Read(s) \/ ChildDies(s)
      PROVE  StartsOwned' /\ StopsOwned'
  <2>1. UNCHANGED <<worker, mgr, sd>>
    BY <1>2 DEF Read, ReaderEnds, ProcessExited, Reap, ChildDies
  <2> QED
    BY <1>1, <1>2, <2>1, ExitOwned, SameWorkers
<1>3. ASSUME NEW c \in Callers,
             \/ \E p \in budget.plugins : EnterCall(c, p)
             \/ CallActivates(c) \/ GiveUp(c) \/ Dispatch(c) \/ EndCall(c)
      PROVE  StartsOwned' /\ StopsOwned'
  <2>1. CASE CallActivates(c)
    <3>1. c \in Users /\ user[c].plugin \in Plugins
      BY <2>1 DEF CallActivates, Users, Typed, UsersSound, UserSound
    <3>2. PICK retry \in BOOLEAN : Activate(c, user[c].plugin, retry, FALSE)
      BY <2>1 DEF CallActivates
    <3>3. UNCHANGED mgr
      BY <2>1 DEF CallActivates
    <3> QED
      BY <1>1, <3>1, <3>2, <3>3, ActivateOwned
  <2>2. CASE UNCHANGED <<rec, worker, mgr, sd>>
    BY <1>1, <2>2, SameEntersNone, SameWorkers
  <2> QED
    BY <1>3, <2>1, <2>2 DEF EnterCall, GiveUp, Dispatch, EndCall
<1>4. ASSUME NEW u \in Restorers, NEW p \in budget.plugins, Restore(u, p)
      PROVE  StartsOwned' /\ StopsOwned'
  BY <1>1, <1>4, SpentBudget, ActivateOwned DEF Restore, Users
<1>5. CASE TakeProcesses
  <2>2. NoneEnters("Starting") /\ NoneEnters("Stopping")
    BY <1>5, TakenEntersNone
  <2>3. UNCHANGED <<worker, mgr>> /\ sd'.pc # "no"
    BY <1>5 DEF TakeProcesses
  <2> QED
    BY <1>1, <2>2, <2>3, SameWorkers
<1>6. CASE CloseQueue
  <2>1. WorkersGoOn
    <3>1. ASSUME NEW w \in Workers
          PROVE  worker'[w] = worker[w] \/ worker'[w] = [worker[w] EXCEPT !.cancelled = TRUE]
      BY <1>6 DEF CloseQueue
    <3>2. \A w \in Workers : worker[w] \in Task
      BY DEF Typed, TasksSound
    <3> QED
      BY <3>1, <3>2 DEF WorkersGoOn, Task
  <2>2. UNCHANGED <<rec, mgr>> /\ sd'.pc # "no"
    BY <1>6 DEF CloseQueue, Typed, RestTyped
  <2> QED
    BY <1>1, <2>1, <2>2, SameEntersNone
<1>7. CASE BeginUpgrade \/ EndUpgrade \/ BeginShutdown \/ StopTaken \/ UNCHANGED vars
  <2>1. UNCHANGED <<rec, worker, mgr>>
    BY <1>7 DEF BeginUpgrade, EndUpgrade, BeginShutdown, StopTaken, vars
  <2>2. sd'.pc = "no" => sd.pc = "no"
    <3>1. CASE BeginShutdown
      BY <3>1 DEF BeginShutdown
    <3>2. CASE StopTaken
      <4>1. sd \in [pc : SdPcs, procs : SUBSET ProcIds] /\ sd.pc = "stopping"
        BY <3>2 DEF StopTaken, Typed, RestTyped
      <4>2. PICK ps : sd' = [sd EXCEPT !.procs = ps] \/ sd' = [sd EXCEPT !.pc = "done"]
        BY <3>2 DEF StopTaken
      <4> QED
        BY <4>1, <4>2
    <3> QED
      BY <1>7, <3>1, <3>2 DEF BeginUpgrade, EndUpgrade, vars
  <2> QED
    BY <1>1, <2>1, <2>2, SameEntersNone, SameWorkers
<1> QED
  BY <1>2, <1>3, <1>4, <1>5, <1>6, <1>7, WorkStops, WorkStarts, BeginOperationOwned,
     ManagementOwned DEF Next, Shutdown

--------------------------------------------------------------------------------
(* The freeze of a Core upgrade.                                           *)

(* Under a freeze no step begins anything, and the queue that was empty    *)
(* when the freeze began stays empty.                                      *)
LEMMA FrozenStep ==
  ASSUME Typed, FreezeHolds, frozen, [Next]_vars, ~EndUpgrade
  PROVE  FreezeHolds'
<1>1. /\ \A p \in Plugins : att[p] = None
      /\ pending = <<>> /\ mgr.pc = "idle"
      /\ \A w \in Workers : ~HasTask(w)
      /\ \A u \in Users : user[u].pc = "idle"
  BY DEF FreezeHolds, FrozenIsQuiet
<1>2. ASSUME NoneEnters("Starting"), NoneEnters("Stopping"), UNCHANGED mgr,
             UNCHANGED <<att, pending>> \/ CloseQueue,
             \A w \in Workers : ~HasTask(w)', \A u \in Users : user'[u].pc = "idle"
      PROVE  FreezeHolds'
  <2>1. pending' = <<>> /\ \A p \in Plugins : att'[p] = None
    BY <1>1, <1>2 DEF CloseQueue
  <2>2. \A p \in Plugins : rec'[p].runtime \notin {"Starting", "Stopping"}
    BY <1>2 DEF NoneEnters, FreezeHolds, FrozenIsQuiet
  <2> QED
    BY <1>1, <1>2, <2>1, <2>2 DEF FreezeHolds, FrozenIsQuiet
<1>3. ASSUME NoneEnters("Starting"), NoneEnters("Stopping"),
             UNCHANGED <<mgr, att, pending, worker, user>>
      PROVE  FreezeHolds'
  BY <1>1, <1>2, <1>3 DEF HasTask
<1>4. ASSUME NEW w \in Workers, Work(w)
      PROVE  FreezeHolds'
  <2>1. Pick(w)
    BY <1>1, <1>4 DEF Work, HasTask, TaskPcs, StartPcs, Begin, StopPrevious, Launch, Register,
       Hello, Reject, Finish, Discard, Complete
  <2>2. /\ worker' = [worker EXCEPT ![w] = Off]
        /\ UNCHANGED <<rec, att, pending, user, mgr>>
    BY <1>1, <2>1 DEF Pick
  <2>3. \A v \in Workers : ~HasTask(v)'
    <3>1. ASSUME NEW v \in Workers PROVE worker'[v] = Off \/ worker'[v] = worker[v]
      BY <2>2 DEF Typed, TasksSound
    <3> QED
      BY <1>1, <3>1 DEF HasTask, Off, TaskPcs, StartPcs
  <2> QED
    BY <1>1, <1>2, <2>2, <2>3, SameEntersNone
<1>5. ASSUME NEW s \in ProcIds, Read(s) \/ ChildDies(s)
      PROVE  FreezeHolds'
  <2>1. UNCHANGED <<worker, mgr, user, att, pending>>
    BY <1>5 DEF Read, ReaderEnds, ProcessExited, Reap, ChildDies, queue
  <2> QED
    BY <1>3, <1>5, <2>1, ExitOwned
<1>6. ASSUME NEW u \in Restorers, NEW p \in budget.plugins, Restore(u, p)
      PROVE  FreezeHolds'
  <2>1. u \in Users /\ p \in Plugins
    BY SpentBudget DEF Users
  <2>2. /\ user' = [user EXCEPT ![u] = Answer(u, p, NoProc)]
        /\ UNCHANGED <<rec, att, pending, worker, mgr>>
    BY <1>6 DEF Restore, Activate
  <2>3. Answer(u, p, NoProc) = IdleUser
    BY <1>6, <2>1, AnswerSound DEF Slots
  <2>4. \A v \in Users : user'[v].pc = "idle"
    BY <1>1, <2>1, <2>2, <2>3 DEF Typed, UsersSound, IdleUser
  <2> QED
    BY <1>1, <1>2, <2>2, <2>4, SameEntersNone DEF HasTask
<1>7. CASE CloseQueue
  <2>1. UNCHANGED <<rec, mgr>> /\ user' = Answered(user, Plugins, NoProc)
    BY <1>7 DEF CloseQueue
  <2>2. \A u \in Users : user'[u].pc = "idle"
    BY <1>1, <2>1 DEF Answered
  <2>3. \A w \in Workers : ~HasTask(w)'
    BY <1>1, <1>7 DEF CloseQueue, HasTask
  <2> QED
    BY <1>2, <1>7, <2>1, <2>2, <2>3, SameEntersNone
<1>8. CASE TakeProcesses
  <2>1. UNCHANGED <<mgr, att, pending, worker, user>>
    BY <1>8 DEF TakeProcesses, queue
  <2> QED
    BY <1>3, <1>8, <2>1, TakenEntersNone
<1>9. CASE BeginShutdown \/ StopTaken \/ UNCHANGED vars
  <2>1. UNCHANGED <<rec, mgr, att, pending, worker, user>>
    BY <1>9 DEF BeginShutdown, StopTaken, vars, queue
  <2> QED
    BY <1>3, <2>1, SameEntersNone
<1>10. ~Management
  BY <1>1 DEF Management, Pause, MgrInvalidate, MgrStop, RemovePackage, ForgetPlugin, Unlink, Place,
     Refresh, Start, Restart, MgrActivates, StartEnds, Rollback, RefreshBack
<1>11. ~BeginUpgrade /\ \A p \in budget.plugins :
         /\ ~Enable(p) /\ \A kind \in {"disable", "uninstall"} : ~Disable(kind, p)
         /\ \A k \in budget.packages : ~Install(p, k)
         /\ \A c \in Callers : ~EnterCall(c, p)
  BY DEF BeginUpgrade, Enable, Disable, Install, Operate, EnterCall
<1>12. \A c \in Callers : ~(CallActivates(c) \/ GiveUp(c) \/ Dispatch(c) \/ EndCall(c))
  BY <1>1 DEF CallActivates, GiveUp, Dispatch, EndCall, Users
<1> QED
  BY <1>4, <1>5, <1>6, <1>7, <1>8, <1>9, <1>10, <1>11, <1>12 DEF Next, Shutdown

(* A freeze begins only when no work is in progress, and then the queue is *)
(* empty, because whatever is queued has an attempt.                       *)
LEMMA NextFrozen ==
  ASSUME Typed, QueueSound, FreezeHolds, [Next]_vars
  PROVE  FreezeHolds'
<1>1. CASE frozen
  <2>1. EndUpgrade => FreezeHolds'
    BY DEF EndUpgrade, FreezeHolds
  <2> QED
    BY <1>1, <2>1, FrozenStep
<1>2. CASE ~frozen /\ ~BeginUpgrade
  <2>1. UNCHANGED frozen
    BY <1>2 DEF Next, vars, Work, Pick, Begin, StopPrevious, Launch, Register, Hello, Reject,
       Finish, Discard, Complete, Read, ReaderEnds, ProcessExited, Reap, ChildDies, EnterCall,
       CallActivates, GiveUp, Dispatch, EndCall, Restore, Activate, Enable, Disable, Install,
       Management, Pause, MgrInvalidate, MgrStop, RemovePackage, ForgetPlugin, Unlink, Place,
       Refresh, Start, Restart, MgrActivates, StartEnds, Rollback, RefreshBack, BeginUpgrade,
       EndUpgrade, BeginShutdown, Shutdown, CloseQueue, TakeProcesses, StopTaken
  <2> QED
    BY <1>2, <2>1 DEF FreezeHolds
<1>3. CASE BeginUpgrade
  <2>1. /\ UNCHANGED <<rec, att, pending, worker, user, mgr>>
        /\ \A p \in Plugins : rec[p].runtime \notin {"Starting", "Stopping"}
        /\ \A u \in Users : user[u].pc = "idle"
        /\ \A p \in Plugins : att[p] = None
        /\ \A w \in Workers : ~HasTask(w)
        /\ mgr.pc = "idle"
    BY <1>3 DEF BeginUpgrade, Active, queue
  <2>2. pending = <<>>
    <3>1. pending \in Seq(Plugins) /\ IsInjective(pending)
      BY DEF Typed, QueueTyped
    <3> QED
      BY <2>1, <3>1, TailQueue DEF QueueSound
  <2> QED
    BY <2>1, <2>2 DEF FreezeHolds, FrozenIsQuiet, HasTask
<1> QED
  BY <1>1, <1>2, <1>3

--------------------------------------------------------------------------------
(* The inductive invariant, and what follows from it.                      *)

HostInv == /\ Typed /\ QueueSound /\ KeptDown
           /\ StartsOwned /\ StopsOwned /\ FreezeHolds

LEMMA InitHostInv == Init => HostInv
<1> SUFFICES ASSUME Init PROVE HostInv
  OBVIOUS
<1> DEFINE nothing == [l \in Places |-> None]
<1>1. /\ procs = [s \in ProcIds |-> NoProcess] /\ att = [p \in Plugins |-> None]
      /\ pending = <<>> /\ closed = FALSE /\ worker = [w \in Workers |-> Off]
      /\ user = [u \in Users |-> IdleUser] /\ mgr = IdleMgr
      /\ sd = [pc |-> "no", procs |-> {}] /\ frozen = FALSE /\ budget \in Budgets
  BY DEF Init
<1>2. budget \in Budget /\ budget.packages \subseteq Packages
  BY <1>1 DEF Budget
<1>3. disk \in [Plugins -> [Places -> Packages \cup {None}]]
  <2>1. ASSUME NEW k \in budget.packages
        PROVE  [l \in Places |-> IF l = PlaceOf[k] THEN k ELSE None]
                 \in [Places -> Packages \cup {None}]
    BY <1>2
  <2>2. nothing \in [Places -> Packages \cup {None}]
    OBVIOUS
  <2>3. disk \in [Plugins -> {[l \in Places |-> IF l = PlaceOf[k] THEN k ELSE None] :
                                k \in budget.packages} \cup {nothing}]
    BY DEF Init
  <2> HIDE DEF nothing
  <2> QED
    BY <2>1, <2>2, <2>3
<1>4. PICK e \in [Plugins -> BOOLEAN] :
        rec = [p \in Plugins |->
                IF \A l \in Places : disk[p][l] = None THEN Unknown
                ELSE [Unknown EXCEPT !.known = TRUE, !.enabled = e[p],
                        !.pkg = CHOOSE k \in Packages : \E l \in Places : disk[p][l] = k]]
  BY DEF Init
<1>5. ASSUME NEW p \in Plugins
      PROVE  RecordSound(p, rec[p], procs) /\ rec[p].runtime = "Stopped" /\ rec[p].proc = NoProc
  <2>1. CASE \A l \in Places : disk[p][l] = None
    <3>1. rec[p] = Unknown
      BY <1>4, <2>1
    <3> QED
      BY <3>1 DEF RecordSound, Record, Unknown, Runtimes, Slots
  <2>2. CASE \E l \in Places : disk[p][l] # None
    <3> DEFINE k == CHOOSE j \in Packages : \E l \in Places : disk[p][l] = j
    <3>1. k \in Packages /\ k # None
      BY <1>3, <2>2
    <3>2. rec[p] = [Unknown EXCEPT !.known = TRUE, !.enabled = e[p], !.pkg = k]
      BY <1>4, <2>2
    <3>3. e[p] \in BOOLEAN
      OBVIOUS
    <3> HIDE DEF k
    <3>4. rec[p] = [known |-> TRUE, enabled |-> e[p], runtime |-> "Stopped", rev |-> 0,
                    proc |-> NoProc, pkg |-> k]
      BY <3>2 DEF Unknown
    <3>5. rec[p] \in Record
      BY <3>1, <3>3, <3>4 DEF Record, Runtimes, Slots
    <3> QED
      BY <3>1, <3>4, <3>5 DEF RecordSound
  <2> QED
    BY <2>1, <2>2
<1>6. Typed
  <2>1. RecordsSound
    BY <1>4, <1>5 DEF RecordsSound, RecordSound
  <2>2. TasksSound
    BY <1>1 DEF TasksSound, TaskSound, Task, Off, TaskPcs, StartPcs, Slots
  <2>3. UsersSound
    BY <1>1 DEF UsersSound, UserSound, User, IdleUser, UserPcs, Slots
  <2>4. ManagerSound
    BY <1>1 DEF ManagerSound, OperationSound, Operation, IdleMgr, MgrPcs, Slots, AllOps
  <2>5. QueueTyped
    <3>1. pending \in Seq(Plugins) /\ DOMAIN pending = {}
      BY <1>1
    <3> QED
      BY <1>1, <3>1 DEF QueueTyped, IsInjective
  <2>6. RestTyped
    BY <1>1, <1>2, <1>3 DEF RestTyped, SdPcs
  <2>7. ProcsTyped
    BY <1>1 DEF ProcsTyped, Process, NoProcess, Readers
  <2> QED
    BY <2>1, <2>2, <2>3, <2>4, <2>5, <2>6, <2>7 DEF Typed
<1>7. QueueSound
  BY <1>1 DEF QueueSound, Contains, Holds, HasTask, Off, TaskPcs, StartPcs, IdleUser
<1>8. KeptDown /\ StartsOwned /\ StopsOwned /\ FreezeHolds
  BY <1>1, <1>5 DEF KeptDown, Alive, StartsOwned, StopsOwned, FreezeHolds, IdleMgr
<1> QED
  BY <1>6, <1>7, <1>8 DEF HostInv

LEMMA NextHostInv == HostInv /\ [Next]_vars => HostInv'
BY NextTyped, NextQueue, NextDown, NextOwned, NextFrozen DEF HostInv

(* Every behaviour of the host, fair or not, keeps the invariant.          *)
LEMMA HostInvariant == Spec => []HostInv
<1>1. Spec => Init /\ [][Next]_vars
  BY PTL DEF Spec
<1> QED
  BY <1>1, InitHostInv, NextHostInv, PTL

(* An attempt that is not queued has one holder, one that is queued none,  *)
(* and a plugin without an attempt is neither queued nor held.             *)
LEMMA AttemptsCounted ==
  ASSUME Typed, QueueSound PROVE QueueServed
<1>1. ASSUME NEW p \in Plugins
      PROVE  LET holders == {w \in Workers : /\ HasTask(w) /\ worker[w].plugin = p
                                             /\ ~worker[w].cancelled}
             IN Cardinality(holders) + (IF Contains(pending, p) THEN 1 ELSE 0)
                  = IF att[p] = None THEN 0 ELSE 1
  <2> DEFINE holders == {w \in Workers : /\ HasTask(w) /\ worker[w].plugin = p
                                         /\ ~worker[w].cancelled}
  <2>1. \A w \in Workers : w \in holders <=> Holds(w, p)
    BY DEF Holds
  <2>2. holders \subseteq Workers
    OBVIOUS
  <2> HIDE DEF holders
  <2>3. CASE holders = {}
    <3>1. Cardinality(holders) = 0
      BY <2>3, FS_EmptySet
    <3>2. Contains(pending, p) <=> att[p] # None
      BY <2>1, <2>3 DEF QueueSound
    <3> QED
      BY <3>1, <3>2 DEF holders
  <2>4. ASSUME NEW w \in holders
        PROVE  Cardinality(holders) = 1 /\ ~Contains(pending, p) /\ att[p] # None
    <3>1. w \in Workers /\ Holds(w, p)
      BY <2>1, <2>2
    <3>2. holders = {w}
      BY <2>1, <2>2, <3>1 DEF QueueSound
    <3>3. Cardinality(holders) = 1
      BY <3>2, FS_Singleton
    <3> QED
      BY <3>1, <3>3 DEF QueueSound
  <2>5. CASE holders # {}
    BY <2>4, <2>5 DEF holders
  <2> QED
    BY <2>3, <2>5
<1> QED
  BY <1>1 DEF QueueServed, QueueSound

LEMMA TransitionsHaveOwners ==
  ASSUME Typed, KeptDown, StartsOwned, StopsOwned PROVE TransitionsOwned
<1>1. sd.pc \in SdPcs
  BY DEF Typed, RestTyped
<1>2. ASSUME NEW p \in Plugins, rec[p].runtime = "Starting", sd.pc \notin {"close", "take"}
      PROVE  \E w \in Workers : /\ worker[w].pc \in StartPcs
                                /\ worker[w].plugin = p /\ worker[w].rev = rec[p].rev
  BY <1>1, <1>2 DEF SdPcs, KeptDown, MustBeDown, StartsOwned, Starts
<1> QED
  BY <1>2 DEF TransitionsOwned, StopsOwned

LEMMA DownStaysDown ==
  ASSUME Typed, KeptDown, FreezeHolds PROVE StaysDown
<1>1. FrozenIsQuiet
  BY DEF FreezeHolds, FrozenIsQuiet
<1>2. DisabledStaysDown
  <2>1. \A p \in Plugins : rec[p].runtime \in Runtimes
    BY DEF Typed, RecordsSound, Record
  <2> QED
    BY <2>1 DEF DisabledStaysDown, KeptDown, MustBeDown, Runtimes
<1>3. ShutdownIsFinal
  BY DEF ShutdownIsFinal, KeptDown, MustBeDown
<1> QED
  BY <1>1, <1>2, <1>3 DEF StaysDown

--------------------------------------------------------------------------------
(* The theorems.                                                           *)

(* The state keeps its types; a record with a process names one of its     *)
(* plugin, and the queue holds no plugin twice.                            *)
THEOREM TypeCorrect == Spec => []TypeOK
<1>1. HostInv => TypeOK
  BY TypedGivesTypeOK DEF HostInv
<1> QED
  BY <1>1, HostInvariant, PTL

(* Nobody is stranded: a plugin that is Starting has a worker that will    *)
(* record the result, or shutdown is about to reset it, one that is        *)
(* Stopping has the manager, every attempt is queued once or held by one   *)
(* worker, a queue that is not empty has a worker, and a thread that waits *)
(* has an attempt.                                                         *)
THEOREM EveryoneServed == Spec => []NobodyStranded
<1>1. HostInv => NobodyStranded
  BY AttemptsCounted, TransitionsHaveOwners DEF HostInv, NobodyStranded
<1> QED
  BY <1>1, HostInvariant, PTL

(* What was switched off stays off: under the freeze of an upgrade nothing *)
(* is in progress, a disabled plugin is down and so is its process, and    *)
(* once shutdown took the processes no plugin starts or runs.              *)
THEOREM SwitchedOff == Spec => []StaysDown
<1>1. HostInv => StaysDown
  BY DownStaysDown DEF HostInv
<1> QED
  BY <1>1, HostInvariant, PTL

--------------------------------------------------------------------------------
(* Which backend is behind a record, and of which package.                 *)

(* What an installation needs of its company for that: finding 1 is a      *)
(* restoration during one, and the revision of a plugin that is removed    *)
(* and installed again starts anew.                                        *)
InstallsApart ==
  \A b \in Budgets : "install" \in b.kinds =>
    b.users \cap Restorers = {} /\ "uninstall" \notin b.kinds

(* Finding 2: an installation refreshes the other plugins' records, too.   *)
InstallsAlone ==
  \A b \in Budgets : "install" \in b.kinds => \A p, q \in b.plugins : p = q

(* A child that an installation cannot stop, or that Drop has yet to kill, *)
(* outlives its start.                                                     *)
StopsWork ==
  \A b \in Budgets : "install" \in b.kinds => b.faults \cap {"stop", "garbage"} = {}

Open == sd.pc \in {"no", "close"}
TaskOn(w, p) == HasTask(w) /\ worker[w].plugin = p
Installing(p) == mgr.kind = "install" /\ mgr.plugin = p
Changing == /\ mgr.kind \in {"disable", "uninstall", "install"}
            /\ mgr.pc \notin {"idle", "pause", "starting", "restarting"}

(* A behaviour keeps its budget, and the manager works within it.          *)
WithinBudget ==
  /\ \E b \in Budgets : /\ budget.kinds = b.kinds /\ budget.users = b.users
                        /\ budget.plugins = b.plugins /\ budget.faults = b.faults
  /\ mgr.pc = "idle" \/ (mgr.kind \in budget.kinds /\ mgr.plugin \in budget.plugins)
  /\ mgr.kind = "disable" => mgr.pc \in {"invalidate", "stop"}
  /\ mgr.kind = "uninstall" => mgr.pc \in {"invalidate", "stop", "remove", "forget"}
  /\ mgr.kind = "enable" => mgr.pc \in {"start", "starting"}
  /\ mgr.kind = "install" => mgr.pc \notin {"idle", "remove", "forget"}
  /\ mgr.kind = None <=> mgr.pc = "idle"
  /\ \A p \in Plugins \ budget.plugins : ~rec[p].known

(* A task is as new as the record or older, and older when it is cancelled *)
(* or about to be.                                                         *)
Behind(rev, p) == /\ rev <= rec[p].rev
                  /\ mgr.plugin = p /\ mgr.pc = "invalidate" => rev < rec[p].rev
TasksBehind ==
  Open => \A p \in Plugins : rec[p].known =>
    /\ \A w \in Workers : TaskOn(w, p) => /\ Behind(worker[w].rev, p)
                                          /\ worker[w].cancelled => worker[w].rev < rec[p].rev
    /\ att[p] # None => Behind(att[p].rev, p)

(* Nothing is started for the plugin that the manager changes, unless by   *)
(* the manager.                                                            *)
UnknownIsQuiet ==
  "install" \in budget.kinds =>
    \A p \in Plugins : ~rec[p].known => att[p] = None /\ \A w \in Workers : ~TaskOn(w, p)
ChangedIsQuiet ==
  /\ mgr.kind \in {"disable", "uninstall"} => ~rec[mgr.plugin].enabled
  /\ Changing /\ mgr.pc # "invalidate" => att[mgr.plugin] = None
NotInCall == mgr.kind = "install" /\ mgr.pc # "pause" => ~InCall(mgr.plugin)
ManagerWaits ==
  mgr.kind = "install" /\ mgr.pc \in {"starting", "restarting"} =>
    /\ user[Manager].pc \in {"wait", "ok", "err"} /\ user[Manager].plugin = mgr.plugin
    /\ user[Manager].pc # "wait" => att[mgr.plugin] = None
TargetQuiet == UnknownIsQuiet /\ ChangedIsQuiet /\ NotInCall /\ ManagerWaits

(* The process of a record that is starting is the starting worker's.      *)
OwnsProc(w, p) == /\ worker[w].pc \in {"hello", "reject", "finish", "discard"}
                  /\ worker[w].plugin = p /\ worker[w].rev = rec[p].rev
                  /\ worker[w].proc = rec[p].proc
StarterOwns ==
  Open => \A p \in Plugins : rec[p].runtime = "Starting" /\ Alive(rec[p].proc) =>
    \E w \in Workers : OwnsProc(w, p)

(* A record that is neither starting nor running has no live process.      *)
Settled ==
  Open => \A p \in Plugins : rec[p].runtime \notin {"Starting", "Running"} => ~Alive(rec[p].proc)

(* The target of an installation has no live backend until the manager     *)
(* starts it, and then it is that of the start the manager waits for.      *)
Served(p) == \E w \in Workers : Holds(w, p) /\ (worker[w].pc = "succeeded" \/ OwnsProc(w, p))
TargetDown ==
  Open /\ mgr.kind = "install" /\ mgr.pc # "pause" /\ Alive(rec[mgr.plugin].proc) =>
    /\ mgr.pc \in {"starting", "restarting"}
    /\ mgr.pc = "starting" => user[Manager].pc = "ok" \/ Served(mgr.plugin)

(* After the queue is closed nothing is asked for.                         *)
ClosedQuiet == ~Open => closed /\ \A p \in Plugins : att[p] = None

BackendInv == /\ WithinBudget /\ TasksBehind /\ TargetQuiet /\ StarterOwns
              /\ Settled /\ TargetDown /\ ClosedQuiet

(* A task has a process from its launch, or the one that it is to stop,    *)
(* until the process is stopped or the record's.                           *)
TaskProcs ==
  \A w \in Workers : worker[w].pc \in {"off", "pick", "begin", "launch", "succeeded", "failed"}
                       => worker[w].proc = NoProc

(* The handshakes.                                                         *)
HandsShaken ==
  /\ Open => \A p \in Plugins : rec[p].runtime = "Running" /\ Alive(rec[p].proc)
                                  => procs[rec[p].proc].hello
  /\ \A w \in Workers : worker[w].pc = "finish" /\ worker[w].proc # NoProc
                          => procs[worker[w].proc].hello
  /\ \A u \in Users :
       /\ user[u].pc = "call" => u # Manager
       /\ user[u].pc \in {"ok", "call"} /\ u # Manager
            => user[u].proc # NoProc /\ procs[user[u].proc].hello

(* The files, and, while they change, what the manager puts back.          *)
InPlace(p) == disk[p][PlaceOf[rec[p].pkg]] = rec[p].pkg
FilesOut(p) == mgr.plugin = p /\ mgr.pc \in {"place", "refresh", "refreshBack", "forget"}
ManagerKnows ==
  LET p == mgr.plugin
      place == PlaceOf[mgr.new]
  IN
  mgr.kind = "install" =>
    /\ mgr.pc \in {"pause", "invalidate", "stop", "unlink", "place", "refresh"}
         => mgr.old = rec[p].pkg
    /\ mgr.pc \in {"start", "starting", "rollback"} => rec[p].pkg = mgr.new
    /\ mgr.pc = "refresh" => disk[p][place] = mgr.new
    /\ mgr.old # None /\ mgr.pc \in {"place", "refresh", "start", "starting", "rollback"}
         => IF PlaceOf[mgr.old] = place THEN mgr.had = mgr.old
            ELSE disk[p][PlaceOf[mgr.old]] = mgr.old
    /\ mgr.pc = "refreshBack" => disk[p][PlaceOf[mgr.old]] = mgr.old
FilesKnown ==
  sd.pc = "no" => /\ \A p \in Plugins : rec[p].known /\ ~FilesOut(p) => InPlace(p)
                  /\ ManagerKnows

(* What a start that still counts launches, and what a record's backend    *)
(* runs, is the package of the record.                                     *)
LaunchesRight(w, p) ==
  worker[w].pc \in StartPcs /\ worker[w].plugin = p /\ worker[w].rev = rec[p].rev =>
    /\ worker[w].pkg = rec[p].pkg
    /\ worker[w].pc \in {"register", "hello", "finish"} /\ worker[w].proc # NoProc
         => procs[worker[w].proc].pkg = rec[p].pkg
BackendOf ==
  sd.pc = "no" => \A p \in Plugins :
    /\ rec[p].known => \A w \in Workers : LaunchesRight(w, p)
    /\ Alive(rec[p].proc) => procs[rec[p].proc].pkg = rec[p].pkg

(* No child is alone.                                                      *)
Held(s) == \/ \E p \in Plugins : rec[p].proc = s
           \/ \E w \in Workers : worker[w].proc = s
           \/ mgr.proc = s /\ mgr.pc \in {"invalidate", "stop"}
ChildrenHeld ==
  "install" \in budget.kinds /\ sd.pc = "no" => \A s \in ProcIds : procs[s].child =>
    procs[s].alive /\ procs[s].reader \in {"none", "reading"} /\ Held(s)

--------------------------------------------------------------------------------
(* What a step changes of what those parts speak of.                       *)

(* Who may ask for p: not those that an installation keeps away.           *)
Asks(u, p) ==
  \/ u \in Callers /\ user[u].pc = "enter" /\ user[u].plugin = p
  \/ u \in Restorers /\ u \in budget.users
  \/ u = Manager /\ mgr.pc \in {"start", "restart"} /\ mgr.plugin = p

(* An activation changes no more of a record than Failed to Stopped, and   *)
(* asks for what the record is.                                            *)
Activated(u, p) ==
  /\ UNCHANGED <<disk, procs, closed, sd, frozen>>
  /\ \A q \in Plugins :
       /\ rec'[q].known = rec[q].known /\ rec'[q].enabled = rec[q].enabled
       /\ rec'[q].rev = rec[q].rev /\ rec'[q].proc = rec[q].proc /\ rec'[q].pkg = rec[q].pkg
       /\ rec'[q].runtime = rec[q].runtime
            \/ (rec[q].runtime = "Failed" /\ rec'[q].runtime = "Stopped")
  /\ \A w \in Workers : \/ worker'[w] = worker[w]
                        \/ worker[w].pc = "off" /\ worker'[w] = [Off EXCEPT !.pc = "pick"]
  /\ \A q \in Plugins : att'[q] # None =>
       \/ att'[q] = att[q]
       \/ /\ q = p /\ att[p] = None /\ att'[p].rev = rec[p].rev
          /\ rec[p].known /\ rec[p].enabled /\ ~closed
  /\ \A v \in Users \ {u} :
       \/ user'[v] = user[v]
       \/ /\ user[v].pc = "wait" /\ att'[user[v].plugin] = None
          /\ user'[v] = Answer(v, user[v].plugin, NoProc)
          /\ \A w \in Workers : worker[w].pc = "off"
  /\ \/ user'[u] = Waits(p)
     \/ user'[u] = Answer(u, p, NoProc) /\ (att' = att \/ att'[p] = None)
     \/ /\ user'[u] = Answer(u, p, rec[p].proc) /\ att' = att
        /\ Serving(rec[p]) /\ ~closed

LEMMA ActivateEffects ==
  ASSUME Typed, QueueSound, NEW u \in Users, NEW p \in Plugins, NEW retry \in BOOLEAN,
         NEW background \in BOOLEAN, Activate(u, p, retry, background)
  PROVE  Activated(u, p)
<1>0. /\ user \in [Users -> User] /\ att \in [Plugins -> Attempt \cup {None}]
      /\ rec \in [Plugins -> Record] /\ worker \in [Workers -> Task]
  BY DEF Typed, UsersSound, QueueTyped, RecordsSound, TasksSound
<1>1. UNCHANGED <<disk, procs, closed, sd, frozen>>
  BY DEF Activate
<1>2. ASSUME UNCHANGED <<rec, att, pending, worker>>,
             NEW s, user' = [user EXCEPT ![u] = Answer(u, p, s)],
             s = NoProc \/ (s = rec[p].proc /\ Serving(rec[p]) /\ ~closed)
      PROVE  Activated(u, p)
  BY <1>0, <1>1, <1>2 DEF Activated
<1>3. CASE Enqueue(u, p, background) /\ rec[p].known /\ rec[p].enabled /\ ~closed
  <2> DEFINE q == Queued(p, background)
             asked == [user EXCEPT ![u] = Waits(p)]
             e == [rev |-> rec[p].rev, background |-> background]
             entered == IF att[p] # None THEN att ELSE [att EXCEPT ![p] = e]
             off == {w \in Workers : worker[w].pc = "off"}
             failed == ToSet(q)
  <2>1. \A x \in Plugins :
          /\ rec'[x].known = rec[x].known /\ rec'[x].enabled = rec[x].enabled
          /\ rec'[x].rev = rec[x].rev /\ rec'[x].proc = rec[x].proc /\ rec'[x].pkg = rec[x].pkg
          /\ rec'[x].runtime = rec[x].runtime
               \/ (rec[x].runtime = "Failed" /\ rec'[x].runtime = "Stopped")
    <3> DEFINE r == [rec[p] EXCEPT !.runtime = IF @ = "Failed" THEN "Stopped" ELSE @]
    <3>1. rec' = [rec EXCEPT ![p] = r]
      BY <1>3 DEF Enqueue
    <3>2. /\ r.known = rec[p].known /\ r.enabled = rec[p].enabled
          /\ r.rev = rec[p].rev /\ r.proc = rec[p].proc /\ r.pkg = rec[p].pkg
          /\ r.runtime = rec[p].runtime \/ (rec[p].runtime = "Failed" /\ r.runtime = "Stopped")
      BY <1>0 DEF Record
    <3> HIDE DEF r
    <3> QED
      BY <1>0, <3>1, <3>2
  <2>2. \A w \in Workers : \/ worker'[w] = worker[w]
                           \/ worker[w].pc = "off" /\ worker'[w] = [Off EXCEPT !.pc = "pick"]
    BY <1>0, <1>3 DEF Enqueue
  <2>3. /\ \A x \in Plugins \ {p} : entered[x] = att[x]
        /\ entered[p] = att[p] \/ (att[p] = None /\ entered[p].rev = rec[p].rev)
    BY <1>0
  <2>4. asked[u] = Waits(p) /\ \A v \in Users \ {u} : asked[v] = user[v]
    BY <1>0
  <2>5. q \in Seq(Plugins) /\ failed \subseteq Plugins
        /\ \A x \in Plugins : Contains(q, x) <=> x \in failed
    <3>1. q \in Seq(Plugins)
      BY QueuedQueue DEF Typed, QueueSound
    <3> HIDE DEF q
    <3> QED
      BY <3>1 DEF ToSet, Contains
  <2>6. /\ \/ att' = entered /\ user' = asked
           \/ /\ att' = [x \in Plugins |-> IF x \in failed THEN None ELSE entered[x]]
              /\ user' = Answered(asked, failed, NoProc)
              /\ off = Workers
    BY <1>3 DEF Enqueue
  <2>7. \A x \in Plugins : att'[x] # None => att'[x] = entered[x]
    BY <2>6
  <2>8. \A x \in Plugins : att'[x] # None =>
          \/ att'[x] = att[x]
          \/ /\ x = p /\ att[p] = None /\ att'[p].rev = rec[p].rev
             /\ rec[p].known /\ rec[p].enabled /\ ~closed
    <3> HIDE DEF entered
    <3> QED
      BY <1>3, <2>3, <2>7
  <2>9. CASE att' = entered /\ user' = asked
    BY <1>1, <2>1, <2>2, <2>4, <2>8, <2>9 DEF Activated
  <2>10. CASE /\ att' = [x \in Plugins |-> IF x \in failed THEN None ELSE entered[x]]
              /\ user' = Answered(asked, failed, NoProc)
              /\ off = Workers
    <3> HIDE DEF asked, entered, q
    <3>1. \A v \in Users : user'[v] = IF asked[v].pc = "wait" /\ asked[v].plugin \in failed
                                      THEN Answer(v, asked[v].plugin, NoProc) ELSE asked[v]
      BY <2>10 DEF Answered
    <3>2. \A x \in failed : att'[x] = None
      BY <2>5, <2>10
    <3>3. \A v \in Users \ {u} :
            \/ user'[v] = user[v]
            \/ /\ user[v].pc = "wait" /\ att'[user[v].plugin] = None
               /\ user'[v] = Answer(v, user[v].plugin, NoProc)
               /\ \A w \in Workers : worker[w].pc = "off"
      BY <2>4, <2>10, <3>1, <3>2
    <3>4. user'[u] = Waits(p) \/ (user'[u] = Answer(u, p, NoProc) /\ att'[p] = None)
      BY <2>4, <3>1, <3>2 DEF Waits
    <3> QED
      BY <1>1, <2>1, <2>2, <2>8, <3>3, <3>4 DEF Activated
  <2> QED
    BY <2>6, <2>9, <2>10
<1> QED
  BY <1>2, <1>3 DEF Activate

(* A step of a worker: what it makes of its task and of the record.        *)
Moves(w, from, to) ==
  /\ worker[w].pc = from /\ worker'[w].pc = to
  /\ worker'[w].plugin = worker[w].plugin /\ worker'[w].rev = worker[w].rev
  /\ worker'[w].cancelled = worker[w].cancelled /\ worker'[w].pkg = worker[w].pkg
Keeping(w) == worker'[w].proc = worker[w].proc
Dropping(w) == worker'[w].proc = NoProc
Same(p) == /\ rec'[p].known = rec[p].known /\ rec'[p].enabled = rec[p].enabled
           /\ rec'[p].rev = rec[p].rev /\ rec'[p].pkg = rec[p].pkg
Only(p) == \A q \in Plugins \ {p} : rec'[q] = rec[q]

Picked(w) ==
  /\ worker[w].pc = "pick" /\ UNCHANGED <<rec, procs, att, user>>
  /\ \/ worker'[w] = Off
     \/ /\ worker'[w].pc = "begin" /\ worker'[w].plugin \in Plugins
        /\ att[worker'[w].plugin] # None /\ worker'[w].rev = att[worker'[w].plugin].rev
        /\ ~worker'[w].cancelled /\ worker'[w].proc = NoProc
        /\ Contains(pending, worker'[w].plugin)

Began(w) ==
  LET t == worker[w]
      p == t.plugin
      r == rec[p]
  IN
  /\ UNCHANGED <<procs, att, user>>
  /\ \/ Moves(w, "begin", "failed") /\ Keeping(w) /\ UNCHANGED rec
     \/ /\ Moves(w, "begin", "succeeded") /\ Keeping(w) /\ UNCHANGED rec
        /\ Current(r, t) /\ r.enabled /\ ~ShuttingDown /\ Alive(r.proc)
        /\ r.runtime # "Starting"
     \/ /\ t.pc = "begin" /\ worker'[w].plugin = p
        /\ worker'[w].pc = (IF r.proc = NoProc THEN "launch" ELSE "stopPrevious")
        /\ worker'[w].rev = r.rev + 1 /\ worker'[w].cancelled = t.cancelled
        /\ worker'[w].pkg = r.pkg /\ worker'[w].proc = r.proc
        /\ Current(r, t) /\ r.enabled /\ ~ShuttingDown /\ ~Alive(r.proc)
        /\ r.runtime \notin {"Stopping", "Starting"}
        /\ Only(p) /\ rec'[p].known = r.known /\ rec'[p].enabled = r.enabled
        /\ rec'[p].pkg = r.pkg /\ rec'[p].rev = r.rev + 1
        /\ rec'[p].proc = NoProc /\ rec'[p].runtime = "Starting"

PreviousStopped(w) ==
  LET t == worker[w]
      p == t.plugin
  IN
  /\ UNCHANGED <<att, user>> /\ t.proc \in ProcIds /\ Dropping(w)
  /\ \/ Moves(w, "stopPrevious", "launch") /\ procs' = Stopped(t.proc) /\ UNCHANGED rec
     \/ /\ Moves(w, "stopPrevious", "failed") /\ procs' = Unstopped(t.proc) /\ StopFails(t.proc)
        /\ \/ UNCHANGED rec
           \/ /\ Only(p) /\ Same(p) /\ rec[p].known
              /\ rec'[p].proc = t.proc /\ rec'[p].runtime = "Failed"

Launched(w) ==
  LET t == worker[w]
      s == worker'[w].proc
      k == disk[t.plugin][PlaceOf[t.pkg]]
  IN
  /\ UNCHANGED <<rec, att, user>>
  /\ \/ Moves(w, "launch", "finish") /\ Keeping(w) /\ UNCHANGED procs
     \/ /\ Moves(w, "launch", "register") /\ s \in FreeSlots /\ k # None
        /\ procs' = [procs EXCEPT ![s] = [plugin |-> t.plugin, pkg |-> k, alive |-> TRUE,
                                          child |-> TRUE, hello |-> FALSE, reader |-> "none"]]

Registered(w) ==
  LET t == worker[w]
      p == t.plugin
      r == rec[p]
  IN
  /\ UNCHANGED <<att, user>> /\ Keeping(w) /\ t.proc \in ProcIds
  /\ \/ /\ Moves(w, "register", "hello")
        /\ Current(r, t) /\ r.enabled /\ r.runtime = "Starting" /\ ~ShuttingDown
        /\ Only(p) /\ Same(p) /\ rec'[p].proc = t.proc /\ rec'[p].runtime = "Starting"
        /\ procs' = [procs EXCEPT ![t.proc].reader = "reading"]
     \/ Moves(w, "register", "reject") /\ UNCHANGED <<rec, procs>>

Greeted(w) ==
  LET s == worker[w].proc IN
  /\ UNCHANGED <<rec, att, user>> /\ Keeping(w) /\ s \in ProcIds
  /\ \/ Moves(w, "hello", "finish") /\ procs' = [procs EXCEPT ![s].hello = TRUE]
     \/ Moves(w, "hello", "reject") /\ UNCHANGED procs

ProcStopped(w) ==
  LET s == worker[w].proc IN
  /\ UNCHANGED <<rec, att, user>> /\ Dropping(w) /\ s \in ProcIds /\ StopAnyway(s)
  /\ Moves(w, "reject", "finish") \/ Moves(w, "discard", "failed")

Finished(w) ==
  LET t == worker[w]
      p == t.plugin
      r == rec[p]
  IN
  /\ UNCHANGED <<procs, att, user>>
  /\ \/ /\ Keeping(w) /\ UNCHANGED rec /\ ~StillStarting(r, t)
        /\ \/ t.proc = NoProc /\ Moves(w, "finish", "failed")
           \/ t.proc # NoProc /\ Moves(w, "finish", "discard")
     \/ /\ Moves(w, "finish", "succeeded") /\ Dropping(w)
        /\ StillStarting(r, t) /\ Alive(t.proc)
        /\ Only(p) /\ Same(p) /\ rec'[p].proc = t.proc /\ rec'[p].runtime = "Running"
     \/ /\ Moves(w, "finish", "failed") /\ Dropping(w)
        /\ StillStarting(r, t) /\ ~Alive(t.proc)
        /\ Only(p) /\ Same(p) /\ rec'[p].proc = r.proc /\ rec'[p].runtime = "Failed"

Completed(w) ==
  LET t == worker[w]
      p == t.plugin
      result == IF t.pc = "succeeded" /\ Alive(rec[p].proc) THEN rec[p].proc ELSE NoProc
  IN
  /\ UNCHANGED <<rec, procs>> /\ t.pc \in {"succeeded", "failed"}
  /\ worker'[w] = [Off EXCEPT !.pc = "pick"]
  /\ \/ t.cancelled /\ UNCHANGED <<att, user>>
     \/ /\ ~t.cancelled /\ att' = [att EXCEPT ![p] = None]
        /\ \A u \in Users :
             user'[u] = IF user[u].pc = "wait" /\ user[u].plugin = p
                        THEN Answer(u, p, result) ELSE user[u]

Worked(w) ==
  /\ UNCHANGED <<disk, closed, mgr, sd, frozen, budget>>
  /\ \A v \in Workers \ {w} : worker'[v] = worker[v]
  /\ \/ Picked(w)
     \/ /\ HasTask(w) /\ worker[w].plugin \in Plugins
        /\ \/ Began(w) \/ PreviousStopped(w) \/ Launched(w) \/ Registered(w) \/ Greeted(w)
           \/ ProcStopped(w) \/ Finished(w) \/ Completed(w)

LEMMA GotoMoves ==
  ASSUME Typed, NEW w \in Workers, NEW pc,
         worker' = Goto(w, pc) \/ worker' = Drop(w, pc)
  PROVE  /\ Moves(w, worker[w].pc, pc)
         /\ \A v \in Workers \ {w} : worker'[v] = worker[v]
         /\ worker' = Goto(w, pc) => Keeping(w)
         /\ worker' = Drop(w, pc) => Dropping(w)
<1> DEFINE t == worker[w]
           x == [t EXCEPT !.pc = pc]
           y == [t EXCEPT !.pc = pc, !.proc = NoProc]
<1>0. t \in Task /\ worker \in [Workers -> Task]
  BY DEF Typed, TasksSound
<1>1. /\ x.pc = pc /\ x.plugin = t.plugin /\ x.rev = t.rev /\ x.cancelled = t.cancelled
      /\ x.pkg = t.pkg /\ x.proc = t.proc
      /\ y.pc = pc /\ y.plugin = t.plugin /\ y.rev = t.rev /\ y.cancelled = t.cancelled
      /\ y.pkg = t.pkg /\ y.proc = NoProc
  BY <1>0 DEF Task
<1>2. /\ worker' = Goto(w, pc) => worker' = [worker EXCEPT ![w] = x]
      /\ worker' = Drop(w, pc) => worker' = [worker EXCEPT ![w] = y]
  BY DEF Goto, Drop
<1> HIDE DEF x, y
<1> QED
  BY <1>0, <1>1, <1>2 DEF Moves, Keeping, Dropping

LEMMA WorkEffects ==
  ASSUME Typed, QueueSound, NEW w \in Workers, Work(w)
  PROVE  Worked(w)
<1> DEFINE t == worker[w]
           p == t.plugin
           r == rec[p]
<1>0. /\ worker \in [Workers -> Task] /\ t \in Task /\ TaskSound(t, procs)
      /\ rec \in [Plugins -> Record] /\ procs \in [ProcIds -> Process]
      /\ HasTask(w) => p \in Plugins /\ r \in Record
  BY TaskOf DEF Typed, TasksSound, RecordsSound, ProcsTyped
<1>1. UNCHANGED <<disk, closed, mgr, sd, frozen, budget>>
  BY DEF Work, Pick, Begin, StopPrevious, Launch, Register, Hello, Reject, Finish, Discard, Complete,
     queue
<1>2. \A v \in Workers \ {w} : worker'[v] = worker[v]
  BY <1>0 DEF Work, Pick, Begin, StopPrevious, Launch, Register, Hello, Reject, Finish, Discard,
     Complete, Goto, Drop
<1>3. CASE Pick(w)
  <2>1. CASE worker' = [worker EXCEPT ![w] = Off]
    BY <1>0, <1>1, <1>2, <1>3, <2>1 DEF Pick, Worked, Picked
  <2>2. CASE ~(closed \/ pending = <<>>)
    <3> DEFINE q == Head(pending)
               x == [Off EXCEPT !.pc = "begin", !.plugin = q, !.rev = att[q].rev]
    <3>1. pending \in Seq(Plugins) /\ pending # <<>>
      BY <2>2 DEF Typed, QueueTyped
    <3>2. q \in Plugins /\ Contains(pending, q)
      BY <3>1 DEF Contains
    <3>3. att[q] # None
      BY <3>2 DEF QueueSound
    <3>4. worker' = [worker EXCEPT ![w] = x]
      BY <1>3, <2>2 DEF Pick
    <3>5. x.pc = "begin" /\ x.plugin = q /\ x.rev = att[q].rev /\ x.cancelled = FALSE
          /\ x.proc = NoProc
      BY DEF Off
    <3> HIDE DEF x, q
    <3>6. worker'[w] = x
      BY <1>0, <3>4
    <3>7. Picked(w)
      BY <1>3, <3>2, <3>3, <3>5, <3>6 DEF Pick, Picked
    <3> QED
      BY <1>1, <1>2, <3>7 DEF Worked
  <2> QED
    BY <1>3, <2>1, <2>2 DEF Pick
<1>4. CASE Begin(w)
  <2>1. HasTask(w) /\ p \in Plugins /\ r \in Record /\ t.pc = "begin"
    BY <1>0, <1>4 DEF Begin, HasTask, TaskPcs
  <2>2. CASE worker' = Goto(w, "failed") /\ UNCHANGED rec
    BY <1>1, <1>2, <1>4, <2>1, <2>2, GotoMoves DEF Begin, Worked, Began, queue
  <2>3. CASE worker' = Goto(w, "succeeded") /\ UNCHANGED rec /\ Alive(r.proc)
             /\ ~ShuttingDown /\ Current(r, t) /\ r.enabled /\ r.runtime # "Starting"
    BY <1>1, <1>2, <1>4, <2>1, <2>3, GotoMoves DEF Begin, Worked, Began, queue
  <2>4. CASE /\ ~ShuttingDown /\ Current(r, t) /\ r.enabled /\ ~Alive(r.proc)
             /\ r.runtime \notin {"Stopping", "Starting"}
             /\ rec' = [rec EXCEPT ![p] = [r EXCEPT !.runtime = "Starting", !.rev = r.rev + 1,
                                               !.proc = NoProc]]
             /\ worker' = [worker EXCEPT ![w] =
                        [t EXCEPT !.rev = r.rev + 1, !.pkg = r.pkg, !.proc = r.proc,
                           !.pc = IF r.proc = NoProc THEN "launch" ELSE "stopPrevious"]]
    <3> DEFINE x == [r EXCEPT !.runtime = "Starting", !.rev = r.rev + 1, !.proc = NoProc]
               y == [t EXCEPT !.rev = r.rev + 1, !.pkg = r.pkg, !.proc = r.proc,
                           !.pc = IF r.proc = NoProc THEN "launch" ELSE "stopPrevious"]
    <3>1. /\ x.known = r.known /\ x.enabled = r.enabled /\ x.pkg = r.pkg
          /\ x.rev = r.rev + 1 /\ x.proc = NoProc /\ x.runtime = "Starting"
      <4> HIDE DEF r
      <4> QED
        BY <2>1 DEF Record
    <3>2. /\ y.plugin = p /\ y.rev = r.rev + 1 /\ y.cancelled = t.cancelled
          /\ y.pkg = r.pkg /\ y.proc = r.proc
          /\ y.pc = (IF r.proc = NoProc THEN "launch" ELSE "stopPrevious")
      <4> HIDE DEF r
      <4> QED
        BY <1>0 DEF Task
    <3>3. rec' = [rec EXCEPT ![p] = x] /\ worker' = [worker EXCEPT ![w] = y]
      BY <2>4
    <3> HIDE DEF x, y
    <3>4. rec'[p] = x /\ worker'[w] = y /\ Only(p)
      BY <1>0, <2>1, <3>3 DEF Only
    <3>5. Began(w)
      BY <1>4, <2>1, <2>4, <3>1, <3>2, <3>4 DEF Begin, Began, queue
    <3> QED
      BY <1>1, <1>2, <2>1, <3>5 DEF Worked
  <2> QED
    BY <1>4, <2>2, <2>3, <2>4 DEF Begin
<1>5. CASE StopPrevious(w)
  <2>1. HasTask(w) /\ p \in Plugins /\ r \in Record /\ t.pc = "stopPrevious" /\ t.proc \in ProcIds
    BY <1>0, <1>5 DEF StopPrevious, HasTask, TaskPcs, StartPcs, TaskSound, Task, Slots
  <2>2. CASE worker' = Drop(w, "launch") /\ procs' = Stopped(t.proc) /\ UNCHANGED rec
    BY <1>1, <1>2, <1>5, <2>1, <2>2, GotoMoves DEF StopPrevious, Worked, PreviousStopped, queue
  <2>3. CASE /\ worker' = Drop(w, "failed") /\ StopFails(t.proc) /\ procs' = Unstopped(t.proc)
             /\ rec' = IF ~r.known THEN rec
                       ELSE [rec EXCEPT ![p] = [@ EXCEPT !.proc = t.proc, !.runtime = "Failed"]]
    <3> DEFINE x == [r EXCEPT !.proc = t.proc, !.runtime = "Failed"]
    <3>1. /\ x.known = r.known /\ x.enabled = r.enabled /\ x.pkg = r.pkg
          /\ x.rev = r.rev /\ x.proc = t.proc /\ x.runtime = "Failed"
      <4> HIDE DEF r
      <4> QED
        BY <2>1 DEF Record
    <3>2. UNCHANGED rec \/ (rec' = [rec EXCEPT ![p] = x] /\ r.known)
      BY <2>3
    <3> HIDE DEF x
    <3>3. UNCHANGED rec \/ (rec'[p] = x /\ Only(p) /\ r.known)
      BY <1>0, <2>1, <3>2 DEF Only
    <3>4. PreviousStopped(w)
      BY <1>5, <2>1, <2>3, <3>1, <3>3, GotoMoves DEF StopPrevious, PreviousStopped, Same, queue
    <3> QED
      BY <1>1, <1>2, <2>1, <3>4 DEF Worked
  <2> QED
    BY <1>5, <2>2, <2>3 DEF StopPrevious
<1>6. CASE Launch(w)
  <2>1. HasTask(w) /\ p \in Plugins /\ t.pc = "launch"
    BY <1>0, <1>6 DEF Launch, HasTask, TaskPcs, StartPcs
  <2>2. CASE worker' = Goto(w, "finish") /\ UNCHANGED procs
    <3>1. Moves(w, "launch", "finish") /\ Keeping(w)
      BY <2>1, <2>2, GotoMoves
    <3>2. UNCHANGED <<rec, att, user>>
      BY <1>6 DEF Launch, queue
    <3>3. Launched(w)
      BY <2>2, <3>1, <3>2 DEF Launched
    <3> QED
      BY <1>1, <1>2, <2>1, <3>3 DEF Worked
  <2>3. ASSUME NEW s \in FreeSlots, disk[p][PlaceOf[t.pkg]] # None,
               procs' = [procs EXCEPT ![s] =
                           [plugin |-> t.plugin, pkg |-> disk[p][PlaceOf[t.pkg]], alive |-> TRUE,
                            child |-> TRUE, hello |-> FALSE, reader |-> "none"]],
               worker' = [worker EXCEPT ![w] = [t EXCEPT !.pc = "register", !.proc = s]]
        PROVE  Worked(w)
    <3> DEFINE y == [t EXCEPT !.pc = "register", !.proc = s]
    <3>1. /\ y.pc = "register" /\ y.plugin = t.plugin /\ y.rev = t.rev /\ y.cancelled = t.cancelled
          /\ y.pkg = t.pkg /\ y.proc = s
      BY <1>0 DEF Task
    <3>2. worker' = [worker EXCEPT ![w] = y]
      BY <2>3
    <3> HIDE DEF y
    <3>3. worker'[w] = y
      BY <1>0, <3>2
    <3>4. Moves(w, "launch", "register") /\ worker'[w].proc = s
      BY <2>1, <3>1, <3>3 DEF Moves
    <3>5. Launched(w)
      BY <1>6, <2>3, <3>4 DEF Launch, Launched, queue
    <3> QED
      BY <1>1, <1>2, <2>1, <3>5 DEF Worked
  <2> QED
    BY <1>6, <2>2, <2>3 DEF Launch, NotStarted
<1>7. CASE Register(w)
  <2>1. HasTask(w) /\ p \in Plugins /\ r \in Record /\ t.pc = "register" /\ t.proc \in ProcIds
    BY <1>0, <1>7 DEF Register, HasTask, TaskPcs, StartPcs, TaskSound, Task, Slots
  <2>2. CASE worker' = Goto(w, "reject") /\ UNCHANGED <<rec, procs>>
    BY <1>1, <1>2, <1>7, <2>1, <2>2, GotoMoves DEF Register, Worked, Registered, queue
  <2>3. CASE /\ Current(r, t) /\ r.enabled /\ r.runtime = "Starting" /\ ~ShuttingDown
             /\ rec' = [rec EXCEPT ![p].proc = t.proc]
             /\ procs' = [procs EXCEPT ![t.proc].reader = "reading"]
             /\ worker' = Goto(w, "hello")
    <3> DEFINE x == [r EXCEPT !.proc = t.proc]
    <3>1. /\ x.known = r.known /\ x.enabled = r.enabled /\ x.pkg = r.pkg
          /\ x.rev = r.rev /\ x.proc = t.proc /\ x.runtime = r.runtime
      <4> HIDE DEF r
      <4> QED
        BY <2>1 DEF Record
    <3>2. rec' = [rec EXCEPT ![p] = x]
      BY <2>3
    <3> HIDE DEF x
    <3>3. rec'[p] = x /\ Only(p)
      BY <1>0, <2>1, <3>2 DEF Only
    <3>4. Moves(w, "register", "hello") /\ Keeping(w) /\ UNCHANGED <<att, user>>
      BY <1>7, <2>1, <2>3, GotoMoves DEF Register, queue
    <3>5. Same(p) /\ rec'[p].proc = t.proc /\ rec'[p].runtime = "Starting"
      BY <2>3, <3>1, <3>3 DEF Same
    <3>6. Registered(w)
      <4> HIDE DEF r
      <4> QED
        BY <2>1, <2>3, <3>3, <3>4, <3>5 DEF Registered, r
    <3> QED
      BY <1>1, <1>2, <2>1, <3>6 DEF Worked
  <2> QED
    BY <1>7, <2>2, <2>3 DEF Register
<1>8. CASE Hello(w)
  <2>1. HasTask(w) /\ p \in Plugins /\ t.pc = "hello" /\ t.proc \in ProcIds
    BY <1>0, <1>8 DEF Hello, HasTask, TaskPcs, StartPcs, TaskSound, Task, Slots
  <2>2. Greeted(w)
    BY <1>8, <2>1, GotoMoves DEF Hello, Greeted, queue
  <2> QED
    BY <1>1, <1>2, <2>1, <2>2 DEF Worked
<1>9. CASE Reject(w) \/ Discard(w)
  <2>1. HasTask(w) /\ p \in Plugins /\ t.pc \in {"reject", "discard"} /\ t.proc \in ProcIds
    BY <1>0, <1>9 DEF Reject, Discard, HasTask, TaskPcs, StartPcs, TaskSound, Task, Slots
  <2>2. ProcStopped(w)
    BY <1>9, <2>1, GotoMoves DEF Reject, Discard, ProcStopped, StartupGuard, NotStarted, queue
  <2> QED
    BY <1>1, <1>2, <2>1, <2>2 DEF Worked
<1>10. CASE Finish(w)
  <2>1. HasTask(w) /\ p \in Plugins /\ r \in Record /\ t.pc = "finish"
    BY <1>0, <1>10 DEF Finish, HasTask, TaskPcs, StartPcs
  <2>2. CASE /\ ~StillStarting(r, t) /\ UNCHANGED rec
             /\ worker' = Goto(w, IF t.proc = NoProc THEN "failed" ELSE "discard")
    <3>1. /\ t.proc = NoProc => Moves(w, "finish", "failed")
          /\ t.proc # NoProc => Moves(w, "finish", "discard")
          /\ Keeping(w)
      BY <2>1, <2>2, GotoMoves
    <3>2. Finished(w)
      BY <1>10, <2>1, <2>2, <3>1 DEF Finish, Finished, queue
    <3> QED
      BY <1>1, <1>2, <2>1, <3>2 DEF Worked
  <2>3. CASE /\ StillStarting(r, t) /\ Alive(t.proc) /\ worker' = Drop(w, "succeeded")
             /\ rec' = [rec EXCEPT ![p] = [@ EXCEPT !.runtime = "Running", !.proc = t.proc]]
    <3> DEFINE x == [r EXCEPT !.runtime = "Running", !.proc = t.proc]
    <3>1. /\ x.known = r.known /\ x.enabled = r.enabled /\ x.pkg = r.pkg
          /\ x.rev = r.rev /\ x.proc = t.proc /\ x.runtime = "Running"
      <4> HIDE DEF r
      <4> QED
        BY <2>1 DEF Record
    <3>2. rec' = [rec EXCEPT ![p] = x]
      BY <2>3
    <3> HIDE DEF x
    <3>3. rec'[p] = x /\ Only(p)
      BY <1>0, <2>1, <3>2 DEF Only
    <3>4. Finished(w)
      BY <1>10, <2>1, <2>3, <3>1, <3>3, GotoMoves DEF Finish, Finished, Same, queue
    <3> QED
      BY <1>1, <1>2, <2>1, <3>4 DEF Worked
  <2>4. CASE /\ StillStarting(r, t) /\ ~Alive(t.proc) /\ worker' = Drop(w, "failed")
             /\ rec' = [rec EXCEPT ![p].runtime = "Failed"]
    <3> DEFINE x == [r EXCEPT !.runtime = "Failed"]
    <3>1. /\ x.known = r.known /\ x.enabled = r.enabled /\ x.pkg = r.pkg
          /\ x.rev = r.rev /\ x.proc = r.proc /\ x.runtime = "Failed"
      <4> HIDE DEF r
      <4> QED
        BY <2>1 DEF Record
    <3>2. rec' = [rec EXCEPT ![p] = x]
      BY <2>4
    <3> HIDE DEF x
    <3>3. rec'[p] = x /\ Only(p)
      BY <1>0, <2>1, <3>2 DEF Only
    <3>4. Finished(w)
      BY <1>10, <2>1, <2>4, <3>1, <3>3, GotoMoves DEF Finish, Finished, Same, queue
    <3> QED
      BY <1>1, <1>2, <2>1, <3>4 DEF Worked
  <2> QED
    BY <1>10, <2>2, <2>3, <2>4 DEF Finish
<1>11. CASE Complete(w)
  <2>1. HasTask(w) /\ p \in Plugins
    BY <1>0, <1>11 DEF Complete, HasTask, TaskPcs
  <2>2. worker'[w] = [Off EXCEPT !.pc = "pick"]
    BY <1>0, <1>11 DEF Complete
  <2>3. Completed(w)
    BY <1>11, <2>2 DEF Complete, Completed, Answered
  <2> QED
    BY <1>1, <1>2, <2>1, <2>3 DEF Worked
<1> QED
  BY <1>3, <1>4, <1>5, <1>6, <1>7, <1>8, <1>9, <1>10, <1>11 DEF Work

(* A step of a process object: of the records only that of its plugin      *)
(* changes, and only if it names the process.                              *)
Exited(p) == /\ Only(p) /\ Same(p) /\ rec'[p].proc = NoProc
             /\ rec'[p].runtime = WithoutProc(rec[p].runtime)

LEMMA ReadEffects ==
  ASSUME Typed, NEW s \in ProcIds, Read(s) \/ ChildDies(s)
  PROVE  /\ UNCHANGED <<disk, att, pending, closed, worker, user, mgr, sd, frozen, budget>>
         /\ \/ UNCHANGED rec
            \/ /\ procs[s].plugin \in Plugins /\ Exited(procs[s].plugin)
               /\ rec[procs[s].plugin].proc = s /\ procs[s].reader = "ended"
<1> DEFINE p == procs[s].plugin
           x == [rec[p] EXCEPT !.proc = NoProc, !.runtime = WithoutProc(rec[p].runtime)]
<1>1. UNCHANGED <<disk, att, pending, closed, worker, user, mgr, sd, frozen, budget>>
  BY DEF Read, ReaderEnds, ProcessExited, Reap, ChildDies, queue
<1>2. CASE ReaderEnds(s) \/ Reap(s) \/ ChildDies(s)
  BY <1>1, <1>2 DEF ReaderEnds, Reap, ChildDies
<1>3. CASE ProcessExited(s)
  <2>1. rec' = IF rec[p].proc # s THEN rec ELSE [rec EXCEPT ![p] = x]
    BY <1>3, Zenon DEF ProcessExited
  <2>2. CASE p \notin Plugins
    BY <1>1, <2>1, <2>2 DEF Typed, RecordsSound
  <2>3. CASE p \in Plugins
    <3>1. rec[p] \in Record /\ rec \in [Plugins -> Record]
      BY <2>3 DEF Typed, RecordsSound
    <3>2. /\ x.known = rec[p].known /\ x.enabled = rec[p].enabled /\ x.pkg = rec[p].pkg
          /\ x.rev = rec[p].rev /\ x.proc = NoProc /\ x.runtime = WithoutProc(rec[p].runtime)
      BY <3>1 DEF Record
    <3>3. procs[s].reader = "ended"
      BY <1>3 DEF ProcessExited
    <3> HIDE DEF x
    <3>4. UNCHANGED rec \/ (rec'[p] = x /\ Only(p) /\ rec[p].proc = s)
      BY <2>1, <2>3, <3>1 DEF Only
    <3> QED
      BY <1>1, <2>3, <3>2, <3>3, <3>4 DEF Exited, Same
  <2> QED
    BY <2>2, <2>3
<1> QED
  BY <1>2, <1>3 DEF Read

(* A step that begins an operation.                                        *)
Enabled(p) ==
  /\ rec[p].known /\ Only(p) /\ rec'[p].enabled = TRUE
  /\ rec'[p].known = rec[p].known /\ rec'[p].rev = rec[p].rev /\ rec'[p].pkg = rec[p].pkg
  /\ rec'[p].proc = rec[p].proc /\ rec'[p].runtime = rec[p].runtime
  /\ \/ mgr' = IdleMgr
     \/ /\ mgr'.kind = "enable" /\ mgr'.plugin = p /\ mgr'.pc = "start"
        /\ "enable" \in budget.kinds

Disabled(kind, p) ==
  /\ kind \in budget.kinds
  /\ rec[p].known /\ Only(p) /\ rec'[p].enabled = FALSE
  /\ rec'[p].known = rec[p].known /\ rec'[p].rev = rec[p].rev + 1 /\ rec'[p].pkg = rec[p].pkg
  /\ rec'[p].proc = NoProc /\ rec'[p].runtime = "Stopping"
  /\ mgr'.kind = kind /\ mgr'.plugin = p /\ mgr'.pc = "invalidate" /\ mgr'.proc = rec[p].proc

Installs(p, k) ==
  /\ "install" \in budget.kinds /\ UNCHANGED rec
  /\ mgr'.kind = "install" /\ mgr'.plugin = p /\ mgr'.pc = "pause" /\ mgr'.proc = NoProc
  /\ mgr'.old = rec[p].pkg /\ mgr'.new = k /\ mgr'.had = None

Operated(p) ==
  /\ UNCHANGED <<disk, procs, att, pending, closed, worker, user, sd, frozen>>
  /\ mgr.pc = "idle" /\ p \in Plugins /\ p \in budget.plugins
  /\ budget'.kinds = budget.kinds /\ budget'.users = budget.users
  /\ budget'.plugins = budget.plugins /\ budget'.faults = budget.faults
  /\ budget'.packages = budget.packages
  /\ \/ Enabled(p)
     \/ \E kind \in {"disable", "uninstall"} : Disabled(kind, p)
     \/ \E k \in Packages : Installs(p, k)

LEMMA OperateEffects ==
  ASSUME Typed, NEW p \in budget.plugins,
         \/ Enable(p)
         \/ \E kind \in {"disable", "uninstall"} : Disable(kind, p)
         \/ \E k \in budget.packages : Install(p, k)
  PROVE  Operated(p)
<1> DEFINE r == rec[p]
<1>1. /\ p \in Plugins /\ r \in Record /\ rec \in [Plugins -> Record]
      /\ budget \in Budget /\ budget.packages \subseteq Packages
  BY SpentBudget DEF Typed, RecordsSound, RestTyped
<1>2. PICK kind \in AllOps : Operate(kind, p)
  BY DEF Enable, Disable, Install, AllOps
<1>3. UNCHANGED <<disk, procs, att, pending, closed, worker, user, sd, frozen>>
  BY DEF Enable, Disable, Install, queue
<1>4. /\ mgr.pc = "idle"
      /\ budget'.kinds = budget.kinds /\ budget'.users = budget.users
      /\ budget'.plugins = budget.plugins /\ budget'.faults = budget.faults
      /\ budget'.packages = budget.packages
  BY <1>1, <1>2 DEF Operate, Budget
<1>5. CASE Enable(p)
  <2> DEFINE x == [r EXCEPT !.enabled = TRUE]
             i == [IdleMgr EXCEPT !.kind = "enable", !.plugin = p, !.pc = "start"]
  <2>1. /\ x.enabled = TRUE /\ x.known = r.known /\ x.rev = r.rev /\ x.pkg = r.pkg
        /\ x.proc = r.proc /\ x.runtime = r.runtime
    <3> HIDE DEF r
    <3> QED
      BY <1>1 DEF Record
  <2>2. i.kind = "enable" /\ i.plugin = p /\ i.pc = "start"
    BY DEF IdleMgr
  <2>3. rec' = [rec EXCEPT ![p] = x] /\ r.known /\ mgr' \in {IdleMgr, i} /\ "enable" \in budget.kinds
    BY <1>5 DEF Enable, Operate
  <2> HIDE DEF x, i
  <2>4. rec'[p] = x /\ Only(p)
    BY <1>1, <2>3 DEF Only
  <2>5. Enabled(p)
    BY <2>1, <2>2, <2>3, <2>4 DEF Enabled
  <2> QED
    BY <1>1, <1>3, <1>4, <2>5 DEF Operated
<1>6. ASSUME NEW k \in {"disable", "uninstall"}, Disable(k, p)
      PROVE  Operated(p)
  <2> DEFINE x == [r EXCEPT !.enabled = FALSE, !.runtime = "Stopping",
                            !.rev = r.rev + 1, !.proc = NoProc]
             i == [IdleMgr EXCEPT !.kind = k, !.plugin = p, !.pc = "invalidate", !.proc = r.proc]
  <2>1. /\ x.enabled = FALSE /\ x.known = r.known /\ x.rev = r.rev + 1 /\ x.pkg = r.pkg
        /\ x.proc = NoProc /\ x.runtime = "Stopping"
    <3> HIDE DEF r
    <3> QED
      BY <1>1 DEF Record
  <2>2. i.kind = k /\ i.plugin = p /\ i.pc = "invalidate" /\ i.proc = r.proc
    BY DEF IdleMgr
  <2>3. rec' = [rec EXCEPT ![p] = x] /\ r.known /\ mgr' = i /\ k \in budget.kinds
    BY <1>6 DEF Disable, Operate
  <2> HIDE DEF x, i
  <2>4. rec'[p] = x /\ Only(p)
    BY <1>1, <2>3 DEF Only
  <2>5. Disabled(k, p)
    BY <2>1, <2>2, <2>3, <2>4 DEF Disabled
  <2> QED
    BY <1>1, <1>3, <1>4, <2>5 DEF Operated
<1>7. ASSUME NEW k \in budget.packages, Install(p, k)
      PROVE  Operated(p)
  <2> DEFINE i == [IdleMgr EXCEPT !.kind = "install", !.plugin = p, !.pc = "pause",
                                  !.old = r.pkg, !.new = k]
  <2>1. /\ i.kind = "install" /\ i.plugin = p /\ i.pc = "pause" /\ i.proc = NoProc
        /\ i.old = r.pkg /\ i.new = k /\ i.had = None
    BY DEF IdleMgr
  <2>2. UNCHANGED rec /\ mgr' = i /\ "install" \in budget.kinds
    BY <1>7 DEF Install, Operate
  <2> HIDE DEF i
  <2>3. Installs(p, k)
    BY <2>1, <2>2 DEF Installs
  <2> QED
    BY <1>1, <1>3, <1>4, <2>3 DEF Operated
<1> QED
  BY <1>5, <1>6, <1>7

(* A step of the operation in progress, other than an activation.          *)
Continues(pc) ==
  /\ mgr'.pc = pc /\ mgr'.kind = mgr.kind /\ mgr'.plugin = mgr.plugin
  /\ mgr'.old = mgr.old /\ mgr'.new = mgr.new
Puts(k) ==
  /\ disk'[mgr.plugin][PlaceOf[mgr.new]] = k
  /\ \A q \in Plugins, l \in Places :
       q # mgr.plugin \/ l # PlaceOf[mgr.new] => disk'[q][l] = disk[q][l]

Paused1 ==
  LET p == mgr.plugin IN
  /\ mgr.pc = "pause" /\ UNCHANGED <<disk, procs, att, pending, closed, worker, user>>
  /\ \/ OpEnds /\ UNCHANGED rec
     \/ /\ ~InCall(p) /\ ~rec[p].known /\ UNCHANGED rec
        /\ Continues("unlink") /\ mgr'.had = mgr.had /\ mgr'.proc = mgr.proc
     \/ /\ ~InCall(p) /\ rec[p].known /\ rec[p].runtime # "Stopping"
        /\ Continues("invalidate") /\ mgr'.had = mgr.had /\ mgr'.proc = rec[p].proc
        /\ Only(p) /\ rec'[p].known = rec[p].known /\ rec'[p].enabled = rec[p].enabled
        /\ rec'[p].pkg = rec[p].pkg /\ rec'[p].rev = rec[p].rev + 1
        /\ rec'[p].proc = NoProc
        /\ rec'[p].runtime = (IF rec[p].proc = NoProc THEN "Stopped" ELSE "Stopping")

Invalidated ==
  LET p == mgr.plugin IN
  /\ mgr.pc = "invalidate" /\ UNCHANGED <<disk, procs, rec, closed>>
  /\ \/ Continues("stop") \/ (mgr.kind = "install" /\ mgr.proc = NoProc /\ Continues("unlink"))
  /\ mgr'.had = mgr.had /\ mgr'.proc = mgr.proc
  /\ att' = [att EXCEPT ![p] = None]
  /\ \A w \in Workers :
       \/ worker'[w] = worker[w] /\ (TaskOn(w, p) => att[p] = None)
       \/ TaskOn(w, p) /\ worker'[w] = [worker[w] EXCEPT !.cancelled = TRUE]
  /\ \A u \in Users : user'[u] = IF user[u].pc = "wait" /\ user[u].plugin = p
                                 THEN Answer(u, p, NoProc) ELSE user[u]

MgrStopped ==
  LET p == mgr.plugin
      s == mgr.proc
  IN
  /\ mgr.pc = "stop" /\ UNCHANGED <<disk, att, pending, closed, worker, user>>
  /\ \/ /\ \/ s = NoProc /\ UNCHANGED procs
           \/ s # NoProc /\ procs' = Stopped(s)
        /\ \/ /\ mgr.kind = "disable" /\ OpEnds
              /\ Only(p) /\ Same(p) /\ rec'[p].proc = rec[p].proc /\ rec'[p].runtime = "Stopped"
           \/ mgr.kind = "uninstall" /\ Continues("remove") /\ UNCHANGED rec /\ mgr'.proc = NoProc
           \/ /\ mgr.kind = "install" /\ Continues("unlink") /\ mgr'.proc = NoProc
              /\ mgr'.had = mgr.had
              /\ Only(p) /\ Same(p) /\ rec'[p].proc = rec[p].proc /\ rec'[p].runtime = "Stopped"
     \/ /\ s # NoProc /\ StopFails(s) /\ procs' = Unstopped(s) /\ OpEnds
        /\ Only(p) /\ Same(p) /\ rec'[p].proc = s /\ rec'[p].runtime = "Failed"

Removed ==
  LET p == mgr.plugin IN
  /\ UNCHANGED <<procs, att, pending, closed, worker, user>>
  /\ \/ /\ mgr.pc = "remove" /\ Continues("forget") /\ UNCHANGED rec
        /\ \A q \in Plugins \ {p} : disk'[q] = disk[q]
     \/ /\ mgr.pc = "remove" /\ OpEnds /\ UNCHANGED disk
        /\ Only(p) /\ Same(p) /\ rec'[p].proc = rec[p].proc /\ rec'[p].runtime = "Stopped"
     \/ /\ mgr.pc = "forget" /\ OpEnds /\ UNCHANGED disk
        /\ Only(p) /\ rec'[p] = Unknown

Filed ==
  /\ UNCHANGED <<rec, procs, att, pending, closed, worker, user>>
  /\ \/ /\ mgr.pc = "unlink" /\ Continues("place")
        /\ mgr'.had = disk[mgr.plugin][PlaceOf[mgr.new]] /\ Puts(None)
     \/ mgr.pc = "place" /\ Continues("refresh") /\ mgr'.had = mgr.had /\ Puts(mgr.new)
     \/ /\ mgr.pc = "place" /\ Puts(mgr.had)
        /\ OpEnds \/ (Continues("restart") /\ mgr'.had = mgr.had)
     \/ mgr.pc = "rollback" /\ Continues("refreshBack") /\ mgr'.had = mgr.had /\ Puts(mgr.had)

(* The records after a scan that finds k in the target's directory.        *)
ScannedTo(k) ==
  \A q \in Plugins :
    \/ q # mgr.plugin /\ ~rec[q].known /\ rec'[q] = rec[q]
    \/ q # mgr.plugin /\ rec[q].known /\ rec'[q] = Scanned(rec[q], rec[q].pkg)
    \/ q = mgr.plugin /\ rec'[q] = Scanned(rec[q], k)

Rescanned ==
  /\ UNCHANGED <<procs, att, pending, closed, worker, user>>
  /\ \/ /\ mgr.pc = "refresh" /\ UNCHANGED disk /\ ScannedTo(mgr.new)
        /\ OpEnds \/ (Continues("start") /\ mgr'.had = mgr.had)
     \/ mgr.pc = "refresh" /\ ShuttingDown /\ Puts(mgr.had) /\ OpEnds /\ UNCHANGED rec
     \/ /\ mgr.pc = "refreshBack" /\ UNCHANGED disk /\ ScannedTo(mgr.old) /\ mgr.old \in Packages
        /\ OpEnds \/ (Continues("restart") /\ mgr'.had = mgr.had)
     \/ mgr.pc = "refreshBack" /\ ShuttingDown /\ OpEnds /\ UNCHANGED <<rec, disk>>

StartEnded ==
  /\ UNCHANGED <<rec, disk, procs, att, pending, closed, worker>>
  /\ mgr.pc \in {"starting", "restarting"}
  /\ user' = [user EXCEPT ![Manager] = IdleUser]
  /\ \/ /\ mgr.pc = "starting" /\ mgr.kind = "install" /\ user[Manager].pc = "err"
        /\ mgr.old # None /\ Continues("rollback") /\ mgr'.had = mgr.had
     \/ OpEnds

Managed ==
  /\ UNCHANGED <<sd, frozen, budget>>
  /\ mgr.plugin \in Plugins /\ mgr.pc # "idle"
  /\ \/ Paused1 \/ Invalidated \/ MgrStopped \/ Removed \/ Filed \/ Rescanned \/ StartEnded

LEMMA PutEffects ==
  ASSUME Typed, mgr.plugin \in Plugins, mgr.new \in Packages, NEW k, Put(k)
  PROVE  Puts(k)
<1> DEFINE p == mgr.plugin
           l == PlaceOf[mgr.new]
<1>1. l \in Places /\ disk \in [Plugins -> [Places -> Packages \cup {None}]]
  BY DEF Typed, RestTyped
<1>2. disk' = [disk EXCEPT ![p] = [disk[p] EXCEPT ![l] = k]]
  BY DEF Put
<1> HIDE DEF l
<1> QED
  BY <1>1, <1>2 DEF Puts, l

LEMMA MgrContinues ==
  ASSUME Typed, NEW pc, Continue(pc)
  PROVE  Continues(pc) /\ mgr'.had = mgr.had /\ mgr'.proc = mgr.proc
BY DEF Typed, ManagerSound, OperationSound, Operation, Continue, Continues

LEMMA ManagementEffects ==
  ASSUME Typed, QueueSound, Management, ~Start, ~Restart
  PROVE  Managed
<1> DEFINE p == mgr.plugin
           r == rec[p]
<1>1. /\ mgr.pc # "idle" /\ p \in Plugins /\ r \in Record /\ mgr \in Operation
      /\ OperationSound(mgr, procs) /\ mgr.proc \in Slots /\ rec \in [Plugins -> Record]
  <2>1. mgr.pc # "idle"
    BY DEF Management, Pause, MgrInvalidate, MgrStop, RemovePackage, ForgetPlugin, Unlink, Place,
       Refresh, StartEnds, Rollback, RefreshBack
  <2> QED
    BY <2>1, MgrOf DEF Operation, Typed, RecordsSound
<1>2. UNCHANGED <<sd, frozen, budget>>
  BY DEF Management, Pause, MgrInvalidate, MgrStop, RemovePackage, ForgetPlugin, Unlink, Place,
     Refresh, StartEnds, Rollback, RefreshBack
<1>3. CASE Pause
  <2>1. CASE OpEnds /\ UNCHANGED rec
    BY <1>1, <1>2, <1>3, <2>1 DEF Pause, Paused1, Managed, queue
  <2>2. CASE ~InCall(p) /\ ~r.known /\ Continue("unlink") /\ UNCHANGED rec
    BY <1>1, <1>2, <1>3, <2>2, MgrContinues DEF Pause, Paused1, Managed, queue
  <2>3. CASE /\ ~InCall(p) /\ r.known /\ r.runtime # "Stopping"
             /\ rec' = [rec EXCEPT ![p] =
                     [r EXCEPT !.rev = r.rev + 1, !.proc = NoProc,
                        !.runtime = IF r.proc = NoProc THEN "Stopped" ELSE "Stopping"]]
             /\ mgr' = [mgr EXCEPT !.pc = "invalidate", !.proc = r.proc,
                     !.was = r.runtime = "Running" /\ Alive(r.proc)]
    <3> DEFINE x == [r EXCEPT !.rev = r.rev + 1, !.proc = NoProc,
                        !.runtime = IF r.proc = NoProc THEN "Stopped" ELSE "Stopping"]
               b == r.runtime = "Running" /\ Alive(r.proc)
    <3>1. /\ x.enabled = r.enabled /\ x.known = r.known /\ x.rev = r.rev + 1 /\ x.pkg = r.pkg
          /\ x.proc = NoProc /\ x.runtime = (IF r.proc = NoProc THEN "Stopped" ELSE "Stopping")
      <4> HIDE DEF r
      <4> QED
        BY <1>1 DEF Record
    <3>2. rec' = [rec EXCEPT ![p] = x] /\ mgr' = [mgr EXCEPT !.pc = "invalidate", !.proc = r.proc,
                                                            !.was = b]
      BY <2>3
    <3> HIDE DEF x, b
    <3>3. Continues("invalidate") /\ mgr'.had = mgr.had /\ mgr'.proc = r.proc
      <4> HIDE DEF r
      <4> QED
        BY <1>1, <3>2 DEF Operation, Continues
    <3>4. rec'[p] = x /\ Only(p)
      BY <1>1, <3>2 DEF Only
    <3>5. Paused1
      BY <1>3, <2>3, <3>1, <3>3, <3>4 DEF Pause, Paused1, queue
    <3> QED
      BY <1>1, <1>2, <3>5 DEF Managed
  <2> QED
    BY <1>3, <2>1, <2>2, <2>3 DEF Pause
<1>4. CASE MgrInvalidate
  <2>1. /\ mgr.pc = "invalidate" /\ UNCHANGED <<disk, procs, rec, closed>>
        /\ att' = [att EXCEPT ![p] = None] /\ worker' = Cancelled(p)
        /\ user' = Answered(user, {p}, NoProc)
    BY <1>4 DEF MgrInvalidate, Invalidate
  <2>2. \/ Continue("stop")
        \/ (mgr.kind = "install" /\ mgr.proc = NoProc /\ Continue("unlink"))
    BY <1>4 DEF MgrInvalidate
  <2>3. \A w \in Workers :
          \/ worker'[w] = worker[w] /\ (TaskOn(w, p) => att[p] = None)
          \/ TaskOn(w, p) /\ worker'[w] = [worker[w] EXCEPT !.cancelled = TRUE]
    BY <2>1 DEF Cancelled, TaskOn
  <2>4. \A u \in Users : user'[u] = IF user[u].pc = "wait" /\ user[u].plugin = p
                                    THEN Answer(u, p, NoProc) ELSE user[u]
    BY <2>1 DEF Answered
  <2>5. Invalidated
    BY <2>1, <2>2, <2>3, <2>4, MgrContinues DEF Invalidated
  <2> QED
    BY <1>1, <1>2, <2>5 DEF Managed
<1>5. CASE MgrStop
  <2> DEFINE s == mgr.proc
             x == [r EXCEPT !.runtime = "Stopped"]
             y == [r EXCEPT !.proc = s, !.runtime = "Failed"]
             i == [mgr EXCEPT !.pc = "remove", !.proc = NoProc]
             j == [mgr EXCEPT !.pc = "unlink", !.proc = NoProc]
  <2>1. /\ x.enabled = r.enabled /\ x.known = r.known /\ x.rev = r.rev /\ x.pkg = r.pkg
        /\ x.proc = r.proc /\ x.runtime = "Stopped"
        /\ y.enabled = r.enabled /\ y.known = r.known /\ y.rev = r.rev /\ y.pkg = r.pkg
        /\ y.proc = s /\ y.runtime = "Failed"
    <3> HIDE DEF r, s
    <3> QED
      BY <1>1 DEF Record
  <2>2. /\ mgr' = i => Continues("remove") /\ mgr'.proc = NoProc /\ mgr'.had = mgr.had
        /\ mgr' = j => Continues("unlink") /\ mgr'.proc = NoProc /\ mgr'.had = mgr.had
    BY <1>1 DEF Operation, Continues
  <2>3. CASE /\ procs' = IF s = NoProc THEN procs ELSE Stopped(s)
             /\ rec' = IF mgr.kind = "uninstall" THEN rec ELSE [rec EXCEPT ![p].runtime = "Stopped"]
             /\ CASE mgr.kind = "disable" -> OpEnds
                  [] mgr.kind = "uninstall" -> mgr' = i
                  [] mgr.kind = "install" -> mgr' = j
    <3>1. mgr.kind \in {"disable", "uninstall", "install"} /\ mgr.pc = "stop"
      BY <1>1, <1>5 DEF MgrStop, OperationSound
    <3>2. mgr.kind = "uninstall" \/ rec' = [rec EXCEPT ![p] = x]
      BY <2>3
    <3>3. /\ mgr.kind = "disable" => OpEnds
          /\ mgr.kind = "uninstall" => mgr' = i /\ UNCHANGED rec
          /\ mgr.kind = "install" => mgr' = j
      BY <2>3
    <3> HIDE DEF x, i, j
    <3>4. mgr.kind = "uninstall" \/ (rec'[p] = x /\ Only(p))
      BY <1>1, <3>2 DEF Only
    <3>5. UNCHANGED <<disk, att, pending, closed, worker, user>>
      BY <1>5 DEF MgrStop, queue
    <3>6. (s = NoProc /\ UNCHANGED procs) \/ (s # NoProc /\ procs' = Stopped(s))
      BY <2>3
    <3>7. MgrStopped
      BY <2>1, <2>2, <3>1, <3>3, <3>4, <3>5, <3>6 DEF MgrStopped, Same
    <3> QED
      BY <1>1, <1>2, <3>7 DEF Managed
  <2>4. CASE /\ s # NoProc /\ StopFails(s) /\ procs' = Unstopped(s) /\ OpEnds
             /\ rec' = [rec EXCEPT ![p] = [@ EXCEPT !.proc = s, !.runtime = "Failed"]]
    <3>1. rec' = [rec EXCEPT ![p] = y]
      BY <2>4
    <3> HIDE DEF y
    <3>2. rec'[p] = y /\ Only(p)
      BY <1>1, <3>1 DEF Only
    <3>3. UNCHANGED <<disk, att, pending, closed, worker, user>> /\ mgr.pc = "stop"
      BY <1>5 DEF MgrStop, queue
    <3>4. MgrStopped
      BY <2>1, <2>4, <3>2, <3>3 DEF MgrStopped, Same
    <3> QED
      BY <1>1, <1>2, <3>4 DEF Managed
  <2> QED
    BY <1>5, <2>3, <2>4 DEF MgrStop
<1>6. CASE RemovePackage \/ ForgetPlugin
  <2> DEFINE x == [r EXCEPT !.runtime = "Stopped"]
  <2>1. /\ x.enabled = r.enabled /\ x.known = r.known /\ x.rev = r.rev /\ x.pkg = r.pkg
        /\ x.proc = r.proc /\ x.runtime = "Stopped"
    <3> HIDE DEF r
    <3> QED
      BY <1>1 DEF Record
  <2>2. UNCHANGED <<procs, att, pending, closed, worker, user>>
    BY <1>6 DEF RemovePackage, ForgetPlugin, queue
  <2>3. CASE /\ mgr.pc = "remove" /\ disk' = [disk EXCEPT ![p] = [l \in Places |-> None]]
             /\ Continue("forget") /\ UNCHANGED rec
    BY <1>1, <1>2, <2>2, <2>3, MgrContinues DEF Managed, Removed, Typed, RestTyped
  <2>4. CASE /\ mgr.pc = "remove" /\ rec' = [rec EXCEPT ![p].runtime = "Stopped"]
             /\ OpEnds /\ UNCHANGED disk
    <3>1. rec' = [rec EXCEPT ![p] = x]
      BY <2>4
    <3> HIDE DEF x
    <3>2. rec'[p] = x /\ Only(p)
      BY <1>1, <3>1 DEF Only
    <3> QED
      BY <1>1, <1>2, <2>1, <2>2, <2>4, <3>2 DEF Managed, Removed, Same
  <2>5. CASE ForgetPlugin
    <3>1. rec'[p] = Unknown /\ Only(p)
      BY <1>1, <2>5 DEF ForgetPlugin, Only
    <3> QED
      BY <1>1, <1>2, <2>2, <2>5, <3>1 DEF ForgetPlugin, Managed, Removed
  <2> QED
    BY <1>6, <2>3, <2>4, <2>5 DEF RemovePackage
<1>7. CASE Unlink \/ Place \/ Rollback
  <2>1. mgr.new \in Packages
    BY <1>1, <1>7 DEF Unlink, Place, Rollback, OperationSound
  <2>2. UNCHANGED <<rec, procs, att, pending, closed, worker, user>>
    BY <1>7 DEF Unlink, Place, Rollback, queue
  <2>3. CASE Unlink
    <3> DEFINE d == disk[p][PlaceOf[mgr.new]]
               i == [mgr EXCEPT !.pc = "place", !.had = d]
    <3>1. mgr' = i /\ mgr.pc = "unlink" /\ Put(None)
      BY <2>3 DEF Unlink
    <3>2. Continues("place") /\ mgr'.had = d
      <4> HIDE DEF d
      <4> QED
        BY <1>1, <3>1 DEF Operation, Continues
    <3>3. Puts(None)
      BY <1>1, <2>1, <3>1, PutEffects
    <3>4. Filed
      BY <2>2, <3>1, <3>2, <3>3 DEF Filed
    <3> QED
      BY <1>1, <1>2, <3>4 DEF Managed
  <2>4. CASE Place \/ Rollback
    <3>1. Filed
      BY <1>1, <2>1, <2>2, <2>4, PutEffects, MgrContinues DEF Place, Rollback, Filed
    <3> QED
      BY <1>1, <1>2, <3>1 DEF Managed
  <2> QED
    BY <1>7, <2>3, <2>4
<1>8. CASE Refresh \/ RefreshBack
  <2>1. mgr.new \in Packages /\ (mgr.pc = "refreshBack" => mgr.old \in Packages)
    BY <1>1, <1>8 DEF Refresh, RefreshBack, OperationSound
  <2>2. UNCHANGED <<procs, att, pending, closed, worker, user>>
    BY <1>8 DEF Refresh, RefreshBack, queue
  <2>3. ASSUME NEW k, rec' = Refreshed(k)
        PROVE  ScannedTo(k)
    BY <2>3 DEF Refreshed, ScannedTo
  <2>4. ASSUME NEW e, NEW pc, AfterScan(e, pc)
        PROVE  OpEnds \/ (Continues(pc) /\ mgr'.had = mgr.had)
    BY <2>4, MgrContinues DEF AfterScan
  <2>5. CASE Refresh
    <3>1. \/ UNCHANGED disk /\ ScannedTo(mgr.new)
              /\ (OpEnds \/ (Continues("start") /\ mgr'.had = mgr.had))
          \/ ShuttingDown /\ Puts(mgr.had) /\ OpEnds /\ UNCHANGED rec
      BY <1>1, <2>1, <2>3, <2>4, <2>5, PutEffects DEF Refresh
    <3> QED
      BY <1>1, <1>2, <2>2, <2>5, <3>1 DEF Refresh, Managed, Rescanned
  <2>6. CASE RefreshBack
    <3>1. \/ UNCHANGED disk /\ ScannedTo(mgr.old)
              /\ (OpEnds \/ (Continues("restart") /\ mgr'.had = mgr.had))
          \/ ShuttingDown /\ OpEnds /\ UNCHANGED <<rec, disk>>
      BY <1>1, <2>1, <2>3, <2>4, <2>6 DEF RefreshBack
    <3> QED
      BY <1>1, <1>2, <2>1, <2>2, <2>6, <3>1 DEF RefreshBack, Managed, Rescanned
  <2> QED
    BY <1>8, <2>5, <2>6
<1>9. CASE StartEnds
  <2>1. StartEnded
    BY <1>9, MgrContinues DEF StartEnds, StartEnded, queue
  <2> QED
    BY <1>1, <1>2, <2>1 DEF Managed
<1> QED
  BY <1>3, <1>4, <1>5, <1>6, <1>7, <1>8, <1>9 DEF Management

(* A step of a thread that asks for an activation, or of one in a call.    *)
BudgetKept == /\ budget'.kinds = budget.kinds /\ budget'.users = budget.users
              /\ budget'.plugins = budget.plugins /\ budget'.faults = budget.faults
              /\ budget'.packages = budget.packages

Asked(u, p) ==
  /\ Activated(u, p) /\ Asks(u, p) /\ BudgetKept
  /\ \/ u # Manager /\ UNCHANGED mgr
     \/ /\ u = Manager /\ mgr'.had = mgr.had
        /\ \/ mgr.pc = "start" /\ Continues("starting")
           \/ mgr.pc = "restart" /\ Continues("restarting")

Called(c) ==
  /\ UNCHANGED <<rec, disk, procs, att, pending, closed, worker, mgr, sd, frozen>> /\ BudgetKept
  /\ \A v \in Users \ {c} : user'[v] = user[v]
  /\ \/ /\ user[c].pc = "idle" /\ user'[c].pc = "enter" /\ user'[c].plugin \in Plugins
        /\ ~Paused(user'[c].plugin)
     \/ user[c].pc \in {"wait", "ok", "call"} /\ user'[c] = IdleUser
     \/ /\ user[c].pc = "ok" /\ user'[c].pc = "call"
        /\ user'[c].plugin = user[c].plugin /\ user'[c].proc = user[c].proc

(* A step of the shutdown.                                                 *)
Shuts ==
  /\ UNCHANGED <<disk, mgr, frozen, budget>>
  /\ \/ /\ sd.pc = "no" /\ sd'.pc = "close"
        /\ UNCHANGED <<rec, procs, att, pending, closed, worker, user>>
     \/ /\ sd.pc = "close" /\ sd'.pc = "take" /\ closed' = TRUE /\ UNCHANGED <<rec, procs>>
        /\ \A p \in Plugins : att'[p] = None
        /\ \A w \in Workers : \/ worker'[w] = worker[w] /\ ~HasTask(w)
                              \/ worker'[w] = [worker[w] EXCEPT !.cancelled = TRUE]
        /\ \A u \in Users : user'[u] = IF user[u].pc = "wait" /\ user[u].plugin \in Plugins
                                       THEN Answer(u, user[u].plugin, NoProc) ELSE user[u]
     \/ /\ sd.pc = "take" /\ sd'.pc = "stopping"
        /\ UNCHANGED <<procs, att, pending, closed, worker, user>>
        /\ \A p \in Plugins :
             /\ rec'[p].known = rec[p].known /\ rec'[p].enabled = rec[p].enabled
             /\ rec'[p].pkg = rec[p].pkg
     \/ /\ sd.pc = "stopping" /\ sd'.pc \in {"stopping", "done"}
        /\ UNCHANGED <<rec, att, pending, closed, worker, user>>
        /\ UNCHANGED procs \/ \E s \in ProcIds : StopAnyway(s)

Stays == UNCHANGED <<rec, disk, procs, att, pending, closed, worker, user, mgr, sd, budget>>

Stepped ==
  \/ \E w \in Workers : Worked(w)
  \/ \E s \in ProcIds :
       /\ Read(s) \/ ChildDies(s)
       /\ UNCHANGED <<disk, att, pending, closed, worker, user, mgr, sd, frozen, budget>>
       /\ \/ UNCHANGED rec
          \/ /\ procs[s].plugin \in Plugins /\ Exited(procs[s].plugin)
             /\ rec[procs[s].plugin].proc = s /\ procs[s].reader = "ended"
  \/ \E u \in Users, p \in Plugins : Asked(u, p)
  \/ \E c \in Callers : Called(c)
  \/ \E p \in Plugins : Operated(p)
  \/ Managed \/ Shuts \/ Stays

LEMMA CallEffects ==
  ASSUME Typed, QueueSound, NEW c \in Callers,
         \/ \E p \in budget.plugins : EnterCall(c, p)
         \/ CallActivates(c) \/ GiveUp(c) \/ Dispatch(c) \/ EndCall(c)
  PROVE  Called(c) \/ \E p \in Plugins : Asked(c, p)
<1>0. /\ c \in Users /\ c # Manager /\ user \in [Users -> User] /\ user[c] \in User
      /\ UserSound(user[c]) /\ budget \in Budget /\ budget.plugins \subseteq Plugins
  BY DEF Users, Typed, UsersSound, RestTyped, Budget
<1>1. ASSUME NEW p \in budget.plugins, EnterCall(c, p)
      PROVE  Called(c)
  <2>1. BudgetKept
    BY <1>0, <1>1 DEF EnterCall, Calls, BudgetKept, Budget
  <2> QED
    BY <1>0, <1>1, <2>1 DEF EnterCall, Called, queue
<1>2. ASSUME CallActivates(c)
      PROVE  \E p \in Plugins : Asked(c, p)
  <2>1. user[c].plugin \in Plugins /\ user[c].pc = "enter"
    BY <1>0, <1>2 DEF CallActivates, UserSound
  <2>2. PICK p \in Plugins : p = user[c].plugin
    BY <2>1
  <2>3. Activate(c, p, TRUE, FALSE) \/ Activate(c, p, FALSE, FALSE)
    BY <1>2, <2>2 DEF CallActivates
  <2>4. Activated(c, p)
    BY <1>0, <2>3, ActivateEffects
  <2>5. Asked(c, p)
    BY <1>0, <1>2, <2>1, <2>2, <2>4 DEF CallActivates, Asked, Asks, BudgetKept
  <2> QED
    BY <2>5
<1>3. CASE GiveUp(c) \/ EndCall(c)
  BY <1>0, <1>3 DEF GiveUp, EndCall, Called, BudgetKept, queue
<1>4. CASE Dispatch(c)
  <2> DEFINE x == [user[c] EXCEPT !.pc = "call"]
  <2>1. x.pc = "call" /\ x.plugin = user[c].plugin /\ x.proc = user[c].proc
    BY <1>0 DEF User
  <2>2. user' = [user EXCEPT ![c] = x] \/ user' = [user EXCEPT ![c] = IdleUser]
    BY <1>4 DEF Dispatch
  <2> HIDE DEF x
  <2> QED
    BY <1>0, <1>4, <2>1, <2>2 DEF Dispatch, Called, BudgetKept, queue
<1> QED
  BY <1>1, <1>2, <1>3, <1>4

LEMMA ShutEffects ==
  ASSUME Typed, BeginShutdown \/ Shutdown
  PROVE  Shuts
<1>0. sd \in [pc : SdPcs, procs : SUBSET ProcIds] /\ worker \in [Workers -> Task]
  BY DEF Typed, RestTyped, TasksSound
<1>1. CASE BeginShutdown
  BY <1>0, <1>1 DEF BeginShutdown, Shuts, queue
<1>2. CASE CloseQueue
  <2>1. \A w \in Workers : \/ worker'[w] = worker[w] /\ ~HasTask(w)
                           \/ worker'[w] = [worker[w] EXCEPT !.cancelled = TRUE]
    BY <1>2 DEF CloseQueue
  <2>2. \A u \in Users : user'[u] = IF user[u].pc = "wait" /\ user[u].plugin \in Plugins
                                    THEN Answer(u, user[u].plugin, NoProc) ELSE user[u]
    BY <1>2 DEF CloseQueue, Answered
  <2> QED
    BY <1>0, <1>2, <2>1, <2>2 DEF CloseQueue, Shuts
<1>3. CASE TakeProcesses
  <2>1. ASSUME NEW p \in Plugins
        PROVE  /\ rec'[p].known = rec[p].known /\ rec'[p].enabled = rec[p].enabled
               /\ rec'[p].pkg = rec[p].pkg
    <3>1. rec[p] \in Record
      BY DEF Typed, RecordsSound
    <3> QED
      BY <1>3, <3>1 DEF TakeProcesses, Record
  <2> QED
    BY <1>0, <1>3, <2>1 DEF TakeProcesses, Shuts, queue
<1>4. CASE StopTaken
  BY <1>0, <1>4 DEF StopTaken, Shuts, queue
<1> QED
  BY <1>1, <1>2, <1>3, <1>4 DEF Shutdown

LEMMA NextEffects ==
  ASSUME Typed, QueueSound, [Next]_vars
  PROVE  Stepped
<1>0. Manager \in Users /\ budget \in Budget /\ budget.plugins \subseteq Plugins
  BY DEF Users, Typed, RestTyped, Budget
<1>1. ASSUME NEW w \in Workers, Work(w) PROVE Stepped
  BY <1>1, WorkEffects DEF Stepped
<1>2. ASSUME NEW s \in ProcIds, Read(s) \/ ChildDies(s) PROVE Stepped
  BY <1>2, ReadEffects DEF Stepped
<1>3. ASSUME NEW c \in Callers,
             \/ \E p \in budget.plugins : EnterCall(c, p)
             \/ CallActivates(c) \/ GiveUp(c) \/ Dispatch(c) \/ EndCall(c)
      PROVE  Stepped
  BY <1>3, CallEffects DEF Stepped, Users
<1>4. ASSUME NEW u \in Restorers, NEW p \in budget.plugins, Restore(u, p)
      PROVE  Stepped
  <2>1. u \in Users /\ u # Manager /\ p \in Plugins
    BY <1>0 DEF Users
  <2>2. Activated(u, p)
    BY <1>4, <2>1, ActivateEffects DEF Restore
  <2>3. BudgetKept /\ u \in budget.users
    BY <1>0, <1>4 DEF Restore, Calls, BudgetKept, Budget
  <2>4. Asked(u, p)
    BY <1>4, <2>1, <2>2, <2>3 DEF Restore, Asked, Asks
  <2> QED
    BY <2>1, <2>4 DEF Stepped
<1>5. ASSUME NEW p \in budget.plugins,
             \/ Enable(p)
             \/ \E kind \in {"disable", "uninstall"} : Disable(kind, p)
             \/ \E k \in budget.packages : Install(p, k)
      PROVE  Stepped
  BY <1>0, <1>5, OperateEffects DEF Stepped
<1>6. CASE Management /\ ~Start /\ ~Restart
  BY <1>6, ManagementEffects DEF Stepped
<1>7. CASE Start \/ Restart
  <2> DEFINE p == mgr.plugin
  <2>1. p \in Plugins /\ mgr.pc \in {"start", "restart"}
    BY <1>7, MgrOf DEF Start, Restart, MgrActivates
  <2>2. Activate(Manager, p, TRUE, FALSE)
    BY <1>7 DEF Start, Restart, MgrActivates
  <2>3. Activated(Manager, p)
    BY <1>0, <2>1, <2>2, ActivateEffects
  <2>4. Asked(Manager, p)
    BY <1>7, <2>1, <2>3, MgrContinues DEF Start, Restart, MgrActivates, Asked, Asks, BudgetKept
  <2> QED
    BY <1>0, <2>1, <2>4 DEF Stepped
<1>8. CASE BeginShutdown \/ Shutdown
  BY <1>8, ShutEffects DEF Stepped
<1>9. CASE BeginUpgrade \/ EndUpgrade \/ UNCHANGED vars
  BY <1>9 DEF BeginUpgrade, EndUpgrade, vars, queue, Stays, Stepped
<1> QED
  BY <1>1, <1>2, <1>3, <1>4, <1>5, <1>6, <1>7, <1>8, <1>9 DEF Next

--------------------------------------------------------------------------------
(* The parts of BackendInv, one at a time.                                 *)

LEMMA StepKeepsBudget ==
  ASSUME Typed, QueueSound, WithinBudget, [Next]_vars
  PROVE  WithinBudget'
<1> DEFINE Manages == /\ mgr.pc = "idle" \/ (mgr.kind \in budget.kinds /\ mgr.plugin \in budget.plugins)
                      /\ mgr.kind = "disable" => mgr.pc \in {"invalidate", "stop"}
                      /\ mgr.kind = "uninstall" => mgr.pc \in {"invalidate", "stop", "remove", "forget"}
                      /\ mgr.kind = "enable" => mgr.pc \in {"start", "starting"}
                      /\ mgr.kind = "install" => mgr.pc \notin {"idle", "remove", "forget"}
                      /\ mgr.kind = None <=> mgr.pc = "idle"
           Absent == \A p \in Plugins \ budget.plugins : ~rec[p].known
<1>0. Stepped
  BY NextEffects
<1>1. BudgetKept
  BY <1>0 DEF Stepped, Worked, Asked, Called, Operated, Managed, Shuts, Stays, BudgetKept
<1>2. Manages /\ Absent
  BY DEF WithinBudget
<1>3. OperationSound(mgr, procs) /\ mgr.kind \in AllOps \cup {None}
  BY DEF Typed, ManagerSound, OperationSound, Operation
<1>4. Manages'
  <2>1. ASSUME mgr' = IdleMgr
        PROVE  Manages'
    BY <1>1, <2>1 DEF IdleMgr, AllOps
  <2>2. ASSUME UNCHANGED mgr
        PROVE  Manages'
    BY <1>1, <1>2, <2>2 DEF BudgetKept
  <2>3. CASE Managed
    <3>1. OpEnds \/ \E pc \in MgrPcs : Continues(pc)
      BY <2>3 DEF Managed, Paused1, Invalidated, MgrStopped, Removed, Filed, Rescanned, StartEnded,
                  MgrPcs
    <3>2. ASSUME NEW pc \in MgrPcs, Continues(pc)
          PROVE  Manages'
      <4>1. /\ mgr.kind = "disable" => pc = "stop"
            /\ mgr.kind = "uninstall" => pc \in {"stop", "remove", "forget"}
            /\ mgr.kind # "enable"
            /\ pc \notin {"idle"}
            /\ mgr.kind = "install" => pc \notin {"remove", "forget"}
        BY <1>2, <1>3, <2>3, <3>2 DEF Managed, Paused1, Invalidated, MgrStopped, Removed, Filed,
             Rescanned, StartEnded, Continues, OperationSound, OpEnds, IdleMgr
      <4> QED
        BY <1>1, <1>2, <2>3, <3>2, <4>1 DEF Continues, BudgetKept, Managed
    <3> QED
      BY <2>1, <3>1, <3>2 DEF OpEnds
  <2>4. ASSUME NEW u \in Users, NEW p \in Plugins, Asked(u, p)
        PROVE  Manages'
    BY <1>1, <1>2, <1>3, <2>2, <2>4 DEF Asked, Continues, BudgetKept
  <2>5. ASSUME NEW p \in Plugins, Operated(p)
        PROVE  Manages'
    <3>1. p \in budget.plugins /\ "enable" # None /\ "install" # None
          /\ "disable" # None /\ "uninstall" # None
      BY <2>5 DEF Operated, AllOps
    <3>2. CASE Enabled(p)
      BY <1>1, <2>1, <3>1, <3>2 DEF Enabled, BudgetKept
    <3>3. ASSUME NEW kind \in {"disable", "uninstall"}, Disabled(kind, p)
          PROVE  Manages'
      BY <1>1, <3>1, <3>3 DEF Disabled, BudgetKept
    <3>4. ASSUME NEW k \in Packages, Installs(p, k)
          PROVE  Manages'
      BY <1>1, <3>1, <3>4 DEF Installs, BudgetKept
    <3> QED
      BY <2>5, <3>2, <3>3, <3>4 DEF Operated
  <2> QED
    BY <1>0, <2>2, <2>3, <2>4, <2>5 DEF Stepped, Worked, Called, Shuts, Stays
<1>5. Absent'
  <2>1. ASSUME NEW p \in Plugins, ~rec[p].known, rec'[p].known
        PROVE  p \in budget.plugins
    <3>1. Managed /\ Rescanned /\ p = mgr.plugin
      <4>1. CASE \E w \in Workers : Worked(w)
        BY <2>1, <4>1 DEF Worked, Picked, Began, PreviousStopped, Launched, Registered, Greeted,
             ProcStopped, Finished, Completed, Only, Same
      <4>2. CASE Managed
        <5>1. CASE Removed
          BY <2>1, <5>1 DEF Removed, Only, Same, Unknown
        <5>2. CASE Paused1 \/ MgrStopped
          BY <2>1, <5>2 DEF Paused1, MgrStopped, Only, Same
        <5>3. CASE Rescanned
          BY <2>1, <4>2, <5>3 DEF Rescanned, ScannedTo
        <5> QED
          BY <2>1, <4>2, <5>1, <5>2, <5>3 DEF Managed, Invalidated, Filed, StartEnded
      <4>3. ASSUME NEW q \in Plugins, Operated(q)
            PROVE  FALSE
        BY <2>1, <4>3 DEF Operated, Enabled, Disabled, Installs, Only
      <4> QED
        BY <1>0, <2>1, <4>1, <4>2, <4>3 DEF Stepped, Asked, Activated, Called, Shuts, Stays, Exited,
             Only, Same
    <3> QED
      BY <1>2, <3>1 DEF Rescanned, Managed
  <2> QED
    BY <1>1, <1>2, <2>1 DEF BudgetKept
<1> QED
  BY <1>1, <1>4, <1>5 DEF WithinBudget, BudgetKept

(* What becomes of a task.                                                 *)
GoesOn(w) == /\ HasTask(w) /\ worker'[w].plugin = worker[w].plugin
             /\ worker'[w].rev = worker[w].rev /\ worker'[w].cancelled = worker[w].cancelled
IsCancelled(w) ==
  /\ HasTask(w) /\ worker'[w].plugin = worker[w].plugin /\ worker'[w].rev = worker[w].rev
  /\ worker'[w].pc = worker[w].pc /\ worker'[w].proc = worker[w].proc
  /\ worker'[w].pkg = worker[w].pkg /\ worker'[w].cancelled
  /\ UNCHANGED rec /\ att'[worker[w].plugin] = None
  /\ ~Open' \/ (mgr.pc = "invalidate" /\ mgr.plugin = worker[w].plugin /\ UNCHANGED sd)
Begins(w) ==
  LET p == worker[w].plugin IN
  /\ HasTask(w) /\ worker'[w].plugin = p /\ worker'[w].cancelled = worker[w].cancelled
  /\ Current(rec[p], worker[w]) /\ worker'[w].rev = rec'[p].rev /\ rec'[p].rev = rec[p].rev + 1
  /\ rec'[p].known /\ Only(p) /\ UNCHANGED <<att, mgr, sd>>

LEMMA TasksGoOn ==
  ASSUME Typed, Stepped, NEW w \in Workers, HasTask(w)'
  PROVE  GoesOn(w) \/ IsCancelled(w) \/ Begins(w) \/ (Picked(w) /\ UNCHANGED <<mgr, sd>>)
<1>0. worker \in [Workers -> Task] /\ worker[w] \in Task /\ (HasTask(w) => worker[w].plugin \in Plugins)
  BY TaskOf DEF Typed, TasksSound
<1>1. ASSUME NEW v \in Workers, Worked(v), v # w
      PROVE  GoesOn(w)
  BY <1>1 DEF Worked, GoesOn, HasTask
<1>2. ASSUME Worked(w)
      PROVE  GoesOn(w) \/ Begins(w) \/ (Picked(w) /\ UNCHANGED <<mgr, sd>>)
  <2>1. CASE Picked(w)
    BY <1>2, <2>1 DEF Worked
  <2>2. CASE PreviousStopped(w) \/ Launched(w) \/ Registered(w) \/ Greeted(w) \/ ProcStopped(w)
               \/ Finished(w)
    BY <1>2, <2>2, <2>1 DEF Worked, PreviousStopped, Launched, Registered, Greeted, ProcStopped,
         Finished, Moves, GoesOn
  <2>3. CASE Began(w)
    BY <1>2, <2>1, <2>3 DEF Worked, Began, Moves, GoesOn, Begins, Current, Picked, HasTask
  <2>4. CASE Completed(w)
    BY <1>2, <2>4 DEF Completed, HasTask, TaskPcs, StartPcs, Off
  <2> QED
    BY <1>2, <2>1, <2>2, <2>3, <2>4 DEF Worked
<1>3. ASSUME NEW x, worker'[w] = x, x = worker[w]
      PROVE  GoesOn(w)
  BY <1>3 DEF GoesOn, HasTask
<1>4. ASSUME worker'[w] = [worker[w] EXCEPT !.cancelled = TRUE]
      PROVE  /\ worker'[w].plugin = worker[w].plugin /\ worker'[w].rev = worker[w].rev
             /\ worker'[w].pc = worker[w].pc /\ worker'[w].proc = worker[w].proc
             /\ worker'[w].pkg = worker[w].pkg /\ worker'[w].cancelled /\ HasTask(w)
  BY <1>0, <1>4 DEF Task, HasTask
<1>5. ASSUME NEW u \in Users, NEW p \in Plugins, Asked(u, p)
      PROVE  GoesOn(w)
  <2>1. worker'[w] # [Off EXCEPT !.pc = "pick"]
    BY DEF HasTask, TaskPcs, StartPcs, Off
  <2> QED
    BY <1>3, <1>5, <2>1 DEF Asked, Activated
<1>6. CASE Managed
  <2>1. CASE Invalidated
    <3>1. worker'[w] = worker[w] \/ (TaskOn(w, mgr.plugin)
                                       /\ worker'[w] = [worker[w] EXCEPT !.cancelled = TRUE])
      BY <2>1 DEF Invalidated
    <3>2. att'[mgr.plugin] = None /\ UNCHANGED <<rec, sd>> /\ mgr.pc = "invalidate"
      BY <1>6, <2>1 DEF Invalidated, Managed, Typed, QueueTyped
    <3> QED
      BY <1>3, <1>4, <3>1, <3>2 DEF TaskOn, IsCancelled
  <2> QED
    BY <1>3, <1>6, <2>1 DEF Managed, Paused1, MgrStopped, Removed, Filed, Rescanned, StartEnded
<1>7. CASE Shuts
  <2>1. CASE sd.pc = "close"
    <3>1. (worker'[w] = worker[w] /\ ~HasTask(w)) \/ worker'[w] = [worker[w] EXCEPT !.cancelled = TRUE]
      BY <1>7, <2>1 DEF Shuts
    <3>2. UNCHANGED rec /\ ~Open' /\ \A p \in Plugins : att'[p] = None
      BY <1>7, <2>1 DEF Shuts, Open
    <3> QED
      BY <1>0, <1>3, <1>4, <3>1, <3>2 DEF IsCancelled, GoesOn
  <2> QED
    BY <1>3, <1>7, <2>1 DEF Shuts
<1> QED
  BY <1>1, <1>2, <1>3, <1>5, <1>6, <1>7 DEF Stepped, Called, Operated, Stays

(* What becomes of an attempt, and of the records' revisions.              *)
LEMMA AttemptsGoOn ==
  ASSUME Typed, Stepped, NEW p \in Plugins, att'[p] # None
  PROVE  \/ att'[p] = att[p]
         \/ \E u \in Users :
              /\ Asked(u, p) /\ att[p] = None
              /\ att'[p].rev = rec[p].rev /\ rec[p].known /\ rec[p].enabled /\ ~closed
<1>0. att \in [Plugins -> Attempt \cup {None}]
  BY DEF Typed, QueueTyped
<1>1. ASSUME NEW w \in Workers, Worked(w)
      PROVE  att'[p] = att[p]
  BY <1>0, <1>1 DEF Worked, Picked, Began, PreviousStopped, Launched, Registered, Greeted, ProcStopped,
       Finished, Completed
<1>2. CASE Managed
  BY <1>0, <1>2 DEF Managed, Paused1, Invalidated, MgrStopped, Removed, Filed, Rescanned, StartEnded
<1>3. ASSUME NEW u \in Users, NEW q \in Plugins, Asked(u, q)
      PROVE  \/ att'[p] = att[p]
             \/ /\ Asked(u, p) /\ att[p] = None
                /\ att'[p].rev = rec[p].rev /\ rec[p].known /\ rec[p].enabled /\ ~closed
  BY <1>3 DEF Asked, Activated
<1> QED
  BY <1>1, <1>2, <1>3 DEF Stepped, Called, Operated, Shuts, Stays

LEMMA RecordsGrow ==
  ASSUME Typed, Stepped, NEW p \in Plugins, rec'[p].known, Open'
  PROVE  \/ rec[p].known /\ rec'[p].rev >= rec[p].rev
         \/ ~rec[p].known /\ Managed /\ Rescanned /\ p = mgr.plugin
<1>0. rec \in [Plugins -> Record] /\ rec[p] \in Record /\ rec[p].rev \in Nat
  BY DEF Typed, RecordsSound, Record
<1>1. ASSUME NEW w \in Workers, Worked(w)
      PROVE  rec[p].known /\ rec'[p].rev >= rec[p].rev
  <2>1. CASE Began(w)
    BY <1>0, <2>1 DEF Began, Only
  <2> QED
    BY <1>0, <1>1, <2>1 DEF Worked, Picked, PreviousStopped, Launched, Registered, Greeted, ProcStopped,
       Finished, Completed, Only, Same
<1>2. CASE Managed
  <2>1. CASE Paused1 \/ MgrStopped
    BY <1>0, <2>1 DEF Paused1, MgrStopped, Only, Same
  <2>2. CASE Removed
    BY <1>0, <2>2 DEF Removed, Only, Same, Unknown
  <2>3. CASE Rescanned
    <3>1. ASSUME NEW k, rec'[p] = Scanned(rec[p], k), rec[p].known
          PROVE  rec'[p].rev = rec[p].rev + 1
      BY <3>1 DEF Scanned
    <3> QED
      BY <1>0, <1>2, <2>3, <3>1 DEF Rescanned, ScannedTo
  <2> QED
    BY <1>0, <1>2, <2>1, <2>2, <2>3 DEF Managed, Invalidated, Filed, StartEnded
<1>3. ASSUME NEW q \in Plugins, Operated(q)
      PROVE  rec[p].known /\ rec'[p].rev >= rec[p].rev
  BY <1>0, <1>3 DEF Operated, Enabled, Disabled, Installs, Only
<1>4. ASSUME NEW q \in Plugins, Exited(q)
      PROVE  rec[p].known /\ rec'[p].rev >= rec[p].rev
  BY <1>0, <1>4 DEF Exited, Only, Same
<1>5. CASE Shuts
  BY <1>0, <1>5 DEF Shuts, Open
<1> QED
  BY <1>0, <1>1, <1>2, <1>3, <1>4, <1>5 DEF Stepped, Asked, Activated, Called, Stays

LEMMA RecordsForgotten ==
  ASSUME Typed, Stepped, NEW p \in Plugins, rec[p].known, ~rec'[p].known
  PROVE  mgr.pc = "forget"
<1>1. ASSUME NEW w \in Workers, Worked(w) PROVE FALSE
  BY <1>1 DEF Worked, Picked, Began, PreviousStopped, Launched, Registered, Greeted, ProcStopped,
       Finished, Completed, Only, Same
<1>2. ASSUME Managed, mgr.pc # "forget" PROVE FALSE
  <2>1. CASE Paused1 \/ MgrStopped
    BY <2>1 DEF Paused1, MgrStopped, Only, Same
  <2>2. CASE Removed
    BY <1>2, <2>2 DEF Removed, Only, Same
  <2>3. CASE Rescanned
    <3>1. ASSUME NEW k, rec'[p] = Scanned(rec[p], k)
          PROVE  rec'[p].known
      BY <3>1 DEF Scanned
    <3> QED
      BY <2>3, <3>1 DEF Rescanned, ScannedTo
  <2> QED
    BY <1>2, <2>1, <2>2, <2>3 DEF Managed, Invalidated, Filed, StartEnded
<1>3. ASSUME NEW q \in Plugins, Operated(q) PROVE FALSE
  BY <1>3 DEF Operated, Enabled, Disabled, Installs, Only
<1>4. ASSUME NEW q \in Plugins, Exited(q) PROVE FALSE
  BY <1>4 DEF Exited, Only, Same
<1> QED
  BY <1>1, <1>2, <1>3, <1>4 DEF Stepped, Asked, Activated, Called, Shuts, Stays

LEMMA Apart ==
  ASSUME InstallsApart, WithinBudget, "install" \in budget.kinds
  PROVE  budget.users \cap Restorers = {} /\ "uninstall" \notin budget.kinds
BY DEF InstallsApart, WithinBudget

LEMMA StepKeepsUnknown ==
  ASSUME InstallsApart, Typed, QueueSound, WithinBudget, UnknownIsQuiet, Stepped, BudgetKept
  PROVE  UnknownIsQuiet'
<1> SUFFICES ASSUME "install" \in budget.kinds, NEW p \in Plugins, ~rec'[p].known
             PROVE  att'[p] = None /\ \A w \in Workers : ~TaskOn(w, p)'
  BY DEF UnknownIsQuiet, BudgetKept
<1>1. ~rec[p].known
  <2>1. mgr.pc = "forget" => mgr.kind = "uninstall" /\ mgr.kind \in budget.kinds
    BY DEF WithinBudget, Typed, ManagerSound, OperationSound, Operation, AllOps
  <2> QED
    BY <2>1, Apart, RecordsForgotten
<1>2. att[p] = None /\ \A w \in Workers : ~TaskOn(w, p)
  BY <1>1 DEF UnknownIsQuiet
<1>3. att'[p] = None
  BY <1>1, <1>2, AttemptsGoOn
<1>4. ASSUME NEW w \in Workers, TaskOn(w, p)'
      PROVE  FALSE
  BY <1>2, <1>4, TasksGoOn DEF TaskOn, GoesOn, IsCancelled, Begins, Picked, HasTask, Off, TaskPcs, StartPcs
<1> QED
  BY <1>3, <1>4

(* While the manager changes a plugin only the manager asks for it.        *)
LEMMA OnlyManagerAsks ==
  ASSUME InstallsApart, Typed, WithinBudget, ChangedIsQuiet, NotInCall,
         mgr.kind \in {"disable", "uninstall", "install"}, mgr.pc # "pause",
         rec[mgr.plugin].enabled, NEW u \in Users, Asked(u, mgr.plugin)
  PROVE  mgr.pc \in {"start", "restart"} /\ u = Manager
<1>1. mgr.kind = "install"
  BY DEF ChangedIsQuiet
<1>2. mgr.kind \in budget.kinds
  BY <1>1 DEF WithinBudget
<1>3. budget.users \cap Restorers = {}
  BY <1>1, <1>2, Apart
<1>4. ~InCall(mgr.plugin)
  BY <1>1 DEF NotInCall
<1> QED
  BY <1>3, <1>4 DEF Asked, Asks, InCall

LEMMA StepKeepsNotInCall ==
  ASSUME Typed, QueueSound, NotInCall, WithinBudget, Stepped
  PROVE  NotInCall'
<1>0. user \in [Users -> User] /\ Callers \subseteq Users /\ Manager \notin Callers
      /\ \A u \in Users : UserSound(user[u])
  BY DEF Typed, UsersSound, Users
<1>1. SUFFICES ASSUME mgr'.kind = "install", mgr'.pc # "pause", InCall(mgr.plugin)'
               PROVE  FALSE
  BY DEF NotInCall
<1>2. PICK c \in Callers : user'[c].pc # "idle" /\ user'[c].plugin = mgr'.plugin
  BY <1>1 DEF InCall
<1>3. \/ user[c].pc # "idle" /\ user[c].plugin = user'[c].plugin
      \/ ~Paused(mgr'.plugin) /\ UNCHANGED mgr
  <2>1. ASSUME NEW p \in Plugins, NEW s, user[c].pc = "wait", user[c].plugin = p,
               user'[c] = Answer(c, p, s)
        PROVE  user'[c].plugin = p
    BY <1>0, <1>2, <2>1 DEF Answer, IdleUser
  <2>2. ASSUME NEW w \in Workers, Worked(w), ~UNCHANGED user
        PROVE  \/ user'[c] = user[c] 
               \/ \E p \in Plugins : \E s \in {rec[p].proc, NoProc} :
                    user[c].pc = "wait" /\ user[c].plugin = p /\ user'[c] = Answer(c, p, s)
    BY <1>0, <2>2 DEF Worked, Picked, Began, PreviousStopped, Launched, Registered, Greeted, ProcStopped,
         Finished, Completed
  <2>3. ASSUME NEW u \in Users, NEW p \in Plugins, Asked(u, p)
        PROVE  user[c].pc # "idle" /\ user[c].plugin = user'[c].plugin
    <3>1. CASE u # c
      <4>1. \/ user'[c] = user[c] 
            \/ user[c].pc = "wait" /\ user'[c] = Answer(c, user[c].plugin, NoProc)
        BY <1>0, <2>3, <3>1 DEF Asked, Activated
      <4>2. user[c].pc = "wait" => user[c].plugin \in Plugins
        BY <1>0 DEF UserSound
      <4> QED
        BY <1>2, <2>1, <4>1, <4>2
    <3>2. CASE u = c
      <4>1. c \notin Restorers /\ c # Manager
        BY DEF Users
      <4>2. user[c].pc = "enter" /\ user[c].plugin = p
        BY <2>3, <3>2, <4>1 DEF Asked, Asks
      <4>3. \/ user'[c] = Waits(p)
            \/ \E s \in {rec[p].proc, NoProc} : user'[c] = Answer(c, p, s)
        BY <2>3, <3>2 DEF Asked, Activated
      <4>4. user'[c].plugin = p
        BY <1>2, <4>1, <4>3 DEF Waits, Answer, IdleUser
      <4> QED
        BY <4>2, <4>4
    <3> QED
      BY <3>1, <3>2
  <2>4. ASSUME NEW v \in Callers, Called(v)
        PROVE  \/ user[c].pc # "idle" /\ user[c].plugin = user'[c].plugin
               \/ ~Paused(mgr'.plugin) /\ UNCHANGED mgr
    BY <1>0, <1>2, <2>4 DEF Called, IdleUser
  <2>5. CASE Managed
    <3>1. CASE Invalidated
      <4>1. user'[c] = user[c] \/ (user[c].pc = "wait" /\ user[c].plugin = mgr.plugin
                                     /\ user'[c] = Answer(c, mgr.plugin, NoProc))
        BY <1>0, <3>1 DEF Invalidated
      <4> QED
        BY <1>2, <2>1, <2>5, <4>1 DEF Managed
    <3>2. CASE StartEnded
      BY <1>0, <1>2, <3>2 DEF StartEnded
    <3> QED
      BY <1>2, <2>5, <3>1, <3>2 DEF Managed, Paused1, MgrStopped, Removed, Filed, Rescanned
  <2>6. CASE Shuts
    <3>1. user'[c] = user[c] \/ (user[c].pc = "wait" /\ user[c].plugin \in Plugins
                                     /\ user'[c] = Answer(c, user[c].plugin, NoProc))
      BY <1>0, <2>6 DEF Shuts
    <3> QED
      BY <1>2, <2>1, <3>1
  <2> QED
    BY <1>2, <2>1, <2>2, <2>3, <2>4, <2>5, <2>6, NextEffects DEF Stepped, Operated, Stays
<1>4. mgr'.plugin = mgr.plugin /\ mgr.kind = "install" /\ (mgr.pc = "pause" => ~InCall(mgr.plugin))
  <2>1. mgr' # IdleMgr
    BY <1>1 DEF IdleMgr, AllOps
  <2>2. ASSUME NEW p \in Plugins, Operated(p) PROVE FALSE
    BY <1>1, <2>1, <2>2 DEF Operated, Enabled, Disabled, Installs
  <2>3. CASE Managed
    BY <1>1, <2>1, <2>3 DEF Managed, Paused1, Invalidated, MgrStopped, Removed, Filed, Rescanned,
         StartEnded, Continues, OpEnds
  <2>4. ASSUME NEW u \in Users, NEW p \in Plugins, Asked(u, p)
        PROVE  mgr'.plugin = mgr.plugin /\ mgr.kind = "install" /\ mgr.pc # "pause"
    BY <1>1, <2>4 DEF Asked, Continues
  <2> QED
    BY <1>1, <2>2, <2>3, <2>4 DEF Stepped, Worked, Called, Shuts, Stays
<1>5. ~InCall(mgr.plugin)
  BY <1>4 DEF NotInCall
<1> QED
  BY <1>1, <1>2, <1>3, <1>4, <1>5 DEF InCall, Paused

LEMMA RecordsEnabled ==
  ASSUME Typed, Stepped, NEW p \in Plugins, rec'[p].enabled, ~rec[p].enabled
  PROVE  (\E q \in Plugins : Operated(q)) \/ (Managed /\ Rescanned)
<1>1. ASSUME NEW w \in Workers, Worked(w) PROVE FALSE
  <2>1. CASE Began(w)
    BY <2>1 DEF Began, Only
  <2> QED
    BY <1>1, <2>1 DEF Worked, Picked, PreviousStopped, Launched, Registered, Greeted, ProcStopped,
       Finished, Completed, Only, Same
<1>2. ASSUME Managed, ~Rescanned PROVE FALSE
  <2>1. CASE Paused1 \/ MgrStopped
    BY <2>1 DEF Paused1, MgrStopped, Only, Same
  <2>2. CASE Removed
    BY <1>2, <2>2 DEF Removed, Only, Same, Unknown
  <2> QED
    BY <1>2, <2>1, <2>2 DEF Managed, Invalidated, Filed, StartEnded
<1>3. ASSUME NEW q \in Plugins, Exited(q) PROVE FALSE
  BY <1>3 DEF Exited, Only, Same
<1> QED
  BY <1>1, <1>2, <1>3 DEF Stepped, Asked, Activated, Called, Shuts, Stays

(* The operation in progress stays with its plugin until it ends.          *)
LEMMA OperationGoesOn ==
  ASSUME Typed, Stepped, mgr'.pc # "idle"
  PROVE  \/ UNCHANGED mgr
         \/ mgr.pc # "idle" /\ mgr'.kind = mgr.kind /\ mgr'.plugin = mgr.plugin
         \/ \E p \in Plugins : Operated(p)
<1>1. mgr' # IdleMgr
  BY DEF IdleMgr
<1>2. CASE Managed
  BY <1>1, <1>2 DEF Managed, Paused1, Invalidated, MgrStopped, Removed, Filed, Rescanned, StartEnded,
     Continues, OpEnds
<1> QED
  BY <1>2 DEF Stepped, Worked, Asked, Continues, Called, Shuts, Stays

LEMMA StepKeepsChanged ==
  ASSUME InstallsApart, Typed, QueueSound, WithinBudget, UnknownIsQuiet, ChangedIsQuiet,
         NotInCall, ManagerWaits, Stepped
  PROVE  ChangedIsQuiet'
<1>0. mgr.pc # "idle" => /\ mgr.plugin \in Plugins /\ OperationSound(mgr, procs)
                         /\ rec[mgr.plugin] \in Record
  BY MgrOf
<1>1. ASSUME mgr'.kind \in {"disable", "uninstall"}
      PROVE  ~rec'[mgr'.plugin].enabled
  <2>1. mgr' # IdleMgr
    BY <1>1 DEF IdleMgr, AllOps
  <2>2. ASSUME NEW p \in Plugins, Operated(p)
        PROVE  ~rec'[mgr'.plugin].enabled
    BY <1>1, <2>1, <2>2 DEF Operated, Enabled, Disabled, Installs
  <2>3. CASE ~\E p \in Plugins : Operated(p)
    <3>1. mgr'.kind = mgr.kind /\ mgr'.plugin = mgr.plugin
      <4>1. CASE Managed
        BY <2>1, <4>1 DEF Managed, Paused1, Invalidated, MgrStopped, Removed, Filed, Rescanned,
           StartEnded, Continues, OpEnds
      <4> QED
        BY <2>3, <4>1 DEF Stepped, Worked, Asked, Continues, Called, Shuts, Stays
    <3>2. mgr.pc # "idle"
      BY <1>1, <3>1 DEF WithinBudget, AllOps
    <3>3. ~(Managed /\ Rescanned)
      BY <1>0, <1>1, <3>1, <3>2 DEF Rescanned, OperationSound
    <3> QED
      BY <1>0, <1>1, <2>3, <3>1, <3>2, <3>3, RecordsEnabled DEF ChangedIsQuiet
  <2> QED
    BY <2>2, <2>3
<1>2. ASSUME Changing', mgr'.pc # "invalidate", att'[mgr'.plugin] # None
      PROVE  FALSE
  <2>0. mgr'.pc # "idle" /\ mgr'.kind \in {"disable", "uninstall", "install"}
    BY <1>2 DEF Changing
  <2>1. ASSUME NEW p \in Plugins, Operated(p) PROVE FALSE
    <3>1. mgr' # IdleMgr
      BY <2>0 DEF IdleMgr
    <3> QED
      BY <1>2, <2>1, <3>1 DEF Operated, Enabled, Disabled, Installs, Changing
  <2>2. mgr.pc # "idle" /\ mgr'.kind = mgr.kind /\ mgr'.plugin = mgr.plugin
    BY <2>0, <2>1, OperationGoesOn
  <2> DEFINE p == mgr.plugin
  <2>3. p \in Plugins /\ att'[p] # None
    BY <1>0, <1>2, <2>2
  <2>4. CASE att'[p] = att[p]
    <3>1. ~(Changing /\ mgr.pc # "invalidate")
      BY <1>2, <2>2, <2>4 DEF ChangedIsQuiet
    <3>2. mgr.pc \in {"pause", "starting", "restarting", "invalidate"}
      BY <2>0, <2>2, <3>1 DEF Changing
    <3>3. CASE Managed
      <4>1. CASE Paused1
        BY <1>0, <1>2, <2>2, <2>3, <2>4, <4>1 DEF Paused1, UnknownIsQuiet, OpEnds, IdleMgr, Continues, WithinBudget, OperationSound
      <4>2. CASE Invalidated
        BY <2>3, <4>2 DEF Invalidated, Typed, QueueTyped
      <4>3. CASE StartEnded
        BY <2>0, <2>2, <2>3, <2>4, <4>3 DEF StartEnded, ManagerWaits, OpEnds, IdleMgr
      <4> QED
        BY <3>2, <3>3, <4>1, <4>2, <4>3 DEF Managed, MgrStopped, Removed, Filed, Rescanned
    <3>4. CASE UNCHANGED mgr
      BY <1>2, <3>1, <3>4 DEF Changing
    <3>5. ASSUME NEW u \in Users, NEW q \in Plugins, Asked(u, q), ~UNCHANGED mgr
          PROVE  FALSE
      BY <3>2, <3>5 DEF Asked
    <3> QED
      BY <2>1, <3>3, <3>4, <3>5 DEF Stepped, Worked, Called, Shuts, Stays
  <2>5. ASSUME NEW u \in Users, Asked(u, p), rec[p].enabled
        PROVE  FALSE
    <3>1. CASE mgr.pc = "pause"
      BY <1>2, <2>5, <3>1 DEF Asked, Changing
    <3>2. CASE mgr.pc # "pause"
      <4>1. mgr.pc \in {"start", "restart"} /\ u = Manager
        BY <2>0, <2>2, <2>5, <3>2, OnlyManagerAsks
      <4> QED
        BY <1>2, <2>5, <4>1 DEF Asked, Continues, Changing
    <3> QED
      BY <3>1, <3>2
  <2> QED
    BY <2>3, <2>4, <2>5, AttemptsGoOn
<1> QED
  BY <1>1, <1>2 DEF ChangedIsQuiet

LEMMA ManagerAnswer ==
  ASSUME NEW p, NEW s
  PROVE  Answer(Manager, p, s).pc \in {"ok", "err"} /\ Answer(Manager, p, s).plugin = p
         /\ (Answer(Manager, p, s).pc = "ok" <=> s # NoProc)
BY DEF Answer

LEMMA StepKeepsWaiting ==
  ASSUME InstallsApart, Typed, QueueSound, WithinBudget, ChangedIsQuiet,
         NotInCall, ManagerWaits, Stepped
  PROVE  ManagerWaits'
<1>0. /\ user \in [Users -> User] /\ Manager \in Users /\ Manager \notin Callers
      /\ \A u \in Users : UserSound(user[u])
      /\ mgr.pc # "idle" => mgr.plugin \in Plugins
  BY MgrOf DEF Typed, UsersSound, Users
<1> SUFFICES ASSUME mgr'.kind = "install", mgr'.pc \in {"starting", "restarting"}
             PROVE  /\ user'[Manager].pc \in {"wait", "ok", "err"}
                    /\ user'[Manager].plugin = mgr'.plugin
                    /\ user'[Manager].pc # "wait" => att'[mgr'.plugin] = None
  BY DEF ManagerWaits
<1>1. ASSUME mgr.pc \in {"start", "restart"}, Asked(Manager, mgr.plugin)
      PROVE  /\ user'[Manager].pc \in {"wait", "ok", "err"}
             /\ user'[Manager].plugin = mgr'.plugin
             /\ user'[Manager].pc # "wait" => att'[mgr'.plugin] = None
  <2> DEFINE p == mgr.plugin
  <2>1. mgr'.kind = mgr.kind /\ mgr'.plugin = p
    BY <1>1 DEF Asked, Continues
  <2>2. att[p] = None
    BY <1>1, <2>1 DEF ChangedIsQuiet, Changing
  <2>3. \/ user'[Manager] = Waits(p)
        \/ \E s : user'[Manager] = Answer(Manager, p, s) /\ (att' = att \/ att'[p] = None)
    BY <1>1 DEF Asked, Activated
  <2> QED
    BY <2>1, <2>2, <2>3, ManagerAnswer DEF Waits
<1>2. CASE UNCHANGED mgr
  <2> DEFINE p == mgr.plugin
  <2>1. /\ user[Manager].pc \in {"wait", "ok", "err"} /\ user[Manager].plugin = p
        /\ (user[Manager].pc # "wait" => att[p] = None) /\ p \in Plugins
        /\ mgr.kind = "install" /\ mgr.pc \in {"starting", "restarting"}
    BY <1>0, <1>2 DEF ManagerWaits
  <2>2. att[p] = None => att'[p] = None
    <3>1. ASSUME NEW u \in Users, Asked(u, p), rec[p].enabled
          PROVE  FALSE
      BY <2>1, <3>1, OnlyManagerAsks
    <3> QED
      BY <2>1, <3>1, AttemptsGoOn
  <2>3. \/ user'[Manager] = user[Manager] 
        \/ /\ user[Manager].pc = "wait" /\ att'[p] = None
           /\ \E s : user'[Manager] = Answer(Manager, p, s)
    <3>1. ASSUME NEW w \in Workers, Worked(w), ~UNCHANGED user
          PROVE  \/ user'[Manager] = user[Manager] 
                 \/ /\ user[Manager].pc = "wait" /\ att'[p] = None
                    /\ \E s : user'[Manager] = Answer(Manager, p, s)
      BY <1>0, <2>1, <3>1 DEF Worked, Picked, Began, PreviousStopped, Launched, Registered, Greeted,
           ProcStopped, Finished, Completed, Typed, QueueTyped
    <3>2. ASSUME NEW u \in Users, NEW q \in Plugins, Asked(u, q)
          PROVE  \/ user'[Manager] = user[Manager] 
                 \/ /\ user[Manager].pc = "wait" /\ att'[p] = None
                    /\ user'[Manager] = Answer(Manager, p, NoProc)
      BY <1>0, <2>1, <3>2 DEF Asked, Activated, Asks
    <3>3. ASSUME NEW c \in Callers, Called(c)
          PROVE  user'[Manager] = user[Manager]
      BY <1>0, <3>3 DEF Called
    <3>4. CASE Shuts
      BY <1>0, <2>1, <3>4 DEF Shuts
    <3>5. CASE Managed
      BY <2>1, <3>5, <1>2 DEF Managed, Paused1, Invalidated, MgrStopped, Removed, Filed, Rescanned, StartEnded,
         Continues, OpEnds, IdleMgr
    <3> QED
      BY <3>1, <3>2, <3>3, <3>4, <3>5 DEF Stepped, Operated, Stays
  <2> QED
    BY <1>2, <2>1, <2>2, <2>3, ManagerAnswer
<1>3. CASE ~UNCHANGED mgr
  <2>1. mgr' # IdleMgr
    BY DEF IdleMgr
  <2>2. ASSUME NEW p \in Plugins, Operated(p) PROVE FALSE
    BY <2>1, <2>2 DEF Operated, Enabled, Disabled, Installs
  <2>3. ~Managed
    BY <2>1 DEF Managed, Paused1, Invalidated, MgrStopped, Removed, Filed, Rescanned, StartEnded,
       Continues, OpEnds
  <2>4. \E u \in Users, p \in Plugins : Asked(u, p)
    BY <1>3, <2>2, <2>3 DEF Stepped, Worked, Called, Shuts, Stays
  <2>5. mgr.pc \in {"start", "restart"} /\ Asked(Manager, mgr.plugin)
    BY <1>3, <2>4 DEF Asked, Asks, Users
  <2> QED
    BY <1>1, <2>5
<1> QED
  BY <1>2, <1>3

LEMMA StepOpen ==
  ASSUME Stepped, Open' PROVE Open
BY DEF Stepped, Worked, Asked, Activated, Called, Operated, Managed, Shuts, Stays, Open

LEMMA StepKeepsBehind ==
  ASSUME InstallsApart, Typed, QueueSound, WithinBudget, UnknownIsQuiet, ChangedIsQuiet,
         NotInCall, TasksBehind, Stepped, Typed'
  PROVE  TasksBehind'
<1>0. mgr.pc # "idle" => /\ mgr.plugin \in Plugins /\ OperationSound(mgr, procs)
                         /\ rec[mgr.plugin] \in Record
  BY MgrOf
<1> SUFFICES ASSUME Open', NEW p \in Plugins, rec'[p].known
             PROVE  /\ \A w \in Workers : TaskOn(w, p)' =>
                         /\ Behind(worker[w].rev, p)'
                         /\ worker'[w].cancelled => worker'[w].rev < rec'[p].rev
                    /\ att'[p] # None => Behind(att[p].rev, p)'
  BY DEF TasksBehind
<1>1. Open
  BY StepOpen
<1>2. ASSUME ~rec[p].known, Managed, Rescanned, p = mgr.plugin
      PROVE  /\ \A w \in Workers : ~TaskOn(w, p)'
             /\ att'[p] = None
  <2>1. mgr.kind = "install" /\ mgr.kind \in budget.kinds
    BY <1>0, <1>2 DEF Managed, Rescanned, OperationSound, WithinBudget
  <2>2. att[p] = None /\ \A w \in Workers : ~TaskOn(w, p)
    BY <1>2, <2>1 DEF UnknownIsQuiet
  <2> QED
    BY <1>2, <2>2 DEF Rescanned, TaskOn, HasTask
<1>3. CASE rec[p].known /\ rec'[p].rev >= rec[p].rev
  <2>0. /\ rec[p].rev \in Nat /\ rec'[p].rev \in Nat
        /\ \A w \in Workers : worker[w].rev \in Nat
        /\ att[p] # None => att[p].rev \in Nat
    <3>1. rec'[p].rev \in Nat
      BY DEF Typed, RecordsSound, Record
    <3> QED
      BY <3>1 DEF Typed, RecordsSound, Record, TasksSound, Task, QueueTyped, Attempt
  <2>1. /\ \A w \in Workers : TaskOn(w, p) =>
             /\ Behind(worker[w].rev, p)
             /\ worker[w].cancelled => worker[w].rev < rec[p].rev
        /\ att[p] # None => Behind(att[p].rev, p)
    BY <1>1, <1>3 DEF TasksBehind
  <2>2. ASSUME mgr'.pc = "invalidate", mgr'.plugin = p, ~UNCHANGED mgr
        PROVE  rec'[p].rev = rec[p].rev + 1
    <3>1. mgr' # IdleMgr
      BY <2>2 DEF IdleMgr
    <3>2. CASE Managed
      BY <2>2, <3>1, <3>2 DEF Managed, Paused1, Invalidated, MgrStopped, Removed, Filed, Rescanned,
         StartEnded, Continues, OpEnds
    <3>3. ASSUME NEW q \in Plugins, Operated(q)
          PROVE  rec'[p].rev = rec[p].rev + 1
      BY <2>2, <3>1, <3>3 DEF Operated, Enabled, Disabled, Installs
    <3> QED
      BY <2>2, <3>2, <3>3 DEF Stepped, Worked, Asked, Continues, Called, Shuts, Stays
  <2>3. ASSUME NEW n \in Nat, Behind(n, p)
        PROVE  /\ n <= rec'[p].rev
               /\ mgr'.plugin = p /\ mgr'.pc = "invalidate" => n < rec'[p].rev
    BY <1>3, <2>0, <2>2, <2>3 DEF Behind
  <2>4. ASSUME NEW w \in Workers, TaskOn(w, p)'
        PROVE  /\ worker'[w].rev <= rec'[p].rev
               /\ mgr'.plugin = p /\ mgr'.pc = "invalidate" => worker'[w].rev < rec'[p].rev
               /\ worker'[w].cancelled => worker'[w].rev < rec'[p].rev
    <3>1. CASE GoesOn(w)
      <4>1. TaskOn(w, p) /\ worker'[w].rev = worker[w].rev
            /\ worker'[w].cancelled = worker[w].cancelled
        BY <2>4, <3>1 DEF GoesOn, TaskOn
      <4> QED
        BY <1>3, <2>0, <2>1, <2>3, <4>1
    <3>2. CASE IsCancelled(w)
      <4>1. TaskOn(w, p) /\ worker'[w].rev = worker[w].rev /\ UNCHANGED rec
            /\ mgr.pc = "invalidate" /\ mgr.plugin = p
        BY <2>4, <3>2 DEF IsCancelled, TaskOn
      <4>2. worker[w].rev < rec[p].rev
        BY <2>1, <4>1 DEF Behind
      <4> QED
        BY <2>0, <4>1, <4>2
    <3>3. CASE Begins(w)
      <4>1. /\ TaskOn(w, p) /\ worker'[w].rev = rec'[p].rev /\ UNCHANGED mgr
            /\ worker'[w].cancelled = worker[w].cancelled /\ rec[p].rev = worker[w].rev
        BY <2>4, <3>3 DEF Begins, TaskOn, Current
      <4> QED
        BY <2>0, <2>1, <4>1 DEF Behind
    <3>4. CASE Picked(w)
      <4>1. worker'[w] # Off
        BY <2>4 DEF TaskOn, HasTask, Off, TaskPcs, StartPcs
      <4>2. att[p] # None /\ worker'[w].rev = att[p].rev /\ ~worker'[w].cancelled
        BY <2>4, <3>4, <4>1 DEF Picked, TaskOn
      <4> QED
        BY <2>0, <2>1, <2>3, <4>2
    <3> QED
      BY <2>4, <3>1, <3>2, <3>3, <3>4, TasksGoOn DEF TaskOn
  <2>5. ASSUME att'[p] # None
        PROVE  /\ att'[p].rev <= rec'[p].rev
               /\ mgr'.plugin = p /\ mgr'.pc = "invalidate" => att'[p].rev < rec'[p].rev
    <3>1. CASE att'[p] = att[p]
      BY <2>0, <2>1, <2>3, <2>5, <3>1
    <3>2. ASSUME NEW u \in Users, Asked(u, p), att'[p].rev = rec[p].rev, rec[p].enabled
          PROVE  /\ att'[p].rev <= rec'[p].rev
                 /\ mgr'.plugin = p /\ mgr'.pc = "invalidate" => att'[p].rev < rec'[p].rev
      <4>1. rec'[p].rev = rec[p].rev
        BY <3>2 DEF Asked, Activated
      <4>2. ASSUME mgr'.plugin = p, mgr'.pc = "invalidate"
            PROVE  FALSE
        <5>1. mgr.pc = "invalidate" /\ mgr.plugin = p
          BY <3>2, <4>2 DEF Asked, Continues
        <5>2. mgr.kind \in {"disable", "uninstall", "install"}
          BY <1>0, <5>1 DEF OperationSound
        <5> QED
          BY <3>2, <5>1, <5>2, OnlyManagerAsks
      <4> QED
        BY <2>0, <3>2, <4>1, <4>2
    <3> QED
      BY <2>5, <3>1, <3>2, AttemptsGoOn
  <2> QED
    BY <2>4, <2>5 DEF Behind
<1> QED
  BY <1>2, <1>3, RecordsGrow

LEMMA StartingGoesOn ==
  ASSUME Typed, Stepped, Open', NEW p \in Plugins, rec'[p].runtime = "Starting",
         rec'[p].proc # NoProc
  PROVE  \/ /\ rec[p].runtime = "Starting" /\ rec'[p].proc = rec[p].proc
            /\ rec'[p].rev = rec[p].rev
         \/ \E w \in Workers : /\ Worked(w) /\ Registered(w) /\ worker'[w].pc = "hello"
                               /\ worker[w].plugin = p
<1>1. ASSUME NEW w \in Workers, Worked(w)
      PROVE  \/ /\ rec[p].runtime = "Starting" /\ rec'[p].proc = rec[p].proc
                /\ rec'[p].rev = rec[p].rev
             \/ Registered(w) /\ worker'[w].pc = "hello" /\ worker[w].plugin = p
  <2>1. CASE Began(w)
    BY <2>1 DEF Began, Only
  <2>2. CASE Registered(w)
    BY <2>2 DEF Registered, Only, Moves
  <2> QED
    BY <1>1, <2>1, <2>2 DEF Worked, Picked, PreviousStopped, Launched, Greeted, ProcStopped,
       Finished, Completed, Only
<1>2. CASE Managed
  <2>1. CASE Paused1 \/ MgrStopped \/ Removed
    BY <2>1 DEF Paused1, MgrStopped, Removed, Only, Unknown
  <2>2. CASE Rescanned
    <3>1. ASSUME NEW k, rec'[p] = Scanned(rec[p], k)
          PROVE  FALSE
      BY <3>1 DEF Scanned
    <3> QED
      BY <2>2, <3>1 DEF Rescanned, ScannedTo
  <2> QED
    BY <1>2, <2>1, <2>2 DEF Managed, Invalidated, Filed, StartEnded
<1>3. ASSUME NEW q \in Plugins, Operated(q)
      PROVE  /\ rec[p].runtime = "Starting" /\ rec'[p].proc = rec[p].proc
             /\ rec'[p].rev = rec[p].rev
  BY <1>3 DEF Operated, Enabled, Disabled, Installs, Only
<1>4. ASSUME NEW q \in Plugins, Exited(q)
      PROVE  rec'[p] = rec[p]
  BY <1>4 DEF Exited, Only
<1> QED
  BY <1>1, <1>2, <1>3, <1>4 DEF Stepped, Asked, Activated, Called, Shuts, Stays, Open

(* A worker that has a process goes on with it, or the process ends.       *)
LEMMA OwnerGoesOn ==
  ASSUME Typed, Stepped, NEW w \in Workers, NEW p \in Plugins, OwnsProc(w, p),
         rec[p].proc # NoProc, rec'[p].runtime = "Starting", rec'[p].proc = rec[p].proc,
         rec'[p].rev = rec[p].rev, Alive(rec[p].proc)'
  PROVE  OwnsProc(w, p)'
<1>0. worker \in [Workers -> Task] /\ worker[w] \in Task
  BY DEF Typed, TasksSound
<1>1. ASSUME worker'[w] = worker[w] \/ worker'[w] = [worker[w] EXCEPT !.cancelled = TRUE]
      PROVE  OwnsProc(w, p)'
  <2>1. worker'[w].pc = worker[w].pc /\ worker'[w].plugin = worker[w].plugin
        /\ worker'[w].rev = worker[w].rev /\ worker'[w].proc = worker[w].proc
    BY <1>0, <1>1 DEF Task
  <2> QED
    BY <2>1 DEF OwnsProc
<1>2. ASSUME Worked(w)
      PROVE  OwnsProc(w, p)'
  <2>1. worker[w].pc \in {"hello", "reject", "finish", "discard"} /\ worker[w].plugin = p
        /\ worker[w].rev = rec[p].rev /\ worker[w].proc = rec[p].proc
    BY DEF OwnsProc
  <2>2. CASE Greeted(w)
    BY <2>1, <2>2 DEF Greeted, Moves, Keeping, OwnsProc
  <2>3. CASE ProcStopped(w)
    <3>1. worker[w].proc \in ProcIds /\ ~procs'[worker[w].proc].alive
      BY <2>3, StopRevivesNone DEF ProcStopped, StopAnyway
    <3> QED
      BY <2>1, <3>1 DEF Alive
  <2>4. CASE Finished(w)
    BY <2>1, <2>4 DEF Finished, Moves, Keeping, OwnsProc
  <2> QED
    BY <1>2, <2>1, <2>2, <2>3, <2>4 DEF Worked, Picked, Began, PreviousStopped, Launched, Registered,
       Completed, Moves
<1>3. ASSUME NEW u \in Users, NEW q \in Plugins, Asked(u, q)
      PROVE  OwnsProc(w, p)'
  <2>1. worker[w].pc # "off"
    BY DEF OwnsProc
  <2> QED
    BY <1>1, <1>3, <2>1 DEF Asked, Activated
<1>4. CASE Managed
  BY <1>1, <1>4 DEF Managed, Paused1, Invalidated, MgrStopped, Removed, Filed, Rescanned, StartEnded
<1>5. CASE Shuts
  BY <1>1, <1>5 DEF Shuts
<1> QED
  BY <1>1, <1>2, <1>3, <1>4, <1>5 DEF Stepped, Worked, Called, Operated, Stays

LEMMA StepKeepsStarter ==
  ASSUME Typed, QueueSound, StarterOwns, Stepped, NoRevival
  PROVE  StarterOwns'
<1> SUFFICES ASSUME Open', NEW p \in Plugins, rec'[p].runtime = "Starting", Alive(rec[p].proc)'
             PROVE  \E w \in Workers : OwnsProc(w, p)'
  BY DEF StarterOwns
<1>1. Open /\ rec'[p].proc # NoProc
  BY StepOpen DEF Alive
<1>2. CASE /\ rec[p].runtime = "Starting" /\ rec'[p].proc = rec[p].proc
           /\ rec'[p].rev = rec[p].rev
  <2>1. Alive(rec[p].proc)
    BY <1>2 DEF Alive, NoRevival, Referenced, Typed, RecordsSound, Record, Slots
  <2>2. PICK w \in Workers : OwnsProc(w, p)
    BY <1>1, <1>2, <2>1 DEF StarterOwns
  <2>3. OwnsProc(w, p)'
    BY <1>1, <1>2, <2>2, OwnerGoesOn
  <2> QED
    BY <2>3
<1>3. ASSUME NEW w \in Workers, Registered(w), worker'[w].pc = "hello", worker[w].plugin = p
      PROVE  OwnsProc(w, p)'
  BY <1>3 DEF Registered, Moves, Keeping, OwnsProc, Current, Same
<1> QED
  BY <1>1, <1>2, <1>3, StartingGoesOn

--------------------------------------------------------------------------------
(* Which records have a live process.                                      *)

(* A task as new as the record is not cancelled, and is the only one.      *)
LEMMA CurrentHolds ==
  ASSUME Typed, TasksBehind, Open, NEW w \in Workers, NEW p \in Plugins, TaskOn(w, p),
         rec[p].known, worker[w].rev = rec[p].rev
  PROVE  Holds(w, p)
<1>1. rec[p].rev \in Nat
  BY DEF Typed, RecordsSound, Record
<1> QED
  BY <1>1 DEF TasksBehind, TaskOn, Holds, Typed, TasksSound, Task

LEMMA OwnerHolds ==
  ASSUME Typed, KeptDown, TasksBehind, StarterOwns, Open, NEW p \in Plugins,
         rec[p].runtime = "Starting", Alive(rec[p].proc)
  PROVE  \E w \in Workers : OwnsProc(w, p) /\ Holds(w, p)
<1>1. PICK w \in Workers : OwnsProc(w, p)
  BY DEF StarterOwns
<1>2. rec[p].known
  BY DEF KeptDown, MustBeDown, Typed, RecordsSound, RecordSound
<1>3. TaskOn(w, p) /\ worker[w].rev = rec[p].rev
  BY <1>1 DEF OwnsProc, TaskOn, HasTask, TaskPcs, StartPcs
<1> QED
  BY <1>1, <1>2, <1>3, CurrentHolds

LEMMA AliveBefore ==
  ASSUME Typed, NoRevival, NEW p \in Plugins, rec'[p].proc = rec[p].proc, Alive(rec[p].proc)'
  PROVE  Alive(rec[p].proc)
BY DEF Typed, RecordsSound, Record, Slots, NoRevival, Referenced, Alive

(* A worker that records a result for p is its holder.                     *)
LEMMA RecorderHolds ==
  ASSUME Typed, TasksBehind, Open, NEW w \in Workers, NEW p \in Plugins,
         HasTask(w), worker[w].plugin = p, Current(rec[p], worker[w])
  PROVE  Holds(w, p)
BY CurrentHolds DEF TaskOn, Current

LEMMA StepKeepsSettled ==
  ASSUME Typed, QueueSound, KeptDown, WithinBudget, TasksBehind, ChangedIsQuiet, StarterOwns,
         Settled, TargetDown, Stepped, NoRevival
  PROVE  Settled'
<1> SUFFICES ASSUME Open', NEW p \in Plugins, rec'[p].runtime \notin {"Starting", "Running"},
                    Alive(rec[p].proc)'
             PROVE  FALSE
  BY DEF Settled
<1>0. mgr.pc # "idle" => /\ mgr.plugin \in Plugins /\ OperationSound(mgr, procs)
                         /\ rec[mgr.plugin] \in Record
  BY MgrOf
<1>1. Open /\ rec'[p].proc # NoProc
  BY StepOpen DEF Alive
<1>2. ASSUME rec[p].runtime \notin {"Starting", "Running"}, rec'[p].proc = rec[p].proc
      PROVE  FALSE
  BY <1>1, <1>2, AliveBefore DEF Settled
<1>3. ASSUME NEW w \in Workers, Worked(w)
      PROVE  FALSE
  <2>1. CASE Began(w)
    BY <1>2, <2>1 DEF Began, Only
  <2>2. CASE PreviousStopped(w)
    <3>1. CASE UNCHANGED rec
      BY <1>2, <3>1
    <3>2. CASE rec'[p].proc = worker[w].proc /\ procs' = Unstopped(worker[w].proc)
      BY <2>2, <3>2, StopRevivesNone DEF PreviousStopped, Alive
    <3>3. CASE rec'[p] = rec[p]
      BY <1>2, <3>3
    <3> QED
      BY <2>2, <3>1, <3>2, <3>3 DEF PreviousStopped, Only
  <2>3. CASE Registered(w)
    BY <1>2, <2>3 DEF Registered, Only
  <2>4. CASE Finished(w)
    <3>1. ASSUME worker[w].plugin = p, StillStarting(rec[p], worker[w]), ~Alive(worker[w].proc),
                 rec'[p].proc = rec[p].proc, worker[w].pc = "finish"
          PROVE  FALSE
      <4>1. Alive(rec[p].proc) /\ rec[p].runtime = "Starting"
        BY <3>1, AliveBefore DEF StillStarting
      <4>2. PICK v \in Workers : OwnsProc(v, p) /\ Holds(v, p)
        BY <1>1, <4>1, OwnerHolds
      <4>3. Holds(w, p)
        BY <1>1, <3>1, RecorderHolds DEF StillStarting, HasTask, TaskPcs, StartPcs
      <4>4. v = w
        BY <4>2, <4>3 DEF QueueSound
      <4> QED
        BY <3>1, <4>1, <4>2, <4>4 DEF OwnsProc
    <3> QED
      BY <1>2, <2>4, <3>1 DEF Finished, Only, Moves
  <2> QED
    BY <1>2, <1>3, <2>1, <2>2, <2>3, <2>4 DEF Worked, Picked, Launched, Greeted, ProcStopped, Completed
<1>4. CASE Managed
  <2>1. CASE Paused1
    BY <1>1, <1>2, <2>1 DEF Paused1, Only
  <2>2. CASE MgrStopped
    <3>1. CASE p # mgr.plugin
      BY <1>2, <2>2, <3>1 DEF MgrStopped, Only
    <3>2. CASE p = mgr.plugin
      <4>1. ASSUME mgr.kind = "disable", rec'[p].proc = rec[p].proc
            PROVE  FALSE
        BY <3>2, <4>1, AliveBefore DEF ChangedIsQuiet, KeptDown, MustBeDown
      <4>2. ASSUME mgr.kind = "install", rec'[p].proc = rec[p].proc
            PROVE  FALSE
        BY <1>1, <2>2, <3>2, <4>2, AliveBefore DEF MgrStopped, TargetDown
      <4>3. ASSUME mgr.kind = "uninstall", UNCHANGED rec
            PROVE  FALSE
        BY <1>2, <3>2, <4>3, AliveBefore DEF ChangedIsQuiet, KeptDown, MustBeDown
      <4>4. ASSUME mgr.proc # NoProc, procs' = Unstopped(mgr.proc), rec'[p].proc = mgr.proc
            PROVE  FALSE
        <5>1. mgr.proc \in ProcIds
          BY <1>0, <1>4, <4>4 DEF Managed, OperationSound, Operation, Slots
        <5> QED
          BY <4>4, <5>1, StopRevivesNone DEF Alive
      <4> QED
        BY <2>2, <3>2, <4>1, <4>2, <4>3, <4>4 DEF MgrStopped
    <3> QED
      BY <3>1, <3>2
  <2>3. CASE Removed
    <3>1. CASE p # mgr.plugin
      BY <1>2, <2>3, <3>1 DEF Removed, Only
    <3>2. CASE p = mgr.plugin
      <4>1. mgr.kind = "uninstall"
        BY <1>0, <1>4, <2>3 DEF Managed, Removed, WithinBudget, OperationSound, Operation, AllOps
      <4>2. rec'[p].proc # rec[p].proc
        BY <3>2, <4>1, AliveBefore DEF ChangedIsQuiet, KeptDown, MustBeDown
      <4> QED
        BY <1>1, <2>3, <3>2, <4>2 DEF Removed, Unknown
    <3> QED
      BY <3>1, <3>2
  <2>4. CASE Rescanned
    <3>1. ASSUME NEW k, rec'[p] = Scanned(rec[p], k)
          PROVE  FALSE
      BY <1>1, <3>1 DEF Scanned
    <3> QED
      BY <1>2, <2>4, <3>1 DEF Rescanned, ScannedTo
  <2> QED
    BY <1>2, <1>4, <2>1, <2>2, <2>3, <2>4 DEF Managed, Invalidated, Filed, StartEnded
<1>5. ASSUME NEW q \in Plugins, Operated(q)
      PROVE  FALSE
  BY <1>1, <1>2, <1>5 DEF Operated, Enabled, Disabled, Installs, Only
<1>6. ASSUME NEW q \in Plugins, Exited(q)
      PROVE  FALSE
  BY <1>1, <1>2, <1>6 DEF Exited, Only
<1>7. ASSUME NEW u \in Users, NEW q \in Plugins, Asked(u, q)
      PROVE  FALSE
  BY <1>2, <1>7 DEF Asked, Activated
<1>8. CASE Shuts
  BY <1>2, <1>8 DEF Shuts, Open
<1> QED
  BY <1>2, <1>3, <1>4, <1>5, <1>6, <1>7, <1>8 DEF Stepped, Called, Stays

(* Only a worker gives a record a process that is alive.                   *)
LEMMA RecordedBy ==
  ASSUME Typed, Stepped, Open', NEW p \in Plugins, Alive(rec[p].proc)', rec'[p].proc # rec[p].proc
  PROVE  \E w \in Workers :
           /\ Worked(w) /\ Same(p) /\ Current(rec[p], worker[w]) /\ rec[p].runtime = "Starting"
           /\ HasTask(w) /\ worker[w].plugin = p /\ rec'[p].proc = worker[w].proc
           /\ \/ Moves(w, "register", "hello") /\ Keeping(w)
              \/ Moves(w, "finish", "succeeded")
<1>0. mgr.pc # "idle" => /\ mgr.plugin \in Plugins /\ OperationSound(mgr, procs)
                         /\ rec[mgr.plugin] \in Record
  BY MgrOf
<1>1. rec'[p].proc # NoProc
  BY DEF Alive
<1>2. PICK w \in Workers : Worked(w)
  <2>1. CASE Managed
    <3>1. CASE MgrStopped
      <4>1. procs' = Unstopped(mgr.proc) /\ rec'[p].proc = mgr.proc
        BY <1>1, <3>1 DEF MgrStopped, Only
      <4>2. mgr.proc \in ProcIds
        BY <1>0, <1>1, <2>1, <4>1 DEF Managed, OperationSound, Operation, Slots
      <4> QED
        BY <4>1, <4>2, StopRevivesNone DEF Alive
    <3>2. CASE Rescanned
      <4>1. ASSUME NEW k, rec'[p] = Scanned(rec[p], k)
            PROVE  FALSE
        BY <1>1, <4>1 DEF Scanned
      <4> QED
        BY <3>2, <4>1 DEF Rescanned, ScannedTo
    <3> QED
      BY <1>1, <2>1, <3>1, <3>2 DEF Managed, Paused1, Invalidated, Removed, Filed, StartEnded, Only,
         Unknown
  <2> QED
    BY <1>1, <2>1 DEF Stepped, Asked, Activated, Called, Operated, Enabled, Disabled, Installs,
       Exited, Shuts, Stays, Open, Only
<1>3. ~PreviousStopped(w)
  <2> SUFFICES ASSUME PreviousStopped(w) PROVE FALSE
    OBVIOUS
  <2>1. procs' = Unstopped(worker[w].proc) /\ rec'[p].proc = worker[w].proc
    BY <1>1 DEF PreviousStopped, Only
  <2> QED
    BY <2>1, StopRevivesNone DEF PreviousStopped, Alive
<1>4. (Registered(w) \/ Finished(w)) /\ HasTask(w)
  BY <1>1, <1>2, <1>3 DEF Worked, Picked, Began, Launched, Greeted, ProcStopped, Completed, Only
<1>5. CASE Registered(w)
  <2>1. /\ Moves(w, "register", "hello") /\ Current(rec[p], worker[w]) /\ worker[w].plugin = p
        /\ Same(p) /\ rec'[p].proc = worker[w].proc /\ Keeping(w) /\ rec[p].runtime = "Starting"
    BY <1>5 DEF Registered, Only
  <2> QED
    BY <1>2, <1>4, <2>1
<1>6. CASE Finished(w)
  <2>1. /\ Moves(w, "finish", "succeeded") /\ Current(rec[p], worker[w]) /\ worker[w].plugin = p
        /\ Same(p) /\ rec'[p].proc = worker[w].proc /\ rec[p].runtime = "Starting"
    BY <1>6 DEF Finished, Only, StillStarting
  <2> QED
    BY <1>2, <1>4, <2>1
<1> QED
  BY <1>4, <1>5, <1>6

LEMMA ComesAlive ==
  ASSUME Typed, TasksBehind, Stepped, NoRevival, Open', NEW p \in Plugins,
         Alive(rec[p].proc)', ~Alive(rec[p].proc)
  PROVE  \E w \in Workers :
           /\ Holds(w, p) /\ Holds(w, p)' /\ worker[w].rev = rec[p].rev /\ rec[p].known
           /\ worker'[w].pc = "succeeded" \/ OwnsProc(w, p)'
           /\ UNCHANGED mgr
<1>1. PICK w \in Workers :
           /\ Worked(w) /\ Same(p) /\ Current(rec[p], worker[w])
           /\ HasTask(w) /\ worker[w].plugin = p /\ rec'[p].proc = worker[w].proc
           /\ \/ Moves(w, "register", "hello") /\ Keeping(w)
              \/ Moves(w, "finish", "succeeded")
  BY AliveBefore, RecordedBy
<1>2. Holds(w, p)
  BY <1>1, StepOpen, RecorderHolds
<1>3. Holds(w, p)'
  BY <1>1, <1>2 DEF Moves, Holds, HasTask, TaskPcs, StartPcs
<1>4. worker'[w].pc = "succeeded" \/ OwnsProc(w, p)'
  BY <1>1 DEF Moves, OwnsProc, Current, Same, Keeping
<1> QED
  BY <1>1, <1>2, <1>3, <1>4 DEF Worked, Current

(* A live process of the target goes on being the one the manager waits    *)
(* for, until the manager is told.                                         *)
LEMMA ServedGoesOn ==
  ASSUME Typed, QueueSound, TasksBehind, Stepped, Open', UNCHANGED mgr, NoRevival,
         mgr.kind = "install", mgr.pc = "starting", ManagerWaits,
         NEW w \in Workers, Holds(w, mgr.plugin),
         worker[w].pc = "succeeded" \/ OwnsProc(w, mgr.plugin),
         Alive(rec[mgr.plugin].proc), Alive(rec[mgr.plugin].proc)'
  PROVE  \/ user'[Manager].pc = "ok"
         \/ Holds(w, mgr.plugin)' /\ (worker'[w].pc = "succeeded" \/ OwnsProc(w, mgr.plugin)')
<1> DEFINE p == mgr.plugin
<1>0. /\ mgr.plugin \in Plugins /\ Manager \in Users /\ Open /\ HasTask(w) /\ worker[w].plugin = p
      /\ ~worker[w].cancelled /\ rec[p].proc # NoProc /\ rec'[p].proc # NoProc
  BY MgrOf, StepOpen DEF Users, Holds, Alive
<1>1. ASSUME NEW x, worker'[w] = x, x = worker[w], rec'[p].rev = rec[p].rev,
             rec'[p].proc = rec[p].proc
      PROVE  Holds(w, p)' /\ (worker'[w].pc = "succeeded" \/ OwnsProc(w, p)')
  BY <1>1 DEF Holds, HasTask, OwnsProc
<1>2. ASSUME Worked(w)
      PROVE  \/ user'[Manager].pc = "ok"
             \/ Holds(w, p)' /\ (worker'[w].pc = "succeeded" \/ OwnsProc(w, p)')
  <2>1. CASE Completed(w)
    <3>1. worker[w].pc = "succeeded"
      BY <2>1 DEF Completed, OwnsProc
    <3>2. user[Manager].pc = "wait" /\ user[Manager].plugin = p
      BY <1>0 DEF ManagerWaits, QueueSound
    <3>3. user'[Manager] = Answer(Manager, p, rec[p].proc)
      BY <1>0, <2>1, <3>1, <3>2 DEF Completed
    <3> QED
      BY <1>0, <3>3, ManagerAnswer
  <2>2. CASE Greeted(w)
    BY <1>0, <1>2, <2>2 DEF Greeted, Moves, Keeping, OwnsProc, Holds, HasTask, TaskPcs, StartPcs
  <2>3. CASE ProcStopped(w)
    <3>1. ~procs'[worker[w].proc].alive /\ OwnsProc(w, p)
      BY <2>3, StopRevivesNone DEF ProcStopped, StopAnyway, Moves
    <3> QED
      BY <2>3, <3>1 DEF Alive, OwnsProc, ProcStopped
  <2>4. CASE Finished(w)
    <3>1. OwnsProc(w, p)
      BY <2>4 DEF Finished, Moves
    <3> QED
      BY <1>0, <2>4, <3>1 DEF Finished, Moves, Keeping, OwnsProc, Holds, HasTask, TaskPcs, StartPcs
  <2> QED
    BY <1>2, <1>0, <2>1, <2>2, <2>3, <2>4 DEF Worked, Picked, Began, PreviousStopped, Launched, Registered,
       Moves, OwnsProc, HasTask, TaskPcs, StartPcs
<1>3. ASSUME NEW v \in Workers, v # w, Worked(v)
      PROVE  Holds(w, p)' /\ (worker'[w].pc = "succeeded" \/ OwnsProc(w, p)')
  <2>1. worker'[w] = worker[w]
    BY <1>3 DEF Worked
  <2>2. ASSUME HasTask(v), worker[v].plugin = p, Current(rec[p], worker[v])
        PROVE  FALSE
    BY <1>0, <1>3, <2>2, RecorderHolds DEF QueueSound
  <2>3. rec'[p].rev = rec[p].rev /\ rec'[p].proc = rec[p].proc
    <3>1. CASE PreviousStopped(v)
      <4>1. ASSUME procs' = Unstopped(worker[v].proc), rec'[p].proc = worker[v].proc
            PROVE  FALSE
        BY <3>1, <4>1, StopRevivesNone DEF PreviousStopped, Alive
      <4> QED
        BY <1>0, <3>1, <4>1 DEF PreviousStopped, Only
    <3> QED
      BY <1>0, <1>3, <2>2, <3>1 DEF Worked, Picked, Began, Launched, Registered, Greeted, ProcStopped, Finished,
         Completed, Only, StillStarting
  <2> QED
    BY <1>1, <2>1, <2>3
<1>4. ~Managed
  BY DEF Managed, Paused1, Invalidated, MgrStopped, Removed, Filed, Rescanned, StartEnded, Continues,
     OpEnds, IdleMgr
<1>5. ASSUME NEW u \in Users, NEW q \in Plugins, Asked(u, q)
      PROVE  Holds(w, p)' /\ (worker'[w].pc = "succeeded" \/ OwnsProc(w, p)')
  <2>1. worker'[w] = worker[w]
    BY <1>0, <1>5 DEF Asked, Activated, HasTask, TaskPcs, StartPcs
  <2> QED
    BY <1>0, <1>1, <1>5, <2>1 DEF Asked, Activated
<1>6. ASSUME NEW q \in Plugins, Exited(q), UNCHANGED worker
      PROVE  Holds(w, p)' /\ (worker'[w].pc = "succeeded" \/ OwnsProc(w, p)')
  BY <1>0, <1>1, <1>6 DEF Exited, Only
<1>7. CASE Shuts
  BY <1>0, <1>1, <1>7 DEF Shuts, Open
<1> QED
  BY <1>0, <1>1, <1>2, <1>3, <1>4, <1>5, <1>6, <1>7 DEF Stepped, Called, Operated, Stays

(* What the manager was told stays until it takes it.                      *)
LEMMA ToldStays ==
  ASSUME Typed, Stepped, UNCHANGED mgr, mgr.pc \in {"starting", "restarting"},
         user[Manager].pc = "ok"
  PROVE  user'[Manager].pc = "ok"
<1>0. Manager \in Users /\ Manager \notin Callers
  BY DEF Users
<1>1. ~Managed
  BY DEF Managed, Paused1, Invalidated, MgrStopped, Removed, Filed, Rescanned, StartEnded, Continues,
     OpEnds, IdleMgr
<1>2. ASSUME NEW w \in Workers, Worked(w)
      PROVE  user'[Manager] = user[Manager]
  BY <1>0, <1>2 DEF Worked, Picked, Began, PreviousStopped, Launched, Registered, Greeted, ProcStopped,
       Finished, Completed
<1> QED
  BY <1>0, <1>1, <1>2 DEF Stepped, Asked, Asks, Activated, Called, Operated, Shuts, Stays

LEMMA StepKeepsTargetDown ==
  ASSUME Typed, QueueSound, KeptDown, WithinBudget, TasksBehind, ChangedIsQuiet, ManagerWaits,
         TargetDown, Stepped, NoRevival
  PROVE  TargetDown'
<1> SUFFICES ASSUME Open', mgr'.kind = "install", mgr'.pc # "pause",
                    Alive(rec[mgr.plugin].proc)'
             PROVE  /\ mgr'.pc \in {"starting", "restarting"}
                    /\ mgr'.pc = "starting" => user'[Manager].pc = "ok" \/ Served(mgr.plugin)'
  BY DEF TargetDown
<1> DEFINE p == mgr.plugin
<1>1. Open /\ mgr' # IdleMgr
  BY StepOpen DEF IdleMgr, AllOps
<1>2. mgr'.kind = mgr.kind /\ mgr'.plugin = p
  <2>1. ASSUME NEW q \in Plugins, Operated(q) PROVE FALSE
    BY <1>1, <2>1 DEF Operated, Enabled, Disabled, Installs
  <2> QED
    BY <1>1, <2>1 DEF Stepped, Worked, Asked, Called, Managed, Paused1, Invalidated, MgrStopped, Removed,
       Filed, Rescanned, StartEnded, Continues, OpEnds, Shuts, Stays
<1>3. p \in Plugins /\ mgr.pc # "idle" /\ OperationSound(mgr, procs)
  BY <1>2, MgrOf DEF WithinBudget
<1>4. CASE mgr.pc = "pause"
  <2>1. Paused1
    BY <1>4, <1>1 DEF Stepped, Worked, Asked, Called, Operated, Managed, Invalidated, MgrStopped, Removed,
       Filed, Rescanned, StartEnded, Shuts, Stays
  <2>2. rec'[p].proc # NoProc
    BY <1>2 DEF Alive
  <2>3. ~rec[p].known /\ rec'[p].proc = rec[p].proc
    BY <1>1, <2>1, <2>2 DEF Paused1, OpEnds
  <2> QED
    BY <1>2, <1>3, <2>3, AliveBefore DEF KeptDown, MustBeDown, Typed, RecordsSound, RecordSound
<1>5. CASE mgr.pc # "pause" /\ ~Alive(rec[p].proc)
  <2>1. PICK w \in Workers :
           /\ Holds(w, p) /\ Holds(w, p)' /\ worker[w].rev = rec[p].rev /\ rec[p].known
           /\ worker'[w].pc = "succeeded" \/ OwnsProc(w, p)'
           /\ UNCHANGED mgr
    BY <1>2, <1>3, <1>5, ComesAlive
  <2>2. att[p] # None
    BY <1>3, <2>1 DEF QueueSound
  <2>3. mgr.pc # "invalidate"
    <3>1. rec[p].rev \in Nat
      BY <1>3 DEF Typed, RecordsSound, Record
    <3> QED
      BY <1>1, <1>3, <2>1, <3>1 DEF TasksBehind, Behind, TaskOn, Holds
  <2>4. mgr.pc \in {"starting", "restarting"}
    BY <1>2, <1>3, <1>5, <2>2, <2>3 DEF ChangedIsQuiet, Changing
  <2> QED
    BY <1>2, <2>1, <2>4 DEF Served
<1>6. CASE mgr.pc # "pause" /\ Alive(rec[p].proc)
  <2>1. /\ mgr.pc \in {"starting", "restarting"}
        /\ mgr.pc = "starting" => user[Manager].pc = "ok" \/ Served(p)
    BY <1>1, <1>2, <1>6 DEF TargetDown
  <2>2. CASE UNCHANGED mgr
    <3>1. CASE user[Manager].pc = "ok"
      BY <2>1, <2>2, <3>1, ToldStays
    <3>2. ASSUME NEW w \in Workers, Holds(w, p), worker[w].pc = "succeeded" \/ OwnsProc(w, p),
                 mgr.pc = "starting"
          PROVE  user'[Manager].pc = "ok" \/ Served(p)'
      <4>1. \/ user'[Manager].pc = "ok"
            \/ Holds(w, p)' /\ (worker'[w].pc = "succeeded" \/ OwnsProc(w, p)')
        BY <1>2, <1>6, <2>2, <3>2, ServedGoesOn
      <4> QED
        BY <4>1 DEF Served
    <3> QED
      BY <1>2, <2>1, <2>2, <3>1, <3>2 DEF Served
  <2>3. CASE ~UNCHANGED mgr
    <3>1. StartEnded /\ user[Manager].pc = "err" /\ mgr.pc = "starting"
      BY <1>1, <2>1, <2>3 DEF Stepped, Worked, Asked, Called, Operated, Managed, Paused1, Invalidated,
         MgrStopped, Removed, Filed, Rescanned, StartEnded, Shuts, Stays, OpEnds
    <3>2. Served(p) /\ att[p] = None
      BY <1>2, <2>1, <3>1 DEF ManagerWaits
    <3> QED
      BY <1>3, <3>2 DEF Served, QueueSound
  <2> QED
    BY <2>2, <2>3
<1> QED
  BY <1>4, <1>5, <1>6

LEMMA StepKeepsClosed ==
  ASSUME Typed, QueueSound, ClosedQuiet, Stepped
  PROVE  ClosedQuiet'
<1> SUFFICES ASSUME ~Open' PROVE closed' /\ \A p \in Plugins : att'[p] = None
  BY DEF ClosedQuiet
<1>1. CASE Open
  BY <1>1 DEF Stepped, Worked, Asked, Activated, Called, Operated, Managed, Shuts, Stays, Open
<1>2. CASE ~Open
  <2>1. closed /\ \A p \in Plugins : att[p] = None
    BY <1>2 DEF ClosedQuiet
  <2>2. closed'
    BY <1>2, <2>1 DEF Stepped, Worked, Asked, Activated, Called, Operated, Managed, Paused1, Invalidated,
       MgrStopped, Removed, Filed, Rescanned, StartEnded, Shuts, Stays, Open
  <2> QED
    BY <2>1, <2>2, AttemptsGoOn
<1> QED
  BY <1>1, <1>2

LEMMA InitProcs ==
  ASSUME Init, NEW p \in Plugins
  PROVE  /\ rec[p].proc = NoProc /\ rec[p].runtime = "Stopped"
         /\ p \notin budget.plugins => ~rec[p].known
<1>1. PICK e \in [Plugins -> BOOLEAN] :
        rec = [q \in Plugins |->
                IF \A l \in Places : disk[q][l] = None THEN Unknown
                ELSE [Unknown EXCEPT !.known = TRUE, !.enabled = e[q],
                        !.pkg = CHOOSE k \in Packages : \E l \in Places : disk[q][l] = k]]
  BY DEF Init
<1>2. p \notin budget.plugins => disk[p] = [l \in Places |-> None]
  BY DEF Init
<1> DEFINE k == CHOOSE j \in Packages : \E l \in Places : disk[p][l] = j
           b == e[p]
           x == [Unknown EXCEPT !.known = TRUE, !.enabled = b, !.pkg = k]
<1>3. rec[p] = IF \A l \in Places : disk[p][l] = None THEN Unknown ELSE x
  BY <1>1
<1> HIDE DEF k, b
<1>4. x.proc = NoProc /\ x.runtime = "Stopped"
  BY DEF Unknown
<1>5. Unknown.proc = NoProc /\ Unknown.runtime = "Stopped" /\ ~Unknown.known
  BY DEF Unknown
<1> HIDE DEF x
<1>6. p \notin budget.plugins => \A l \in Places : disk[p][l] = None
  BY <1>2
<1> QED
  BY <1>3, <1>4, <1>5, <1>6

LEMMA InitBackendInv == Init => BackendInv
<1> SUFFICES ASSUME Init PROVE BackendInv
  OBVIOUS
<1>1. /\ att = [p \in Plugins |-> None] /\ closed = FALSE /\ worker = [w \in Workers |-> Off]
      /\ mgr = IdleMgr /\ sd = [pc |-> "no", procs |-> {}] /\ budget \in Budgets
  BY DEF Init
<1>2. Typed
  BY InitHostInv DEF HostInv
<1>3. \A p \in Plugins : rec[p].proc = NoProc /\ rec[p].runtime = "Stopped"
                         /\ (p \notin budget.plugins => ~rec[p].known)
  BY InitProcs
<1>4. WithinBudget
  BY <1>1, <1>3 DEF WithinBudget, IdleMgr, AllOps
<1>5. TasksBehind /\ TargetQuiet
  BY <1>1 DEF TasksBehind, TaskOn, HasTask, Off, TaskPcs, StartPcs, TargetQuiet, UnknownIsQuiet,
     ChangedIsQuiet, Changing, NotInCall, ManagerWaits, IdleMgr, AllOps
<1>6. StarterOwns /\ Settled /\ TargetDown /\ ClosedQuiet
  BY <1>1, <1>3 DEF StarterOwns, Settled, TargetDown, ClosedQuiet, Alive, Open, IdleMgr, AllOps
<1> QED
  BY <1>4, <1>5, <1>6 DEF BackendInv

LEMMA StepKeepsBackendInv ==
  ASSUME InstallsApart, HostInv, HostInv', BackendInv, [Next]_vars
  PROVE  BackendInv'
<1>1. Typed /\ QueueSound /\ KeptDown /\ Typed'
  BY DEF HostInv
<1>2. /\ WithinBudget /\ TasksBehind /\ UnknownIsQuiet /\ ChangedIsQuiet /\ NotInCall
      /\ ManagerWaits /\ StarterOwns /\ Settled /\ TargetDown /\ ClosedQuiet
  BY DEF BackendInv, TargetQuiet
<1>3. Stepped /\ NoRevival
  BY <1>1, NextEffects, NextRevivesNone
<1>4. BudgetKept
  BY <1>3 DEF Stepped, Worked, Asked, Called, Operated, Managed, Shuts, Stays, BudgetKept
<1>5. WithinBudget'
  BY <1>1, <1>2, <1>3, StepKeepsBudget
<1>6. TasksBehind'
  BY <1>1, <1>2, <1>3, StepKeepsBehind
<1>7. UnknownIsQuiet' /\ ChangedIsQuiet' /\ NotInCall' /\ ManagerWaits'
  BY <1>1, <1>2, <1>3, <1>4, StepKeepsUnknown, StepKeepsChanged, StepKeepsNotInCall, StepKeepsWaiting
<1>8. StarterOwns' /\ Settled' /\ TargetDown' /\ ClosedQuiet'
  BY <1>1, <1>2, <1>3, StepKeepsStarter, StepKeepsSettled, StepKeepsTargetDown, StepKeepsClosed
<1> QED
  BY <1>5, <1>6, <1>7, <1>8 DEF BackendInv, TargetQuiet

LEMMA StepKeepsTaskProcs ==
  ASSUME Typed, TaskProcs, Stepped PROVE TaskProcs'
<1> SUFFICES ASSUME NEW w \in Workers,
                    worker'[w].pc \in {"off", "pick", "begin", "launch", "succeeded", "failed"}
             PROVE  worker'[w].proc = NoProc
  BY DEF TaskProcs
<1>0. worker \in [Workers -> Task]
  BY DEF Typed, TasksSound
<1>1. ASSUME worker'[w] = worker[w] \/ worker'[w] = [worker[w] EXCEPT !.cancelled = TRUE]
      PROVE  worker'[w].proc = NoProc
  <2>1. worker'[w].pc = worker[w].pc /\ worker'[w].proc = worker[w].proc
    BY <1>0, <1>1 DEF Task
  <2> QED
    BY <2>1 DEF TaskProcs
<1>2. ASSUME worker'[w] = Off \/ worker'[w] = [Off EXCEPT !.pc = "pick"]
      PROVE  worker'[w].proc = NoProc
  BY <1>2 DEF Off
<1>3. ASSUME Worked(w)
      PROVE  worker'[w].proc = NoProc
  <2>1. CASE Picked(w) \/ Completed(w)
    BY <1>2, <2>1 DEF Picked, Completed
  <2>2. CASE Began(w)
    BY <2>2 DEF Began, Moves, Keeping, TaskProcs
  <2>3. CASE Finished(w)
    BY <2>3 DEF Finished, Moves, Keeping, Dropping
  <2> QED
    BY <1>3, <2>1, <2>2, <2>3 DEF Worked, PreviousStopped, Launched, Registered, Greeted, ProcStopped,
       Moves, Dropping
<1>4. ASSUME NEW v \in Workers, Worked(v), v # w
      PROVE  worker'[w] = worker[w]
  BY <1>4 DEF Worked
<1>5. ASSUME NEW u \in Users, NEW p \in Plugins, Asked(u, p)
      PROVE  worker'[w] = worker[w] \/ worker'[w] = [Off EXCEPT !.pc = "pick"]
  BY <1>5 DEF Asked, Activated
<1>6. CASE Managed
  BY <1>1, <1>6 DEF Managed, Paused1, Invalidated, MgrStopped, Removed, Filed, Rescanned, StartEnded
<1>7. CASE Shuts
  BY <1>1, <1>7 DEF Shuts
<1> QED
  BY <1>1, <1>2, <1>3, <1>4, <1>5, <1>6, <1>7 DEF Stepped, Called, Operated, Stays

--------------------------------------------------------------------------------
(* The handshakes.                                                         *)

(* A process object that is in use keeps its plugin and package, and is    *)
(* not brought back.                                                       *)
ProcGoesOn(s) ==
  /\ procs'[s].plugin = procs[s].plugin /\ procs'[s].pkg = procs[s].pkg
  /\ procs[s].hello => procs'[s].hello
  /\ procs'[s].child => procs[s].child
  /\ procs'[s].alive => procs[s].alive
ProcsGoOn == \A s \in ProcIds : Referenced(s) => ProcGoesOn(s)

LEMMA FieldGoesOn ==
  ASSUME Typed, NEW s \in ProcIds, NEW x, procs' = [procs EXCEPT ![s] = x],
         x.plugin = procs[s].plugin, x.pkg = procs[s].pkg, procs[s].hello => x.hello,
         x.child => procs[s].child, x.alive => procs[s].alive
  PROVE  ProcsGoOn
BY DEF Typed, ProcsTyped, ProcsGoOn, ProcGoesOn

LEMMA StopGoesOn ==
  ASSUME Typed, NEW s \in ProcIds, procs' = Stopped(s) \/ procs' = Unstopped(s)
  PROVE  ProcsGoOn
<1>1. procs[s] \in Process
  BY DEF Typed, ProcsTyped
<1>2. PICK x : /\ procs' = [procs EXCEPT ![s] = x]
               /\ x \in {[procs[s] EXCEPT !.alive = FALSE, !.child = FALSE],
                         [procs[s] EXCEPT !.alive = FALSE]}
  BY DEF Stopped, Unstopped
<1>3. /\ x.plugin = procs[s].plugin /\ x.pkg = procs[s].pkg /\ x.hello = procs[s].hello
      /\ x.child => procs[s].child
      /\ ~x.alive
  BY <1>1, <1>2 DEF Process
<1> QED
  BY <1>2, <1>3, FieldGoesOn

LEMMA StepGoesOn ==
  ASSUME Typed, Stepped PROVE ProcsGoOn
<1>0. mgr.pc # "idle" => OperationSound(mgr, procs)
  BY MgrOf
<1>1. CASE UNCHANGED procs
  BY <1>1 DEF ProcsGoOn, ProcGoesOn
<1>2. ASSUME NEW w \in Workers, Worked(w), ~UNCHANGED procs
      PROVE  ProcsGoOn
  <2> DEFINE s == worker[w].proc
  <2>1. CASE PreviousStopped(w) \/ ProcStopped(w)
    BY <2>1, StopGoesOn DEF PreviousStopped, ProcStopped, StopAnyway
  <2>2. CASE Launched(w)
    <3>1. PICK i \in FreeSlots : \E x : procs' = [procs EXCEPT ![i] = x]
      BY <1>2, <2>2 DEF Launched
    <3>2. \A j \in ProcIds : Referenced(j) => j # i /\ procs'[j] = procs[j]
      BY <3>1 DEF FreeSlots, Typed, ProcsTyped
    <3> QED
      BY <3>2 DEF ProcsGoOn, ProcGoesOn
  <2>3. CASE Registered(w) \/ Greeted(w)
    <3>1. s \in ProcIds /\ procs[s] \in Process
      BY <2>3 DEF Registered, Greeted, Typed, ProcsTyped
    <3>2. PICK x : /\ procs' = [procs EXCEPT ![s] = x]
                   /\ x \in {[procs[s] EXCEPT !.reader = "reading"], [procs[s] EXCEPT !.hello = TRUE]}
      BY <1>2, <2>3 DEF Registered, Greeted
    <3>3. /\ x.plugin = procs[s].plugin /\ x.pkg = procs[s].pkg
          /\ procs[s].hello => x.hello
          /\ x.child = procs[s].child /\ x.alive = procs[s].alive
      BY <3>1, <3>2 DEF Process
    <3> QED
      BY <3>1, <3>2, <3>3, FieldGoesOn
  <2> QED
    BY <1>2, <2>1, <2>2, <2>3 DEF Worked, Picked, Began, Finished, Completed
<1>3. ASSUME NEW s \in ProcIds, Read(s) \/ ChildDies(s)
      PROVE  ProcsGoOn
  <2>1. procs[s] \in Process
    BY DEF Typed, ProcsTyped
  <2>2. CASE Reap(s)
    BY <2>2, StopGoesOn DEF Reap, Killed
  <2>3. CASE ChildDies(s) \/ ReaderEnds(s) \/ ProcessExited(s)
    <3>1. PICK x : /\ procs' = [procs EXCEPT ![s] = x]
                   /\ x \in {[procs[s] EXCEPT !.child = FALSE],
                             [procs[s] EXCEPT !.alive = FALSE, !.reader = "ended"],
                             [procs[s] EXCEPT !.reader = "gone"]}
      BY <2>3 DEF ChildDies, ReaderEnds, ProcessExited
    <3>2. /\ x.plugin = procs[s].plugin /\ x.pkg = procs[s].pkg /\ x.hello = procs[s].hello
          /\ x.child => procs[s].child
          /\ x.alive => procs[s].alive
      BY <2>1, <3>1 DEF Process
    <3> QED
      BY <3>1, <3>2, FieldGoesOn
  <2> QED
    BY <1>3, <2>2, <2>3 DEF Read
<1>4. CASE Managed
  <2>1. CASE MgrStopped
    <3>1. UNCHANGED procs \/ (mgr.proc \in ProcIds /\ (procs' = Stopped(mgr.proc) \/ procs' = Unstopped(mgr.proc)))
      BY <1>0, <1>4, <2>1 DEF Managed, MgrStopped, OperationSound, Operation, Slots
    <3> QED
      BY <1>1, <3>1, StopGoesOn
  <2> QED
    BY <1>1, <1>4, <2>1 DEF Managed, Paused1, Invalidated, Removed, Filed, Rescanned, StartEnded
<1>5. CASE Shuts
  BY <1>1, <1>5, StopGoesOn DEF Shuts, StopAnyway
<1> QED
  BY <1>1, <1>2, <1>3, <1>4, <1>5 DEF Stepped, Asked, Activated, Called, Operated, Stays

(* How a plugin comes to be shown as running.                              *)
LEMMA RunningGoesOn ==
  ASSUME Typed, Stepped, Open', NEW p \in Plugins, rec'[p].runtime = "Running",
         rec'[p].proc # NoProc
  PROVE  \/ rec[p].runtime = "Running" /\ rec'[p].proc = rec[p].proc
         \/ \E w \in Workers : worker[w].pc = "finish" /\ rec'[p].proc = worker[w].proc
         \/ /\ Managed /\ mgr.pc \in {"refresh", "refreshBack"} /\ Alive(rec[p].proc)
            /\ p = mgr.plugin \/ rec[p].known
<1>1. ASSUME NEW w \in Workers, Worked(w)
      PROVE  \/ rec[p].runtime = "Running" /\ rec'[p].proc = rec[p].proc
             \/ worker[w].pc = "finish" /\ rec'[p].proc = worker[w].proc
  <2>1. CASE Began(w)
    BY <2>1 DEF Began, Only
  <2> QED
    BY <1>1, <2>1 DEF Worked, Picked, PreviousStopped, Launched, Registered, Greeted, ProcStopped,
       Finished, Completed, Only, Moves
<1>2. CASE Managed
  <2>1. CASE Paused1 \/ MgrStopped \/ Removed
    BY <2>1 DEF Paused1, MgrStopped, Removed, Only, Unknown
  <2>2. CASE Rescanned
    <3>1. ASSUME NEW k, rec'[p] = Scanned(rec[p], k)
          PROVE  Alive(rec[p].proc)
      BY <3>1 DEF Scanned, Keeps
    <3> QED
      BY <1>2, <2>2, <3>1 DEF Rescanned, ScannedTo
  <2> QED
    BY <1>2, <2>1, <2>2 DEF Managed, Invalidated, Filed, StartEnded
<1>3. ASSUME NEW q \in Plugins, Operated(q)
      PROVE  rec[p].runtime = "Running" /\ rec'[p].proc = rec[p].proc
  BY <1>3 DEF Operated, Enabled, Disabled, Installs, Only
<1>4. ASSUME NEW q \in Plugins, Exited(q)
      PROVE  rec[p].runtime = "Running" /\ rec'[p].proc = rec[p].proc
  BY <1>4 DEF Exited, Only, WithoutProc
<1> QED
  BY <1>1, <1>2, <1>3, <1>4 DEF Stepped, Asked, Activated, Called, Shuts, Stays, Open

(* What a thread is told that is not the manager.                          *)
LEMMA UserAnswer ==
  ASSUME NEW u \in Users, u # Manager, NEW p, NEW s
  PROVE  /\ Answer(u, p, s).pc \in {"ok", "idle"}
         /\ Answer(u, p, s).pc = "ok" => s # NoProc /\ Answer(u, p, s).proc = s
BY DEF Answer, IdleUser

(* A thread that has a process keeps it; one that is given a process is    *)
(* given that of a record whose backend serves.                            *)
GivenProc(u) ==
  \E p \in Plugins : /\ user'[u].proc = rec[p].proc /\ rec[p].proc # NoProc /\ Open
                     /\ rec[p].runtime = "Running" /\ Alive(rec[p].proc)

LEMMA UserGoesOn ==
  ASSUME Typed, QueueSound, KeptDown, BackendInv, Stepped,
         NEW u \in Users, u # Manager, user'[u].pc \in {"ok", "call"}
  PROVE  (user[u].pc \in {"ok", "call"} /\ user'[u].proc = user[u].proc) \/ GivenProc(u)
<1>0. /\ user \in [Users -> User] /\ UserSound(user[u])
      /\ TasksBehind /\ StarterOwns /\ Settled /\ ClosedQuiet
  BY DEF Typed, UsersSound, BackendInv
<1>1. ASSUME NEW w \in Workers, Worked(w), ~UNCHANGED user
      PROVE  (user[u].pc \in {"ok", "call"} /\ user'[u].proc = user[u].proc) \/ GivenProc(u)
  <2> DEFINE p == worker[w].plugin
             s == IF worker[w].pc = "succeeded" /\ Alive(rec[p].proc) THEN rec[p].proc ELSE NoProc
  <2>1. Completed(w) /\ p \in Plugins /\ HasTask(w)
    BY <1>1 DEF Worked, Picked, Began, PreviousStopped, Launched, Registered, Greeted,
       ProcStopped, Finished
  <2>2. CASE user'[u] = user[u]
    BY <2>2
  <2>3. CASE user'[u] # user[u]
    <3>1. user'[u] = Answer(u, p, s) /\ ~worker[w].cancelled
      BY <2>1, <2>3 DEF Completed
    <3>2. s # NoProc /\ user'[u].proc = s
      BY <3>1, UserAnswer
    <3>3. s = rec[p].proc /\ worker[w].pc = "succeeded" /\ Alive(rec[p].proc)
      BY <3>2
    <3>4. Holds(w, p)
      BY <2>1, <3>1 DEF Holds
    <3>5. Open
      BY <2>1, <3>4, <1>0 DEF QueueSound, ClosedQuiet
    <3>6. rec[p].runtime # "Starting"
      <4>1. ASSUME NEW v \in Workers, OwnsProc(v, p), Holds(v, p)
            PROVE  FALSE
        BY <2>1, <3>3, <3>4, <4>1 DEF QueueSound, OwnsProc
      <4> QED
        BY <1>0, <2>1, <3>3, <3>5, <4>1, OwnerHolds
    <3>7. rec[p].runtime = "Running"
      BY <1>0, <2>1, <3>3, <3>5, <3>6 DEF Settled
    <3> QED
      BY <2>1, <3>2, <3>3, <3>5, <3>7 DEF GivenProc
  <2> QED
    BY <2>2, <2>3
<1>2. ASSUME NEW v \in Users, NEW p \in Plugins, Asked(v, p)
      PROVE  (user[u].pc \in {"ok", "call"} /\ user'[u].proc = user[u].proc) \/ GivenProc(u)
  <2>1. user'[u] # Waits(p) /\ \A q : user'[u] # Answer(u, q, NoProc)
    <3>1. Waits(p).pc = "wait"
      BY DEF Waits
    <3> QED
      BY <3>1, UserAnswer
  <2>2. \/ user'[u] = user[u]
        \/ user'[u] = Answer(u, p, rec[p].proc) /\ Serving(rec[p]) /\ ~closed
    BY <1>2, <2>1 DEF Asked, Activated
  <2>3. CASE user'[u] = Answer(u, p, rec[p].proc) /\ Serving(rec[p]) /\ ~closed
    <3>1. rec[p].proc # NoProc /\ user'[u].proc = rec[p].proc
      BY <2>3, UserAnswer
    <3>2. Open
      BY <1>0, <2>3 DEF ClosedQuiet
    <3> QED
      BY <2>3, <3>1, <3>2 DEF GivenProc, Serving
  <2> QED
    BY <2>2, <2>3
<1>3. ASSUME NEW c \in Callers, Called(c)
      PROVE  user[u].pc \in {"ok", "call"} /\ user'[u].proc = user[u].proc
  BY <1>3 DEF Called, IdleUser
<1>4. CASE Managed
  <2>1. CASE Invalidated
    <3>1. user'[u] = user[u] \/ user'[u] = Answer(u, mgr.plugin, NoProc)
      BY <2>1 DEF Invalidated
    <3> QED
      BY <3>1, UserAnswer
  <2>2. CASE StartEnded
    BY <1>0, <2>2 DEF StartEnded
  <2> QED
    BY <1>4, <2>1, <2>2 DEF Managed, Paused1, MgrStopped, Removed, Filed, Rescanned
<1>5. CASE Shuts
  <2>1. user'[u] = user[u] \/ user'[u] = Answer(u, user[u].plugin, NoProc)
    BY <1>5 DEF Shuts
  <2> QED
    BY <2>1, UserAnswer
<1> QED
  BY <1>1, <1>2, <1>3, <1>4, <1>5 DEF Stepped, Operated, Stays

LEMMA ManagerNoCall ==
  ASSUME Typed, Stepped, user[Manager].pc # "call" PROVE user'[Manager].pc # "call"
<1>0. Manager \in Users /\ Manager \notin Callers /\ user \in [Users -> User]
  BY DEF Typed, UsersSound, Users
<1>1. \A p, s : Answer(Manager, p, s).pc # "call"
  BY ManagerAnswer
<1>2. \A p : Waits(p).pc # "call"
  BY DEF Waits
<1>3. ASSUME NEW w \in Workers, Worked(w)
      PROVE  user'[Manager].pc # "call"
  BY <1>0, <1>1, <1>3 DEF Worked, Picked, Began, PreviousStopped, Launched, Registered, Greeted,
       ProcStopped, Finished, Completed
<1>4. CASE Managed
  BY <1>0, <1>1, <1>4 DEF Managed, Paused1, Invalidated, MgrStopped, Removed, Filed, Rescanned,
     StartEnded, IdleUser
<1>5. ASSUME NEW u \in Users, NEW p \in Plugins, Asked(u, p)
      PROVE  user'[Manager].pc # "call"
  BY <1>0, <1>1, <1>2, <1>5 DEF Asked, Activated
<1> QED
  BY <1>0, <1>1, <1>3, <1>4, <1>5 DEF Stepped, Called, Operated, Shuts, Stays

LEMMA StepKeepsHands ==
  ASSUME InstallsAlone, Typed, QueueSound, KeptDown, BackendInv, TaskProcs, HandsShaken, Stepped,
         NoRevival, Typed'
  PROVE  HandsShaken'
<1>0. ProcsGoOn /\ TargetDown /\ WithinBudget /\ worker \in [Workers -> Task]
  BY StepGoesOn DEF BackendInv, Typed, TasksSound
<1>1. ASSUME Open', NEW p \in Plugins, rec'[p].runtime = "Running", Alive(rec[p].proc)'
      PROVE  procs'[rec'[p].proc].hello
  <2>1. rec'[p].proc # NoProc /\ rec'[p].proc \in ProcIds /\ procs'[rec'[p].proc].alive
    BY <1>1 DEF Alive, Typed, RecordsSound, Record, Slots
  <2>2. Open
    BY <1>1, StepOpen
  <2>3. CASE rec[p].runtime = "Running" /\ rec'[p].proc = rec[p].proc
    <3>1. Alive(rec[p].proc)
      BY <1>1, <2>3, AliveBefore
    <3>2. procs[rec[p].proc].hello
      BY <2>2, <2>3, <3>1 DEF HandsShaken
    <3> QED
      BY <1>0, <2>1, <2>3, <3>2 DEF ProcsGoOn, ProcGoesOn, Referenced
  <2>4. ASSUME NEW w \in Workers, worker[w].pc = "finish", rec'[p].proc = worker[w].proc
        PROVE  procs'[rec'[p].proc].hello
    BY <1>0, <2>1, <2>4 DEF HandsShaken, ProcsGoOn, ProcGoesOn, Referenced
  <2>5. ASSUME Managed, mgr.pc \in {"refresh", "refreshBack"}, Alive(rec[p].proc),
               p = mgr.plugin \/ rec[p].known
        PROVE  FALSE
    <3>1. mgr.kind = "install" /\ mgr.kind \in budget.kinds /\ mgr.plugin \in budget.plugins
      BY <1>0, <2>5, MgrOf DEF OperationSound, WithinBudget
    <3>2. p \in budget.plugins
      BY <1>0, <2>5, <3>1 DEF WithinBudget
    <3>3. p = mgr.plugin
      BY <1>0, <3>1, <3>2 DEF WithinBudget, InstallsAlone
    <3> QED
      BY <1>0, <2>2, <2>5, <3>1, <3>3 DEF TargetDown
  <2> QED
    BY <1>1, <2>1, <2>3, <2>4, <2>5, RunningGoesOn
<1>2. ASSUME NEW w \in Workers
      PROVE  worker'[w].pc = "finish" /\ worker'[w].proc # NoProc => procs'[worker'[w].proc].hello
  <2>0. worker[w].proc # NoProc => worker[w].proc \in ProcIds /\ ProcGoesOn(worker[w].proc)
    BY <1>0 DEF Task, Slots, ProcsGoOn, Referenced
  <2>1. ASSUME worker'[w].pc = worker[w].pc, worker'[w].proc = worker[w].proc
        PROVE  worker'[w].pc = "finish" /\ worker'[w].proc # NoProc => procs'[worker'[w].proc].hello
    BY <2>0, <2>1 DEF HandsShaken, ProcGoesOn
  <2>2. ASSUME worker'[w] = worker[w] \/ worker'[w] = [worker[w] EXCEPT !.cancelled = TRUE]
        PROVE  worker'[w].pc = worker[w].pc /\ worker'[w].proc = worker[w].proc
    BY <1>0, <2>2 DEF Task
  <2>3. ASSUME Worked(w)
        PROVE  worker'[w].pc = "finish" /\ worker'[w].proc # NoProc => procs'[worker'[w].proc].hello
    <3>1. CASE Picked(w) \/ Completed(w)
      BY <3>1 DEF Picked, Completed, Off
    <3>2. CASE Began(w)
      BY <3>2 DEF Began, Moves
    <3>3. CASE PreviousStopped(w)
      BY <3>3 DEF PreviousStopped, Moves, Dropping
    <3>4. CASE Launched(w)
      BY <3>4 DEF Launched, Moves, Keeping, TaskProcs
    <3>5. CASE Greeted(w)
      <4>1. procs \in [ProcIds -> Process]
        BY DEF Typed, ProcsTyped
      <4>2. CASE procs' = [procs EXCEPT ![worker[w].proc].hello = TRUE]
        <5>1. procs'[worker[w].proc].hello
          BY <3>5, <4>1, <4>2 DEF Greeted, Process
        <5> QED
          BY <3>5, <5>1 DEF Greeted, Moves, Keeping
      <4> QED
        BY <3>5, <4>2 DEF Greeted, Moves, Keeping
    <3>6. CASE Registered(w) \/ ProcStopped(w) \/ Finished(w)
      BY <3>6 DEF Registered, ProcStopped, Finished, Moves, Keeping, Dropping
    <3> QED
      BY <2>3, <3>1, <3>2, <3>3, <3>4, <3>5, <3>6 DEF Worked
  <2>4. ASSUME NEW v \in Workers, Worked(v), v # w
        PROVE  worker'[w] = worker[w]
    BY <2>4 DEF Worked
  <2>5. ASSUME NEW u \in Users, NEW p \in Plugins, Asked(u, p)
        PROVE  worker'[w] = worker[w] \/ worker'[w] = [Off EXCEPT !.pc = "pick"]
    BY <2>5 DEF Asked, Activated
  <2>6. ASSUME worker'[w] = [Off EXCEPT !.pc = "pick"]
        PROVE  worker'[w].pc = "pick"
    BY <2>6 DEF Off
  <2>7. CASE Managed
    BY <2>1, <2>2, <2>7 DEF Managed, Paused1, Invalidated, MgrStopped, Removed, Filed, Rescanned, StartEnded
  <2>8. CASE Shuts
    BY <2>1, <2>2, <2>8 DEF Shuts
  <2> QED
    BY <2>1, <2>2, <2>3, <2>4, <2>5, <2>6, <2>7, <2>8 DEF Stepped, Called, Operated, Stays
<1>3. ASSUME NEW u \in Users
      PROVE  /\ user'[u].pc = "call" => u # Manager
             /\ user'[u].pc \in {"ok", "call"} /\ u # Manager
                  => user'[u].proc # NoProc /\ procs'[user'[u].proc].hello
  <2>1. user'[u].pc = "call" => u # Manager
    BY ManagerNoCall DEF HandsShaken
  <2>2. ASSUME user'[u].pc \in {"ok", "call"}, u # Manager
        PROVE  user'[u].proc # NoProc /\ procs'[user'[u].proc].hello
    <3>1. CASE user[u].pc \in {"ok", "call"} /\ user'[u].proc = user[u].proc
      <4>1. user[u].proc \in ProcIds
        BY <2>2, <3>1 DEF HandsShaken, Typed, UsersSound, UserSound, User, Slots
      <4> QED
        BY <1>0, <2>2, <3>1, <4>1 DEF HandsShaken, ProcsGoOn, ProcGoesOn, Referenced
    <3>2. CASE GivenProc(u)
      <4>1. PICK p \in Plugins : /\ user'[u].proc = rec[p].proc /\ rec[p].proc # NoProc /\ Open
                     /\ rec[p].runtime = "Running" /\ Alive(rec[p].proc)
        BY <3>2 DEF GivenProc
      <4>2. rec[p].proc \in ProcIds /\ procs[rec[p].proc].hello
        BY <4>1 DEF HandsShaken, Typed, RecordsSound, Record, Slots
      <4> QED
        BY <1>0, <4>1, <4>2 DEF ProcsGoOn, ProcGoesOn, Referenced
    <3> QED
      BY <2>2, <3>1, <3>2, UserGoesOn
  <2> QED
    BY <2>1, <2>2
<1> QED
  BY <1>1, <1>2, <1>3 DEF HandsShaken

LEMMA InitHands == Init => TaskProcs /\ HandsShaken
<1> SUFFICES ASSUME Init PROVE TaskProcs /\ HandsShaken
  OBVIOUS
<1>1. worker = [w \in Workers |-> Off] /\ user = [u \in Users |-> IdleUser]
  BY DEF Init
<1>2. Settled /\ \A p \in Plugins : rec[p].proc = NoProc
  BY InitBackendInv, InitProcs DEF BackendInv
<1> QED
  BY <1>1, <1>2 DEF TaskProcs, HandsShaken, Alive, Off, IdleUser

(* While nothing is installed beside a restoration or a removal, and       *)
(* nothing but the one plugin when something is, a plugin shown as running *)
(* has the backend whose handshake was accepted, and a call is made of     *)
(* such a backend: the findings are what happens otherwise.                *)
THEOREM HandshakesHold ==
  ASSUME InstallsApart, InstallsAlone PROVE Spec => []RunningIsHandshaken
<1> DEFINE Inv == HostInv /\ BackendInv /\ TaskProcs /\ HandsShaken
<1>1. Init => Inv
  BY InitHostInv, InitBackendInv, InitHands
<1>2. Inv /\ [Next]_vars => Inv'
  <2> SUFFICES ASSUME HostInv, BackendInv, TaskProcs, HandsShaken, [Next]_vars
               PROVE  HostInv' /\ BackendInv' /\ TaskProcs' /\ HandsShaken'
    OBVIOUS
  <2>1. HostInv'
    BY NextHostInv
  <2>2. BackendInv'
    BY <2>1, StepKeepsBackendInv
  <2>3. Typed /\ QueueSound /\ KeptDown /\ Typed'
    BY <2>1 DEF HostInv
  <2>4. Stepped /\ NoRevival
    BY <2>3, NextEffects, NextRevivesNone
  <2>5. TaskProcs' /\ HandsShaken'
    BY <2>3, <2>4, StepKeepsTaskProcs, StepKeepsHands
  <2> QED
    BY <2>1, <2>2, <2>5
<1>3. Inv => RunningIsHandshaken
  <2>1. ~ShuttingDown => Open
    BY DEF ShuttingDown, Open
  <2> QED
    BY <2>1 DEF HandsShaken, RunningIsHandshaken
<1> HIDE DEF Inv
<1> QED
  BY <1>1, <1>2, <1>3, PTL DEF Spec

--------------------------------------------------------------------------------
(* The files.                                                              *)

(* Only a scan changes the package of a record, and it is then another     *)
(* revision.                                                               *)
LEMMA PackageGoesOn ==
  ASSUME Typed, Stepped, NEW p \in Plugins, rec[p].known, rec'[p].known, Open'
  PROVE  \/ rec'[p].pkg = rec[p].pkg
         \/ /\ Managed /\ Rescanned /\ p = mgr.plugin /\ rec'[p].rev = rec[p].rev + 1
            /\ mgr.pc \in {"refresh", "refreshBack"}
<1>1. ASSUME NEW w \in Workers, Worked(w)
      PROVE  rec'[p].pkg = rec[p].pkg
  <2>1. CASE Began(w)
    BY <2>1 DEF Began, Only
  <2> QED
    BY <1>1, <2>1 DEF Worked, Picked, PreviousStopped, Launched, Registered, Greeted, ProcStopped,
       Finished, Completed, Only, Same
<1>2. CASE Managed
  <2>1. CASE Paused1 \/ MgrStopped
    BY <2>1 DEF Paused1, MgrStopped, Only, Same
  <2>2. CASE Removed
    BY <2>2 DEF Removed, Only, Same, Unknown
  <2>3. CASE Rescanned
    <3>1. ASSUME NEW k, rec'[p] = Scanned(rec[p], k)
          PROVE  rec'[p].rev = rec[p].rev + 1 /\ rec'[p].pkg = k
      BY <3>1 DEF Scanned
    <3> QED
      BY <1>2, <2>3, <3>1 DEF Rescanned, ScannedTo
  <2> QED
    BY <1>2, <2>1, <2>2, <2>3 DEF Managed, Invalidated, Filed, StartEnded
<1>3. ASSUME NEW q \in Plugins, Operated(q)
      PROVE  rec'[p].pkg = rec[p].pkg
  BY <1>3 DEF Operated, Enabled, Disabled, Installs, Only
<1>4. ASSUME NEW q \in Plugins, Exited(q)
      PROVE  rec'[p].pkg = rec[p].pkg
  BY <1>4 DEF Exited, Only, Same
<1> QED
  BY <1>1, <1>2, <1>3, <1>4 DEF Stepped, Asked, Activated, Called, Shuts, Stays, Open

(* What most steps leave alone.                                            *)
SamePackages == \A p \in Plugins : rec'[p].known = rec[p].known /\ rec'[p].pkg = rec[p].pkg

LEMMA PackagesStay ==
  ASSUME Typed, Stepped, ~Managed, ~Shuts
  PROVE  SamePackages /\ UNCHANGED disk
<1>1. ASSUME NEW w \in Workers, Worked(w)
      PROVE  SamePackages /\ UNCHANGED disk
  <2>1. CASE Began(w)
    BY <1>1, <2>1 DEF Worked, Began, Only, SamePackages
  <2> QED
    BY <1>1, <2>1 DEF Worked, Picked, PreviousStopped, Launched, Registered, Greeted, ProcStopped,
       Finished, Completed, Only, Same, SamePackages
<1>2. ASSUME NEW q \in Plugins, Operated(q)
      PROVE  SamePackages /\ UNCHANGED disk
  BY <1>2 DEF Operated, Enabled, Disabled, Installs, Only, SamePackages
<1>3. ASSUME NEW q \in Plugins, Exited(q)
      PROVE  SamePackages
  BY <1>3 DEF Exited, Only, Same, SamePackages
<1> QED
  BY <1>1, <1>2, <1>3 DEF Stepped, Asked, Activated, Called, Stays, SamePackages

LEMMA SameFiles ==
  ASSUME Typed, WithinBudget, FilesKnown, sd.pc = "no", SamePackages, UNCHANGED <<disk, mgr>>
  PROVE  FilesKnown'
<1>1. mgr.kind = "install" => mgr.plugin \in Plugins
  BY MgrOf DEF WithinBudget
<1> QED
  BY <1>1 DEF FilesKnown, FilesOut, InPlace, ManagerKnows, SamePackages

LEMMA ManagedKeepsFiles ==
  ASSUME Typed, WithinBudget, FilesKnown, sd.pc = "no", Managed
  PROVE  FilesKnown'
<1> DEFINE p == mgr.plugin
           place == PlaceOf[mgr.new]
<1>0. /\ p \in Plugins /\ mgr.pc # "idle" /\ OperationSound(mgr, procs) /\ mgr \in Operation
      /\ \A q \in Plugins : RecordSound(q, rec[q], procs)
      /\ \A q \in Plugins : rec[q].known => rec[q].pkg \in Packages
      /\ disk \in [Plugins -> [Places -> Packages \cup {None}]]
  BY MgrOf DEF Managed, Typed, RecordsSound, RestTyped, RecordSound, Record
<1>1. /\ \A q \in Plugins : rec[q].known /\ ~FilesOut(q) => InPlace(q)
      /\ ManagerKnows
      /\ ~ShuttingDown
  BY DEF FilesKnown, ShuttingDown
<1>2. \A k \in Packages : PlaceOf[k] \in Places
  BY DEF Places
<1>3. \A k \in Plugins : k # IdleMgr.plugin
  BY DEF IdleMgr
<1>4. ASSUME OpEnds
      PROVE  ManagerKnows' /\ \A q \in Plugins : ~FilesOut(q)'
  BY <1>3, <1>4 DEF OpEnds, ManagerKnows, FilesOut, IdleMgr, AllOps
<1>5. \A q \in Plugins : q # p => ~FilesOut(q)
  BY DEF FilesOut
<1>6. CASE Paused1
  <2>1. SamePackages
    BY <1>6 DEF Paused1, Only, SamePackages
  <2>2. mgr.kind = "install" /\ mgr.pc = "pause"
    BY <1>0, <1>6 DEF Paused1, OperationSound
  <2>3. ManagerKnows'
    <3>1. CASE ~OpEnds
      BY <1>0, <1>1, <1>6, <2>1, <2>2, <3>1 DEF Paused1, Continues, ManagerKnows, SamePackages
    <3> QED
      BY <1>4, <3>1
  <2>4. \A q \in Plugins : InPlace(q)' <=> InPlace(q)
    BY <1>6, <2>1 DEF Paused1, InPlace, SamePackages
  <2> QED
    BY <1>1, <2>1, <2>2, <2>3, <2>4 DEF FilesKnown, FilesOut, SamePackages
<1>7. CASE Invalidated
  <2>1. ManagerKnows'
    BY <1>0, <1>1, <1>7 DEF Invalidated, Continues, ManagerKnows
  <2>2. \A q \in Plugins : InPlace(q)' <=> InPlace(q)
    BY <1>7 DEF Invalidated, InPlace
  <2>3. \A q \in Plugins : rec'[q].known <=> rec[q].known
    BY <1>7 DEF Invalidated
  <2> QED
    BY <1>1, <1>7, <2>1, <2>2, <2>3 DEF FilesKnown, FilesOut, Invalidated
<1>8. CASE MgrStopped
  <2>1. SamePackages
    BY <1>8 DEF MgrStopped, Only, Same, SamePackages
  <2>2. ManagerKnows'
    <3>1. CASE ~OpEnds
      BY <1>0, <1>1, <1>8, <2>1, <3>1 DEF MgrStopped, Continues, ManagerKnows, SamePackages
    <3> QED
      BY <1>4, <3>1
  <2>3. \A q \in Plugins : InPlace(q)' <=> InPlace(q)
    BY <1>8, <2>1 DEF MgrStopped, InPlace, SamePackages
  <2> QED
    BY <1>1, <1>8, <2>1, <2>2, <2>3 DEF FilesKnown, FilesOut, SamePackages, MgrStopped
<1>9. CASE Removed
  <2>1. mgr.kind # "install"
    BY <1>9 DEF Removed, WithinBudget
  <2>2. ManagerKnows'
    <3>1. CASE ~OpEnds
      BY <1>9, <2>1, <3>1 DEF Removed, Continues, ManagerKnows
    <3> QED
      BY <1>4, <3>1
  <2>3. ASSUME NEW q \in Plugins, rec'[q].known, ~FilesOut(q)'
        PROVE  InPlace(q)'
    <3>1. CASE q # p
      <4>1. rec'[q] = rec[q] /\ disk'[q] = disk[q]
        BY <1>9, <3>1 DEF Removed, Only
      <4> QED
        BY <1>1, <1>5, <2>3, <3>1, <4>1 DEF InPlace
    <3>2. CASE q = p
      <4>1. /\ mgr.pc = "remove" /\ OpEnds /\ UNCHANGED disk /\ Same(p)
        BY <1>9, <2>3, <3>2 DEF Removed, Continues, FilesOut, Unknown
      <4> QED
        BY <1>0, <1>1, <2>3, <3>2, <4>1 DEF InPlace, FilesOut, Same
    <3> QED
      BY <3>1, <3>2
  <2> QED
    BY <2>2, <2>3 DEF FilesKnown
<1>10. CASE Filed
  <2>1. mgr.kind = "install" /\ mgr.new \in Packages /\ UNCHANGED rec
    BY <1>0, <1>10 DEF Filed, OperationSound
  <2>2. ASSUME NEW q \in Plugins, q # p, rec'[q].known
        PROVE  InPlace(q)'
    <3>1. rec[q].known /\ PlaceOf[rec[q].pkg] \in Places
      BY <1>0, <1>2, <2>1, <2>2
    <3>2. InPlace(q)
      BY <1>1, <1>5, <2>2, <3>1
    <3>3. disk'[q][PlaceOf[rec[q].pkg]] = disk[q][PlaceOf[rec[q].pkg]]
      BY <1>10, <2>2, <3>1 DEF Filed, Puts
    <3> QED
      BY <2>1, <3>2, <3>3 DEF InPlace
  <2>3. mgr.old # None => mgr.old \in Packages /\ PlaceOf[mgr.old] \in Places
    BY <1>0, <1>2 DEF Operation
  <2>4. CASE mgr.pc = "unlink"
    <3>1. /\ Continues("place") /\ mgr'.had = disk[p][place] /\ Puts(None)
      BY <1>10, <2>4 DEF Filed
    <3>2. mgr.old = rec[p].pkg
      BY <1>1, <2>1, <2>4 DEF ManagerKnows
    <3>3. mgr.old # None => disk[p][PlaceOf[mgr.old]] = mgr.old
      BY <1>0, <1>1, <2>4, <3>2 DEF FilesOut, InPlace, RecordSound
    <3>4. ManagerKnows'
      BY <1>0, <2>1, <2>3, <3>1, <3>2, <3>3 DEF ManagerKnows, Continues, Puts
    <3> QED
      BY <2>2, <3>1, <3>4 DEF FilesKnown, FilesOut, Continues
  <2>5. CASE mgr.pc = "place" /\ Continues("refresh")
    <3>1. /\ mgr'.had = mgr.had /\ Puts(mgr.new)
      BY <1>10, <2>5 DEF Filed, Continues, OpEnds, IdleMgr
    <3>2. /\ mgr.old = rec[p].pkg
          /\ mgr.old # None => IF PlaceOf[mgr.old] = place THEN mgr.had = mgr.old
                               ELSE disk[p][PlaceOf[mgr.old]] = mgr.old
      BY <1>1, <2>1, <2>5 DEF ManagerKnows
    <3>3. ManagerKnows'
      BY <1>0, <2>1, <2>3, <2>5, <3>1, <3>2 DEF ManagerKnows, Continues, Puts
    <3> QED
      BY <2>2, <2>5, <3>3 DEF FilesKnown, FilesOut, Continues
  <2>6. CASE mgr.pc = "place" /\ ~Continues("refresh")
    <3>1. Puts(mgr.had) /\ (OpEnds \/ Continues("restart"))
      BY <1>10, <2>6 DEF Filed
    <3>2. /\ mgr.old = rec[p].pkg
          /\ mgr.old # None => IF PlaceOf[mgr.old] = place THEN mgr.had = mgr.old
                               ELSE disk[p][PlaceOf[mgr.old]] = mgr.old
      BY <1>1, <2>1, <2>6 DEF ManagerKnows
    <3>3. ManagerKnows'
      BY <1>4, <2>1, <3>1 DEF ManagerKnows, Continues
    <3>4. ASSUME NEW q \in Plugins, q = p, rec[p].known
          PROVE  InPlace(q)'
      <4>1. mgr.old # None
        BY <1>0, <3>2, <3>4 DEF RecordSound
      <4>2. disk'[p][PlaceOf[mgr.old]] = mgr.old
        <5>1. CASE PlaceOf[mgr.old] = place
          BY <3>1, <3>2, <4>1, <5>1 DEF Puts
        <5>2. CASE PlaceOf[mgr.old] # place
          BY <1>0, <2>3, <3>1, <3>2, <4>1, <5>2 DEF Puts
        <5> QED
          BY <5>1, <5>2
      <4> QED
        BY <2>1, <3>2, <3>4, <4>2 DEF InPlace
    <3>5. ASSUME NEW q \in Plugins, rec'[q].known
          PROVE  InPlace(q)'
      BY <2>1, <2>2, <3>4, <3>5
    <3> QED
      BY <3>3, <3>5 DEF FilesKnown
  <2>7. CASE mgr.pc = "rollback"
    <3>1. Continues("refreshBack") /\ mgr'.had = mgr.had /\ Puts(mgr.had) /\ mgr.old \in Packages
      BY <1>0, <1>10, <2>7 DEF Filed, OperationSound
    <3>2. /\ mgr.old # None => IF PlaceOf[mgr.old] = place THEN mgr.had = mgr.old
                               ELSE disk[p][PlaceOf[mgr.old]] = mgr.old
      BY <1>1, <2>1, <2>7 DEF ManagerKnows
    <3>3. mgr.old # None
      BY <3>1
    <3>4. ManagerKnows'
      BY <1>0, <2>1, <2>3, <3>1, <3>2, <3>3 DEF ManagerKnows, Continues, Puts
    <3> QED
      BY <2>2, <3>1, <3>4 DEF FilesKnown, FilesOut, Continues
  <2> QED
    BY <1>10, <2>4, <2>5, <2>6, <2>7 DEF Filed
<1>11. CASE Rescanned
  <2>1. mgr.kind = "install" /\ mgr.new \in Packages
    BY <1>0, <1>11 DEF Rescanned, OperationSound
  <2>2. PICK k \in {mgr.new, mgr.old} : ScannedTo(k) /\ UNCHANGED disk
          /\ ((mgr.pc = "refresh" /\ k = mgr.new) \/ (mgr.pc = "refreshBack" /\ k = mgr.old))
    BY <1>1, <1>11 DEF Rescanned
  <2>3. \A r, j : Scanned(r, j).pkg = j /\ Scanned(r, j).known = TRUE
    BY DEF Scanned
  <2>4. /\ rec'[p].pkg = k
        /\ \A q \in Plugins \ {p} : (rec'[q].known => rec[q].known) /\ rec'[q].pkg = rec[q].pkg
    <3>3. ASSUME NEW q \in Plugins \ {p}
          PROVE  (rec'[q].known => rec[q].known) /\ rec'[q].pkg = rec[q].pkg
      <4>1. CASE rec[q].known
        <5>1. rec'[q] = Scanned(rec[q], rec[q].pkg)
          BY <2>2, <4>1 DEF ScannedTo
        <5> QED
          BY <2>3, <4>1, <5>1
      <4>2. CASE ~rec[q].known
        BY <2>2, <4>2 DEF ScannedTo
      <4> QED
        BY <4>1, <4>2
    <3>4. rec'[p].pkg = k
      BY <1>0, <2>2, <2>3 DEF ScannedTo
    <3> QED
      BY <3>3, <3>4
  <2>5. disk[p][PlaceOf[k]] = k
    BY <1>1, <2>1, <2>2 DEF ManagerKnows
  <2>6. ASSUME NEW q \in Plugins, rec'[q].known
        PROVE  InPlace(q)'
    <3>1. CASE q = p
      BY <2>2, <2>4, <2>5, <3>1 DEF InPlace
    <3>2. CASE q # p
      BY <1>1, <1>5, <2>2, <2>4, <2>6, <3>2 DEF InPlace
    <3> QED
      BY <3>1, <3>2
  <2>7. ManagerKnows'
    <3>1. CASE mgr.pc = "refresh" /\ ~OpEnds
      <4>1. Continues("start") /\ mgr'.had = mgr.had /\ k = mgr.new
        BY <1>11, <2>2, <3>1, <1>1 DEF Rescanned
      <4> QED
        BY <1>1, <2>1, <2>2, <2>4, <3>1, <4>1 DEF ManagerKnows, Continues
    <3>2. CASE mgr.pc = "refreshBack" /\ ~OpEnds
      <4>1. Continues("restart")
        BY <1>11, <3>2, <1>1 DEF Rescanned
      <4> QED
        BY <4>1 DEF ManagerKnows, Continues
    <3> QED
      BY <1>4, <2>2, <3>1, <3>2
  <2> QED
    BY <2>6, <2>7 DEF FilesKnown
<1>12. CASE StartEnded
  <2>1. \A q \in Plugins : (InPlace(q)' <=> InPlace(q)) /\ (rec'[q].known <=> rec[q].known)
    BY <1>12 DEF StartEnded, InPlace
  <2>2. ManagerKnows'
    <3>1. CASE ~OpEnds
      BY <1>0, <1>1, <1>12, <3>1 DEF StartEnded, Continues, ManagerKnows
    <3> QED
      BY <1>4, <3>1
  <2> QED
    BY <1>1, <1>12, <2>1, <2>2 DEF FilesKnown, FilesOut, StartEnded
<1> QED
  BY <1>6, <1>7, <1>8, <1>9, <1>10, <1>11, <1>12 DEF Managed

LEMMA StepKeepsFiles ==
  ASSUME Typed, WithinBudget, FilesKnown, Stepped
  PROVE  FilesKnown'
<1> SUFFICES ASSUME sd'.pc = "no" PROVE FilesKnown'
  BY DEF FilesKnown
<1>1. sd.pc = "no" /\ ~Shuts
  BY DEF Stepped, Worked, Asked, Activated, Called, Operated, Managed, Shuts, Stays
<1>2. /\ \A q \in Plugins : rec[q].known /\ ~FilesOut(q) => InPlace(q)
      /\ ManagerKnows
  BY <1>1 DEF FilesKnown
<1>3. ASSUME NEW u \in Users, NEW p \in Plugins, Asked(u, p), ~UNCHANGED mgr
      PROVE  FilesKnown'
  <2> DEFINE m == mgr.plugin
  <2>1. /\ m \in Plugins
        /\ \/ mgr.pc = "start" /\ Continues("starting")
           \/ mgr.pc = "restart" /\ Continues("restarting")
        /\ mgr'.had = mgr.had /\ UNCHANGED disk /\ SamePackages
    BY <1>3, MgrOf DEF Asked, Activated, SamePackages
  <2>2. ManagerKnows'
    BY <1>2, <2>1 DEF ManagerKnows, Continues, SamePackages
  <2>3. \A q \in Plugins : InPlace(q)' <=> InPlace(q)
    BY <2>1 DEF InPlace, SamePackages
  <2> QED
    BY <1>2, <2>1, <2>2, <2>3 DEF FilesKnown, FilesOut, Continues, SamePackages
<1>4. ASSUME NEW p \in Plugins, Operated(p)
      PROVE  FilesKnown'
  <2>1. UNCHANGED disk /\ SamePackages /\ mgr.pc = "idle"
    BY <1>4 DEF Operated, Enabled, Disabled, Installs, Only, SamePackages
  <2>2. mgr' = IdleMgr \/ mgr'.pc \in {"start", "invalidate"} \/ (mgr'.pc = "pause" /\ mgr'.plugin = p)
    BY <1>4 DEF Operated, Enabled, Disabled, Installs
  <2>3. ManagerKnows'
    <3>1. mgr' = IdleMgr \/ mgr'.kind \in {"enable", "disable", "uninstall"}
            \/ (mgr'.pc = "pause" /\ mgr'.plugin = p /\ mgr'.old = rec[p].pkg)
      BY <1>4 DEF Operated, Enabled, Disabled, Installs
    <3> QED
      BY <2>1, <3>1 DEF ManagerKnows, IdleMgr, AllOps, SamePackages
  <2>4. \A q \in Plugins : ~FilesOut(q) /\ ~FilesOut(q)'
    BY <2>1, <2>2 DEF FilesOut, IdleMgr
  <2>5. \A q \in Plugins : InPlace(q)' <=> InPlace(q)
    BY <2>1 DEF InPlace, SamePackages
  <2> QED
    BY <1>2, <2>1, <2>3, <2>4, <2>5 DEF FilesKnown, SamePackages
<1>5. CASE UNCHANGED mgr /\ ~Managed
  BY <1>1, <1>5, PackagesStay, SameFiles
<1>6. CASE Managed
  BY <1>1, <1>6, ManagedKeepsFiles
<1> QED
  BY <1>1, <1>3, <1>4, <1>5, <1>6 DEF Stepped, Worked, Called, Stays

(* What becomes of a start: it goes on for the same package, it begins for *)
(* that of the record, or it launches what is in the package's directory.  *)
SameStart(w) == /\ worker[w].pc \in StartPcs /\ worker'[w].plugin = worker[w].plugin
                /\ worker'[w].rev = worker[w].rev /\ worker'[w].pkg = worker[w].pkg
StartsOn(w) ==
  /\ SameStart(w)
  /\ worker'[w].pc \in {"register", "hello", "finish"} /\ worker'[w].proc # NoProc
       => /\ worker[w].pc \in {"register", "hello", "finish"}
          /\ worker'[w].proc = worker[w].proc
StartsAnew(w) ==
  LET p == worker'[w].plugin IN
  /\ p \in Plugins /\ worker'[w].pkg = rec'[p].pkg /\ worker'[w].pc \in {"launch", "stopPrevious"}
StartsLaunched(w) ==
  LET t == worker[w]
      s == worker'[w].proc
  IN
  /\ SameStart(w) /\ worker'[w].pc = "register" /\ t.plugin \in Plugins
  /\ UNCHANGED <<rec, mgr, sd>> /\ s \in ProcIds
  /\ procs'[s].pkg = disk[t.plugin][PlaceOf[t.pkg]]

LEMMA StartsGoOnWith ==
  ASSUME Typed, TaskProcs, Stepped, NEW w \in Workers, worker'[w].pc \in StartPcs
  PROVE  StartsOn(w) \/ StartsAnew(w) \/ StartsLaunched(w)
<1>0. worker \in [Workers -> Task] /\ procs \in [ProcIds -> Process]
  BY DEF Typed, TasksSound, ProcsTyped
<1>1. ASSUME worker'[w] = worker[w] \/ worker'[w] = [worker[w] EXCEPT !.cancelled = TRUE]
      PROVE  StartsOn(w)
  <2>1. /\ worker'[w].pc = worker[w].pc /\ worker'[w].proc = worker[w].proc
        /\ worker'[w].plugin = worker[w].plugin /\ worker'[w].rev = worker[w].rev
        /\ worker'[w].pkg = worker[w].pkg
    BY <1>0, <1>1 DEF Task
  <2> QED
    BY <2>1 DEF StartsOn, SameStart
<1>2. worker'[w] # Off /\ worker'[w] # [Off EXCEPT !.pc = "pick"] /\ worker'[w].pc # "begin"
  BY DEF Off, StartPcs
<1>3. ASSUME Worked(w)
      PROVE  StartsOn(w) \/ StartsAnew(w) \/ StartsLaunched(w)
  <2>1. CASE Picked(w) \/ Completed(w)
    BY <1>2, <2>1 DEF Picked, Completed
  <2>2. CASE Began(w)
    BY <1>2, <1>3, <2>2 DEF Worked, Began, StartsAnew, Moves, Picked, StartPcs
  <2>3. CASE PreviousStopped(w) \/ ProcStopped(w) \/ Finished(w)
    BY <2>3 DEF PreviousStopped, ProcStopped, Finished, Moves, Dropping, StartsOn, SameStart, StartPcs
  <2>4. CASE Launched(w)
    <3>1. CASE Moves(w, "launch", "finish") /\ Keeping(w)
      BY <3>1 DEF Moves, Keeping, StartsOn, SameStart, StartPcs, TaskProcs
    <3>2. CASE ~(Moves(w, "launch", "finish") /\ Keeping(w))
      <4> DEFINE t == worker[w]
                 s == worker'[w].proc
      <4>1. /\ Moves(w, "launch", "register") /\ s \in FreeSlots /\ UNCHANGED rec
            /\ procs' = [procs EXCEPT ![s] = [plugin |-> t.plugin, pkg |-> disk[t.plugin][PlaceOf[t.pkg]],
                               alive |-> TRUE, child |-> TRUE, hello |-> FALSE, reader |-> "none"]]
        BY <2>4, <3>2 DEF Launched
      <4>2. s \in ProcIds /\ t.plugin \in Plugins /\ UNCHANGED <<mgr, sd>>
        BY <1>3, <4>1 DEF FreeSlots, Worked, Picked, Moves
      <4>3. procs'[s].pkg = disk[t.plugin][PlaceOf[t.pkg]]
        BY <1>0, <4>1, <4>2
      <4> QED
        BY <4>1, <4>2, <4>3 DEF StartsLaunched, SameStart, Moves, StartPcs
    <3> QED
      BY <3>1, <3>2
  <2>5. CASE Registered(w) \/ Greeted(w)
    BY <2>5 DEF Registered, Greeted, Moves, Keeping, StartsOn, SameStart, StartPcs
  <2> QED
    BY <1>3, <2>1, <2>2, <2>3, <2>4, <2>5 DEF Worked
<1>4. ASSUME NEW v \in Workers, Worked(v), v # w
      PROVE  worker'[w] = worker[w]
  BY <1>4 DEF Worked
<1>5. ASSUME NEW u \in Users, NEW p \in Plugins, Asked(u, p)
      PROVE  worker'[w] = worker[w]
  BY <1>2, <1>5 DEF Asked, Activated
<1>6. CASE Managed
  BY <1>1, <1>6 DEF Managed, Paused1, Invalidated, MgrStopped, Removed, Filed, Rescanned, StartEnded
<1>7. CASE Shuts
  BY <1>1, <1>7 DEF Shuts
<1> QED
  BY <1>1, <1>3, <1>4, <1>5, <1>6, <1>7 DEF Stepped, Called, Operated, Stays

LEMMA StepKeepsBackend ==
  ASSUME InstallsApart, Typed, QueueSound, WithinBudget, TasksBehind, UnknownIsQuiet,
         ChangedIsQuiet, TargetDown, TaskProcs, FilesKnown, BackendOf, Stepped, NoRevival, Typed'
  PROVE  BackendOf'
<1> SUFFICES ASSUME sd'.pc = "no", NEW p \in Plugins
             PROVE  /\ rec'[p].known => \A w \in Workers : LaunchesRight(w, p)'
                    /\ Alive(rec[p].proc)' => procs'[rec'[p].proc].pkg = rec'[p].pkg
  BY DEF BackendOf
<1>0. /\ sd.pc = "no" /\ Open /\ Open' /\ ProcsGoOn
      /\ worker \in [Workers -> Task] /\ rec[p].rev \in Nat /\ rec[p] \in Record
      /\ mgr.pc # "idle" => OperationSound(mgr, procs)
  <2>1. sd.pc = "no"
    BY DEF Stepped, Worked, Asked, Activated, Called, Operated, Managed, Shuts, Stays
  <2> QED
    BY <2>1, StepGoesOn, MgrOf DEF Open, Typed, TasksSound, RecordsSound, Record
<1>1. /\ rec[p].known => \A w \in Workers : LaunchesRight(w, p)
      /\ Alive(rec[p].proc) => procs[rec[p].proc].pkg = rec[p].pkg
  BY <1>0 DEF BackendOf
<1>2. ASSUME rec'[p].known, NEW w \in Workers, worker'[w].pc \in StartPcs, worker'[w].plugin = p,
             worker'[w].rev = rec'[p].rev, SameStart(w)
      PROVE  /\ rec[p].known /\ rec'[p].pkg = rec[p].pkg /\ worker[w].rev = rec[p].rev
             /\ TaskOn(w, p) /\ worker[w].pc \in StartPcs
  <2>1. TaskOn(w, p) /\ worker[w].rev = worker'[w].rev /\ worker[w].pc \in StartPcs
    BY <1>2 DEF SameStart, TaskOn, HasTask, TaskPcs
  <2>2. rec[p].known /\ rec'[p].rev >= rec[p].rev
    <3>1. ASSUME ~rec[p].known, Managed, Rescanned, p = mgr.plugin
          PROVE  FALSE
      <4>1. mgr.kind = "install" /\ mgr.kind \in budget.kinds
        BY <1>0, <3>1 DEF Managed, Rescanned, OperationSound, WithinBudget
      <4> QED
        BY <2>1, <3>1, <4>1 DEF UnknownIsQuiet
    <3> QED
      BY <1>0, <1>2, <3>1, RecordsGrow
  <2>3. worker[w].rev <= rec[p].rev
    BY <1>0, <2>1, <2>2 DEF TasksBehind, Behind
  <2>4. rec'[p].rev = rec[p].rev /\ worker[w].rev = rec[p].rev
    <3>1. rec'[p].rev \in Nat
      BY DEF Typed, RecordsSound, Record
    <3> QED
      BY <1>0, <1>2, <2>1, <2>2, <2>3, <3>1
  <2>5. rec'[p].pkg = rec[p].pkg
    BY <1>0, <1>2, <2>2, <2>4, PackageGoesOn
  <2> QED
    BY <2>1, <2>2, <2>4, <2>5
<1>3. ASSUME rec'[p].known, NEW w \in Workers, worker'[w].pc \in StartPcs, worker'[w].plugin = p,
             worker'[w].rev = rec'[p].rev
      PROVE  /\ worker'[w].pkg = rec'[p].pkg
             /\ worker'[w].pc \in {"register", "hello", "finish"} /\ worker'[w].proc # NoProc
                  => procs'[worker'[w].proc].pkg = rec'[p].pkg
  <2>1. CASE StartsAnew(w)
    BY <1>3, <2>1 DEF StartsAnew
  <2>2. CASE StartsOn(w)
    <3>1. /\ rec[p].known /\ rec'[p].pkg = rec[p].pkg /\ worker[w].rev = rec[p].rev
          /\ TaskOn(w, p) /\ worker[w].pc \in StartPcs
      BY <1>2, <1>3, <2>2 DEF StartsOn
    <3>2. LaunchesRight(w, p) /\ worker[w].plugin = p
      BY <1>1, <3>1 DEF TaskOn
    <3>3. worker'[w].pkg = rec'[p].pkg
      BY <2>2, <3>1, <3>2 DEF StartsOn, SameStart, LaunchesRight
    <3>4. ASSUME worker'[w].pc \in {"register", "hello", "finish"}, worker'[w].proc # NoProc
          PROVE  procs'[worker'[w].proc].pkg = rec'[p].pkg
      <4>1. /\ worker[w].pc \in {"register", "hello", "finish"}
            /\ worker'[w].proc = worker[w].proc /\ worker[w].proc \in ProcIds
        BY <1>0, <2>2, <3>4 DEF StartsOn, Task, Slots
      <4>2. procs[worker[w].proc].pkg = rec[p].pkg
        BY <3>1, <3>2, <3>4, <4>1 DEF LaunchesRight
      <4> QED
        BY <1>0, <3>1, <4>1, <4>2 DEF ProcsGoOn, ProcGoesOn, Referenced
    <3> QED
      BY <3>3, <3>4
  <2>3. CASE StartsLaunched(w)
    <3>1. /\ rec[p].known /\ rec'[p].pkg = rec[p].pkg /\ worker[w].rev = rec[p].rev
          /\ TaskOn(w, p) /\ worker[w].pc \in StartPcs
      BY <1>2, <1>3, <2>3 DEF StartsLaunched
    <3>2. LaunchesRight(w, p) /\ worker[w].plugin = p
      BY <1>1, <3>1 DEF TaskOn
    <3>3. worker[w].pkg = rec[p].pkg /\ worker'[w].pkg = rec'[p].pkg
      BY <2>3, <3>1, <3>2 DEF StartsLaunched, SameStart, LaunchesRight
    <3>4. att[p] # None
      BY <1>0, <3>1, CurrentHolds DEF QueueSound
    <3>5. ~FilesOut(p)
      <4> SUFFICES ASSUME FilesOut(p) PROVE FALSE
        OBVIOUS
      <4>1. mgr.plugin = p /\ mgr.pc \in {"place", "refresh", "refreshBack", "forget"}
        BY DEF FilesOut
      <4>2. mgr.kind \in {"install", "uninstall"}
        BY <1>0, <4>1 DEF OperationSound, WithinBudget, Operation, AllOps
      <4> QED
        BY <3>4, <4>1, <4>2 DEF ChangedIsQuiet, Changing
    <3>6. InPlace(p)
      BY <1>0, <3>1, <3>5 DEF FilesKnown
    <3>7. procs'[worker'[w].proc].pkg = rec'[p].pkg
      BY <2>3, <3>1, <3>2, <3>3, <3>6 DEF StartsLaunched, InPlace
    <3> QED
      BY <3>3, <3>7
  <2> QED
    BY <1>3, <2>1, <2>2, <2>3, StartsGoOnWith
<1>4. ASSUME Alive(rec[p].proc)'
      PROVE  procs'[rec'[p].proc].pkg = rec'[p].pkg
  <2>1. rec'[p].proc \in ProcIds
    BY <1>4 DEF Alive, Typed, RecordsSound, Record, Slots
  <2>2. CASE rec'[p].proc = rec[p].proc
    <3>1. Alive(rec[p].proc)
      BY <1>4, <2>2, AliveBefore
    <3>2. procs'[rec'[p].proc].pkg = rec[p].pkg
      BY <1>0, <1>1, <2>1, <2>2, <3>1 DEF ProcsGoOn, ProcGoesOn, Referenced
    <3>3. rec'[p].pkg = rec[p].pkg
      <4>1. ASSUME Managed, Rescanned, p = mgr.plugin
            PROVE  FALSE
        BY <1>0, <3>1, <4>1 DEF Managed, Rescanned, OperationSound, TargetDown
      <4>2. CASE rec[p].known /\ rec'[p].known
        BY <1>0, <4>1, <4>2, PackageGoesOn
      <4>3. CASE rec[p].known /\ ~rec'[p].known
        <5>1. mgr.pc = "forget"
          BY <4>3, RecordsForgotten
        <5>2. Managed
          BY <4>3, <5>1, PackagesStay, <1>0 DEF SamePackages, Shuts, Open
        <5>3. rec'[mgr.plugin] = Unknown /\ \A q \in Plugins \ {mgr.plugin} : rec'[q] = rec[q]
          BY <5>1, <5>2 DEF Managed, Paused1, Invalidated, MgrStopped, Removed, Filed, Rescanned,
             StartEnded, Only
        <5>4. rec'[p] = Unknown
          BY <4>3, <5>3
        <5> QED
          BY <2>1, <5>4 DEF Unknown, ProcIds, NoProc
      <4>4. CASE ~rec[p].known /\ rec'[p].known
        BY <1>0, <4>1, <4>4, RecordsGrow
      <4>5. CASE ~rec[p].known /\ ~rec'[p].known
        BY <4>5 DEF Typed, RecordsSound, RecordSound
      <4> QED
        BY <4>2, <4>3, <4>4, <4>5
    <3> QED
      BY <3>2, <3>3
  <2>3. CASE rec'[p].proc # rec[p].proc
    <3>1. PICK w \in Workers :
           /\ Worked(w) /\ Same(p) /\ Current(rec[p], worker[w]) /\ rec[p].runtime = "Starting"
           /\ HasTask(w) /\ worker[w].plugin = p /\ rec'[p].proc = worker[w].proc
           /\ \/ Moves(w, "register", "hello") /\ Keeping(w)
              \/ Moves(w, "finish", "succeeded")
      BY <1>0, <1>4, <2>3, RecordedBy
    <3>2. /\ rec[p].known /\ worker[w].rev = rec[p].rev /\ worker[w].pc \in {"register", "finish"}
          /\ rec'[p].pkg = rec[p].pkg /\ worker[w].proc # NoProc
      BY <2>1, <3>1 DEF Current, Moves, Same, ProcIds, NoProc
    <3>3. procs[worker[w].proc].pkg = rec[p].pkg
      BY <1>1, <3>1, <3>2 DEF LaunchesRight, StartPcs
    <3> QED
      BY <1>0, <2>1, <3>1, <3>2, <3>3 DEF ProcsGoOn, ProcGoesOn, Referenced
  <2> QED
    BY <2>2, <2>3
<1>5. rec'[p].known => \A w \in Workers : LaunchesRight(w, p)'
  BY <1>3 DEF LaunchesRight
<1> QED
  BY <1>4, <1>5

(* A child that can be stopped, of a backend that keeps to the protocol.   *)
LEMMA ChildGoesOn ==
  ASSUME Typed, Stepped, ~Fault("stop"), ~Fault("garbage"), NEW s \in ProcIds, procs'[s].child
  PROVE  \/ \E w \in Workers : worker'[w].proc = s /\ procs'[s].alive /\ procs'[s].reader = "none"
         \/ /\ procs[s].child
            /\ procs[s].alive => procs'[s].alive
            /\ procs[s].reader \in {"none", "reading"} => procs'[s].reader \in {"none", "reading"}
<1>0. /\ procs \in [ProcIds -> Process]
      /\ mgr.pc # "idle" => OperationSound(mgr, procs)
  BY MgrOf DEF Typed, ProcsTyped
<1> DEFINE Lives(i) == /\ procs[i].child
                       /\ procs[i].alive => procs'[i].alive
                       /\ procs[i].reader \in {"none", "reading"}
                            => procs'[i].reader \in {"none", "reading"}
<1>1. ASSUME procs'[s] = procs[s]
      PROVE  Lives(s)
  BY <1>1
<1>2. ASSUME NEW i \in ProcIds, StopAnyway(i)
      PROVE  Lives(s)
  <2> DEFINE x == [procs[i] EXCEPT !.alive = FALSE, !.child = FALSE]
  <2>1. ~x.child
    BY <1>0 DEF Process
  <2>2. procs' = [procs EXCEPT ![i] = x]
    BY <1>2 DEF StopAnyway, StopFails, Stopped
  <2> HIDE DEF x
  <2> QED
    BY <1>0, <1>1, <2>1, <2>2
<1>3. ASSUME NEW w \in Workers, Worked(w)
      PROVE  \/ worker'[w].proc = s /\ procs'[s].alive /\ procs'[s].reader = "none"
             \/ Lives(s)
  <2> DEFINE i == worker[w].proc
  <2>1. CASE PreviousStopped(w) \/ ProcStopped(w)
    BY <1>2, <2>1 DEF PreviousStopped, ProcStopped, StopFails, StopAnyway
  <2>2. CASE Launched(w)
    <3> DEFINE n == worker'[w].proc
               x == [plugin |-> worker[w].plugin,
                     pkg |-> disk[worker[w].plugin][PlaceOf[worker[w].pkg]],
                     alive |-> TRUE, child |-> TRUE, hello |-> FALSE, reader |-> "none"]
    <3>1. UNCHANGED procs \/ (n \in ProcIds /\ procs' = [procs EXCEPT ![n] = x])
      BY <2>2 DEF Launched, FreeSlots
    <3> QED
      BY <1>0, <1>1, <3>1
  <2>3. CASE Registered(w) \/ Greeted(w)
    <3>1. i \in ProcIds /\ procs[i] \in Process
      BY <1>0, <2>3 DEF Registered, Greeted
    <3>2. UNCHANGED procs \/ \E x : /\ procs' = [procs EXCEPT ![i] = x]
               /\ x \in {[procs[i] EXCEPT !.reader = "reading"], [procs[i] EXCEPT !.hello = TRUE]}
      BY <2>3 DEF Registered, Greeted
    <3>3. ASSUME NEW x \in {[procs[i] EXCEPT !.reader = "reading"], [procs[i] EXCEPT !.hello = TRUE]},
                 procs' = [procs EXCEPT ![i] = x]
          PROVE  Lives(s)
      <4>1. /\ x.child = procs[i].child /\ x.alive = procs[i].alive
            /\ x.reader = procs[i].reader \/ x.reader = "reading"
        BY <3>1 DEF Process
      <4> QED
        BY <1>0, <1>1, <3>1, <3>3, <4>1
    <3> QED
      BY <1>1, <3>2, <3>3
  <2> QED
    BY <1>1, <1>3, <2>1, <2>2, <2>3 DEF Worked, Picked, Began, Finished, Completed
<1>4. ASSUME NEW i \in ProcIds, Read(i) \/ ChildDies(i)
      PROVE  Lives(s)
  <2>1. procs[i] \in Process
    BY <1>0
  <2>2. CASE Reap(i)
    BY <1>2, <2>2 DEF Reap, Killed, StopAnyway
  <2>3. CASE ChildDies(i)
    <3> DEFINE x == [procs[i] EXCEPT !.child = FALSE]
    <3>1. ~x.child /\ procs' = [procs EXCEPT ![i] = x]
      BY <2>1, <2>3 DEF ChildDies, Process
    <3> HIDE DEF x
    <3> QED
      BY <1>0, <1>1, <3>1
  <2>4. CASE ReaderEnds(i)
    <3> DEFINE x == [procs[i] EXCEPT !.alive = FALSE, !.reader = "ended"]
    <3>1. x.child = procs[i].child /\ procs' = [procs EXCEPT ![i] = x] /\ ~procs[i].child
      BY <2>1, <2>4 DEF ReaderEnds, Process
    <3> HIDE DEF x
    <3> QED
      BY <1>0, <1>1, <3>1
  <2>5. CASE ProcessExited(i)
    <3> DEFINE x == [procs[i] EXCEPT !.reader = "gone"]
    <3>1. /\ x.child = procs[i].child /\ x.alive = procs[i].alive
          /\ procs' = [procs EXCEPT ![i] = x] /\ procs[i].reader = "ended"
      BY <2>1, <2>5 DEF ProcessExited, Process
    <3> HIDE DEF x
    <3> QED
      BY <1>0, <1>1, <3>1
  <2> QED
    BY <1>4, <2>2, <2>3, <2>4, <2>5 DEF Read
<1>5. CASE Managed
  <2>1. CASE MgrStopped
    <3>1. UNCHANGED procs \/ (mgr.proc \in ProcIds /\ procs' = Stopped(mgr.proc))
      BY <1>0, <1>5, <2>1 DEF Managed, MgrStopped, OperationSound, Operation, Slots, StopFails
    <3> QED
      BY <1>1, <1>2, <3>1 DEF StopAnyway
  <2> QED
    BY <1>1, <1>5, <2>1 DEF Managed, Paused1, Invalidated, Removed, Filed, Rescanned, StartEnded
<1>6. CASE Shuts
  BY <1>1, <1>2, <1>6 DEF Shuts
<1>7. \/ \E w \in Workers : worker'[w].proc = s /\ procs'[s].alive /\ procs'[s].reader = "none"
      \/ Lives(s)
  BY <1>1, <1>3, <1>4, <1>5, <1>6 DEF Stepped, Asked, Activated, Called, Operated, Stays
<1> QED
  BY <1>7

(* Whoever holds a child hands it on, or stops it.                         *)
LEMMA RecordHands ==
  ASSUME InstallsApart, Typed, QueueSound, KeptDown, WithinBudget, TasksBehind, StarterOwns,
         TargetDown, Stepped, ~Fault("stop"), "install" \in budget.kinds, sd'.pc = "no",
         NEW p \in Plugins, NEW s \in ProcIds, rec[p].proc = s, procs[s].alive,
         procs[s].reader \in {"none", "reading"}
  PROVE  rec'[p].proc = s \/ (mgr'.proc = s /\ mgr'.pc = "invalidate")
<1>0. /\ sd.pc = "no" /\ Open /\ Alive(rec[p].proc) /\ "uninstall" \notin budget.kinds
      /\ mgr.pc # "idle" => OperationSound(mgr, procs)
  <2>1. sd.pc = "no"
    BY DEF Stepped, Worked, Asked, Activated, Called, Operated, Managed, Shuts, Stays
  <2> QED
    BY <2>1, Apart, MgrOf DEF Open, Alive, ProcIds, NoProc
<1>1. ASSUME NEW w \in Workers, Worked(w)
      PROVE  rec'[p].proc = s
  <2>1. ASSUME HasTask(w), worker[w].plugin = p, Current(rec[p], worker[w]),
               rec[p].runtime = "Starting"
        PROVE  OwnsProc(w, p)
    <3>1. PICK v \in Workers : OwnsProc(v, p) /\ Holds(v, p)
      BY <1>0, <2>1, OwnerHolds
    <3>2. Holds(w, p)
      BY <1>0, <2>1, RecorderHolds
    <3> QED
      BY <3>1, <3>2 DEF QueueSound
  <2>2. CASE Began(w)
    BY <1>0, <2>2 DEF Began, Only
  <2>3. CASE PreviousStopped(w)
    BY <2>3 DEF PreviousStopped, StopFails, Moves
  <2>4. CASE Registered(w)
    BY <1>1, <2>1, <2>4 DEF Worked, Registered, Only, Moves, OwnsProc, HasTask, TaskPcs, StartPcs
  <2>5. CASE Finished(w)
    BY <1>1, <2>1, <2>5 DEF Worked, Finished, Only, Moves, OwnsProc, StillStarting, HasTask, TaskPcs,
       StartPcs
  <2> QED
    BY <1>1, <2>2, <2>3, <2>4, <2>5 DEF Worked, Picked, Launched, Greeted, ProcStopped, Completed
<1>2. ASSUME NEW q \in Plugins, Operated(q)
      PROVE  rec'[p].proc = s \/ (mgr'.proc = s /\ mgr'.pc = "invalidate")
  BY <1>2 DEF Operated, Enabled, Disabled, Installs, Only
<1>3. CASE Managed
  <2>1. CASE Paused1
    <3>1. CASE p = mgr.plugin
      BY <2>1, <3>1 DEF Paused1, Continues
    <3>2. CASE p # mgr.plugin
      BY <2>1, <3>2 DEF Paused1, Only
    <3> QED
      BY <3>1, <3>2
  <2>2. CASE MgrStopped
    BY <2>2 DEF MgrStopped, Only, StopFails
  <2>3. CASE Removed
    BY <1>0, <1>3, <2>3 DEF Managed, Removed, WithinBudget, OperationSound, Operation, AllOps
  <2>4. CASE Rescanned
    <3>1. mgr.kind = "install" /\ mgr.pc \in {"refresh", "refreshBack"}
      BY <1>0, <1>3, <2>4 DEF Managed, Rescanned, OperationSound
    <3>2. p # mgr.plugin
      BY <1>0, <3>1 DEF TargetDown
    <3>3. ASSUME rec'[p] = Scanned(rec[p], rec[p].pkg), rec[p].known
          PROVE  rec'[p].proc = rec[p].proc
      BY <1>0, <3>3 DEF Scanned, Keeps
    <3> QED
      BY <2>4, <3>2, <3>3 DEF Rescanned, ScannedTo
  <2> QED
    BY <1>3, <2>1, <2>2, <2>3, <2>4 DEF Managed, Invalidated, Filed, StartEnded
<1>4. ASSUME NEW i \in ProcIds, procs[i].plugin \in Plugins, Exited(procs[i].plugin),
             rec[procs[i].plugin].proc = i, procs[i].reader = "ended"
      PROVE  rec'[p].proc = s
  <2>1. i # s
    BY <1>4
  <2>2. p # procs[i].plugin
    BY <1>4, <2>1
  <2> QED
    BY <1>4, <2>2 DEF Exited, Only
<1> QED
  BY <1>0, <1>1, <1>2, <1>3, <1>4 DEF Stepped, Asked, Activated, Called, Shuts, Stays

LEMMA WorkerHands ==
  ASSUME Typed, TaskProcs, Stepped, ~Fault("stop"),
         NEW w \in Workers, NEW s \in ProcIds, worker[w].proc = s, procs[s].alive, procs'[s].child
  PROVE  worker'[w].proc = s \/ \E p \in Plugins : rec'[p].proc = s
<1>0. /\ worker \in [Workers -> Task] /\ procs \in [ProcIds -> Process] /\ s # NoProc
  BY DEF Typed, TasksSound, ProcsTyped, ProcIds, NoProc
<1>1. worker[w].pc \notin {"off", "pick", "begin", "launch", "succeeded", "failed"}
  BY <1>0 DEF TaskProcs
<1>2. ASSUME worker'[w] = worker[w] \/ worker'[w] = [worker[w] EXCEPT !.cancelled = TRUE]
      PROVE  worker'[w].proc = s
  BY <1>0, <1>2 DEF Task
<1>3. ASSUME procs' = Stopped(s)
      PROVE  FALSE
  <2> DEFINE x == [procs[s] EXCEPT !.alive = FALSE, !.child = FALSE]
  <2>1. ~x.child /\ procs' = [procs EXCEPT ![s] = x]
    BY <1>0, <1>3 DEF Process, Stopped
  <2> HIDE DEF x
  <2> QED
    BY <1>0, <2>1
<1>4. ASSUME Worked(w)
      PROVE  worker'[w].proc = s \/ \E p \in Plugins : rec'[p].proc = s
  <2>1. CASE PreviousStopped(w) \/ ProcStopped(w)
    BY <1>3, <2>1 DEF PreviousStopped, ProcStopped, StopFails, StopAnyway
  <2>2. CASE Finished(w)
    <3>1. worker[w].plugin \in Plugins
      BY <1>4, <2>2 DEF Worked, Picked, Finished, Moves
    <3>2. Alive(worker[w].proc)
      BY <1>0 DEF Alive
    <3>3. worker'[w].proc = s \/ rec'[worker[w].plugin].proc = s
      BY <2>2, <3>2 DEF Finished, Keeping
    <3> QED
      BY <3>1, <3>3
  <2> QED
    BY <1>1, <1>4, <2>1, <2>2 DEF Worked, Picked, Began, Launched, Registered, Greeted, Completed, Moves,
       Keeping
<1>5. ASSUME NEW v \in Workers, Worked(v), v # w
      PROVE  worker'[w] = worker[w]
  BY <1>5 DEF Worked
<1>6. ASSUME NEW u \in Users, NEW p \in Plugins, Asked(u, p)
      PROVE  worker'[w] = worker[w]
  BY <1>1, <1>6 DEF Asked, Activated
<1>7. CASE Managed
  BY <1>2, <1>7 DEF Managed, Paused1, Invalidated, MgrStopped, Removed, Filed, Rescanned, StartEnded
<1>8. CASE Shuts
  BY <1>2, <1>8 DEF Shuts
<1> QED
  BY <1>2, <1>4, <1>5, <1>6, <1>7, <1>8 DEF Stepped, Called, Operated, Stays

LEMMA ManagerHands ==
  ASSUME Typed, Stepped, ~Fault("stop"), NEW s \in ProcIds, mgr.proc = s,
         mgr.pc \in {"invalidate", "stop"}, procs'[s].child
  PROVE  mgr'.proc = s /\ mgr'.pc \in {"invalidate", "stop"}
<1>0. procs \in [ProcIds -> Process] /\ s # NoProc
  BY DEF Typed, ProcsTyped, ProcIds, NoProc
<1>1. ASSUME procs' = Stopped(s)
      PROVE  FALSE
  <2> DEFINE x == [procs[s] EXCEPT !.alive = FALSE, !.child = FALSE]
  <2>1. ~x.child /\ procs' = [procs EXCEPT ![s] = x]
    BY <1>0, <1>1 DEF Process, Stopped
  <2> HIDE DEF x
  <2> QED
    BY <1>0, <2>1
<1>2. CASE Managed
  <2>1. CASE Invalidated
    BY <1>0, <2>1 DEF Invalidated, Continues
  <2>2. CASE MgrStopped
    BY <1>0, <1>1, <2>2 DEF MgrStopped, StopFails
  <2> QED
    BY <1>2, <2>1, <2>2 DEF Managed, Paused1, Removed, Filed, Rescanned, StartEnded
<1> QED
  BY <1>2 DEF Stepped, Worked, Asked, Called, Operated, Shuts, Stays

LEMMA StepKeepsChildren ==
  ASSUME InstallsApart, StopsWork, Typed, QueueSound, KeptDown, WithinBudget, TasksBehind,
         StarterOwns, TargetDown, TaskProcs, ChildrenHeld, Stepped, BudgetKept
  PROVE  ChildrenHeld'
<1> SUFFICES ASSUME "install" \in budget.kinds, sd'.pc = "no", NEW s \in ProcIds, procs'[s].child
             PROVE  procs'[s].alive /\ procs'[s].reader \in {"none", "reading"} /\ Held(s)'
  BY DEF ChildrenHeld, BudgetKept
<1>1. sd.pc = "no" /\ ~Fault("stop") /\ ~Fault("garbage")
  BY DEF Stepped, Worked, Asked, Activated, Called, Operated, Managed, Shuts, Stays, StopsWork,
     WithinBudget, Fault
<1>2. ASSUME NEW w \in Workers, worker'[w].proc = s, procs'[s].alive, procs'[s].reader = "none"
      PROVE  procs'[s].alive /\ procs'[s].reader \in {"none", "reading"} /\ Held(s)'
  BY <1>2 DEF Held
<1>3. ASSUME procs[s].child,
             procs[s].alive => procs'[s].alive,
             procs[s].reader \in {"none", "reading"} => procs'[s].reader \in {"none", "reading"}
      PROVE  procs'[s].alive /\ procs'[s].reader \in {"none", "reading"} /\ Held(s)'
  <2>1. procs[s].alive /\ procs[s].reader \in {"none", "reading"} /\ Held(s)
    BY <1>1, <1>3 DEF ChildrenHeld
  <2>2. ASSUME NEW p \in Plugins, rec[p].proc = s
        PROVE  Held(s)'
    BY <1>1, <2>1, <2>2, RecordHands DEF Held
  <2>3. ASSUME NEW w \in Workers, worker[w].proc = s
        PROVE  Held(s)'
    BY <1>1, <2>1, <2>3, WorkerHands DEF Held
  <2>4. ASSUME mgr.proc = s, mgr.pc \in {"invalidate", "stop"}
        PROVE  Held(s)'
    BY <1>1, <2>4, ManagerHands DEF Held
  <2>5. Held(s)'
    BY <2>1, <2>2, <2>3, <2>4 DEF Held
  <2> QED
    BY <1>3, <2>1, <2>5
<1> QED
  BY <1>1, <1>2, <1>3, ChildGoesOn

LEMMA InitFiles == Init => FilesKnown /\ BackendOf /\ ChildrenHeld
<1> SUFFICES ASSUME Init PROVE FilesKnown /\ BackendOf /\ ChildrenHeld
  OBVIOUS
<1>1. /\ procs = [s \in ProcIds |-> NoProcess] /\ worker = [w \in Workers |-> Off] /\ mgr = IdleMgr
  BY DEF Init
<1>2. Typed /\ \A p \in Plugins : rec[p].proc = NoProc
  BY InitHostInv, InitProcs DEF HostInv
<1>3. BackendOf /\ ChildrenHeld
  BY <1>1, <1>2 DEF BackendOf, LaunchesRight, ChildrenHeld, Alive, Off, StartPcs, NoProcess
<1>4. ManagerKnows
  BY <1>1 DEF ManagerKnows, IdleMgr, AllOps
<1>5. ASSUME NEW p \in Plugins, rec[p].known
      PROVE  InPlace(p)
  <2> DEFINE k == CHOOSE j \in Packages : \E l \in Places : disk[p][l] = j
  <2>1. PICK e \in [Plugins -> BOOLEAN] :
        rec = [q \in Plugins |->
                IF \A l \in Places : disk[q][l] = None THEN Unknown
                ELSE [Unknown EXCEPT !.known = TRUE, !.enabled = e[q],
                        !.pkg = CHOOSE j \in Packages : \E l \in Places : disk[q][l] = j]]
    BY DEF Init
  <2>2. ~\A l \in Places : disk[p][l] = None
    BY <1>5, <2>1 DEF Unknown
  <2>3. rec[p].pkg = k
    <3> DEFINE b == e[p]
    <3>1. rec[p] = [Unknown EXCEPT !.known = TRUE, !.enabled = b, !.pkg = k]
      BY <2>1, <2>2
    <3> HIDE DEF k, b
    <3> QED
      BY <3>1 DEF Unknown
  <2>4. PICK j \in Packages : disk[p] = [l \in Places |-> IF l = PlaceOf[j] THEN j ELSE None]
    <3>1. budget.packages \subseteq Packages
      BY DEF Init, Budget
    <3>2. disk[p] \in {[l \in Places |-> IF l = PlaceOf[j] THEN j ELSE None] :
                             j \in budget.packages} \cup {[l \in Places |-> None]}
      BY DEF Init
    <3>3. disk[p] # [l \in Places |-> None]
      BY <2>2
    <3> QED
      BY <3>1, <3>2, <3>3
  <2>5. PlaceOf[j] \in Places /\ disk[p][PlaceOf[j]] = j
    BY <2>4 DEF Places
  <2>6. k = j
    <3>1. \E i \in Packages : \E l \in Places : disk[p][l] = i
      BY <2>5
    <3>2. k \in Packages /\ \E l \in Places : disk[p][l] = k
      BY <3>1
    <3>3. k # None
      BY <3>2
    <3> HIDE DEF k
    <3> QED
      BY <2>4, <3>2, <3>3
  <2> QED
    BY <2>3, <2>5, <2>6 DEF InPlace
<1> QED
  BY <1>3, <1>4, <1>5 DEF FilesKnown

(* While nothing is installed beside a restoration or a removal, and every *)
(* child can be stopped and keeps to the protocol while something is: a    *)
(* running plugin that nobody is busy with executes the package that its   *)
(* directory holds, and when the installer puts the old files back the     *)
(* backend it started has exited.                                          *)
THEOREM BackendsMatch ==
  ASSUME InstallsApart, StopsWork PROVE Spec => []BackendMatchesFiles
<1> DEFINE Inv == /\ HostInv /\ BackendInv /\ TaskProcs /\ FilesKnown /\ BackendOf /\ ChildrenHeld
<1>1. Init => Inv
  BY InitHostInv, InitBackendInv, InitHands, InitFiles
<1>2. Inv /\ [Next]_vars => Inv'
  <2> SUFFICES ASSUME HostInv, BackendInv, TaskProcs, FilesKnown, BackendOf, ChildrenHeld, [Next]_vars
               PROVE  /\ HostInv' /\ BackendInv' /\ TaskProcs' /\ FilesKnown' /\ BackendOf'
                      /\ ChildrenHeld'
    OBVIOUS
  <2>1. HostInv' /\ Typed /\ QueueSound /\ KeptDown /\ Typed'
    BY NextHostInv DEF HostInv
  <2>2. BackendInv'
    BY <2>1, StepKeepsBackendInv
  <2>3. Stepped /\ NoRevival
    BY <2>1, NextEffects, NextRevivesNone
  <2>4. BudgetKept
    BY <2>3 DEF Stepped, Worked, Asked, Called, Operated, Managed, Shuts, Stays, BudgetKept
  <2>5. /\ WithinBudget /\ TasksBehind /\ UnknownIsQuiet /\ ChangedIsQuiet /\ StarterOwns /\ TargetDown
    BY DEF BackendInv, TargetQuiet
  <2>6. TaskProcs' /\ FilesKnown'
    BY <2>1, <2>3, <2>5, StepKeepsTaskProcs, StepKeepsFiles
  <2>7. BackendOf'
    BY <2>1, <2>3, <2>5, StepKeepsBackend
  <2>8. ChildrenHeld'
    BY <2>1, <2>3, <2>4, <2>5, StepKeepsChildren
  <2> QED
    BY <2>1, <2>2, <2>6, <2>7, <2>8
<1>3. Inv => BackendMatchesFiles
  <2> SUFFICES ASSUME HostInv, BackendInv, TaskProcs, FilesKnown, BackendOf, ChildrenHeld
               PROVE  BackendMatchesFiles
    OBVIOUS
  <2>1. Typed /\ QueueSound /\ KeptDown /\ WithinBudget /\ ChangedIsQuiet /\ TargetDown
    BY DEF HostInv, BackendInv, TargetQuiet
  <2>2. RunsInstalledPackage
    <3>1. ASSUME NEW p \in Plugins, mgr.plugin # p, ~ShuttingDown,
                 rec[p].runtime = "Running", Alive(rec[p].proc)
          PROVE  procs[rec[p].proc].pkg = rec[p].pkg /\ rec[p].pkg = disk[p][PlaceOf[rec[p].pkg]]
      <4>1. sd.pc = "no" /\ rec[p].known
        BY <2>1, <3>1 DEF ShuttingDown, KeptDown, MustBeDown, Typed, RecordsSound, RecordSound
      <4> QED
        BY <3>1, <4>1 DEF BackendOf, FilesKnown, FilesOut, InPlace
    <3> QED
      BY <3>1 DEF RunsInstalledPackage
  <2>3. OwnStartHasExited
    <3>1. ASSUME mgr.pc = "rollback", ~ShuttingDown, NEW s \in ProcIds, procs[s].child,
                 procs[s].plugin = mgr.plugin
          PROVE  \E w \in Workers : worker[w].cancelled /\ worker[w].proc = s
      <4> DEFINE p == mgr.plugin
      <4>1. /\ mgr.kind = "install" /\ mgr.kind \in budget.kinds /\ p \in Plugins /\ Open
            /\ sd.pc = "no" /\ s # NoProc
        BY <2>1, <3>1, MgrOf DEF OperationSound, WithinBudget, ShuttingDown, Open, ProcIds, NoProc
      <4>2. procs[s].alive /\ Held(s)
        BY <3>1, <4>1 DEF ChildrenHeld
      <4>3. ~\E q \in Plugins : rec[q].proc = s
        <5>1. ASSUME NEW q \in Plugins, rec[q].proc = s
              PROVE  FALSE
          <6>1. q = p
            BY <2>1, <3>1, <4>1, <5>1 DEF Typed, RecordsSound, RecordSound
          <6> QED
            BY <2>1, <3>1, <4>1, <4>2, <5>1, <6>1 DEF TargetDown, Alive
        <5> QED
          BY <5>1
      <4>4. PICK w \in Workers : worker[w].proc = s
        BY <3>1, <4>2, <4>3 DEF Held
      <4>5. worker[w].pc \in TaskPcs /\ worker[w].plugin = p
        <5>1. worker[w] \in Task /\ TaskSound(worker[w], procs)
          BY <2>1 DEF Typed, TasksSound
        <5>2. worker[w].pc \notin {"off", "pick"}
          BY <4>1, <4>4 DEF TaskProcs
        <5> QED
          BY <3>1, <4>1, <4>4, <5>1, <5>2 DEF Task, TaskSound
      <4>6. ~Holds(w, p)
        BY <2>1, <3>1, <4>1 DEF ChangedIsQuiet, Changing, QueueSound
      <4> QED
        BY <4>4, <4>5, <4>6 DEF Holds, HasTask
    <3> QED
      BY <3>1 DEF OwnStartHasExited
  <2> QED
    BY <2>2, <2>3 DEF BackendMatchesFiles
<1> HIDE DEF Inv
<1> QED
  BY <1>1, <1>2, <1>3, PTL DEF Spec

================================================================================
