------------------------------- MODULE PluginHost -------------------------------
(***************************************************************************)
(* The plugin host of plugin_manager.rs: plugin records, the activation    *)
(* queue and its two workers (plugin_activation.rs), child processes and   *)
(* their reader threads (plugin_runtime.rs), the management operations,    *)
(* the admission gate of a Core upgrade, and shutdown.                     *)
(*                                                                         *)
(* One action is one critical section of the code (a held state, queue or  *)
(* admission lock), one system call, or a wait that ended.  Between any    *)
(* two of them every other thread may run.                                 *)
(***************************************************************************)
EXTENDS Integers, Sequences, FiniteSets, SequencesExt

CONSTANTS
  Plugins,
  Packages,    \* package contents
  PlaceOf,     \* the version directory, and contract, of a package
  Callers,     \* threads in a plugin call
  Restorers,   \* background threads of schedule_restore
  Manager,     \* the thread holding the management mutex
  Workers,     \* activation workers; two in the code
  None,
  MaxProcs,    \* bound: process objects at a time
  Budgets      \* bounds, one of which a behaviour keeps: the plugins and packages
               \* there are, who uses them and how often, the management
               \* operations and how many of them, what may go wrong

Places == {PlaceOf[k] : k \in Packages}
Users == Callers \cup Restorers \cup {Manager}

AllOps == {"enable", "disable", "uninstall", "install"}
AllFaults == {"launch",     \* the backend does not start
              "hello",      \* the handshake times out or does not match
              "die",        \* a child exits by itself
              "garbage",    \* a child breaks the protocol and stays alive
              "stop",       \* a child cannot be stopped
              "files",      \* the package cannot be replaced or removed
              "thread"}     \* no thread for an activation worker

Budget == [plugins : SUBSET Plugins, packages : SUBSET Packages,
           users : SUBSET (Callers \cup Restorers), calls : Nat,
           kinds : SUBSET AllOps, operations : Nat, faults : SUBSET AllFaults]

(* An attempt is known by its plugin: the queue holds one per plugin, and  *)
(* one that leaves it is cancelled or complete.                            *)
Attempt == [rev : Nat, background : BOOLEAN]

ASSUME ConstantsAssumption ==
  /\ PlaceOf \in [Packages -> Places]
  /\ None \notin Plugins \cup Packages \cup AllOps \cup Attempt
  /\ Manager \notin Callers \cup Restorers
  /\ Callers \cap Restorers = {}
  /\ Workers # {}
  /\ Budgets \subseteq Budget
  /\ MaxProcs \in Nat \ {0}

VARIABLES
  rec,       \* state.plugins
  disk,      \* installed package by plugin and version directory
  procs,     \* process objects
  att,       \* queue.attempts
  pending,   \* queue.pending
  closed,    \* queue.closed
  worker,    \* activation worker threads
  user,      \* threads that wait for an activation or are in a call
  mgr,       \* the management operation in progress
  sd,        \* shutdown: its step and the processes it has yet to stop
  frozen,    \* admission.frozen
  budget     \* what the bound has left

queue == <<att, pending, closed>>
vars  == <<rec, disk, procs, att, pending, closed, worker, user, mgr, sd, frozen,
           budget>>

--------------------------------------------------------------------------------
(* State.                                                                  *)

NoProc == 0
ProcIds == 1..MaxProcs
Slots == ProcIds \cup {NoProc}

Runtimes == {"Stopped", "Starting", "Running", "Stopping", "Failed"}
Unknown == [known |-> FALSE, enabled |-> FALSE, runtime |-> "Stopped", rev |-> 0,
            proc |-> NoProc, pkg |-> None]

(* child: the operating-system process runs; alive: the flag of            *)
(* PluginProcess; hello: the handshake was accepted; reader: its stdout    *)
(* reader, before registration, reading, at its end, or gone.              *)
Readers == {"none", "reading", "ended", "gone"}
NoProcess == [plugin |-> None, pkg |-> None, alive |-> FALSE, child |-> FALSE,
              hello |-> FALSE, reader |-> "none"]

StartPcs == {"stopPrevious", "launch", "register", "hello", "reject", "finish"}
TaskPcs == {"begin", "discard", "succeeded", "failed"} \cup StartPcs
Off == [pc |-> "off", plugin |-> None, rev |-> 0, cancelled |-> FALSE,
        proc |-> NoProc, pkg |-> None]

UserPcs == {"idle", "enter", "wait", "ok", "err", "call"}
IdleUser == [pc |-> "idle", plugin |-> None, proc |-> NoProc]

MgrPcs == {"idle", "pause", "invalidate", "stop", "remove", "forget", "unlink",
           "place", "refresh", "start", "starting", "rollback", "refreshBack",
           "restart", "restarting"}
IdleMgr == [kind |-> None, plugin |-> None, pc |-> "idle", proc |-> NoProc,
            was |-> FALSE, old |-> None, new |-> None, had |-> None]

SdPcs == {"no", "close", "take", "stopping", "done"}

Record == [known : BOOLEAN, enabled : BOOLEAN, runtime : Runtimes, rev : Nat,
           proc : Slots, pkg : Packages \cup {None}]
Process == [plugin : Plugins \cup {None}, pkg : Packages \cup {None}, alive : BOOLEAN,
            child : BOOLEAN, hello : BOOLEAN, reader : Readers]
Task == [pc : {"off", "pick"} \cup TaskPcs, plugin : Plugins \cup {None}, rev : Nat,
         cancelled : BOOLEAN, proc : Slots, pkg : Packages \cup {None}]
User == [pc : UserPcs, plugin : Plugins \cup {None}, proc : Slots]
Operation == [kind : AllOps \cup {None}, plugin : Plugins \cup {None}, pc : MgrPcs,
              proc : Slots, was : BOOLEAN, old : Packages \cup {None},
              new : Packages \cup {None}, had : Packages \cup {None}]

TypeOK ==
  /\ rec \in [Plugins -> Record]
  /\ \A p \in Plugins : /\ rec[p].known <=> rec[p].pkg # None
                        /\ rec[p].proc # NoProc => procs[rec[p].proc].plugin = p
  /\ disk \in [Plugins -> [Places -> Packages \cup {None}]]
  /\ procs \in [ProcIds -> Process]
  /\ att \in [Plugins -> Attempt \cup {None}]
  /\ pending \in Seq(Plugins) /\ IsInjective(pending)
  /\ closed \in BOOLEAN /\ frozen \in BOOLEAN
  /\ worker \in [Workers -> Task]
  /\ user \in [Users -> User]
  /\ mgr \in Operation
  /\ sd \in [pc : SdPcs, procs : SUBSET ProcIds]
  /\ budget \in Budget

Fault(f) == f \in budget.faults
ShuttingDown == sd.pc # "no"
Alive(s) == s # NoProc /\ procs[s].alive

(* An Arc<PluginProcess> is held for s.                                    *)
Referenced(s) ==
  \/ \E p \in Plugins : rec[p].proc = s
  \/ \E w \in Workers : worker[w].proc = s
  \/ \E u \in Users : user[u].proc = s
  \/ mgr.proc = s
  \/ s \in sd.procs
  \/ procs[s].reader = "ended"

Dead(s) == ~procs[s].child /\ procs[s].reader # "reading"
FreeSlots == {s \in ProcIds : Dead(s) /\ ~Referenced(s)}

HasTask(w) == worker[w].pc \in TaskPcs

(* lifecycle.pause: the target of an installation or a removal.            *)
Paused(p) == /\ mgr.plugin = p
             /\ mgr.kind \in {"install", "uninstall"}
             /\ mgr.pc # "pause"

(* Who holds a PluginWorkGuard: a call, a waiter, a queued attempt, a      *)
(* worker's attempt, a management operation.                               *)
Active ==
  \/ \E u \in Users : user[u].pc # "idle"
  \/ \E p \in Plugins : att[p] # None
  \/ \E w \in Workers : HasTask(w)
  \/ mgr.pc # "idle"

(* load: one scan; a plugin is installed, with either choice, or absent.   *)
Init ==
  /\ budget \in Budgets
  /\ disk \in [Plugins -> {[l \in Places |-> IF l = PlaceOf[k] THEN k ELSE None] :
                             k \in budget.packages} \cup {[l \in Places |-> None]}]
  /\ \A p \in Plugins \ budget.plugins : disk[p] = [l \in Places |-> None]
  /\ \E e \in [Plugins -> BOOLEAN] :
       rec = [p \in Plugins |->
                IF \A l \in Places : disk[p][l] = None THEN Unknown
                ELSE [Unknown EXCEPT !.known = TRUE, !.enabled = e[p],
                        !.pkg = CHOOSE k \in Packages : \E l \in Places : disk[p][l] = k]]
  /\ procs = [s \in ProcIds |-> NoProcess]
  /\ att = [p \in Plugins |-> None]
  /\ pending = <<>>
  /\ closed = FALSE
  /\ worker = [w \in Workers |-> Off]
  /\ user = [u \in Users |-> IdleUser]
  /\ mgr = IdleMgr
  /\ sd = [pc |-> "no", procs |-> {}]
  /\ frozen = FALSE

--------------------------------------------------------------------------------
(* Processes.                                                              *)

(* PluginProcess::stop, and its result.  The handle is dead at once; the   *)
(* child is gone unless the system would not kill it in time.              *)
Stopped(s) == [procs EXCEPT ![s] = [@ EXCEPT !.alive = FALSE, !.child = FALSE]]
Unstopped(s) == [procs EXCEPT ![s].alive = FALSE]
StopFails(s) == Fault("stop") /\ procs[s].child

(* A stop whose result the code ignores.                                   *)
StopAnyway(s) == \/ procs' = Stopped(s)
                 \/ StopFails(s) /\ procs' = Unstopped(s)

ChildDies(s) ==
  /\ Fault("die")
  /\ procs[s].child
  /\ procs' = [procs EXCEPT ![s].child = FALSE]
  /\ UNCHANGED <<rec, disk, queue, worker, user, mgr, sd, frozen, budget>>

(* protocol_ended: the reader met the end of stdout or a protocol error.   *)
ReaderEnds(s) ==
  /\ procs[s].reader = "reading"
  /\ ~procs[s].child \/ Fault("garbage")
  /\ procs' = [procs EXCEPT ![s] = [@ EXCEPT !.alive = FALSE, !.reader = "ended"]]
  /\ UNCHANGED <<rec, disk, queue, worker, user, mgr, sd, frozen, budget>>

(* What a plugin is shown as when its process has exited.                  *)
WithoutProc(runtime) ==
  CASE runtime = "Starting" -> "Starting"
    [] runtime \in {"Stopping", "Stopped"} -> "Stopped"
    [] OTHER -> "Failed"

(* process_exited: the record forgets this process, and no other.          *)
ProcessExited(s) ==
  LET p == procs[s].plugin IN
  /\ procs[s].reader = "ended"
  /\ procs' = [procs EXCEPT ![s].reader = "gone"]
  /\ rec' = IF rec[p].proc # s THEN rec
            ELSE [rec EXCEPT ![p] = [@ EXCEPT !.proc = NoProc,
                                         !.runtime = WithoutProc(rec[p].runtime)]]
  /\ UNCHANGED <<disk, queue, worker, user, mgr, sd, frozen, budget>>

(* Drop of the last reference kills the child.                             *)
MutLeavesChild(s) == Unstopped(s)     \* mutant: the child is left to itself
Killed(s) == Stopped(s)

Reap(s) ==
  /\ procs[s].child
  /\ ~Referenced(s)
  /\ procs' = Killed(s)
  /\ UNCHANGED <<rec, disk, queue, worker, user, mgr, sd, frozen, budget>>

--------------------------------------------------------------------------------
(* The activation queue.                                                   *)

(* How a thread waiting for p goes on with the result: a process, or       *)
(* NoProc for an error.                                                    *)
Answer(u, p, s) ==
  CASE u = Manager ->
         [pc |-> IF s = NoProc THEN "err" ELSE "ok", plugin |-> p, proc |-> NoProc]
    [] u \in Callers /\ s # NoProc -> [pc |-> "ok", plugin |-> p, proc |-> s]
    [] OTHER -> IdleUser

Waits(p) == [pc |-> "wait", plugin |-> p, proc |-> NoProc]
MutAnswered(us, ps, s) ==     \* mutant: one of the waiting threads is woken
  LET W == {u \in Users : us[u].pc = "wait" /\ us[u].plugin \in ps} IN
  [u \in Users |-> IF W # {} /\ u = CHOOSE v \in W : TRUE
                   THEN Answer(u, us[u].plugin, s) ELSE us[u]]
Answered(us, ps, s) ==
  [u \in Users |-> IF us[u].pc = "wait" /\ us[u].plugin \in ps
                   THEN Answer(u, us[u].plugin, s) ELSE us[u]]

(* The queue without its attempt of p, if it holds one.                    *)
Position(q, p) == CHOOSE i \in 1..Len(q) : q[i] = p
Without(q, p) == IF Contains(q, p) THEN RemoveAt(q, Position(q, p)) ELSE q

(* The queue after activate: a new attempt goes to the front if someone    *)
(* uses the plugin and to the back if it is only restored; a use advances  *)
(* a queued restoration.                                                   *)
Queued(p, background) ==
  IF att[p] = None
  THEN IF background THEN Append(pending, p) ELSE <<p>> \o pending
  ELSE IF ~background /\ att[p].background /\ Contains(pending, p)
       THEN <<p>> \o Without(pending, p) ELSE pending

(* When no worker can be started and none runs, everything queued fails.   *)
Enqueue(u, p, background) ==
  LET q == Queued(p, background)
      off == {w \in Workers : worker[w].pc = "off"}
      asked == [user EXCEPT ![u] = Waits(p)]
      entered == IF att[p] # None THEN att
                 ELSE [att EXCEPT ![p] = [rev |-> rec[p].rev, background |-> background]]
      failed == ToSet(q)
  IN
  /\ rec' = [rec EXCEPT ![p].runtime = IF @ = "Failed" THEN "Stopped" ELSE @]
  /\ \/ /\ \/ off = {} \/ q = <<>>
           \/ off # Workers /\ Fault("thread")
        /\ att' = entered /\ pending' = q /\ user' = asked
        /\ UNCHANGED worker
     \/ /\ q # <<>>
        /\ \E w \in off : worker' = [worker EXCEPT ![w] = [Off EXCEPT !.pc = "pick"]]
        /\ att' = entered /\ pending' = q /\ user' = asked
     \/ /\ q # <<>> /\ off = Workers /\ Fault("thread")
        /\ att' = [x \in Plugins |-> IF x \in failed THEN None ELSE entered[x]]
        /\ pending' = <<>>
        /\ user' = Answered(asked, failed, NoProc)
        /\ UNCHANGED worker

MutServesStarting(r) == Alive(r.proc)     \* mutant: its handshake may be pending
Serving(r) == r.runtime = "Running" /\ Alive(r.proc)

(* activate.  A refused or satisfied request does not touch the queue; a   *)
(* request that was admitted just before shutdown began still may.         *)
Activate(u, p, retry, background) ==
  LET r == rec[p]
      refused == \/ frozen \/ closed \/ ~r.known \/ ~r.enabled
                 \/ r.runtime = "Stopping"
                 \/ r.runtime = "Failed" /\ ~retry
      Told(s) == /\ user' = [user EXCEPT ![u] = Answer(u, p, s)]
                 /\ UNCHANGED <<rec, att, pending, worker>>
  IN
  /\ \/ (ShuttingDown \/ refused) /\ Told(NoProc)
     \/ ~refused /\ Serving(r) /\ Told(r.proc)
     \/ ~refused /\ ~Serving(r) /\ Enqueue(u, p, background)
  /\ UNCHANGED <<disk, procs, closed, sd, frozen>>

(* invalidate: the attempt of p leaves the queue cancelled.                *)
Cancelled(p) ==
  [w \in Workers |-> IF HasTask(w) /\ worker[w].plugin = p /\ att[p] # None
                     THEN [worker[w] EXCEPT !.cancelled = TRUE] ELSE worker[w]]

Invalidate(p) ==
  /\ att' = [att EXCEPT ![p] = None]
  /\ pending' = Without(pending, p)
  /\ worker' = Cancelled(p)
  /\ user' = Answered(user, {p}, NoProc)
  /\ UNCHANGED closed

--------------------------------------------------------------------------------
(* The activation workers: run, with spawn_one and PluginProcess::start.   *)

Goto(w, pc) == [worker EXCEPT ![w].pc = pc]
Drop(w, pc) == [worker EXCEPT ![w] = [@ EXCEPT !.pc = pc, !.proc = NoProc]]

Pick(w) ==
  /\ worker[w].pc = "pick"
  /\ IF closed \/ pending = <<>>
     THEN worker' = [worker EXCEPT ![w] = Off] /\ UNCHANGED pending
     ELSE /\ worker' = [worker EXCEPT ![w] = [Off EXCEPT !.pc = "begin",
                          !.plugin = Head(pending), !.rev = att[Head(pending)].rev]]
          /\ pending' = Tail(pending)
  /\ UNCHANGED <<rec, disk, procs, att, closed, user, mgr, sd, frozen, budget>>

(* run checks the cancellation once, at any time since it took the attempt;*)
(* then the first critical section of spawn_one.                           *)
Current(r, t) == r.known /\ r.rev = t.rev

Begin(w) ==
  LET t == worker[w]
      p == t.plugin
      r == rec[p]
      refused == \/ ShuttingDown \/ ~Current(r, t)
                 \/ r.runtime \in {"Stopping", "Starting"}
                 \/ ~r.enabled
  IN
  /\ t.pc = "begin"
  /\ \/ (t.cancelled \/ refused) /\ worker' = Goto(w, "failed") /\ UNCHANGED rec
     \/ ~refused /\ Alive(r.proc) /\ worker' = Goto(w, "succeeded") /\ UNCHANGED rec
     \/ /\ ~refused /\ ~Alive(r.proc)
        /\ rec' = [rec EXCEPT ![p] = [r EXCEPT !.runtime = "Starting", !.rev = r.rev + 1,
                                               !.proc = NoProc]]
        /\ worker' = [worker EXCEPT ![w] =
                        [t EXCEPT !.rev = r.rev + 1, !.pkg = r.pkg, !.proc = r.proc,
                           !.pc = IF r.proc = NoProc THEN "launch" ELSE "stopPrevious"]]
  /\ UNCHANGED <<disk, procs, queue, user, mgr, sd, frozen, budget>>

StopPrevious(w) ==
  LET t == worker[w] IN
  /\ t.pc = "stopPrevious"
  /\ \/ /\ procs' = Stopped(t.proc)
        /\ worker' = Drop(w, "launch")
        /\ UNCHANGED rec
     \/ /\ StopFails(t.proc)
        /\ procs' = Unstopped(t.proc)
        /\ rec' = IF ~rec[t.plugin].known THEN rec
                  ELSE [rec EXCEPT ![t.plugin] =
                          [@ EXCEPT !.proc = t.proc, !.runtime = "Failed"]]
        /\ worker' = Drop(w, "failed")
  /\ UNCHANGED <<disk, queue, user, mgr, sd, frozen, budget>>

(* start is one expression to spawn_one: an error of it reaches the last   *)
(* critical section like a process does.                                   *)
MutReturnsEarly == "failed"     \* mutant: the error leaves spawn_one at once
NotStarted == "finish"

(* Command::spawn runs what the version directory of the snapshot holds.   *)
Launch(w) ==
  LET t == worker[w]
      k == disk[t.plugin][PlaceOf[t.pkg]]
  IN
  /\ t.pc = "launch"
  /\ \/ /\ k = None \/ Fault("launch")
        /\ worker' = Goto(w, NotStarted)
        /\ UNCHANGED procs
     \/ /\ k # None
        /\ \E s \in FreeSlots :
             /\ \A i \in FreeSlots : s <= i
             /\ procs' = [procs EXCEPT ![s] =
                           [plugin |-> t.plugin, pkg |-> k, alive |-> TRUE,
                            child |-> TRUE, hello |-> FALSE, reader |-> "none"]]
             /\ worker' = [worker EXCEPT ![w] = [t EXCEPT !.pc = "register", !.proc = s]]
  /\ UNCHANGED <<rec, disk, queue, user, mgr, sd, frozen, budget>>

(* register_starting_process, then the pipe threads.                       *)
Register(w) ==
  LET t == worker[w]
      r == rec[t.plugin]
  IN
  /\ t.pc = "register"
  /\ IF Current(r, t) /\ r.enabled /\ r.runtime = "Starting" /\ ~ShuttingDown
     THEN /\ rec' = [rec EXCEPT ![t.plugin].proc = t.proc]
          /\ procs' = [procs EXCEPT ![t.proc].reader = "reading"]
          /\ worker' = Goto(w, "hello")
     ELSE worker' = Goto(w, "reject") /\ UNCHANGED <<rec, procs>>
  /\ UNCHANGED <<disk, queue, user, mgr, sd, frozen, budget>>

Hello(w) ==
  LET s == worker[w].proc IN
  /\ worker[w].pc = "hello"
  /\ \/ /\ procs[s].child /\ procs[s].reader = "reading"
        /\ procs' = [procs EXCEPT ![s].hello = TRUE]
        /\ worker' = Goto(w, "finish")
     \/ /\ ~procs[s].child \/ procs[s].reader # "reading" \/ Fault("hello")
        /\ worker' = Goto(w, "reject")
        /\ UNCHANGED procs
  /\ UNCHANGED <<rec, disk, queue, user, mgr, sd, frozen, budget>>

(* StartupGuard: a backend that was not accepted is stopped.               *)
MutNoGuard(s) == UNCHANGED procs     \* mutant: it is only dropped
StartupGuard(s) == StopAnyway(s)

Reject(w) ==
  /\ worker[w].pc = "reject"
  /\ StartupGuard(worker[w].proc)
  /\ worker' = Drop(w, NotStarted)
  /\ UNCHANGED <<rec, disk, queue, user, mgr, sd, frozen, budget>>

(* The last critical section of spawn_one; no process is an error of start.*)
MutFinishesStale(r, t) == r.known     \* mutant: a stale result is accepted
StillStarting(r, t) ==
  /\ Current(r, t) /\ r.runtime = "Starting" /\ r.enabled /\ ~ShuttingDown
  /\ PlaceOf[r.pkg] = PlaceOf[t.pkg]

Finish(w) ==
  LET t == worker[w]
      p == t.plugin
  IN
  /\ t.pc = "finish"
  /\ \/ /\ ~StillStarting(rec[p], t)
        /\ worker' = Goto(w, IF t.proc = NoProc THEN "failed" ELSE "discard")
        /\ UNCHANGED rec
     \/ /\ StillStarting(rec[p], t) /\ Alive(t.proc)
        /\ rec' = [rec EXCEPT ![p] = [@ EXCEPT !.runtime = "Running", !.proc = t.proc]]
        /\ worker' = Drop(w, "succeeded")
     \/ /\ StillStarting(rec[p], t) /\ ~Alive(t.proc)
        /\ rec' = [rec EXCEPT ![p].runtime = "Failed"]
        /\ worker' = Drop(w, "failed")
  /\ UNCHANGED <<disk, procs, queue, user, mgr, sd, frozen, budget>>

Discard(w) ==
  /\ worker[w].pc = "discard"
  /\ StopAnyway(worker[w].proc)
  /\ worker' = Drop(w, "failed")
  /\ UNCHANGED <<rec, disk, queue, user, mgr, sd, frozen, budget>>

(* The result is handed to everyone waiting, unless it was cancelled.      *)
Complete(w) ==
  LET t == worker[w]
      r == rec[t.plugin]
      result == IF t.pc = "succeeded" /\ Alive(r.proc) THEN r.proc ELSE NoProc
  IN
  /\ t.pc \in {"succeeded", "failed"}
  /\ IF t.cancelled THEN UNCHANGED <<att, user>>
     ELSE /\ att' = [att EXCEPT ![t.plugin] = None]
          /\ user' = Answered(user, {t.plugin}, result)
  /\ worker' = [worker EXCEPT ![w] = [Off EXCEPT !.pc = "pick"]]
  /\ UNCHANGED <<rec, disk, procs, pending, closed, mgr, sd, frozen, budget>>

--------------------------------------------------------------------------------
(* Calls and background restorations.                                      *)

Calls(u) ==
  /\ u \in budget.users /\ budget.calls > 0
  /\ budget' = [budget EXCEPT !.calls = @ - 1]

(* call_with_parent_context and prepare_ui: begin_work, then enter_call.   *)
EnterCall(c, p) ==
  /\ user[c].pc = "idle"
  /\ Calls(c)
  /\ ~frozen /\ ~ShuttingDown /\ ~Paused(p)
  /\ user' = [user EXCEPT ![c] = [pc |-> "enter", plugin |-> p, proc |-> NoProc]]
  /\ UNCHANGED <<rec, disk, procs, queue, worker, mgr, sd, frozen>>

CallActivates(c) ==
  /\ user[c].pc = "enter"
  /\ \E retry \in BOOLEAN : Activate(c, user[c].plugin, retry, FALSE)
  /\ UNCHANGED <<mgr, budget>>

(* The caller's deadline passed or it cancelled its call.                  *)
GiveUp(c) ==
  /\ user[c].pc = "wait"
  /\ user' = [user EXCEPT ![c] = IdleUser]
  /\ UNCHANGED <<rec, disk, procs, queue, worker, mgr, sd, frozen, budget>>

(* The request is written only to the process the record still names.      *)
MayDispatch(r, s) == r.known /\ r.enabled /\ r.proc = s

Dispatch(c) ==
  LET s == user[c].proc IN
  /\ user[c].pc = "ok"
  /\ user' = [user EXCEPT ![c] = IF MayDispatch(rec[user[c].plugin], s) /\ Alive(s)
                                 THEN [@ EXCEPT !.pc = "call"] ELSE IdleUser]
  /\ UNCHANGED <<rec, disk, procs, queue, worker, mgr, sd, frozen, budget>>

EndCall(c) ==
  /\ user[c].pc = "call"
  /\ user' = [user EXCEPT ![c] = IdleUser]
  /\ UNCHANGED <<rec, disk, procs, queue, worker, mgr, sd, frozen, budget>>

(* schedule_restore activates without entering a call.                     *)
Restore(u, p) ==
  /\ user[u].pc = "idle"
  /\ Calls(u)
  /\ Activate(u, p, FALSE, TRUE)
  /\ UNCHANGED mgr

--------------------------------------------------------------------------------
(* Management operations, one at a time.                                   *)

Operate(kind, p) ==
  /\ mgr.pc = "idle"
  /\ kind \in budget.kinds
  /\ budget.operations > 0
  /\ ~frozen /\ ~ShuttingDown
  /\ budget' = [budget EXCEPT !.operations = @ - 1]

Continue(pc) == mgr' = [mgr EXCEPT !.pc = pc]
OpEnds == mgr' = IdleMgr

(* set_enabled(true), and the start it may ask for.                        *)
Enable(p) ==
  /\ Operate("enable", p)
  /\ rec[p].known /\ rec[p].runtime # "Stopping"
  /\ rec' = [rec EXCEPT ![p].enabled = TRUE]
  /\ mgr' \in {IdleMgr, [IdleMgr EXCEPT !.kind = "enable", !.plugin = p, !.pc = "start"]}
  /\ UNCHANGED <<disk, procs, queue, worker, user, sd, frozen>>

(* set_enabled(false) and uninstall: from here on p is disabled.           *)
Disable(kind, p) ==
  /\ Operate(kind, p)
  /\ rec[p].known /\ rec[p].runtime # "Stopping"
  /\ rec' = [rec EXCEPT ![p] = [rec[p] EXCEPT !.enabled = FALSE, !.runtime = "Stopping",
                                              !.rev = rec[p].rev + 1, !.proc = NoProc]]
  /\ mgr' = [IdleMgr EXCEPT !.kind = kind, !.plugin = p, !.pc = "invalidate",
                            !.proc = rec[p].proc]
  /\ UNCHANGED <<disk, procs, queue, worker, user, sd, frozen>>

(* install_transaction_locked: refused while the plugin is starting.       *)
Install(p, k) ==
  /\ Operate("install", p)
  /\ rec[p].known => rec[p].runtime # "Starting"
  /\ mgr' = [IdleMgr EXCEPT !.kind = "install", !.plugin = p, !.pc = "pause",
                            !.old = rec[p].pkg, !.new = k]
  /\ UNCHANGED <<rec, disk, procs, queue, worker, user, sd, frozen>>

(* pause, refused while calls are in progress, then stop_for_reinstall.    *)
InCall(p) == \E c \in Callers : user[c].pc # "idle" /\ user[c].plugin = p

Pause ==
  LET p == mgr.plugin
      r == rec[p]
  IN
  /\ mgr.pc = "pause"
  /\ \/ /\ InCall(p) \/ (r.known /\ (r.runtime = "Stopping" \/ ShuttingDown))
        /\ OpEnds
        /\ UNCHANGED rec
     \/ /\ ~InCall(p) /\ ~r.known
        /\ Continue("unlink")
        /\ UNCHANGED rec
     \/ /\ ~InCall(p) /\ r.known /\ r.runtime # "Stopping"
        /\ rec' = [rec EXCEPT ![p] =
                     [r EXCEPT !.rev = r.rev + 1, !.proc = NoProc,
                        !.runtime = IF r.proc = NoProc THEN "Stopped" ELSE "Stopping"]]
        /\ mgr' = [mgr EXCEPT !.pc = "invalidate", !.proc = r.proc,
                     !.was = r.runtime = "Running" /\ Alive(r.proc)]
  /\ UNCHANGED <<disk, procs, queue, worker, user, sd, frozen, budget>>

MgrInvalidate ==
  /\ mgr.pc = "invalidate"
  /\ Invalidate(mgr.plugin)
  /\ Continue(IF mgr.kind = "install" /\ mgr.proc = NoProc THEN "unlink" ELSE "stop")
  /\ UNCHANGED <<rec, disk, procs, sd, frozen, budget>>

(* stop of the process taken from the record, and what follows it.         *)
MgrStop ==
  LET p == mgr.plugin
      s == mgr.proc
  IN
  /\ mgr.pc = "stop"
  /\ \/ /\ procs' = IF s = NoProc THEN procs ELSE Stopped(s)
        /\ rec' = IF mgr.kind = "uninstall" THEN rec
                  ELSE [rec EXCEPT ![p].runtime = "Stopped"]
        /\ CASE mgr.kind = "disable" -> OpEnds
             [] mgr.kind = "uninstall" -> mgr' = [mgr EXCEPT !.pc = "remove", !.proc = NoProc]
             [] mgr.kind = "install" -> mgr' = [mgr EXCEPT !.pc = "unlink", !.proc = NoProc]
     \/ /\ s # NoProc /\ StopFails(s)
        /\ procs' = Unstopped(s)
        /\ rec' = [rec EXCEPT ![p] = [@ EXCEPT !.proc = s, !.runtime = "Failed"]]
        /\ OpEnds
  /\ UNCHANGED <<disk, queue, worker, user, sd, frozen, budget>>

(* The rest of uninstall: the package, then the record.                    *)
RemovePackage ==
  LET p == mgr.plugin IN
  /\ mgr.pc = "remove"
  /\ \/ /\ disk' = [disk EXCEPT ![p] = [l \in Places |-> None]]
        /\ Continue("forget")
        /\ UNCHANGED rec
     \/ /\ Fault("files")
        /\ rec' = [rec EXCEPT ![p].runtime = "Stopped"]
        /\ OpEnds
        /\ UNCHANGED disk
  /\ UNCHANGED <<procs, queue, worker, user, sd, frozen, budget>>

ForgetPlugin ==
  /\ mgr.pc = "forget"
  /\ rec' = [rec EXCEPT ![mgr.plugin] = Unknown]
  /\ OpEnds
  /\ UNCHANGED <<disk, procs, queue, worker, user, sd, frozen, budget>>

(* The package files change in two renames.                                *)
Put(k) == disk' = [disk EXCEPT ![mgr.plugin][PlaceOf[mgr.new]] = k]

Unlink ==
  /\ mgr.pc = "unlink"
  /\ mgr' = [mgr EXCEPT !.pc = "place", !.had = disk[mgr.plugin][PlaceOf[mgr.new]]]
  /\ Put(None)
  /\ UNCHANGED <<rec, procs, queue, worker, user, sd, frozen, budget>>

Place ==
  /\ mgr.pc = "place"
  /\ \/ Put(mgr.new) /\ Continue("refresh")
     \/ /\ Fault("files")
        /\ Put(mgr.had)
        /\ IF mgr.was THEN Continue("restart") ELSE OpEnds
  /\ UNCHANGED <<rec, procs, queue, worker, user, sd, frozen, budget>>

(* refresh_with_install scans every plugin and rebuilds every record.  A   *)
(* live process in an unchanged directory is taken over as Running.        *)
Keeps(r, k) == r.known /\ PlaceOf[k] = PlaceOf[r.pkg] /\ Alive(r.proc)

Scanned(r, k) ==
  [known |-> TRUE, pkg |-> k,
   enabled |-> IF r.known THEN r.enabled ELSE TRUE,
   rev     |-> IF r.known THEN r.rev + 1 ELSE 0,
   proc    |-> IF Keeps(r, k) THEN r.proc ELSE NoProc,
   runtime |-> IF Keeps(r, k) THEN "Running" ELSE "Stopped"]

Refreshed(k) ==
  [q \in Plugins |-> IF q = mgr.plugin THEN Scanned(rec[q], k)
                     ELSE IF rec[q].known THEN Scanned(rec[q], rec[q].pkg) ELSE rec[q]]

(* After a scan the target is started if it ran before, and may be if its  *)
(* lifecycle wants it restored.                                            *)
AfterScan(enabled, starting) ==
  \/ enabled /\ Continue(starting)
  \/ ~(enabled /\ mgr.was) /\ OpEnds

Refresh ==
  /\ mgr.pc = "refresh"
  /\ \/ /\ rec' = Refreshed(mgr.new)
        /\ AfterScan(Refreshed(mgr.new)[mgr.plugin].enabled, "start")
        /\ UNCHANGED disk
     \/ /\ ShuttingDown
        /\ Put(mgr.had)
        /\ OpEnds
        /\ UNCHANGED rec
  /\ UNCHANGED <<procs, queue, worker, user, sd, frozen, budget>>

MgrActivates(from, to) ==
  /\ mgr.pc = from
  /\ Activate(Manager, mgr.plugin, TRUE, FALSE)
  /\ Continue(to)
  /\ UNCHANGED <<budget>>

Start == MgrActivates("start", "starting")
Restart == MgrActivates("restart", "restarting")

(* A replacement that does not start is rolled back.                       *)
StartEnds ==
  /\ mgr.pc \in {"starting", "restarting"}
  /\ user[Manager].pc \in {"ok", "err"}
  /\ user' = [user EXCEPT ![Manager] = IdleUser]
  /\ IF /\ mgr.pc = "starting" /\ mgr.kind = "install"
        /\ user[Manager].pc = "err" /\ mgr.old # None
     THEN Continue("rollback") ELSE OpEnds
  /\ UNCHANGED <<rec, disk, procs, queue, worker, sd, frozen, budget>>

Rollback ==
  /\ mgr.pc = "rollback"
  /\ Put(mgr.had)
  /\ Continue("refreshBack")
  /\ UNCHANGED <<rec, procs, queue, worker, user, sd, frozen, budget>>

RefreshBack ==
  /\ mgr.pc = "refreshBack"
  /\ \/ /\ rec' = Refreshed(mgr.old)
        /\ AfterScan(Refreshed(mgr.old)[mgr.plugin].enabled, "restart")
     \/ /\ ShuttingDown
        /\ OpEnds
        /\ UNCHANGED rec
  /\ UNCHANGED <<disk, procs, queue, worker, user, sd, frozen, budget>>

Management ==
  \/ Pause \/ MgrInvalidate \/ MgrStop \/ RemovePackage \/ ForgetPlugin
  \/ Unlink \/ Place \/ Refresh \/ Start \/ Restart \/ StartEnds
  \/ Rollback \/ RefreshBack

--------------------------------------------------------------------------------
(* Core upgrade and shutdown.                                              *)

(* begin_upgrade, under the admission and the state lock.                  *)
BeginUpgrade ==
  /\ ~frozen
  /\ ~Active
  /\ \A p \in Plugins : rec[p].runtime \notin {"Starting", "Stopping"}
  /\ frozen' = TRUE
  /\ UNCHANGED <<rec, disk, procs, queue, worker, user, mgr, sd, budget>>

EndUpgrade ==
  /\ frozen
  /\ frozen' = FALSE
  /\ UNCHANGED <<rec, disk, procs, queue, worker, user, mgr, sd, budget>>

BeginShutdown ==
  /\ sd.pc = "no"
  /\ sd' = [sd EXCEPT !.pc = "close"]
  /\ UNCHANGED <<rec, disk, procs, queue, worker, user, mgr, frozen, budget>>

(* close: every attempt is cancelled and every waiter is told.             *)
CloseQueue ==
  /\ sd.pc = "close"
  /\ closed' = TRUE
  /\ att' = [p \in Plugins |-> None]
  /\ pending' = <<>>
  /\ worker' = [w \in Workers |-> IF HasTask(w)
                  THEN [worker[w] EXCEPT !.cancelled = TRUE] ELSE worker[w]]
  /\ user' = Answered(user, Plugins, NoProc)
  /\ sd' = [sd EXCEPT !.pc = "take"]
  /\ UNCHANGED <<rec, disk, procs, mgr, frozen, budget>>

TakeProcesses ==
  /\ sd.pc = "take"
  /\ sd' = [pc |-> "stopping", procs |-> {rec[p].proc : p \in Plugins} \ {NoProc}]
  /\ rec' = [p \in Plugins |->
               IF ~rec[p].known THEN rec[p]
               ELSE [rec[p] EXCEPT !.rev = @ + 1, !.runtime = "Stopped", !.proc = NoProc]]
  /\ UNCHANGED <<disk, procs, queue, worker, user, mgr, frozen, budget>>

StopTaken ==
  /\ sd.pc = "stopping"
  /\ \/ \E s \in sd.procs : StopAnyway(s) /\ sd' = [sd EXCEPT !.procs = @ \ {s}]
     \/ sd.procs = {} /\ sd' = [sd EXCEPT !.pc = "done"] /\ UNCHANGED procs
  /\ UNCHANGED <<rec, disk, queue, worker, user, mgr, frozen, budget>>

Shutdown == CloseQueue \/ TakeProcesses \/ StopTaken

--------------------------------------------------------------------------------
Work(w) == \/ Pick(w) \/ Begin(w) \/ StopPrevious(w) \/ Launch(w) \/ Register(w)
           \/ Hello(w) \/ Reject(w) \/ Finish(w) \/ Discard(w) \/ Complete(w)

Read(s) == ReaderEnds(s) \/ ProcessExited(s) \/ Reap(s)

Next ==
  \/ \E w \in Workers : Work(w)
  \/ \E s \in ProcIds : (Read(s) \/ ChildDies(s))
  \/ \E c \in Callers : \/ \E p \in budget.plugins : EnterCall(c, p)
                        \/ CallActivates(c) \/ GiveUp(c) \/ Dispatch(c) \/ EndCall(c)
  \/ \E u \in Restorers, p \in budget.plugins : Restore(u, p)
  \/ \E p \in budget.plugins : \/ Enable(p)
                               \/ \E kind \in {"disable", "uninstall"} : Disable(kind, p)
                               \/ \E k \in budget.packages : Install(p, k)
  \/ Management
  \/ BeginUpgrade \/ EndUpgrade
  \/ BeginShutdown \/ Shutdown

(* Threads of the host keep running, and a call whose process died is      *)
(* answered (fail_pending).  Calls, operations, faults, upgrades, what a   *)
(* backend answers and the decision to shut down are the environment's.    *)
Spec ==
  /\ Init /\ [][Next]_vars
  /\ \A w \in Workers : WF_vars(Work(w))
  /\ \A c \in Callers : /\ WF_vars(CallActivates(c)) /\ WF_vars(Dispatch(c))
                        /\ WF_vars(~Alive(user[c].proc) /\ EndCall(c))
  /\ \A s \in ProcIds : /\ WF_vars(~procs[s].child /\ ReaderEnds(s))
                        /\ WF_vars(ProcessExited(s)) /\ WF_vars(Reap(s))
  /\ WF_vars(Management) /\ WF_vars(Shutdown)

--------------------------------------------------------------------------------
(* Properties.                                                             *)

(* No plugin is stuck in a transition: whatever was cancelled, refreshed   *)
(* or removed meanwhile, a plugin that is Starting has a worker that will  *)
(* still record the result, and one that is Stopping has a manager that    *)
(* will.  Nobody else may change either state, so a plugin that lost its   *)
(* owner would refuse every later operation as busy.  Shutdown resets both.*)
TransitionsOwned ==
  \A p \in Plugins :
    /\ rec[p].runtime = "Starting" =>
         \/ sd.pc \in {"close", "take"}
         \/ \E w \in Workers : /\ worker[w].pc \in StartPcs
                               /\ worker[w].plugin = p /\ worker[w].rev = rec[p].rev
    /\ rec[p].runtime = "Stopping" =>
         mgr.plugin = p /\ mgr.pc \in {"invalidate", "stop", "remove", "forget"}

(* Nobody waits for an attempt that no worker will complete: an attempt    *)
(* is queued or held by exactly one worker, a queue that is not empty has  *)
(* a worker, and a waiting thread has an attempt.                          *)
QueueServed ==
  /\ \A p \in Plugins :
       LET holders == {w \in Workers : /\ HasTask(w) /\ worker[w].plugin = p
                                       /\ ~worker[w].cancelled}
       IN Cardinality(holders) + (IF Contains(pending, p) THEN 1 ELSE 0)
            = IF att[p] = None THEN 0 ELSE 1
  /\ pending # <<>> => \E w \in Workers : worker[w].pc # "off"
  /\ \A u \in Users : user[u].pc = "wait" => att[user[u].plugin] # None

(* Neither a plugin nor a thread waits for something that nobody will do.  *)
NobodyStranded == TransitionsOwned /\ QueueServed

(* While a Core upgrade holds the freeze nothing is starting, stopping,    *)
(* queued or called, and nothing can begin.                                *)
FrozenIsQuiet ==
  frozen => /\ \A p \in Plugins : rec[p].runtime \notin {"Starting", "Stopping"}
            /\ pending = <<>>
            /\ \A w \in Workers : ~HasTask(w)
            /\ \A u \in Users : user[u].pc = "idle"

(* A plugin the user disabled or removed never starts or runs again, even  *)
(* when an activation was in flight: only a process that could not be      *)
(* stopped stays with its record.                                          *)
DisabledStaysDown ==
  \A p \in Plugins : ~rec[p].enabled =>
    /\ rec[p].runtime \in {"Stopping", "Stopped", "Failed"}
    /\ ~Alive(rec[p].proc)

(* A call is only ever made of a backend whose handshake was accepted, and *)
(* a plugin shown as Running has one (plugin_manager.rs:597: the owner of  *)
(* the activation records the handshake result).                           *)
RunningIsHandshaken ==
  /\ \A p \in Plugins : ~ShuttingDown /\ rec[p].runtime = "Running" /\ Alive(rec[p].proc)
                          => procs[rec[p].proc].hello
  /\ \A u \in Users : user[u].pc = "call" => procs[user[u].proc].hello

(* When neither the manager nor a worker is busy with it, a running plugin *)
(* executes the package that is installed.                                 *)
RunsInstalledPackage ==
  \A p \in Plugins :
    /\ mgr.plugin # p /\ ~ShuttingDown
    /\ \A w \in Workers : worker[w].plugin # p
    /\ rec[p].runtime = "Running" /\ Alive(rec[p].proc)
    => LET k == procs[rec[p].proc].pkg IN k = rec[p].pkg /\ k = disk[p][PlaceOf[k]]

(* StartupGuard (plugin_runtime.rs:301): when the installer puts the old   *)
(* files back, the backend it started has exited.  Only a start that was   *)
(* cancelled before, and is still to notice it, may hold another.          *)
OwnStartHasExited ==
  mgr.pc = "rollback" /\ ~ShuttingDown =>
    \A s \in ProcIds : procs[s].child /\ procs[s].plugin = mgr.plugin
      => \E w \in Workers : worker[w].cancelled /\ worker[w].proc = s

(* Once shutdown took the processes no plugin starts again.                *)
ShutdownIsFinal ==
  sd.pc \in {"stopping", "done"} =>
    \A p \in Plugins : rec[p].runtime \notin {"Starting", "Running"}

(* What was switched off stays off: under a freeze, when the plugin is     *)
(* disabled or removed, and after a shutdown, whatever was in flight.      *)
StaysDown == FrozenIsQuiet /\ DisabledStaysDown /\ ShutdownIsFinal

(* An installation and its rollback end with a backend of the package that *)
(* is in its directory, and none of the package that was there meanwhile.  *)
BackendMatchesFiles == RunsInstalledPackage /\ OwnStartHasExited

(* Every thread that waits for an activation is answered, without relying  *)
(* on its deadline.                                                        *)
WaitersAnswered == \A u \in Users : (user[u].pc = "wait") ~> (user[u].pc # "wait")

(* Disabling, removing or shutting down ends every child process, those    *)
(* that were just being started included.                                  *)
ChildrenExit ==
  \A p \in Plugins :
    (~rec[p].enabled \/ ShuttingDown) ~>
      ((rec[p].enabled /\ ~ShuttingDown)
        \/ \A s \in ProcIds : procs[s].plugin = p => ~procs[s].child)
================================================================================
