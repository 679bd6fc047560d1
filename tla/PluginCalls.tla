------------------------------- MODULE PluginCalls -------------------------------
(* Calls of a plugin's backend: plugin_runtime.rs from the moment a call has a   *)
(* process, and the part of plugin_manager.rs around it.                         *)
(*                                                                               *)
(* Threads of the host: one per call; for each process a writer of its stdin, a  *)
(* reader of its stdout, up to Workers host workers for the requests the plugin  *)
(* makes, and a thread that stops it. Every step below is what one of them does  *)
(* between two locks. A request whose method is core.plugins.call becomes a call *)
(* of another process, whose invocation inherits that of the request.            *)
(*                                                                               *)
(* An invocation is the set of tokens that end it: cancelled flags, its own and  *)
(* its ancestors', and deadlines; `fired` holds those that are set or passed.    *)
(* Not here: starting the process (PluginHost), what methods other than a call   *)
(* do (HostServices), contracts and schemas.                                     *)
EXTENDS Naturals, FiniteSets, Sequences

CONSTANTS Calls,      \* identities of calls (numbers), each made at most once
          Procs,      \* backends that have completed their handshake
          Ids,        \* request ids that callers choose, and choose again
          Requests,   \* identities of the requests that plugins make (numbers)
          None,
          MaxPending, \* calls one process may have in progress (128)
          MaxQueue,   \* frames waiting to be written (16, and 64 MiB)
          Workers,    \* host workers of one process (16)
          MaxSaid,    \* bound: results and events a backend writes
          Budgets     \* bound: what a behaviour may contain

ASSUME PluginCallsAssumption ==
    /\ MaxPending \in Nat /\ MaxQueue \in Nat /\ Workers \in Nat /\ MaxSaid \in Nat
    /\ None \notin Calls \cup Procs \cup Ids \cup Requests
    /\ Calls \subseteq Nat /\ Requests \subseteq Nat /\ Calls \cap Requests = {}

VARIABLES
    budget,   \* what this behaviour may contain: chosen once
    call,     \* what each call's thread knows
    fired,    \* tokens that are set, deadlines that have passed
    told,     \* calls that cancel has answered for
    proc,     \* each process as its threads share it
    ender,    \* threads ending the protocol of a process, and where they are
    queue,    \* frames waiting for the writer, the one being written first
    inbox,    \* requests the backend has received
    stdout,   \* frames the backend has written and nobody read
    said,     \* number of results and events written so far
    request,  \* what plugins asked for
    events    \* [for, to]: events published, and the call each one was given to

vars == <<budget, call, fired, told, proc, ender, queue, inbox, stdout, said, request,
          events>>
threads == <<proc, ender, queue>>
backend == <<inbox, stdout, said>>

None_ == [at |-> "none", proc |-> None, id |-> None, wire |-> 0,
          inv |-> {}, box |-> None]

Init ==
    /\ budget \in Budgets
    /\ call = [c \in Calls |-> None_]
    /\ fired = {} /\ told = {} /\ events = {}
    /\ proc = [p \in Procs |-> [alive |-> TRUE, recorded |-> TRUE, child |-> TRUE,
                                sequence |-> 0, pending |-> {}, contexts |-> {},
                                writer |-> TRUE, reader |-> TRUE]]
    /\ ender = [p \in Procs |-> [w \in {"reader", "writer", "stop"} |-> "off"]]
    /\ queue = [p \in Procs |-> <<>>]
    /\ inbox = [p \in Procs |-> {}]
    /\ stdout = [p \in Procs |-> <<>>]
    /\ said = [p \in Procs |-> 0]
    /\ request = [r \in Requests |-> [at |-> "none", proc |-> None, context |-> 0,
                                      inv |-> {}]]

(* Tokens. "own" is the flag of the call itself, "wait" that of its registration  *)
(* with the manager, "late" a deadline, "proc" the end of a process.              *)
Over(inv) == inv \cap fired # {}

At(c) == call[c].at
Goto(c, pc) == call' = [call EXCEPT ![c].at = pc]
Registered(c) == At(c) \notin {"none", "returned"}
Holding(p, i) == {c \in Calls : Registered(c) /\ call[c].proc = p /\ call[c].id = i}
Entries(p, i) == {e \in proc[p].pending : e.id = i}
Refuse(c) == Goto(c, "leaving")

(* ---------------------------------------------------------- the write queue *)
(* Whether a frame is accepted depends on the queue alone; whether the process is *)
(* alive was read before.                                                         *)
Accepts(p) == proc[p].writer /\ Len(queue[p]) < MaxQueue
Frame(type, wire, c, inv) == [type |-> type, wire |-> wire, call |-> c, inv |-> inv]
Push(p, frame) == queue' = [queue EXCEPT ![p] = Append(@, frame)]
(* A frame without an invocation: write_frame.                                    *)
Writes(p) == proc[p].alive /\ Accepts(p)

Failed(p) == {e.call : e \in proc[p].pending}
FailPending(p) ==
    call' = [c \in Calls |-> IF c \in Failed(p) THEN [call[c] EXCEPT !.box = [for |-> None]]
                             ELSE call[c]]

(* ------------------------------------------------- a call reaches its process *)
(* The manager registers the wait of a call under its id. A call made for a       *)
(* request of a plugin takes a fresh id, here its own name.                       *)
Register(c, p, i, parent) ==
    /\ At(c) = "none" /\ c \in budget.calls
    /\ \A x \in budget.calls : At(x) = "none" => c <= x
    /\ Holding(p, i) = {}
    /\ ~Over(parent)
    /\ call' = [call EXCEPT ![c] = [None_ EXCEPT !.at = "registered", !.proc = p, !.id = i,
                 !.inv = parent \cup {<<"wait", c>>, <<"late", c>>}]]

CallerCalls(c, p, i) ==
    /\ i \in budget.ids /\ p \in budget.targets
    /\ Register(c, p, i, {})
    /\ UNCHANGED <<budget, fired, told, threads, backend, request, events>>

(* ensure_active returns the recorded process; the manager then checks the wait.  *)
Prepare(c) ==
    /\ At(c) = "registered"
    /\ IF Over(call[c].inv) \/ ~proc[call[c].proc].recorded THEN Refuse(c)
       ELSE Goto(c, "prepared")
    /\ UNCHANGED <<budget, fired, told, threads, backend, request, events>>

Enter(c) ==
    /\ At(c) = "prepared"
    /\ IF ~proc[call[c].proc].alive \/ Over(call[c].inv) THEN Refuse(c)
       ELSE call' = [call EXCEPT ![c].at = "entered", ![c].inv = @ \cup {<<"own", c>>}]
    /\ UNCHANGED <<budget, fired, told, threads, backend, request, events>>

MutWireReused(p, i) == Cardinality(proc[p].pending) + 1
WireId(p, i) == proc[p].sequence + 1

Insert(c) ==
    LET p == call[c].proc
        w == WireId(p, call[c].id)
    IN /\ At(c) = "entered"
       /\ IF Entries(p, call[c].id) # {} \/ Cardinality(proc[p].pending) >= MaxPending
          THEN Refuse(c) /\ UNCHANGED proc
          ELSE /\ call' = [call EXCEPT ![c].at = "inserted", ![c].wire = w]
               /\ proc' = [proc EXCEPT ![p].sequence = @ + 1,
                            ![p].pending = @ \cup {[wire |-> w, id |-> call[c].id,
                                                    call |-> c]}]
       /\ UNCHANGED <<budget, fired, told, ender, queue, backend, request, events>>

(* Finish and cancel_wire find the invocation of a wire in this table.            *)
KeepContext(c) ==
    LET p == call[c].proc
    IN /\ At(c) = "inserted"
       /\ proc' = [proc EXCEPT ![p].contexts = @ \cup {[wire |-> call[c].wire, call |-> c]}]
       /\ Goto(c, "kept")
       /\ UNCHANGED <<budget, fired, told, ender, queue, backend, request, events>>

Without(p, w) == {e \in proc[p].pending : e.wire # w}
RemovePending(p, w) == proc' = [proc EXCEPT ![p].pending = Without(p, w)]

(* queue_frame looks whether the process is alive once more, after the call has   *)
(* registered: whoever ends the process fails what is registered by then.         *)
MutNoAliveCheck(p) == TRUE
MayQueue(p) == proc[p].alive

CheckAlive(c) ==
    LET p == call[c].proc
    IN /\ At(c) = "kept"
       /\ IF MayQueue(p) THEN Goto(c, "queueing") /\ UNCHANGED proc
          ELSE Refuse(c) /\ RemovePending(p, call[c].wire)
       /\ UNCHANGED <<budget, fired, told, ender, queue, backend, request, events>>

QueueRequest(c) ==
    LET p == call[c].proc
    IN /\ At(c) = "queueing"
       /\ IF Accepts(p)
          THEN /\ Push(p, Frame("request", call[c].wire, c, call[c].inv))
               /\ Goto(c, "waiting") /\ UNCHANGED proc
          ELSE Refuse(c) /\ RemovePending(p, call[c].wire) /\ UNCHANGED queue
       /\ UNCHANGED <<budget, fired, told, ender, backend, request, events>>

(* --------------------------------------------- a call waits, and gives up *)
Receive(c) ==
    /\ At(c) = "waiting" /\ call[c].box # None
    /\ Goto(c, "leaving")
    /\ UNCHANGED <<budget, fired, told, threads, backend, request, events>>

(* The loop looks every 20 ms; a reply that is there already may still win.       *)
Notice(c) ==
    LET p == call[c].proc
        tokens == IF [wire |-> call[c].wire, call |-> c] \in proc[p].contexts
                  THEN {<<"own", c>>} ELSE {}
    IN /\ At(c) = "waiting" /\ Over(call[c].inv)
       /\ fired' = fired \cup tokens
       /\ Goto(c, "cancelling")
       /\ UNCHANGED <<budget, told, threads, backend, request, events>>

(* The cancel frame is only tried.                                                *)
SendCancel(c) ==
    LET p == call[c].proc
        active == \E e \in proc[p].pending : e.wire = call[c].wire
    IN /\ At(c) = "cancelling"
       /\ IF active /\ Writes(p) THEN Push(p, Frame("cancel", call[c].wire, c, {}))
          ELSE UNCHANGED queue
       /\ RemovePending(p, call[c].wire)
       /\ Goto(c, "leaving")
       /\ UNCHANGED <<budget, fired, told, ender, backend, request, events>>

(* The guard of the invocation, then that of the registration.                    *)
Leave(c) ==
    LET p == call[c].proc
        kept == {e \in proc[p].contexts : e.call = c}
    IN /\ At(c) = "leaving"
       /\ proc' = [proc EXCEPT ![p].contexts = @ \ kept]
       /\ fired' = IF kept = {} THEN fired ELSE fired \cup {<<"own", c>>}
       /\ Goto(c, "left")
       /\ UNCHANGED <<budget, told, ender, queue, backend, request, events>>

Return(c) ==
    /\ At(c) = "left"
    /\ Goto(c, "returned")
    /\ UNCHANGED <<budget, fired, told, threads, backend, request, events>>

(* ------------------------------------------------------------ cancellation *)
(* The registration of the call comes first. Only without one would the manager   *)
(* ask the process, whose pending entry may not have a context yet.               *)
CancelTokens(p, i) ==
    IF Holding(p, i) # {} THEN {<<"wait", c>> : c \in Holding(p, i)}
    ELSE {<<"own", e.call>> : e \in {x \in Entries(p, i) :
            \E k \in proc[p].contexts : k.wire = x.wire}}

Cancel(p, i) ==
    /\ "cancel" \in budget.faults
    /\ Holding(p, i) # {} \/ Entries(p, i) # {}
    /\ told' = told \cup Holding(p, i) \cup {e.call : e \in Entries(p, i)}
    /\ told' # told
    /\ fired' = fired \cup CancelTokens(p, i)
    /\ UNCHANGED <<budget, call, threads, backend, request, events>>

DeadlinePasses(t) ==
    /\ "late" \in budget.faults /\ t \notin fired
    /\ \/ \E c \in Calls : t = <<"late", c>> /\ Registered(c)
       \/ \E r \in Requests : t = <<"late", r>> /\ request[r].at \in {"working", "calling"}
    /\ fired' = fired \cup {t}
    /\ UNCHANGED <<budget, call, told, threads, backend, request, events>>

(* ------------------------------------------------------ writer and backend *)
(* The writer drops what is left when the process is not alive, skips a request   *)
(* whose invocation has ended, and ends the protocol when a write fails.          *)
Write(p) ==
    LET f == Head(queue[p])
    IN /\ queue[p] # <<>> /\ proc[p].writer
       /\ IF ~proc[p].alive
          THEN /\ proc' = [proc EXCEPT ![p].writer = FALSE]
               /\ queue' = [queue EXCEPT ![p] = <<>>]
               /\ UNCHANGED <<ender, inbox>>
          ELSE IF f.type = "request" /\ Over(f.inv)
          THEN /\ queue' = [queue EXCEPT ![p] = Tail(@)]
               /\ UNCHANGED <<proc, ender, inbox>>
          ELSE IF proc[p].child
          THEN /\ queue' = [queue EXCEPT ![p] = Tail(@)]
               /\ inbox' = IF f.type = "request"
                           THEN [inbox EXCEPT ![p] = @ \cup {[wire |-> f.wire, call |-> f.call]}]
                           ELSE inbox
               /\ UNCHANGED <<proc, ender>>
          ELSE /\ ender' = [ender EXCEPT ![p]["writer"] = "alive"]
               /\ queue' = [queue EXCEPT ![p] = Tail(@)]
               /\ proc' = [proc EXCEPT ![p].writer = FALSE]
               /\ UNCHANGED inbox
       /\ UNCHANGED <<budget, call, fired, told, stdout, said, request, events>>

(* The backend answers what it received, as late and as often as it likes; it may *)
(* also publish an event for it.                                                  *)
Says(p, type, m) ==
    /\ proc[p].child /\ m \in inbox[p] /\ said[p] < MaxSaid
    /\ type \in budget.says
    /\ stdout' = [stdout EXCEPT ![p] = Append(@, [type |-> type, wire |-> m.wire,
                                                  call |-> m.call])]
    /\ said' = [said EXCEPT ![p] = @ + 1]
    /\ UNCHANGED <<budget, call, fired, told, threads, inbox, request, events>>

(* It asks for a service, in the context of a call it received or of none.        *)
Asks(p, r, w) ==
    /\ proc[p].child /\ request[r].at = "none"
    /\ r \in budget.requests
    /\ w = 0 \/ \E m \in inbox[p] : m.wire = w
    /\ w = 0 <=> ~budget.context
    /\ \A x \in Requests : request[x].at = "none" => r <= x
    /\ request' = [request EXCEPT ![r].at = "written", ![r].proc = p, ![r].context = w]
    /\ stdout' = [stdout EXCEPT ![p] = Append(@, [type |-> "request", request |-> r])]
    /\ UNCHANGED <<budget, call, fired, told, threads, inbox, said, events>>

Babbles(p) ==
    /\ "garbage" \in budget.faults /\ p \in budget.faulty /\ proc[p].child
    /\ \A i \in DOMAIN stdout[p] : stdout[p][i].type # "garbage"
    /\ stdout' = [stdout EXCEPT ![p] = Append(@, [type |-> "garbage"])]
    /\ UNCHANGED <<budget, call, fired, told, threads, inbox, said, request, events>>

Crashes(p) ==
    /\ "crash" \in budget.faults /\ p \in budget.faulty /\ proc[p].child
    /\ proc' = [proc EXCEPT ![p].child = FALSE]
    /\ UNCHANGED <<budget, call, fired, told, ender, queue, backend, request, events>>

(* ------------------------------------------------------------------ reader *)
Reads(p, type) ==
    /\ proc[p].reader /\ stdout[p] # <<>> /\ Head(stdout[p]).type = type
    /\ stdout' = [stdout EXCEPT ![p] = Tail(@)]
EndReader(p) ==
    /\ proc' = [proc EXCEPT ![p].reader = FALSE]
    /\ ender' = [ender EXCEPT ![p]["reader"] = "alive"]

Matching(p, w) == {e \in proc[p].pending : e.wire = w}
Deliver(p) ==
    LET f == Head(stdout[p])
        found == Matching(p, f.wire)
    IN /\ Reads(p, "result")
       /\ call' = [c \in Calls |->
            IF \E e \in found : e.call = c
            THEN [call[c] EXCEPT !.box = [for |-> f.call]] ELSE call[c]]
       /\ RemovePending(p, f.wire)
       /\ UNCHANGED <<budget, fired, told, ender, queue, inbox, said, request, events>>

(* An event of a wire that is not pending is dropped.                             *)
Publish(p) ==
    LET f == Head(stdout[p])
    IN /\ Reads(p, "event")
       /\ events' = events \cup {[for |-> f.call, to |-> e.call] : e \in Matching(p, f.wire)}
       /\ UNCHANGED <<budget, call, fired, told, threads, inbox, said, request>>

ReaderEnds(p) ==
    /\ \/ Reads(p, "garbage")
       \/ stdout[p] = <<>> /\ ~proc[p].child /\ proc[p].reader /\ UNCHANGED stdout
    /\ EndReader(p)
    /\ UNCHANGED <<budget, call, fired, told, queue, inbox, said, request, events>>

(* The invocation of a request: that of its context, its own deadline, and the    *)
(* end of the process that made it.                                               *)
ContextOf(p, w) == {e \in proc[p].contexts : e.wire = w}
MutNoProcessParent(p, r) ==
    (UNION {call[e.call].inv : e \in ContextOf(p, request[r].context)}) \cup {<<"late", r>>}
HostInvocation(p, r) ==
    (UNION {call[e.call].inv : e \in ContextOf(p, request[r].context)})
        \cup {<<"late", r>>, <<"proc", p>>}
Busy(p) == {r \in Requests : request[r].proc = p /\ request[r].at \in
            {"working", "calling", "replying"}}

(* Without a worker the reader answers itself; an answer that cannot be queued    *)
(* ends the protocol.                                                             *)
Dispatch(p) ==
    LET r == Head(stdout[p]).request
        resolved == request[r].context = 0 \/ ContextOf(p, request[r].context) # {}
    IN /\ Reads(p, "request")
       /\ IF Cardinality(Busy(p)) < Workers
          THEN /\ request' = [request EXCEPT ![r].at = IF resolved THEN "working" ELSE "replying",
                                             ![r].inv = HostInvocation(p, r)]
               /\ UNCHANGED threads
          ELSE IF Writes(p)
          THEN /\ Push(p, Frame("reply", 0, None, {}))
               /\ request' = [request EXCEPT ![r].at = "answered"]
               /\ UNCHANGED <<proc, ender>>
          ELSE /\ EndReader(p)
               /\ request' = [request EXCEPT ![r].at = "dropped"]
               /\ UNCHANGED queue
       /\ UNCHANGED <<budget, call, fired, told, inbox, said, events>>

(* ---------------------------------------------------------- host workers *)
(* core.plugins.call: the worker makes a call of another process and waits.       *)
Nested(c, r, q) ==
    /\ request[r].at = "working" /\ q # request[r].proc
    /\ Register(c, q, c, request[r].inv)
    /\ request' = [request EXCEPT ![r].at = "calling", ![r].inv = @ \cup {<<"wait", c>>}]
    /\ UNCHANGED <<budget, fired, told, threads, backend, events>>

(* Another method, a refusal, or the call has returned.                           *)
Worked(r) ==
    /\ \/ request[r].at = "working"
       \/ request[r].at = "calling" /\ \A c \in Calls : <<"wait", c>> \in request[r].inv
            /\ call[c].id = c => At(c) = "returned"
    /\ request' = [request EXCEPT ![r].at = "replying"]
    /\ UNCHANGED <<budget, call, fired, told, threads, backend, events>>

(* A plugin whose answer cannot be queued would wait for it: all its calls fail.  *)
Unanswered(p) == FailPending(p) /\ proc' = [proc EXCEPT ![p].pending = {}]
Reply(r) ==
    LET p == request[r].proc
    IN /\ request[r].at = "replying"
       /\ IF Writes(p)
          THEN /\ Push(p, Frame("reply", 0, None, {}))
               /\ request' = [request EXCEPT ![r].at = "answered"]
               /\ UNCHANGED <<call, proc>>
          ELSE /\ Unanswered(p)
               /\ request' = [request EXCEPT ![r].at = "dropped"]
               /\ UNCHANGED queue
       /\ UNCHANGED <<budget, fired, told, ender, backend, events>>

(* ------------------------------------------------------- a process ends *)
(* protocol_ended, run by the reader or the writer, and stop, run by the manager. *)
NotAlive(p, w) ==
    /\ ender[p][w] = "alive"
    /\ proc' = [proc EXCEPT ![p].alive = FALSE]
    /\ ender' = [ender EXCEPT ![p][w] = IF w = "stop" THEN "cancel" ELSE "fail"]
    /\ UNCHANGED <<budget, call, fired, told, queue, backend, request, events>>

FailAll(p, w) ==
    /\ ender[p][w] = "fail"
    /\ FailPending(p)
    /\ proc' = [proc EXCEPT ![p].pending = {}]
    /\ ender' = [ender EXCEPT ![p][w] = IF w = "stop" THEN "done" ELSE "cancel"]
    /\ UNCHANGED <<budget, fired, told, queue, backend, request, events>>

CancelAll(p, w) ==
    /\ ender[p][w] = "cancel"
    /\ fired' = fired \cup {<<"proc", p>>} \cup {<<"own", e.call>> : e \in proc[p].contexts}
    /\ ender' = [ender EXCEPT ![p][w] = IF w = "stop" THEN "kill" ELSE "exit"]
    /\ UNCHANGED <<budget, call, told, proc, queue, backend, request, events>>

Exited(p, w) ==
    /\ ender[p][w] = "exit"
    /\ proc' = [proc EXCEPT ![p].recorded = FALSE]
    /\ ender' = [ender EXCEPT ![p][w] = "done"]
    /\ UNCHANGED <<budget, call, fired, told, queue, backend, request, events>>

Stop(p) ==
    /\ "stop" \in budget.faults /\ p \in budget.faulty /\ ender[p]["stop"] = "off"
    /\ ender' = [ender EXCEPT ![p]["stop"] = "alive"]
    /\ UNCHANGED <<budget, call, fired, told, proc, queue, backend, request, events>>

(* The kill may fail; the calls fail all the same.                                *)
Kill(p) ==
    /\ ender[p]["stop"] = "kill"
    /\ \/ proc' = [proc EXCEPT ![p].child = FALSE]
       \/ "unkillable" \in budget.faults /\ UNCHANGED proc
    /\ ender' = [ender EXCEPT ![p]["stop"] = "fail"]
    /\ UNCHANGED <<budget, call, fired, told, queue, backend, request, events>>

(* ------------------------------------------------------------------- Next *)
CallStep(c) ==
    \/ Prepare(c) \/ Enter(c) \/ Insert(c) \/ KeepContext(c) \/ CheckAlive(c)
    \/ QueueRequest(c) \/ Receive(c) \/ Notice(c) \/ SendCancel(c) \/ Leave(c) \/ Return(c)
ReaderStep(p) == Deliver(p) \/ Publish(p) \/ ReaderEnds(p) \/ Dispatch(p)
EnderStep(p, w) == NotAlive(p, w) \/ FailAll(p, w) \/ CancelAll(p, w) \/ Exited(p, w)
BackendStep(p) ==
    \/ \E m \in inbox[p], type \in {"result", "event"} : Says(p, type, m)
    \/ \E r \in Requests, w \in {0} \cup {m.wire : m \in inbox[p]} : Asks(p, r, w)
    \/ Babbles(p) \/ Crashes(p)
WorkerStep(r) == Worked(r) \/ Reply(r)

Next ==
    \/ \E c \in Calls, p \in Procs, i \in Ids : CallerCalls(c, p, i)
    \/ \E c \in Calls : CallStep(c)
    \/ \E p \in Procs, i \in Ids : Cancel(p, i)
    \/ \E t \in {"late"} \X (Calls \cup Requests) : DeadlinePasses(t)
    \/ \E p \in Procs : Write(p) \/ BackendStep(p) \/ ReaderStep(p) \/ Stop(p) \/ Kill(p)
    \/ \E p \in Procs, w \in {"reader", "writer", "stop"} : EnderStep(p, w)
    \/ \E c \in Calls, r \in Requests, q \in Procs : Nested(c, r, q)
    \/ \E r \in Requests : WorkerStep(r)

(* The host's threads run. Nothing is assumed of a backend, not even that it      *)
(* reads its stdin, nor of callers and deadlines.                                 *)
Fairness ==
    /\ \A c \in Calls : WF_vars(CallStep(c))
    /\ \A r \in Requests : WF_vars(WorkerStep(r))
    /\ \A p \in Procs : WF_vars(ReaderStep(p)) /\ WF_vars(Kill(p))
    /\ \A p \in Procs, w \in {"reader", "writer", "stop"} : WF_vars(EnderStep(p, w))

Spec == Init /\ [][Next]_vars /\ Fairness

(* -------------------------------------------------------------- properties *)
(* A caller only ever receives an answer its own request was given, and an event  *)
(* only reaches the call it was made for, however late it comes and whoever uses  *)
(* the same request id by then (PendingRequests: wire ids are never used again).  *)
RepliesMatch ==
    /\ \A c \in Calls : call[c].box # None => call[c].box.for \in {c, None}
    /\ \A e \in events : e.for = e.to

(* A call returns although its backend never answers once there is a reason: its  *)
(* invocation or one it descends from ended, a cancel was acknowledged, its       *)
(* process ended, or an answer to a request made for it could not be queued.      *)
Doomed(c) ==
    /\ Registered(c)
    /\ \/ Over(call[c].inv)
       \/ c \in told
       \/ At(c) # "registered" /\ ~proc[call[c].proc].alive
       \/ \E r \in Requests : /\ request[r].at = "dropped" /\ request[r].context = call[c].wire
                              /\ request[r].proc = call[c].proc /\ At(c) = "waiting"
CallersReturn == \A c \in Calls : Doomed(c) ~> At(c) = "returned"

(* When a process has ended, or been stopped, its calls are over, none of its     *)
(* workers is held by a call of another plugin, and nothing is registered.        *)
EndedIsQuiet ==
    \A p \in Procs : ~proc[p].alive ~>
        /\ proc[p].pending = {} /\ proc[p].contexts = {} /\ Busy(p) = {}
===================================================================================
