------------------------------- MODULE WebAccess -------------------------------
(***************************************************************************)
(* Sharing plugins over HTTP: web_access.rs around the interactions of     *)
(* RemoteBroker, with the installation of a Core update (core_update.rs)   *)
(* that must not interrupt what a device is doing.                         *)
(*                                                                         *)
(* A remote call has three parts that end independently: the HTTP future   *)
(* of the connection, the blocking worker that owns the registration and   *)
(* the permit, and the context.  Stopping closes the broker if nothing     *)
(* waits in it, then cancels the registered calls; a request that had      *)
(* passed authentication may still register after that.                    *)
(*                                                                         *)
(* Of the plugin manager only its admission is modelled: who is inside,    *)
(* and the freeze of an upgrade.                                           *)
(***************************************************************************)
EXTENDS RemoteBroker

CONSTANTS
    Key,       \* (owner, plugin, request id) of each root call
    Permits    \* calls served at a time (16)

VARIABLES
    active,    \* Access.active
    future,    \* the HTTP future of each root call
    job,       \* its blocking worker
    reg,       \* Access.invocations
    stopping,  \* the progress of WebAccessService::stop
    upgrade    \* the progress of core_update_install

webVars == <<active, future, job, reg, stopping, upgrade>>
vars == <<brokerVars, contextVars, workerVars, streamVars, webVars>>

Init ==
    /\ BrokerInit
    /\ active = TRUE
    /\ future = [c \in Roots |-> "none"]
    /\ job = [c \in Roots |-> "none"]
    /\ reg = {}
    /\ stopping = "no"
    /\ upgrade = "no"

-----------------------------------------------------------------------------
(* The manager's admission *)

Frozen == upgrade # "no"
Inside == {c \in Roots : job[c] = "inside"}
Admitted == {s \in Streams : stream[s].at = "admitted"}
Serving == {w \in Workers : worker[w] # Idle}

\* A plugin asks for host services while one of its calls is in progress;
\* a nested context belongs to a call the plugin made.
RootOf(c) == IF Parent[c] = None THEN c ELSE Parent[c]
MayServe(c) == RootOf(c) \in Inside

-----------------------------------------------------------------------------
(* Calls: call and launch *)

\* the permits are owned by the blocking workers
PermitFree == Cardinality({c \in Roots : job[c] \in {"queued", "inside"}}) < Permits
Duplicate(c) == \E d \in reg : Key[d] = Key[c]

\* register_invocation.  The request was authenticated while the service was
\* active, which may be any time ago.  A refused request is answered at once.
Register(c) ==
    /\ future[c] = "none"
    /\ IF PermitFree /\ ~Duplicate(c)
       THEN /\ future' = [future EXCEPT ![c] = "pending"]
            /\ job' = [job EXCEPT ![c] = "queued"]
            /\ reg' = reg \cup {c}
            /\ NewContext(c)
       ELSE /\ future' = [future EXCEPT ![c] = "answered"]
            /\ UNCHANGED <<job, reg, born>>
    /\ UNCHANGED <<brokerVars, cancel, children, files, waiting, workerVars, streamVars,
                   active, stopping, upgrade>>

\* The blocking worker ends: its registration and its permit are dropped, and
\* a future that still waits answers.  (A connection lost between the two
\* cancels a call that is over, which has no effect.)
EndJob(c) ==
    /\ job' = [job EXCEPT ![c] = "ended"]
    /\ reg' = reg \ {c}
    /\ future' = [future EXCEPT ![c] = IF @ = "pending" THEN "answered" ELSE @]

\* call_with_timeout_context, prepare_ui: a frozen manager and a cancelled
\* context refuse
EnterManager(c) ==
    /\ job[c] = "queued"
    /\ IF Frozen \/ cancel[c] # "no"
       THEN EndJob(c)
       ELSE job' = [job EXCEPT ![c] = "inside"] /\ UNCHANGED <<reg, future>>
    /\ UNCHANGED <<brokerVars, contextVars, workerVars, streamVars,
                   active, stopping, upgrade>>

\* the plugin answers, or the wait for it sees the cancelled context
Returns(c) ==
    /\ job[c] = "inside"
    /\ EndJob(c)
    /\ UNCHANGED <<brokerVars, contextVars, workerVars, streamVars,
                   active, stopping, upgrade>>

\* cancel: the device names a registered call of its own, the manager cancels it
\* and it returns; the context goes when the call is over
Owned(k) == {c \in reg : Key[c] = k}

CancelRequest(k) == \E c \in Owned(k) : Returns(c)

\* RequestCancellation: the connection is lost while the call is pending
LoseConnection(c) ==
    /\ future[c] = "pending"
    /\ future' = [future EXCEPT ![c] = "lost"]
    /\ Flagged(c)
    /\ UNCHANGED <<brokerVars, born, children, files, waiting, workerVars, streamVars,
                   active, job, reg, stopping, upgrade>>

\* RemoteContext::drop: nobody holds the context any more
DropContext(c) ==
    /\ c \in born /\ cancel[c] = "no"
    /\ c \in Roots => job[c] = "ended"
    /\ \A w \in Serving : worker[w].ctx # c
    /\ Flagged(c)
    /\ UNCHANGED <<brokerVars, born, children, files, waiting, workerVars, streamVars, webVars>>

-----------------------------------------------------------------------------
(* Streams: native_download and interaction_content *)

MutMayAdmit == TRUE     \* mutant: no admission is asked for
MayAdmit == ~Frozen

\* admit_work; the native route also asks for the credential.  A request that
\* names no download is refused after it and does nothing.
AdmitStream(s, i, byKey) ==
    /\ active /\ stream[s] = NoStream
    /\ i \in Posted /\ actions[i].kind = "download"
    /\ byKey => i \in creds
    /\ MayAdmit
    /\ stream' = [stream EXCEPT ![s] = [at |-> "admitted", id |-> i, byKey |-> byKey]]
    /\ UNCHANGED <<brokerVars, contextVars, workerVars, creds, keyed, webVars>>

\* the admission is given up once the broker counts the transfer
BeginStream(s) ==
    /\ stream[s].at = "admitted"
    /\ OpenStream(s, stream[s].id, stream[s].byKey)
    /\ UNCHANGED webVars

-----------------------------------------------------------------------------
(* stop, with the running lock held throughout *)

\* close_if_idle: refused while something waits for the device
StopCloses ==
    /\ stopping = "no"
    /\ IF MayClose
       THEN stopping' = "closed" /\ Emptied
       ELSE /\ actions' = Pruned
            /\ UNCHANGED <<stopping, closed, selected, nextId>>
    /\ UNCHANGED <<contextVars, workerVars, streamVars, active, future, job, reg, upgrade>>

\* take, active = false, close
StopDeactivates ==
    /\ stopping = "closed"
    /\ stopping' = "inactive"
    /\ active' = FALSE
    /\ Emptied
    /\ UNCHANGED <<contextVars, workerVars, streamVars, future, job, reg, upgrade>>

\* drain the registrations and cancel each call
StopCancels ==
    /\ stopping = "inactive"
    /\ stopping' = "stopped"
    /\ cancel' = [c \in Contexts |->
                    IF c \in reg /\ cancel[c] = "no" THEN "flag" ELSE cancel[c]]
    /\ reg' = {}
    /\ UNCHANGED <<brokerVars, born, children, files, waiting, workerVars, streamVars,
                   active, future, job, upgrade>>

-----------------------------------------------------------------------------
(* core_update_install *)

\* begin_upgrade: no admitted work and no host request in progress
BeginUpgrade ==
    /\ upgrade = "no"
    /\ Inside = {} /\ Admitted = {} /\ Serving = {}
    /\ upgrade' = "frozen"
    /\ UNCHANGED <<brokerVars, contextVars, workerVars, streamVars,
                   active, future, job, reg, stopping>>

\* WebAccessService::upgrade_blockers needs the running lock; a service that
\* was taken has nothing to report
RunningLockFree == stopping \in {"no", "stopped"}

CheckBlockers ==
    /\ upgrade = "frozen" /\ RunningLockFree
    /\ actions' = IF stopping = "no" THEN Pruned ELSE actions
    /\ upgrade' = IF stopping = "no" /\ (Blockers \/ reg # {}) THEN "no" ELSE "installing"
    /\ UNCHANGED <<closed, selected, nextId, contextVars, workerVars, streamVars,
                   active, future, job, reg, stopping>>

\* the download or the installation fails and the guard is dropped
UpgradeFails ==
    /\ upgrade = "installing"
    /\ upgrade' = "no"
    /\ UNCHANGED <<brokerVars, contextVars, workerVars, streamVars,
                   active, future, job, reg, stopping>>

-----------------------------------------------------------------------------

CallSteps(c) ==
    \/ Register(c) \/ EnterManager(c) \/ Returns(c) \/ LoseConnection(c)

ContextSteps(c) ==
    \/ DropContext(c)
    \/ (ForPlugin(c) /\ MayServe(c) /\ UNCHANGED webVars)
    \/ (CancelFiles(c) \/ CancelChildren(c) \/ CancelWaiting(c)) /\ UNCHANGED webVars

WorkerStarts(w) ==
    \E c \in Contexts :
        /\ MayServe(c)
        /\ \/ StartPick(w, c)
           \/ \E h \in files[c] : StartRead(w, c, h)
           \/ \E kind \in {"download", "notice"} : Post(w, c, kind)
        /\ UNCHANGED webVars

\* the invocation of a host request ends with the call it serves
InvocationEnded(w) ==
    /\ worker[w] # Idle /\ job[RootOf(worker[w].ctx)] = "ended"
    /\ Deadline(w)

WorkerGoesOn(w) ==
    /\ \/ Ask(w) \/ Woken(w) \/ InvocationEnded(w)
       \/ LeaveWaiting(w) \/ LeaveTable(w) \/ Finish(w)
    /\ UNCHANGED webVars

DeviceSteps ==
    /\ \/ \E i \in Posted, value \in Answers : Reply(i, value)
       \/ \E i \in Posted : Prepare(i) \/ (Discard(i) /\ RunningLockFree)
       \/ Revoke \/ SelectedHandles
       \/ \E s \in Streams, received \in BOOLEAN : Confirm(s, received)
    /\ UNCHANGED webVars

StreamSteps(s) ==
    \/ \E i \in Ids, byKey \in BOOLEAN : AdmitStream(s, i, byKey)
    \/ BeginStream(s)
    \/ active /\ StreamEof(s) /\ UNCHANGED webVars
    \/ StreamDropped(s) /\ UNCHANGED webVars

TableSteps == (Expire \/ \E i \in Posted : Expires(i)) /\ UNCHANGED webVars

Stop == StopCloses \/ StopDeactivates \/ StopCancels
Upgrade == BeginUpgrade \/ CheckBlockers \/ UpgradeFails

Next ==
    \/ \E c \in Roots : CallSteps(c) \/ CancelRequest(Key[c])
    \/ \E c \in Contexts : ContextSteps(c)
    \/ \E w \in Workers : WorkerStarts(w) \/ WorkerGoesOn(w)
                          \/ (Deadline(w) /\ UNCHANGED webVars)
    \/ \E s \in Streams : StreamSteps(s)
    \/ DeviceSteps \/ TableSteps \/ Stop \/ Upgrade

\* Only what the program does by itself: threads run, a wait polls its
\* context, a dropped context is cancelled.  Devices, plugins and the clock
\* owe nothing.
Fairness ==
    /\ \A w \in Workers : WF_vars(WorkerGoesOn(w))
    /\ \A c \in Contexts :
          WF_vars((CancelFiles(c) \/ CancelChildren(c) \/ CancelWaiting(c)) /\ UNCHANGED webVars)
    /\ \A c \in Roots :
          /\ WF_vars(EnterManager(c))
          /\ WF_vars(cancel[c] # "no" /\ Returns(c))
    /\ WF_vars(StopDeactivates) /\ WF_vars(StopCancels)

Spec == Init /\ [][Next]_vars /\ Fairness

-----------------------------------------------------------------------------
(* Properties *)

TypeOK ==
    /\ closed \in BOOLEAN /\ active \in BOOLEAN
    /\ Posted \subseteq Ids
    /\ \A i \in Posted :
          /\ actions[i].ctx \in Contexts
          /\ actions[i].kind \in {"pick", "read", "download", "notice"}
          /\ actions[i].reply \in Workers \cup {None}
          /\ actions[i].transfers \subseteq Streams
    /\ DOMAIN selected \subseteq Ids
    /\ born \subseteq Contexts /\ children \subseteq born /\ reg \subseteq Roots
    /\ cancel \in [Contexts -> {"no", "flag", "children", "waiting", "done"}]
    /\ files \in [Contexts -> SUBSET Ids] /\ waiting \in [Contexts -> SUBSET Ids]
    /\ answer \in [Workers -> Answers \cup {None}]
    /\ creds \subseteq Ids /\ keyed \subseteq Streams
    /\ job \in [Roots -> {"none", "queued", "inside", "ended"}]
    /\ upgrade \in {"no", "frozen", "installing"}

\* A cancelled context leaves no request of its own or of a nested call to be
\* answered, and the table counts no stream that is gone: an entry lives no
\* longer than who asked for it, whatever the order of insertions, answers,
\* nested calls and cancellation (RemoteContext::action, cancel, for_plugin,
\* NativeDownload::drop).
Leaving(i) == \E w \in Workers : worker[w].at = "remove" /\ worker[w].id = i
NothingOutlivesItsAsker ==
    /\ \A i \in Posted, c \in Contexts :
          /\ cancel[c] = "done"
          /\ c \in {actions[i].ctx, Parent[actions[i].ctx]}
          => actions[i].reply = None \/ Leaving(i)
    /\ \A i \in Posted : \A s \in actions[i].transfers :
          stream[s].at = "open" /\ stream[s].id = i

\* An export that no device has received leaves the table only by a decision:
\* the device declines it or the host discards it.  Expiry, the end of the call
\* that made it, an upgrade and a stop all keep it (prune, close_if_idle).
UndeliveredKept ==
    [][\A i \in Posted : Undelivered(i) /\ i \notin DOMAIN actions'
          => \/ Discard(i)
             \/ \E value \in Answers : Reply(i, value)]_vars

\* While a Core update is installed nothing waits for a device, no export
\* waits to be received and no file is being streamed: requests, plugin work
\* and streams that race with the check are either seen by it or refused
\* (core_update_install, admit_work, upgrade_blockers).
UpgradeLosesNothing ==
    upgrade = "installing" =>
        /\ \A i \in Posted :
              /\ actions[i].reply = None /\ actions[i].transfers = {}
              /\ actions[i].kind = "download" => actions[i].delivered
        /\ Inside = {} /\ Admitted = {}

\* A call whose connection is lost, or that a stop cancelled, ends: its worker
\* gives back registration and permit, and no service worker of it keeps
\* waiting for the device; a stopped broker answers nobody, so nobody may wait
\* in it either.
CallsEnd ==
    /\ \A c \in Roots : (c \in born /\ cancel[c] # "no") ~> (job[c] = "ended" /\ c \notin reg)
    /\ \A w \in Workers :
          (worker[w].at = "wait" /\ (closed \/ cancel[worker[w].ctx] # "no"))
              ~> worker[w].at # "wait"
=============================================================================
