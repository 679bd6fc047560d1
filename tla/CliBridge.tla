-------------------------------- MODULE CliBridge --------------------------------
(* The command line and the open window: cli_ipc.rs and components/CliUiBridge.tsx. *)
(*                                                                                  *)
(* `wla` finds the endpoint of a running Core, sends one request and waits. Core    *)
(* serves each connection in a thread, with a monitor that cancels the invocation   *)
(* when the client hangs up. A command for the window is handed to the UI as an     *)
(* event and its thread waits for the UI's acknowledgement; before the UI has said  *)
(* it is ready such commands are queued (CliUiPending). The thread that marks the   *)
(* UI ready, the serving threads and the one that closes Core run side by side.     *)
(* Arguments are CliArguments; other commands end in the modules of the manager.    *)
EXTENDS Naturals, FiniteSets, Sequences

CONSTANTS Commands,      \* one CLI process each
          Cores,         \* bound: processes of Core that run one after the other
          CliBudgets     \* bound: [faults]: what a behaviour may contain

VARIABLES
    budget,
    core,      \* [at, n]: starting, serving, closing, clearing, closed; which process
    endpoint,  \* the Core named by the endpoint file, 0 for none
    client,    \* what each CLI process knows
    thread,    \* the thread that serves it: [at, result (the response, once it has one)]
    cancelled, \* invocations cancelled by their monitor, or whose deadline passed
    requests,  \* commands with a sender in the table of requests
    queued,    \* commands waiting for the UI to be ready
    ready,     \* the ready flag
    closed,    \* the closed flag
    box,       \* answers sent to the waiting thread
    marking,   \* events the ready command has taken and not yet emitted
    channel,   \* events emitted to the UI
    ui         \* the page: [at, hears (cancellations), stage of each command,
               \*   aborted (their signal), dropped (cancelled before dispatch)]
cliVars == <<budget, core, endpoint, client, thread, cancelled, requests, queued, ready,
             closed, box, marking, channel, ui>>

\* Ghost: how often the page started each command, and what it was told to cancel.
VARIABLE seen
allCliVars == <<cliVars, seen>>

(* A command on the page: it asks for the plugins first, acts after its first check, *)
(* may be handed to a plugin after its second, and is forgotten with its answer.     *)
CommandStages == {"none", "asked", "acting", "handed"}
NoPage == [at |-> "absent", hears |-> FALSE, stage |-> [r \in Commands |-> "none"],
           aborted |-> {}, dropped |-> {}]

CliInit ==
    /\ budget \in CliBudgets
    /\ core = [at |-> "starting", n |-> 1] /\ endpoint = 0
    /\ client = [r \in Commands |-> "new"]
    /\ thread = [r \in Commands |-> [at |-> "none", result |-> "none"]]
    /\ cancelled = {} /\ requests = {} /\ queued = <<>>
    /\ ready = FALSE /\ closed = FALSE
    /\ box = [r \in Commands |-> {}]
    /\ marking = <<>> /\ channel = <<>> /\ ui = NoPage
    /\ seen = [started |-> [r \in Commands |-> 0], cancels |-> {}]

May(fault) == fault \in budget.faults
Listening == ui.at \in {"listening", "ready"}
(* Without a listener an event is gone; emitting it succeeds all the same.         *)
Heard(event) == IF event.type = "request" THEN Listening ELSE ui.hears
Emitted(event) == IF Heard(event) THEN Append(channel, event) ELSE channel
Event(type, r) == [type |-> type, command |-> r]
(* retain: a command is queued once, so that one place at most closes up.          *)
Without(q, r) ==
    LET at == {i \in DOMAIN q : q[i] = r}
    IN IF at = {} THEN q
       ELSE [k \in 1..Len(q) - 1 |-> IF \E i \in at : i <= k THEN q[k + 1] ELSE q[k]]

(* ------------------------------------------------------------------- Core *)
StartServer ==
    /\ core.at = "starting"
    /\ core' = [core EXCEPT !.at = "serving"]
    /\ endpoint' = core.n
    /\ UNCHANGED <<budget, client, thread, cancelled, requests, queued, ready, closed,
                   box, marking, channel, ui, seen>>

(* Dropping the server: the flag, then the senders, then the queue; then the       *)
(* endpoint. Threads that serve a connection are not waited for.                   *)
Close ==
    /\ core.at = "serving" /\ May("close")
    /\ core' = [core EXCEPT !.at = "closing"]
    /\ closed' = TRUE
    /\ UNCHANGED <<budget, endpoint, client, thread, cancelled, requests, queued, ready,
                   box, marking, channel, ui, seen>>

ClearRequests ==
    /\ core.at = "closing"
    /\ core' = [core EXCEPT !.at = "clearing"]
    /\ requests' = {}
    /\ UNCHANGED <<budget, endpoint, client, thread, cancelled, queued, ready, closed,
                   box, marking, channel, ui, seen>>

ClearQueue ==
    /\ core.at = "clearing"
    /\ core' = [core EXCEPT !.at = "closed"]
    /\ queued' = <<>> /\ endpoint' = 0
    /\ UNCHANGED <<budget, client, thread, cancelled, requests, ready, closed, box,
                   marking, channel, ui, seen>>

(* The process ends with everything but the endpoint file; another one starts.     *)
StartCore ==
    /\ core.n < Cores
    /\ core.at = "closed" \/ (May("crash") /\ core.at = "serving")
    /\ core' = [at |-> "starting", n |-> core.n + 1]
    /\ thread' = [r \in Commands |-> IF thread[r].at = "none" THEN thread[r]
                                  ELSE [thread[r] EXCEPT !.at = "done"]]
    /\ client' = [r \in Commands |-> IF client[r] = "waiting" THEN "lost" ELSE client[r]]
    /\ cancelled' = {} /\ requests' = {} /\ queued' = <<>> /\ ready' = FALSE
    /\ closed' = FALSE /\ box' = [r \in Commands |-> {}]
    /\ marking' = <<>> /\ channel' = <<>> /\ ui' = NoPage
    /\ UNCHANGED <<budget, endpoint, seen>>

(* ----------------------------------------------------------------- client *)
(* No endpoint, one of another process, or nobody listening there: the command is  *)
(* run without a desktop, or refused when it needs one.                            *)
Dial(r) ==
    /\ client[r] = "new"
    /\ IF endpoint = core.n /\ core.at \in {"serving", "closing", "clearing"}
       THEN /\ client' = [client EXCEPT ![r] = "waiting"]
            /\ thread' = [thread EXCEPT ![r].at = "accepted"]
       ELSE client' = [client EXCEPT ![r] = "alone"] /\ UNCHANGED thread
    /\ UNCHANGED <<budget, core, endpoint, cancelled, requests, queued, ready, closed,
                   box, marking, channel, ui, seen>>

(* The client is interrupted, or its own limit passes.                             *)
HangUp(r) ==
    /\ May("hangup") /\ client[r] = "waiting"
    /\ client' = [client EXCEPT ![r] = "gone"]
    /\ UNCHANGED <<budget, core, endpoint, thread, cancelled, requests, queued, ready,
                   closed, box, marking, channel, ui, seen>>

(* The monitor peeks at the connection until the command is dispatched.            *)
Dispatching(r) == thread[r].at \notin {"none", "writing", "done"}
Monitor(r) ==
    /\ client[r] = "gone" /\ Dispatching(r) /\ r \notin cancelled
    /\ cancelled' = cancelled \cup {r}
    /\ UNCHANGED <<budget, core, endpoint, client, thread, requests, queued, ready,
                   closed, box, marking, channel, ui, seen>>

DeadlinePasses(r) ==
    /\ May("late") /\ Dispatching(r) /\ r \notin cancelled
    /\ cancelled' = cancelled \cup {r}
    /\ UNCHANGED <<budget, core, endpoint, client, thread, requests, queued, ready,
                   closed, box, marking, channel, ui, seen>>

(* ------------------------------------------------------- CliUiPending::request *)
MoveTo(r, pc) == thread' = [thread EXCEPT ![r].at = pc]
Decide(r, pc, result) == thread' = [thread EXCEPT ![r] = [at |-> pc, result |-> result]]

Insert(r) ==
    /\ thread[r].at = "accepted"
    /\ requests' = requests \cup {r}
    /\ MoveTo(r, "inserted")
    /\ UNCHANGED <<budget, core, endpoint, client, cancelled, queued, ready, closed, box,
                   marking, channel, ui, seen>>

(* Under the lock of the queue: either the UI is ready, or the event is queued     *)
(* before anyone can mark it ready.                                                *)
Enqueue(r) ==
    /\ thread[r].at = "inserted"
    /\ IF ready THEN MoveTo(r, "emitting") /\ UNCHANGED queued
       ELSE MoveTo(r, "waiting") /\ queued' = Append(queued, r)
    /\ UNCHANGED <<budget, core, endpoint, client, cancelled, requests, ready, closed,
                   box, marking, channel, ui, seen>>

EmitRequest(r) ==
    /\ thread[r].at = "emitting"
    /\ \/ MoveTo(r, "waiting") /\ channel' = Emitted(Event("request", r))
       \/ May("emit") /\ Decide(r, "refusing", "failed") /\ UNCHANGED channel
    /\ UNCHANGED <<budget, core, endpoint, client, cancelled, requests, queued, ready,
                   closed, box, marking, ui, seen>>

(* The loop looks at the closed flag, the invocation and the channel, one after    *)
(* the other: an answer can be read although Core was closed meanwhile. A channel   *)
(* without answer ends when its sender is dropped from the table.                   *)
SenderGone(r) == r \notin requests /\ box[r] = {}
MutForgetsClosed(r) == box[r] \cup {x \in {"failed"} : r \in cancelled \/ SenderGone(r)}
Endings(r) == box[r] \cup {x \in {"failed"} : closed \/ r \in cancelled \/ SenderGone(r)}
Wake(r) ==
    /\ thread[r].at = "waiting"
    /\ \E result \in Endings(r) : Decide(r, "removing", result)
    /\ UNCHANGED <<budget, core, endpoint, client, cancelled, requests, queued, ready,
                   closed, box, marking, channel, ui, seen>>

(* remove, with or without the word to the UI after it.                            *)
Remove(r) ==
    /\ thread[r].at \in {"removing", "refusing"}
    /\ requests' = requests \ {r}
    /\ MoveTo(r, IF thread[r].at = "removing" THEN "unqueueing" ELSE "forgetting")
    /\ UNCHANGED <<budget, core, endpoint, client, cancelled, queued, ready, closed, box,
                   marking, channel, ui, seen>>

MutKeepsQueued(r) == queued
Retained(r) == Without(queued, r)
Unqueue(r) ==
    /\ thread[r].at \in {"unqueueing", "forgetting"}
    /\ queued' = Retained(r)
    /\ MoveTo(r, IF thread[r].at = "unqueueing" /\ thread[r].result = "failed"
               THEN "cancelling" ELSE "writing")
    /\ UNCHANGED <<budget, core, endpoint, client, cancelled, requests, ready, closed,
                   box, marking, channel, ui, seen>>

(* Without a result the UI is told to cancel. Then the response is written.        *)
EmitCancel(r) ==
    /\ thread[r].at = "cancelling"
    /\ channel' = Emitted(Event("cancel", r))
    /\ MoveTo(r, "writing")
    /\ UNCHANGED <<budget, core, endpoint, client, cancelled, requests, queued, ready,
                   closed, box, marking, ui, seen>>

Respond(r) ==
    /\ thread[r].at = "writing"
    /\ client' = [client EXCEPT ![r] = IF @ = "gone" THEN @ ELSE thread[r].result]
    /\ MoveTo(r, "done")
    /\ UNCHANGED <<budget, core, endpoint, cancelled, requests, queued, ready, closed,
                   box, marking, channel, ui, seen>>

(* complete: the sender leaves the table with the answer.                          *)
Completed(r, answer) ==
    IF r \in requests
    THEN requests' = requests \ {r} /\ box' = [box EXCEPT ![r] = {answer}]
    ELSE UNCHANGED <<requests, box>>

(* ------------------------------------------------------------------ the page *)
(* The listener of requests first, then cli_ui_ready; the one of cancellations is   *)
(* registered beside it, and may come later. A page that is loaded again has lost  *)
(* what it was doing.                                                              *)
ListenForCancels ==
    /\ ~ui.hears /\ core.at # "starting"
    /\ ui' = [ui EXCEPT !.hears = TRUE]
    /\ UNCHANGED <<budget, core, endpoint, client, thread, cancelled, requests, queued,
                   ready, closed, box, marking, channel, seen>>

Listen ==
    /\ ui.at = "absent" /\ core.at # "starting"
    /\ ui' = [ui EXCEPT !.at = "listening"]
    /\ UNCHANGED <<budget, core, endpoint, client, thread, cancelled, requests, queued,
                   ready, closed, box, marking, channel, seen>>

Reload ==
    /\ May("reload") /\ ui.at = "ready"
    /\ ui' = NoPage /\ channel' = <<>>
    /\ seen' = [seen EXCEPT !.cancels = {}]
    /\ UNCHANGED <<budget, core, endpoint, client, thread, cancelled, requests, queued,
                   ready, closed, box, marking>>

(* mark_ready sets the flag and takes the queue under its lock, then emits.        *)
MarkReady ==
    /\ ui.at = "listening" /\ marking = <<>>
    /\ ui' = [ui EXCEPT !.at = "ready"]
    /\ ready' = TRUE
    /\ marking' = queued /\ queued' = <<>>
    /\ UNCHANGED <<budget, core, endpoint, client, thread, cancelled, requests, closed,
                   box, channel, seen>>

(* Of a command that cannot be emitted the thread is told; if it has gone, the     *)
(* rest is not emitted either.                                                     *)
EmitQueued ==
    LET r == Head(marking)
    IN /\ marking # <<>>
       /\ \/ /\ channel' = Emitted(Event("request", r)) /\ marking' = Tail(marking)
             /\ UNCHANGED <<requests, box>>
          \/ /\ May("emit") /\ UNCHANGED channel
             /\ Completed(r, "failed")
             /\ marking' = IF r \in requests THEN Tail(marking) ELSE <<>>
       /\ UNCHANGED <<budget, core, endpoint, client, thread, cancelled, queued, ready,
                      closed, ui, seen>>

(* A request that was cancelled before it came is answered and not started.        *)
MutStartsAll(r) == TRUE
MayStart(r) == r \notin ui.dropped
ReceiveRequest ==
    LET r == Head(channel).command
    IN /\ Listening /\ channel # <<>> /\ Head(channel).type = "request"
       /\ channel' = Tail(channel)
       /\ IF MayStart(r)
          THEN /\ ui' = [ui EXCEPT !.stage[r] = "asked"]
               /\ seen' = [seen EXCEPT !.started[r] = @ + 1]
               /\ UNCHANGED <<requests, box>>
          ELSE /\ ui' = [ui EXCEPT !.dropped = @ \ {r}]
               /\ Completed(r, "failed") /\ UNCHANGED seen
       /\ UNCHANGED <<budget, core, endpoint, client, thread, cancelled, queued, ready,
                      closed, marking>>

(* A command under way is not stopped: its signal is set. One that a plugin has is  *)
(* taken from it, and fails.                                                       *)
ReceiveCancel ==
    LET r == Head(channel).command
    IN /\ ui.hears /\ channel # <<>> /\ Head(channel).type = "cancel"
       /\ channel' = Tail(channel)
       /\ ui' = IF ui.stage[r] # "none" THEN [ui EXCEPT !.aborted = @ \cup {r}]
                ELSE [ui EXCEPT !.dropped = @ \cup {r}]
       /\ seen' = [seen EXCEPT !.cancels = @ \cup {r}]
       /\ UNCHANGED <<budget, core, endpoint, client, thread, cancelled, requests, queued,
                      ready, closed, box, marking>>

(* handleRequest looks at the signal twice, checkCancelled: when it has the plugins, *)
(* and before it hands the command to a plugin. Whatever else it waits for (a frame, *)
(* the backgrounds of a theme), it goes on.                                        *)
PassesCheck(r) == r \notin ui.aborted
PassCheck(r) ==
    /\ PassesCheck(r)
    /\ \/ ui.stage[r] = "asked" /\ ui' = [ui EXCEPT !.stage[r] = "acting"]
       \/ ui.stage[r] = "acting" /\ ui' = [ui EXCEPT !.stage[r] = "handed"]
    /\ UNCHANGED <<budget, core, endpoint, client, thread, cancelled, requests, queued,
                   ready, closed, box, marking, channel, seen>>

(* Word to cancel a command that has been answered is remembered, to no effect.    *)
AnswersOf(r) ==
    IF ui.stage[r] = "acting" \/ (ui.stage[r] = "handed" /\ r \notin ui.aborted)
    THEN {"ok", "failed"} ELSE {"failed"}
Acknowledge(r) ==
    /\ ui.stage[r] # "none"
    /\ ui' = [ui EXCEPT !.stage[r] = "none", !.aborted = @ \ {r}]
    /\ \E answer \in AnswersOf(r) : Completed(r, answer)
    /\ UNCHANGED <<budget, core, endpoint, client, thread, cancelled, queued, ready,
                   closed, marking, channel, seen>>

(* ------------------------------------------------------------------- Next *)
ThreadStep(r) ==
    \/ Insert(r) \/ Enqueue(r) \/ EmitRequest(r) \/ Wake(r) \/ Remove(r) \/ Unqueue(r)
    \/ EmitCancel(r) \/ Respond(r)
CoreStep == StartServer \/ Close \/ ClearRequests \/ ClearQueue \/ StartCore
PageStep ==
    \/ ListenForCancels \/ Listen \/ Reload \/ MarkReady \/ EmitQueued
    \/ ReceiveRequest \/ ReceiveCancel

CliNext ==
    \/ CoreStep \/ PageStep
    \/ \E r \in Commands : Dial(r) \/ HangUp(r) \/ Monitor(r) \/ DeadlinePasses(r)
                           \/ ThreadStep(r) \/ PassCheck(r) \/ Acknowledge(r)

(* Threads of Core run. Nothing is assumed of the page, the clients or deadlines.  *)
CliFairness ==
    /\ \A r \in Commands : WF_allCliVars(ThreadStep(r)) /\ WF_allCliVars(Monitor(r))
    /\ WF_allCliVars(ClearRequests) /\ WF_allCliVars(ClearQueue)
    /\ WF_allCliVars(EmitQueued)

CliSpec == CliInit /\ [][CliNext]_allCliVars /\ CliFairness

(* -------------------------------------------------------------- properties *)
(* The page starts a command at most once. Once it has received word that the       *)
(* command was given up, before the command or after it, in whichever order the two *)
(* events were emitted, it begins nothing more for it: it neither acts on it nor     *)
(* hands it to a plugin (EmitQueued runs beside the thread that gives up). What it   *)
(* was doing by then goes on to its end.                                             *)
NoFurther(r) == ui'.stage[r] \in {"acting", "handed"} => ui'.stage[r] = ui.stage[r]
RunsAsAsked ==
    [][\A r \in Commands : /\ seen'.started[r] <= 1
                           /\ r \in seen.cancels => NoFurther(r)]_allCliVars

(* A command that has been answered is in no table of Core: the page that comes    *)
(* later is not handed a command nobody waits for, and nothing is kept of it.      *)
NothingLeftBehind ==
    \A r \in Commands : thread[r].at \in {"writing", "done"} =>
        r \notin requests /\ \A i \in DOMAIN queued : queued[i] # r

(* The thread of a command ends when Core closes, the client hangs up, the         *)
(* deadline passes or the page answers, although the page may never answer.        *)
CommandsEnd ==
    \A r \in Commands :
        (thread[r].at # "none" /\ (closed \/ client[r] = "gone" \/ r \in cancelled
                                \/ box[r] # {})) ~> thread[r].at \in {"none", "done"}
===================================================================================
