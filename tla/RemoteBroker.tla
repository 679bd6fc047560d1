----------------------------- MODULE RemoteBroker -----------------------------
(***************************************************************************)
(* The file interactions of remote plugin calls: remote_interaction.rs     *)
(* (RemoteBroker and RemoteContext), the native download streams of        *)
(* web_access.rs and the download credentials of download_sessions.rs.     *)
(*                                                                         *)
(* A remote call runs in a context; a plugin it calls runs in a child      *)
(* context.  Service workers of the plugins post interactions in the       *)
(* broker's table (pick a file, read a chunk, export a download, show a    *)
(* notice) and the visiting device answers them, streams the downloads, or *)
(* lets them expire.  Every operation on the table runs under its lock and *)
(* is one step; the operations of a context take several locks in turn and *)
(* are several steps.                                                      *)
(*                                                                         *)
(* One device is modelled: a request of another device finds no entry and  *)
(* changes nothing but what Expire does.  A file handle is named after the *)
(* interaction that picked it (the browser draws a fresh one for each).    *)
(***************************************************************************)
EXTENDS Naturals, FiniteSets, Functions

CONSTANTS
    Contexts,      \* the contexts of remote calls and of the calls nested in them
    Parent,        \* the calling context of a nested one, None for the others
    Workers,       \* host service workers
    Streams,       \* response bodies of downloads
    None,
    MaxIds,        \* bound on the interactions ever posted
    MaxActions,    \* entries the table admits (64 in the code)
    MaxFiles,      \* files one context may hold (8)
    MaxTransfers   \* concurrent streams of one download (4)

Roots == {c \in Contexts : Parent[c] = None}
Ids == 1..MaxIds

ASSUME BrokerAssumption ==
    /\ Parent \in [Contexts -> Contexts \cup {None}]
    /\ \A c \in Contexts \ Roots : Parent[c] \in Roots
    /\ None \notin Contexts \cup Workers \cup Streams
    /\ {MaxIds, MaxActions, MaxFiles, MaxTransfers} \subseteq Nat \ {0}

VARIABLES
    closed,     \* RemoteBroker.closed
    actions,    \* RemoteBroker.actions: the live entries by id
    selected,   \* RemoteBroker.selected: the handles the device must keep, with their context
    born,       \* the contexts that exist
    cancel,     \* how far RemoteContext::cancel has come in each context
    children,   \* RemoteContext.children, of all contexts
    files,      \* RemoteContext.files
    waiting,    \* RemoteContext.waiting
    worker,     \* what each service worker is doing
    answer,     \* the channel a waiting worker receives from
    nextId,
    stream,     \* the response bodies
    creds,      \* the prepared download ids of the device's session
    keyed       \* streams whose credential the session still has

brokerVars == <<closed, actions, selected, nextId>>
contextVars == <<born, cancel, children, files, waiting>>
workerVars == <<worker, answer>>
streamVars == <<stream, creds, keyed>>

Idle == [at |-> "idle"]
NoStream == [at |-> "none"]

Entry(c, kind, asker) ==
    [ctx |-> c, kind |-> kind, reply |-> asker, old |-> FALSE,
     delivered |-> FALSE, transfers |-> {}]

BrokerInit ==
    /\ closed = FALSE
    /\ actions = <<>>
    /\ selected = <<>>
    /\ born = {}
    /\ cancel = [c \in Contexts |-> "no"]
    /\ children = {}
    /\ files = [c \in Contexts |-> {}]
    /\ waiting = [c \in Contexts |-> {}]
    /\ worker = [w \in Workers |-> Idle]
    /\ answer = [w \in Workers |-> None]
    /\ nextId = 1
    /\ stream = [s \in Streams |-> NoStream]
    /\ creds = {}
    /\ keyed = {}

-----------------------------------------------------------------------------
(* The table *)

Posted == DOMAIN actions
Undelivered(i) == actions[i].kind = "download" /\ ~actions[i].delivered

MutLive(i) ==             \* mutant: an export expires like the rest
    actions[i].reply # None \/ actions[i].transfers # {} \/ ~actions[i].old

Live(i) ==
    \/ actions[i].reply # None
    \/ actions[i].transfers # {}
    \/ Undelivered(i)
    \/ ~actions[i].old

\* prune: the first thing every operation does under the lock
Pruned == Restrict(actions, {i \in Posted : Live(i)})
Without(table, ids) == Restrict(table, DOMAIN table \ ids)

\* Removing an entry drops its sender: the channel of its asker disconnects.
Blockers ==
    \/ \E i \in Posted : actions[i].kind \in {"pick", "read"} /\ actions[i].reply # None
    \/ \E i \in Posted : Undelivered(i) /\ actions[i].transfers = {}
    \/ \E i \in Posted : actions[i].transfers # {}

MutMayInsert == Cardinality(DOMAIN Pruned) < MaxActions  \* mutant: not refused when closed
MayInsert == ~closed /\ Cardinality(DOMAIN Pruned) < MaxActions

\* insert: a refused insertion has pruned, unless the broker is closed
Insert(c, kind, asker) ==
    /\ nextId \in Ids
    /\ IF MayInsert
       THEN /\ actions' = [i \in DOMAIN Pruned \cup {nextId} |->
                              IF i = nextId THEN Entry(c, kind, asker) ELSE actions[i]]
            /\ nextId' = nextId + 1
       ELSE /\ actions' = IF closed THEN actions ELSE Pruned
            /\ UNCHANGED nextId
    /\ UNCHANGED <<closed, selected>>

\* five minutes after it was posted; nothing prolongs it (an entry with an
\* asker is live whatever its age)
Expires(i) ==
    /\ i \in Posted /\ actions[i].reply = None /\ ~actions[i].old
    /\ actions' = [actions EXCEPT ![i].old = TRUE]
    /\ UNCHANGED <<closed, selected, nextId, contextVars, workerVars, streamVars>>

\* expire, list, identity, admin_downloads and requests of other devices
Expire ==
    /\ Pruned # actions
    /\ actions' = Pruned
    /\ UNCHANGED <<closed, selected, nextId, contextVars, workerVars, streamVars>>

\* release_dead_selected
Selectable == Restrict(selected, {h \in DOMAIN selected :
                  selected[h] \in born /\ cancel[selected[h]] = "no"})

SelectedHandles ==
    /\ Selectable # selected
    /\ selected' = Selectable
    /\ UNCHANGED <<closed, actions, nextId, contextVars, workerVars, streamVars>>

\* The answers a device can give: it declines, it picks an acceptable or an
\* unacceptable file, it sends the bytes that were asked for or others.
Answers == {"cancelled", "file", "bytes", "bad"}

\* reply: a download that is being streamed can only be declined.  The picked
\* handle is registered before the answer is sent.  interaction_reply then
\* forgets the credential of the id.
Reply(i, value) ==
    /\ i \in DOMAIN Pruned
    /\ value = "cancelled" \/ actions[i].transfers = {}
    /\ actions' = Without(Pruned, {i})
    /\ selected' = IF actions[i].kind = "pick" /\ value = "file"
                   THEN [h \in DOMAIN selected \cup {i} |->
                            IF h = i THEN actions[i].ctx ELSE selected[h]]
                   ELSE selected
    /\ answer' = IF actions[i].reply # None
                 THEN [answer EXCEPT ![actions[i].reply] = value] ELSE answer
    /\ creds' = creds \ {i}
    /\ keyed' = {s \in keyed : stream[s].id # i}
    /\ UNCHANGED <<closed, nextId, contextVars, worker, stream>>

\* discard_download, then the credential is forgotten: run_download_admin
Discard(i) ==
    /\ i \in Posted /\ actions[i].kind = "download"
    /\ actions' = Without(actions, {i})
    /\ creds' = creds \ {i}
    /\ keyed' = {s \in keyed : stream[s].id # i}
    /\ UNCHANGED <<closed, selected, nextId, contextVars, workerVars, stream>>

-----------------------------------------------------------------------------
(* Contexts *)

\* new: the context of a root call
NewContext(c) == born' = born \cup {c}

\* for_plugin: under the children lock of the parent the child is either
\* cancelled or left for the parent's cancel to find
ForPlugin(c) ==
    /\ Parent[c] \in born /\ c \notin born
    /\ born' = born \cup {c}
    /\ IF cancel[Parent[c]] # "no"
       THEN cancel' = [cancel EXCEPT ![c] = "flag"] /\ UNCHANGED children
       ELSE children' = children \cup {c} /\ UNCHANGED cancel
    /\ UNCHANGED <<brokerVars, files, waiting, workerVars, streamVars>>

\* cancel: the flag
Flagged(c) == cancel' = [cancel EXCEPT ![c] = IF @ = "no" THEN "flag" ELSE @]

CancelFiles(c) ==
    /\ cancel[c] = "flag"
    /\ cancel' = [cancel EXCEPT ![c] = "children"]
    /\ files' = [files EXCEPT ![c] = {}]
    /\ selected' = Selectable
    /\ UNCHANGED <<closed, actions, nextId, born, children, waiting,
                   workerVars, streamVars>>

\* drain the children and cancel each of them
CancelChildren(c) ==
    LET mine == {k \in children : Parent[k] = c}
    IN  /\ cancel[c] = "children"
        /\ children' = children \ mine
        /\ cancel' = [k \in Contexts |->
                        IF k = c THEN "waiting"
                        ELSE IF k \in mine /\ cancel[k] = "no" THEN "flag" ELSE cancel[k]]
        /\ UNCHANGED <<brokerVars, born, files, waiting, workerVars, streamVars>>

\* the children are through; with the waiting lock held, withdraw the requests
CancelWaiting(c) ==
    /\ cancel[c] = "waiting"
    /\ \A k \in born : Parent[k] = c => cancel[k] \in {"no", "done"}
    /\ cancel' = [cancel EXCEPT ![c] = "done"]
    /\ actions' = Without(actions, waiting[c])
    /\ UNCHANGED <<closed, selected, nextId, born, children, files, waiting,
                   workerVars, streamVars>>

-----------------------------------------------------------------------------
(* Service workers *)

\* pick: the number of files is tested before the device is asked
StartPick(w, c) ==
    /\ worker[w] = Idle /\ c \in born
    /\ Cardinality(files[c]) < MaxFiles
    /\ worker' = [worker EXCEPT ![w] = [at |-> "ask", ctx |-> c, kind |-> "pick", id |-> 0, handle |-> 0]]
    /\ UNCHANGED <<brokerVars, contextVars, answer, streamVars>>

\* read of one chunk
StartRead(w, c, h) ==
    /\ worker[w] = Idle /\ c \in born
    /\ h \in files[c]
    /\ worker' = [worker EXCEPT ![w] = [at |-> "ask", ctx |-> c, kind |-> "read", id |-> 0, handle |-> h]]
    /\ UNCHANGED <<brokerVars, contextVars, answer, streamVars>>

\* action: the cancellation test and the insertion share the waiting lock
MutMayPost(c) == TRUE     \* mutant: the cancellation is not looked at
MayPost(c) == cancel[c] = "no"

Ask(w) ==
    LET c == worker[w].ctx
    IN  /\ worker[w].at = "ask"
        /\ IF MayPost(c)
           THEN /\ Insert(c, worker[w].kind, w)
                /\ IF MayInsert
                   THEN /\ worker' = [worker EXCEPT ![w].at = "wait", ![w].id = nextId]
                        /\ answer' = [answer EXCEPT ![w] = None]
                        /\ waiting' = [waiting EXCEPT ![c] = @ \cup {nextId}]
                   ELSE worker' = [worker EXCEPT ![w] = Idle] /\ UNCHANGED <<answer, waiting>>
           ELSE /\ worker' = [worker EXCEPT ![w] = Idle]
                /\ UNCHANGED <<brokerVars, answer, waiting>>
        /\ UNCHANGED <<born, cancel, children, files, streamVars>>

\* the polling loop of ask: the answer, a cancelled context or a lost sender.
\* It may see the cancellation before an answer that is already there.
Woken(w) ==
    /\ worker[w].at = "wait"
    /\ \/ /\ answer[w] # None
          /\ worker' = [worker EXCEPT ![w].at = "leave"]
          /\ UNCHANGED answer
       \/ /\ \/ cancel[worker[w].ctx] # "no"
             \/ answer[w] = None /\ worker[w].id \notin Posted
          /\ worker' = [worker EXCEPT ![w].at = "leave"]
          /\ answer' = [answer EXCEPT ![w] = None]
    /\ UNCHANGED <<brokerVars, contextVars, streamVars>>

\* the invocation's own deadline or cancellation
Deadline(w) ==
    /\ worker[w].at = "wait"
    /\ worker' = [worker EXCEPT ![w].at = "leave"]
    /\ answer' = [answer EXCEPT ![w] = None]
    /\ UNCHANGED <<brokerVars, contextVars, streamVars>>

\* ask takes its id out of the waiting list, then out of the table
LeaveWaiting(w) ==
    /\ worker[w].at = "leave"
    /\ waiting' = [waiting EXCEPT ![worker[w].ctx] = @ \ {worker[w].id}]
    /\ worker' = [worker EXCEPT ![w].at = "remove"]
    /\ UNCHANGED <<brokerVars, born, cancel, children, files, answer, streamVars>>

LeaveTable(w) ==
    /\ worker[w].at = "remove"
    /\ actions' = Without(actions, {worker[w].id})
    /\ worker' = [worker EXCEPT ![w] =
           IF \/ @.kind = "pick" /\ answer[w] = "file"
              \/ @.kind = "read" /\ answer[w] = "bytes"
           THEN [@ EXCEPT !.at = "finish"] ELSE Idle]
    /\ UNCHANGED <<closed, selected, nextId, contextVars, answer, streamVars>>

\* the end of pick, and of a read that may have reached the end of the file
Finish(w) ==
    LET c == worker[w].ctx IN
    /\ worker[w].at = "finish"
    /\ \/ /\ worker[w].kind = "pick"
          /\ files' = [files EXCEPT ![c] = @ \cup {worker[w].id}]
          /\ UNCHANGED selected
       \/ /\ worker[w].kind = "read"
          /\ files' = [files EXCEPT ![c] = @ \ {worker[w].handle}]
          /\ selected' = Without(selected, {worker[w].handle})
       \/ worker[w].kind = "read" /\ UNCHANGED <<files, selected>>
    /\ worker' = [worker EXCEPT ![w] = Idle]
    /\ UNCHANGED <<closed, actions, nextId, born, cancel, children, waiting,
                   answer, streamVars>>

\* download_file, and a notice or a page to open: posted without a sender
Post(w, c, kind) ==
    /\ worker[w] = Idle /\ c \in born
    /\ kind \in {"download", "notice"}
    /\ MayPost(c)
    /\ Insert(c, kind, None)
    /\ UNCHANGED <<contextVars, workerVars, streamVars>>

-----------------------------------------------------------------------------
(* Downloads *)

\* prepare_download: credentials of entries that are gone are dropped first
Prepare(i) ==
    /\ i \in DOMAIN Pruned /\ actions[i].kind = "download"
    /\ actions' = Pruned
    /\ creds' = (creds \cap DOMAIN Pruned) \cup {i}
    /\ keyed' = {s \in keyed : stream[s].id \in DOMAIN Pruned}
    /\ UNCHANGED <<closed, selected, nextId, contextVars, workerVars, stream>>

\* revoke_downloads: the session goes, with the token all its streams carry
Revoke ==
    /\ creds # {}
    /\ creds' = {}
    /\ keyed' = {}
    /\ UNCHANGED <<brokerVars, contextVars, workerVars, stream>>

\* download, then NativeDownload::new, which gives the transfer back when the
\* file cannot be opened; ByKey: the browser's own download, which needs the
\* credential
Transfer(s, i) ==
    /\ actions' = [Pruned EXCEPT ![i].transfers = @ \cup {s}]
    /\ UNCHANGED <<closed, selected, nextId, contextVars, workerVars, creds>>

Openable(i) ==
    /\ i \in DOMAIN Pruned /\ actions[i].kind = "download"
    /\ Cardinality(actions[i].transfers) < MaxTransfers

OpenStream(s, i, byKey) ==
    \/ /\ Openable(i)
       /\ stream' = [stream EXCEPT ![s] = [at |-> "open", id |-> i, byKey |-> byKey]]
       /\ keyed' = IF byKey /\ i \in creds THEN keyed \cup {s} ELSE keyed
       /\ Transfer(s, i)
    \/ /\ actions' = Pruned   \* refused, or the file could not be opened
       /\ stream' = [stream EXCEPT ![s] = NoStream]
       /\ UNCHANGED <<closed, selected, nextId, contextVars, workerVars, creds, keyed>>

\* delivery
Delivered(i, s, received) ==
    IF i \in DOMAIN Pruned /\ s \in Pruned[i].transfers
    THEN [Pruned EXCEPT ![i].transfers = @ \ {s}, ![i].delivered = @ \/ received]
    ELSE Pruned

Streaming(s) ==
    LET i == stream[s].id
    IN  /\ i \in Posted /\ s \in actions[i].transfers
        /\ stream[s].byKey => s \in keyed

\* poll_read at the end of the file
StreamEof(s) ==
    /\ stream[s].at = "open" /\ Streaming(s)
    /\ actions' = Delivered(stream[s].id, s, TRUE)
    /\ stream' = [stream EXCEPT ![s] = NoStream]
    /\ keyed' = keyed \ {s}
    /\ UNCHANGED <<closed, selected, nextId, contextVars, workerVars, creds>>

\* the body is dropped: the device went away, or poll_read failed
StreamDropped(s) ==
    /\ stream[s].at = "open"
    /\ actions' = Delivered(stream[s].id, s, FALSE)
    /\ stream' = [stream EXCEPT ![s] = NoStream]
    /\ keyed' = keyed \ {s}
    /\ UNCHANGED <<closed, selected, nextId, contextVars, workerVars, creds>>

\* interaction_delivery: the page reports the end of a transfer it knows by name
Confirm(s, received) ==
    /\ stream[s].at = "open" /\ ~stream[s].byKey
    /\ Delivered(stream[s].id, s, received) # actions
    /\ actions' = Delivered(stream[s].id, s, received)
    /\ UNCHANGED <<closed, selected, nextId, contextVars, workerVars, streamVars>>

-----------------------------------------------------------------------------
(* Closing *)

\* close_if_idle
MayClose == ~Blockers
Emptied ==
    /\ closed' = TRUE
    /\ actions' = <<>>
    /\ selected' = <<>>
    /\ UNCHANGED nextId
=============================================================================
