------------------------------ MODULE HostServices ------------------------------
(***************************************************************************)
(* The services the host gives one plugin process (host_services.rs): byte *)
(* streams (byte_streams.rs), picked files and browser windows             *)
(* (browser_sessions.rs).  Each request runs on a worker of its own.  What *)
(* a request opens belongs to it, and ends with the call it was made in,   *)
(* with its own deadline, or with the process.                             *)
(*                                                                         *)
(* The registry lock is held inside a step, the lock of an entry across    *)
(* the steps that read, write or commit its file; a read of an HTTP body   *)
(* holds an asynchronous lock instead.  A chunk is its index.              *)
(***************************************************************************)
EXTENDS Naturals, Sequences, FiniteSets

CONSTANTS
    Calls,      \* plugin calls that host requests are made in
    Device,     \* the device each call comes from, None for the desktop
    MaxRequests,\* bound: host requests, numbered as they arrive
    None,
    MaxOpen,    \* MAX_OPEN_STREAMS
    MaxPicked,  \* picked files that may wait to be read
    MaxBusy,    \* workers at the same time: the permits of the process
    Chunks,     \* bound: chunks of a body or a file
    Budgets     \* bounds, one of which a behaviour keeps

Requests == 1 .. MaxRequests
Streams == Requests       \* a stream has the number of the request that opened it
Owners == Calls \cup {None}    \* None stands for the process: a request without a call
Openers == {"open_read", "open_write", "export_open", "create_spool"}
Users == {"read", "write", "finish", "upload", "close"}
OfHandles == {"take", "chunk"}
OfWindows == {"navigate", "shut"}
Methods == Openers \cup Users \cup OfHandles \cup OfWindows \cup {"http", "pick", "window"}
DeviceBound == OfHandles \cup {"pick", "export_open"}
LocalOnly == {"pick", "window"} \cup OfHandles \cup OfWindows

ASSUME HostAssumption ==
    /\ MaxRequests \in Nat
    /\ MaxOpen \in Nat \ {0} /\ MaxBusy \in Nat \ {0} /\ MaxPicked \in Nat \ {0} /\ Chunks \in Nat
    /\ None \notin Calls \cup Methods /\ None \notin Nat /\ DOMAIN Device = Calls
    /\ \A b \in Budgets :
          /\ b.methods \subseteq Methods
          /\ b.requests \subseteq Requests     \* the requests that are made
          /\ b.ctxs \subseteq Owners           \* the calls they are made in
          /\ b.ends \subseteq Owners            \* the calls that end before their requests
          /\ b.lates \subseteq Requests         \* the requests with a deadline
          /\ b.faults \subseteq {"disk", "net"}

VARIABLES
    phase,     \* of each owner: open, cancelled, left (removed from the table), swept
    late,      \* requests whose deadline has passed
    req,       \* the requests
    table,     \* the registered streams
    entry,     \* what is known of each stream
    lock,      \* who holds the mutex of an entry
    body,      \* who holds the reader of an HTTP body
    picked,    \* waiting files, named by the request that picked them
    window,    \* browser windows, by the request that opened them
    saved,     \* files committed to their destination
    budget

streams == <<table, entry, lock, body>>
others == <<phase, late, picked, window, saved, budget>>
vars == <<phase, late, req, table, entry, lock, body, picked, window, saved, budget>>

Idle == [at |-> "idle", ctx |-> None, method |-> None, of |-> None, res |-> None, ok |-> FALSE]
Unused == [content |-> "none", target |-> None, closed |-> FALSE,
           pos |-> 0, fetched |-> 0, data |-> 0, acked |-> 0, torn |-> FALSE]

Init ==
    /\ phase = [c \in Owners |-> "open"] /\ late = {}
    /\ req = [r \in Requests |-> Idle]
    /\ table = {} /\ entry = [s \in Streams |-> Unused]
    /\ lock = [s \in Streams |-> None] /\ body = [s \in Streams |-> None]
    /\ picked = {} /\ window = [r \in Requests |-> "none"] /\ saved = <<>>
    /\ budget \in Budgets

-----------------------------------------------------------------------------
(* Invocations and entries *)

\* HostInvocation::check, of the invocation a request makes and its streams keep
Over(r) == r \in late \/ phase[req[r].ctx] # "open" \/ phase[None] # "open"

DeviceOf(r) == IF req[r].ctx = None THEN None ELSE Device[req[r].ctx]

\* check_stream
Sound(s) == ~Over(s) /\ ~entry[s].closed

\* what prune takes away; an entry in use is left to whoever prunes next
MutStale(s) == lock[s] = None /\ entry[s].closed   \* mutant: the end of the owner is not seen
Stale(s) == lock[s] = None /\ ~Sound(s)

Prune ==
    /\ table' = {s \in table : ~Stale(s)}
    /\ entry' = [s \in Streams |->
                    IF s \in table /\ Stale(s) THEN [entry[s] EXCEPT !.closed = TRUE] ELSE entry[s]]
    /\ UNCHANGED <<lock, body>>

At(r, p) == req[r].at = p
Go(r, p) == req' = [req EXCEPT ![r].at = p]
Fail(r) == Go(r, "settle")
Succeed(r) == req' = [req EXCEPT ![r].at = "settle", ![r].ok = TRUE]
Disk == IF "disk" \in budget.faults THEN BOOLEAN ELSE {TRUE}

-----------------------------------------------------------------------------
(* The course of a request *)

Told(r) == req[r].at = "over" /\ req[r].ok

Subjects(m) ==
    CASE m \in Users -> {s \in Streams : entry[s].content # "none" /\ Told(s)}
      [] m \in OfHandles -> {r \in Requests : req[r].method = "pick" /\ Told(r)}
      [] m \in OfWindows -> {r \in Requests : req[r].method = "window" /\ Told(r)}
      [] OTHER -> {None}

\* resolve_invocation_context: the call is in the table, and a request that names
\* none does not act on a device while a remote call is there
Listed(c) == phase[c] \in {"open", "cancelled"}
Resolves(c, m) ==
    IF c = None THEN m \in DeviceBound => \A k \in Calls : Device[k] # None => ~Listed(k)
    ELSE Listed(c) /\ (Device[c] # None => m \notin LocalOnly)

\* the reader resolves the context of a request and hands it to a worker
Arrive(r) ==
    /\ At(r, "idle") /\ \A q \in 1 .. r - 1 : ~At(q, "idle")
    /\ phase[None] = "open" /\ r \in budget.requests
    /\ Cardinality({q \in Requests : req[q].at \notin {"idle", "over"}}) < MaxBusy
    /\ \E c \in budget.ctxs, m \in budget.methods : \E x \in Subjects(m) :
          /\ Resolves(c, m)
          /\ req' = [req EXCEPT ![r] =
                       [Idle EXCEPT !.at = "begin", !.ctx = c, !.method = m, !.of = x]]
    /\ UNCHANGED <<streams, others>>

Begin(r) ==
    /\ At(r, "begin")
    /\ Prune
    /\ Go(r, IF Over(r) THEN "clean" ELSE IF req[r].method \in Users THEN "entry" ELSE "run")
    /\ UNCHANGED others

\* after the method: prune, then the last look at the invocation
MutOrphans(r) == {}       \* mutant: the handle of an ended pick is kept
Orphans(r) == IF req[r].ok /\ req[r].method = "pick" THEN {r} ELSE {}
Settle(r) ==
    /\ At(r, "settle")
    /\ Prune
    /\ req' = [req EXCEPT ![r].at = "clean", ![r].ok = @ /\ ~Over(r)]
    /\ picked' = IF Over(r) THEN picked \ Orphans(r) ELSE picked
    /\ UNCHANGED <<phase, late, window, saved, budget>>

\* the worker cleans up before it replies
Clean(r) == At(r, "clean") /\ Prune /\ Go(r, "over") /\ UNCHANGED others

-----------------------------------------------------------------------------
(* Opening *)

Content(m) == CASE m = "open_read" -> "file" [] m \in {"http", "upload"} -> "http" [] OTHER -> "writer"
Target(r) ==
    CASE req[r].method = "create_spool" -> "spool"
      [] req[r].method = "export_open" /\ DeviceOf(r) # None -> "download"
      [] req[r].method = "open_write" \/ (req[r].method = "export_open" /\ DeviceOf(r) = None) -> "path"
      [] OTHER -> None

\* opens the file, or creates the temporary one; insert looks at the invocation
Open(r) ==
    /\ At(r, "run") /\ req[r].method \in Openers
    /\ \E opened \in Disk : Go(r, IF opened /\ ~Over(r) THEN "insert" ELSE "settle")
    /\ UNCHANGED <<streams, others>>

\* the response, of a plain request or of one that uploads a spool
Respond(r) ==
    /\ At(r, "run") /\ req[r].method \in {"http", "upload"} /\ ~Over(r)
    /\ \/ Go(r, "insert")
       \/ "net" \in budget.faults /\ Fail(r)
    /\ UNCHANGED <<streams, others>>

SendEnds(r) ==
    /\ At(r, "run") /\ req[r].method \in {"http", "upload"} /\ Over(r)
    /\ Fail(r)
    /\ UNCHANGED <<streams, others>>

Insert(r) ==
    /\ At(r, "insert")
    /\ \/ /\ Cardinality(table) >= MaxOpen
          /\ Fail(r) /\ UNCHANGED streams
       \/ /\ Cardinality(table) < MaxOpen
          /\ table' = table \cup {r}
          /\ entry' = [entry EXCEPT ![r].content = Content(req[r].method), ![r].target = Target(r)]
          /\ Succeed(r)
          /\ UNCHANGED <<lock, body>>
    /\ UNCHANGED others

-----------------------------------------------------------------------------
(* Using *)

\* ByteStreams::entry
Find(r) ==
    LET s == req[r].of IN
    /\ At(r, "entry")
    /\ \/ s \notin table /\ Fail(r) /\ UNCHANGED table
       \/ /\ s \in table /\ lock[s] = None
          /\ IF DeviceOf(r) # DeviceOf(s) THEN Fail(r) /\ UNCHANGED table
             ELSE IF ~Sound(s) THEN Fail(r) /\ table' = table \ {s}
             ELSE Go(r, "use") /\ UNCHANGED table
    /\ UNCHANGED <<entry, lock, body, others>>

\* the entry is locked: ready to do what the method asks of such a content
Holding(r, m, contents) ==
    LET s == req[r].of IN
    /\ At(r, "use") /\ req[r].method = m /\ lock[s] = None
    /\ Sound(s) /\ ~Over(r) /\ entry[s].content \in contents

Needs(m) == CASE m = "read" -> {"file", "http"} [] m = "upload" -> {"spool"} [] OTHER -> {"writer"}

Refused(r) ==
    LET s == req[r].of IN
    /\ At(r, "use") /\ req[r].method # "close" /\ lock[s] = None
    /\ ~(Sound(s) /\ ~Over(r) /\ entry[s].content \in Needs(req[r].method))
    /\ Fail(r)
    /\ UNCHANGED <<streams, others>>

Write(r) ==
    /\ Holding(r, "write", {"writer"})
    /\ lock' = [lock EXCEPT ![req[r].of] = r] /\ Go(r, "writing")
    /\ UNCHANGED <<table, entry, body, others>>

\* a write that fails may have appended a part: the stream is poisoned
MutPoisoned(e) == [e EXCEPT !.torn = TRUE]   \* mutant: the error is only reported
Poisoned(e) == [e EXCEPT !.torn = TRUE, !.closed = TRUE, !.content = "closed"]

Written(r) ==
    LET s == req[r].of IN
    /\ At(r, "writing")
    /\ lock' = [lock EXCEPT ![s] = None]
    /\ \/ /\ entry' = [entry EXCEPT ![s].data = @ + 1, ![s].acked = IF Over(r) THEN @ ELSE @ + 1]
          /\ IF Over(r) THEN Fail(r) ELSE Succeed(r)
       \/ /\ "disk" \in budget.faults
          /\ entry' = [entry EXCEPT ![s] = Poisoned(@)]
          /\ Go(r, "forget")
    /\ UNCHANGED <<table, body, others>>

\* the entry leaves the registry, after its lock was released
Forget(r) ==
    /\ At(r, "forget")
    /\ table' = table \ {req[r].of} /\ Go(r, "settle")
    /\ UNCHANGED <<entry, lock, body, others>>

ReadFile(r) ==
    /\ Holding(r, "read", {"file"})
    /\ lock' = [lock EXCEPT ![req[r].of] = r] /\ Go(r, "reading")
    /\ UNCHANGED <<table, entry, body, others>>

\* the next chunk of what is there, 0 at the end of it
Next_(e, there) == IF e.pos < there THEN e.pos + 1 ELSE 0
Advanced(e, there) == IF e.pos < there THEN [e EXCEPT !.pos = @ + 1] ELSE e

FileChunk(r) ==
    LET s == req[r].of IN
    /\ At(r, "reading")
    /\ lock' = [lock EXCEPT ![s] = None]
    /\ \/ /\ req' = [req EXCEPT ![r].at = "deliver", ![r].res = Next_(entry[s], Chunks)]
          /\ entry' = [entry EXCEPT ![s] = Advanced(@, Chunks)]
       \/ "disk" \in budget.faults /\ Fail(r) /\ UNCHANGED entry
    /\ UNCHANGED <<table, body, others>>

ReadBody(r) == Holding(r, "read", {"http"}) /\ Go(r, "body") /\ UNCHANGED <<streams, others>>

\* both waits of a read are left when its stream or its invocation ends
Leaves(r) == Over(r) \/ ~Sound(req[r].of)

BodyEnds(r) ==
    LET s == req[r].of IN
    /\ (At(r, "body") \/ At(r, "fetch")) /\ Leaves(r)
    /\ body' = IF At(r, "fetch") THEN [body EXCEPT ![s] = None] ELSE body
    /\ Fail(r)
    /\ UNCHANGED <<table, entry, lock, others>>

TakeBody(r) ==
    LET s == req[r].of IN
    /\ At(r, "body") /\ body[s] = None /\ Sound(s)
    /\ body' = [body EXCEPT ![s] = r]
    /\ Go(r, IF entry[s].pos < entry[s].fetched THEN "copy" ELSE "fetch")
    /\ UNCHANGED <<table, entry, lock, others>>

\* the network brings a chunk, the end of the body, or an error
Fetch(r) ==
    LET s == req[r].of IN
    /\ At(r, "fetch")
    /\ \/ /\ entry' = [entry EXCEPT ![s].fetched = IF @ < Chunks THEN @ + 1 ELSE @]
          /\ Go(r, "copy") /\ UNCHANGED body
       \/ /\ "net" \in budget.faults
          /\ body' = [body EXCEPT ![s] = None] /\ Fail(r) /\ UNCHANGED entry
    /\ UNCHANGED <<table, lock, others>>

Copy(r) ==
    LET s == req[r].of IN
    /\ At(r, "copy")
    /\ body' = [body EXCEPT ![s] = None]
    /\ IF Sound(s)
       THEN /\ req' = [req EXCEPT ![r].at = "deliver", ![r].res = Next_(entry[s], entry[s].fetched)]
            /\ entry' = [entry EXCEPT ![s] = Advanced(@, entry[s].fetched)]
       ELSE Fail(r) /\ UNCHANGED entry
    /\ UNCHANGED <<table, lock, others>>

\* the last checks of read; at the end of the content the stream closes itself
Deliver(r) ==
    LET s == req[r].of IN
    /\ At(r, "deliver")
    /\ IF ~Sound(s) \/ Over(r) THEN Fail(r) /\ UNCHANGED entry
       ELSE IF req[r].res # 0 THEN Succeed(r) /\ UNCHANGED entry
       ELSE /\ entry' = [entry EXCEPT ![s].closed = TRUE]
            /\ req' = [req EXCEPT ![r].at = "forget", ![r].ok = TRUE]
    /\ UNCHANGED <<table, lock, body, others>>

Close(r) ==
    LET s == req[r].of IN
    /\ At(r, "use") /\ req[r].method = "close" /\ lock[s] = None
    /\ entry' = [entry EXCEPT ![s].closed = TRUE]
    /\ req' = [req EXCEPT ![r].at = "forget", ![r].ok = TRUE]
    /\ UNCHANGED <<table, lock, body, others>>

\* spool: the request takes the file along and goes on to the network
Upload(r) == Holding(r, "upload", {"spool"}) /\ Go(r, "run") /\ UNCHANGED <<streams, others>>

\* finish takes the content out of the entry before it syncs and commits
Finish(r) ==
    LET s == req[r].of IN
    /\ Holding(r, "finish", {"writer"})
    /\ entry' = [entry EXCEPT ![s].content = "closed"]
    /\ lock' = [lock EXCEPT ![s] = r] /\ Go(r, "sync")
    /\ UNCHANGED <<table, body, others>>

Sync(r) ==
    LET s == req[r].of IN
    /\ At(r, "sync")
    /\ \E synced \in Disk :
          IF synced /\ ~Over(s) /\ ~Over(r)
          THEN Go(r, "commit") /\ UNCHANGED lock
          ELSE Go(r, "forget") /\ lock' = [lock EXCEPT ![s] = None]
    /\ UNCHANGED <<table, entry, body, others>>

Committed(s) == [of |-> s, data |-> entry[s].data, acked |-> entry[s].acked, torn |-> entry[s].torn]

Commit(r) ==
    LET s == req[r].of
        Retained == /\ entry' = [entry EXCEPT ![s].content = "spool"] /\ UNCHANGED saved
                    /\ Succeed(r)
        Saved == /\ saved' = Append(saved, Committed(s)) /\ UNCHANGED entry
                 /\ req' = [req EXCEPT ![r].at = "forget", ![r].ok = TRUE]
        Lost == Go(r, "forget") /\ UNCHANGED <<entry, saved>>
    IN
    /\ At(r, "commit")
    /\ CASE entry[s].target = "spool" -> Retained
         [] entry[s].target = "download" -> Saved \/ Lost       \* the broker may refuse it
         [] entry[s].target = "path" -> Saved \/ ("disk" \in budget.faults /\ Lost)
    /\ lock' = [lock EXCEPT ![s] = None]
    /\ UNCHANGED <<table, body, phase, late, picked, window, budget>>

-----------------------------------------------------------------------------
(* Picked files *)

\* the user answers the dialog; nothing interrupts it
Answer(r) ==
    /\ At(r, "run") /\ req[r].method = "pick"
    /\ \/ Fail(r)                             \* cancelled, or not a file that was asked for
       \/ Go(r, IF Over(r) THEN "settle" ELSE "register")
    /\ UNCHANGED <<streams, others>>

Pick(r) ==
    /\ At(r, "register")
    /\ IF Cardinality(picked) >= MaxPicked THEN Fail(r) /\ UNCHANGED picked
       ELSE Succeed(r) /\ picked' = picked \cup {r}
    /\ UNCHANGED <<streams, phase, late, window, saved, budget>>

\* read_picked_file takes the handle, read_picked_file_chunk looks it up
Take(r) ==
    LET h == req[r].of IN
    /\ At(r, "run") /\ req[r].method \in OfHandles
    /\ IF h \notin picked THEN Fail(r) /\ UNCHANGED picked
       ELSE /\ Go(r, "load")
            /\ picked' = IF req[r].method = "take" THEN picked \ {h} ELSE picked
    /\ UNCHANGED <<streams, phase, late, window, saved, budget>>

\* the file may have changed since, and the last chunk gives the handle up
Load(r) ==
    LET h == req[r].of IN
    /\ At(r, "load")
    /\ \/ Fail(r) /\ UNCHANGED picked
       \/ Succeed(r) /\ picked' \in {picked, picked \ {h}}
    /\ UNCHANGED <<streams, phase, late, window, saved, budget>>

-----------------------------------------------------------------------------
(* Browser windows *)

OpenWindow(r) ==
    /\ At(r, "run") /\ req[r].method = "window"
    /\ IF Over(r) THEN Fail(r) /\ UNCHANGED window
       ELSE Go(r, "opened") /\ window' = [window EXCEPT ![r] = "open"]
    /\ UNCHANGED <<streams, phase, late, picked, saved, budget>>

KeepWindow(r) ==
    /\ At(r, "opened")
    /\ IF Over(r) THEN Fail(r) /\ window' = [window EXCEPT ![r] = "none"]
       ELSE Succeed(r) /\ window' = [window EXCEPT ![r] = "known"]
    /\ UNCHANGED <<streams, phase, late, picked, saved, budget>>

Reachable(r) == window[req[r].of] = "known" /\ ~Over(req[r].of) /\ ~Over(r)

Navigate(r) ==
    /\ At(r, "run") /\ req[r].method = "navigate"
    /\ IF Reachable(r) THEN Succeed(r) ELSE Fail(r)
    /\ UNCHANGED <<streams, others>>

Shut(r) ==
    /\ At(r, "run") /\ req[r].method = "shut"
    /\ IF Reachable(r) THEN Succeed(r) /\ window' = [window EXCEPT ![req[r].of] = "none"]
       ELSE Fail(r) /\ UNCHANGED window
    /\ UNCHANGED <<streams, phase, late, picked, saved, budget>>

\* the task a session starts watches the invocation that opened it
Watched(w) == Over(w)
Monitor(w) ==
    /\ window[w] = "known" /\ Watched(w)
    /\ window' = [window EXCEPT ![w] = "none"]
    /\ UNCHANGED <<req, streams, phase, late, picked, saved, budget>>

-----------------------------------------------------------------------------
(* The ends of invocations *)

Rest == UNCHANGED <<req, picked, window, saved, budget>>

DeadlinePasses(r) ==
    /\ ~At(r, "idle") /\ r \in budget.lates \ late
    /\ late' = late \cup {r}
    /\ UNCHANGED <<phase, streams>> /\ Rest

Cancel(c) ==
    /\ c \in budget.ends /\ phase[c] = "open" /\ c # None
    /\ phase' = [phase EXCEPT ![c] = "cancelled"]
    /\ UNCHANGED <<late, streams>> /\ Rest

\* InvocationGuard::drop, and cancel_host_invocations for the process
Leave(c) ==
    /\ c \in budget.ends /\ phase[c] \in {"open", "cancelled"}
    /\ phase' = [phase EXCEPT ![c] = "left"]
    /\ UNCHANGED <<late, streams>> /\ Rest

Sweep(c) ==
    /\ phase[c] = "left" /\ phase' = [phase EXCEPT ![c] = "swept"]
    /\ Prune
    /\ UNCHANGED late /\ Rest

-----------------------------------------------------------------------------

\* what a worker does by itself, and what waits for the plugin, the network or the user
Work(r) ==
    \/ Begin(r) \/ Settle(r) \/ Clean(r) \/ Open(r) \/ SendEnds(r) \/ Insert(r)
    \/ Find(r) \/ Refused(r) \/ Write(r) \/ Written(r) \/ Forget(r)
    \/ ReadFile(r) \/ FileChunk(r) \/ ReadBody(r) \/ BodyEnds(r) \/ TakeBody(r) \/ Copy(r) \/ Deliver(r)
    \/ Close(r) \/ Upload(r) \/ Finish(r) \/ Sync(r) \/ Commit(r)
    \/ Pick(r) \/ Take(r) \/ Load(r)
    \/ OpenWindow(r) \/ KeepWindow(r) \/ Navigate(r) \/ Shut(r)
Outside(r) == Arrive(r) \/ Respond(r) \/ Fetch(r) \/ Answer(r) \/ DeadlinePasses(r)

Next ==
    \/ \E r \in Requests : Work(r) \/ Outside(r) \/ Monitor(r)
    \/ \E c \in Owners : Cancel(c) \/ Leave(c) \/ Sweep(c)

\* a worker is a thread, a monitor a timer, and the caller of a cancelled call
\* looks at its invocation every 20 ms
Fairness ==
    /\ \A r \in Requests : WF_vars(Work(r)) /\ WF_vars(Monitor(r))
    /\ \A c \in Owners : WF_vars(phase[c] = "cancelled" /\ Leave(c)) /\ WF_vars(Sweep(c))

Spec == Init /\ [][Next]_vars /\ Fairness

-----------------------------------------------------------------------------
(* Properties *)

\* A file that reaches its destination holds every chunk the plugin was told is
\* written and no part of one that failed, and each writer commits once: finish
\* takes the content under the entry's lock, and a failed write ends the writer.
CommitsAreWhole ==
    /\ \A i \in DOMAIN saved : ~saved[i].torn /\ saved[i].acked <= saved[i].data
    /\ \A i, j \in DOMAIN saved : saved[i].of = saved[j].of => i = j

\* Readers of one stream, side by side and with a close or an end between their
\* steps, never get a chunk twice; and when one is told the end, each chunk was
\* handed to some read, even if that read's own request then ended without it.
Reads(s) == {r \in Requests : req[r].method = "read" /\ req[r].of = s /\ req[r].res # None}
ChunksOnce ==
    \A s \in Streams :
        /\ \A r, q \in Reads(s) : Told(r) /\ Told(q) /\ req[r].res = req[q].res /\ req[r].res # 0 => r = q
        /\ (\E r \in Reads(s) : Told(r) /\ req[r].res = 0)
              => 1 .. Chunks \subseteq {req[r].res : r \in Reads(s)}

\* What goes through a stream arrives as it was sent, whichever way it goes and
\* whatever fails or runs side by side.
StreamsAreWhole == CommitsAreWhole /\ ChunksOnce

\* What a request opened and the plugin was not told of is not kept: its stream
\* and its handle are gone when the reply, an error, is on its way.
NothingUntold ==
    \A r \in Requests :
        At(r, "over") /\ ~req[r].ok =>
            r \notin picked /\ r \notin table

\* When a call ends, or the process, everything done and opened in its name
\* comes to an end: requests return (but for one the user still has a dialog
\* of), streams leave the registry and windows close.
Busy(r) == req[r].at \notin {"idle", "over"} /\ ~(At(r, "run") /\ req[r].method = "pick")
Released(c) ==
    /\ \A r \in Requests : req[r].ctx = c => ~Busy(r) /\ window[r] = "none"
    /\ \A s \in table : req[s].ctx # c
EndedCallsRelease == \A c \in Owners : phase[c] # "open" ~> Released(c)
================================================================================
