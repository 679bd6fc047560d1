----------------------------- MODULE WebAccessProofs -----------------------------
(* Proofs about WebAccess and the broker under it, for any number of calls, nested *)
(* calls, service workers, streams and interactions.                               *)
EXTENDS WebAccess, TLAPS

USE BrokerAssumption

(* ------------------------------------------------------------------- the types *)
Interactions == [ctx : Contexts, kind : {"pick", "read", "download", "notice"},
                 reply : Workers \cup {None}, old : BOOLEAN, delivered : BOOLEAN,
                 transfers : SUBSET Streams]
Asking == [at : {"ask", "wait", "leave", "remove", "finish"}, ctx : Contexts,
           kind : {"pick", "read"}, id : Nat, handle : Nat]
Bodies == [at : {"admitted", "open"}, id : Ids, byKey : BOOLEAN]
Progress == {"no", "flag", "children", "waiting", "done"}

TableTyped ==
    /\ closed \in BOOLEAN /\ nextId \in Nat
    /\ \A i \in Posted : i \in Ids /\ i < nextId /\ actions[i] \in Interactions
    /\ DOMAIN selected \subseteq Ids
ContextTyped ==
    /\ born \subseteq Contexts /\ children \subseteq born
    /\ cancel \in [Contexts -> Progress]
    /\ files \in [Contexts -> SUBSET Ids] /\ waiting \in [Contexts -> SUBSET Ids]
WorkerTyped ==
    /\ worker \in [Workers -> {Idle} \cup Asking]
    /\ answer \in [Workers -> Answers \cup {None}]
StreamTyped ==
    /\ stream \in [Streams -> {NoStream} \cup Bodies]
    /\ creds \subseteq Ids /\ keyed \subseteq Streams
WebTyped ==
    /\ active \in BOOLEAN /\ reg \subseteq Roots
    /\ future \in [Roots -> {"none", "pending", "answered", "lost"}]
    /\ job \in [Roots -> {"none", "queued", "inside", "ended"}]
    /\ stopping \in {"no", "closed", "inactive", "stopped"}
    /\ upgrade \in {"no", "frozen", "installing"}
Typed == TableTyped /\ ContextTyped /\ WorkerTyped /\ StreamTyped /\ WebTyped

(* ------------------------------------------------------------- what the steps keep *)
(* Only a pick or a read is ever waited for, by a worker of a living context, under *)
(* an id that was given out.                                                        *)
Asked(i) == i \in Ids /\ i < nextId /\ (i \in Posted => actions[i].kind \in {"pick", "read"})
AskedFor ==
    /\ \A c \in Contexts : \A i \in waiting[c] : Asked(i)
    /\ \A w \in Workers :
          /\ worker[w] # Idle => worker[w].ctx \in born
          /\ worker[w].at \in {"wait", "leave", "remove"} => Asked(worker[w].id)
          /\ worker[w].at = "finish" => worker[w].id \in Ids

(* A nested context that is not cancelled will be found by the cancel of its parent. *)
Families ==
    \A c \in born : Parent[c] # None /\ cancel[c] = "no" =>
        c \in children /\ cancel[Parent[c]] \in {"no", "flag", "children"}

(* An entry with an asker is withdrawn by the cancel of its context, or is about to *)
(* be removed by the worker that asked.                                             *)
Withdrawable(i) ==
    LET c == actions[i].ctx
    IN  /\ i \in waiting[c] /\ c \in born /\ cancel[c] # "done"
        /\ Parent[c] # None => cancel[Parent[c]] # "done"
AskersAlive ==
    \A i \in Posted : actions[i].reply # None =>
        actions[i].kind \in {"pick", "read"} /\ (Leaving(i) \/ Withdrawable(i))

(* The table counts only streams that are open on the entry.                        *)
Counted ==
    \A i \in Posted : \A s \in actions[i].transfers : stream[s].at = "open" /\ stream[s].id = i

(* While the manager is frozen nobody is inside, and so nobody serves a plugin.     *)
FreezeHolds == Frozen => Inside = {} /\ Admitted = {} /\ Serving = {}
ClosedIsEmpty == (closed => Posted = {}) /\ (stopping # "no" => closed)
Settled ==
    upgrade = "installing" => \A i \in Posted :
        /\ actions[i].reply = None /\ actions[i].transfers = {}
        /\ actions[i].kind = "download" => actions[i].delivered

WebInv == Typed /\ AskedFor /\ Families /\ AskersAlive /\ Counted /\ FreezeHolds
          /\ ClosedIsEmpty /\ Settled

(* --------------------------------------------------------------- operations on tables *)
LEMMA WithoutTable ==
  ASSUME NEW table, NEW ids
  PROVE  /\ DOMAIN Without(table, ids) = DOMAIN table \ ids
         /\ \A i \in DOMAIN table \ ids : Without(table, ids)[i] = table[i]
  BY DEF Without, Restrict

LEMMA PrunedTable ==
  /\ DOMAIN Pruned = {i \in Posted : Live(i)}
  /\ \A i \in DOMAIN Pruned : i \in Posted /\ Pruned[i] = actions[i]
  BY DEF Pruned, Restrict

(* An entry keeps its context, its kind and its asker; it may age, be delivered and *)
(* lose streams.                                                                    *)
KeepsEntry(i, e) ==
    /\ i \in Posted /\ e \in Interactions
    /\ e.ctx = actions[i].ctx /\ e.kind = actions[i].kind /\ e.reply = actions[i].reply
    /\ e.transfers \subseteq actions[i].transfers
    /\ actions[i].delivered => e.delivered
KeepsTable(table) == \A i \in DOMAIN table : KeepsEntry(i, table[i])
EntriesKept == KeepsTable(actions')

LEMMA SameEntry ==
  ASSUME TableTyped, NEW i \in Posted
  PROVE  KeepsEntry(i, actions[i])
  BY DEF KeepsEntry, TableTyped

LEMMA RemovalKeeps ==
  ASSUME TableTyped, NEW ids
  PROVE  /\ KeepsTable(actions) /\ KeepsTable(Pruned)
         /\ KeepsTable(Without(actions, ids)) /\ KeepsTable(Without(Pruned, ids))
<1>1. \A i \in Posted : KeepsEntry(i, actions[i])
  BY SameEntry
<1>2. KeepsTable(actions)
  BY <1>1 DEF KeepsTable, Posted
<1>3. KeepsTable(Pruned)
  BY <1>1, PrunedTable DEF KeepsTable
<1>4. KeepsTable(Without(actions, ids))
  <2>1. /\ DOMAIN Without(actions, ids) = Posted \ ids
        /\ \A i \in Posted \ ids : Without(actions, ids)[i] = actions[i]
    BY DEF Without, Restrict, Posted
  <2> QED
    BY <1>1, <2>1 DEF KeepsTable
<1>5. KeepsTable(Without(Pruned, ids))
  <2>1. /\ DOMAIN Without(Pruned, ids) = DOMAIN Pruned \ ids
        /\ \A i \in DOMAIN Pruned \ ids : Without(Pruned, ids)[i] = Pruned[i]
    BY DEF Without, Restrict
  <2> QED
    BY <1>1, <2>1, PrunedTable DEF KeepsTable
<1> QED
  BY <1>2, <1>3, <1>4, <1>5

LEMMA DeliveredTable ==
  ASSUME TableTyped, NEW i, NEW s, NEW received \in BOOLEAN
  PROVE  LET t == Delivered(i, s, received)
         IN  /\ KeepsTable(t) /\ DOMAIN t = DOMAIN Pruned
             /\ i \in DOMAIN t => s \notin t[i].transfers
<1>1. KeepsTable(Pruned)
  BY RemovalKeeps
<1>2. CASE i \in DOMAIN Pruned /\ s \in Pruned[i].transfers
  <2> DEFINE e == [Pruned[i] EXCEPT !.transfers = Pruned[i].transfers \ {s},
                                    !.delivered = Pruned[i].delivered \/ received]
             t == [Pruned EXCEPT ![i] = e]
  <2>1. Delivered(i, s, received) = t
    BY <1>2 DEF Delivered
  <2>2. KeepsEntry(i, Pruned[i])
    BY <1>1, <1>2 DEF KeepsTable
  <2>3. Pruned[i] \in Interactions
    BY <2>2 DEF KeepsEntry
  <2>4. (Pruned[i].delivered \/ received) \in BOOLEAN /\ Pruned[i].transfers \ {s} \in SUBSET Streams
    BY <2>3 DEF Interactions
  <2>5. /\ e \in Interactions /\ e.ctx = Pruned[i].ctx /\ e.kind = Pruned[i].kind
        /\ e.reply = Pruned[i].reply /\ e.transfers = Pruned[i].transfers \ {s}
        /\ e.delivered = (Pruned[i].delivered \/ received)
    BY <2>3, <2>4 DEF Interactions
  <2> HIDE DEF e
  <2>6. KeepsEntry(i, e)
    BY <2>2, <2>5 DEF KeepsEntry
  <2>7. DOMAIN t = DOMAIN Pruned /\ t[i] = e /\ \A j \in DOMAIN Pruned \ {i} : t[j] = Pruned[j]
    BY <1>2
  <2>8. KeepsTable(t)
    BY <1>1, <2>6, <2>7 DEF KeepsTable
  <2> QED
    BY <2>1, <2>5, <2>7, <2>8
<1>3. CASE ~(i \in DOMAIN Pruned /\ s \in Pruned[i].transfers)
  BY <1>1, <1>3 DEF Delivered
<1> QED
  BY <1>2, <1>3

(* ------------------------------------------- steps that leave contexts and askers alone *)
(* The part of the invariant about who asks.                                        *)
LEMMA AskersKept ==
  ASSUME WebInv, EntriesKept, UNCHANGED <<contextVars, worker, nextId>>
  PROVE  AskedFor' /\ Families' /\ AskersAlive'
<1>1. ASSUME NEW i, Asked(i) PROVE Asked(i)'
  BY <1>1 DEF Asked, EntriesKept, KeepsTable, KeepsEntry, Posted
<1>2. AskedFor'
  BY <1>1 DEF WebInv, AskedFor, contextVars
<1>3. Families'
  BY DEF WebInv, Families, contextVars
<1>4. ASSUME NEW i \in DOMAIN actions', actions'[i].reply # None
      PROVE  actions'[i].kind \in {"pick", "read"} /\ (Leaving(i)' \/ Withdrawable(i)')
  <2>1. KeepsEntry(i, actions'[i])
    BY <1>4 DEF EntriesKept, KeepsTable
  <2>2. actions[i].kind \in {"pick", "read"} /\ (Leaving(i) \/ Withdrawable(i))
    BY <1>4, <2>1 DEF WebInv, AskersAlive, KeepsEntry
  <2>3. Leaving(i) => Leaving(i)'
    BY DEF Leaving
  <2>4. Withdrawable(i) => Withdrawable(i)'
    BY <2>1 DEF Withdrawable, KeepsEntry, contextVars
  <2> QED
    BY <2>1, <2>2, <2>3, <2>4 DEF KeepsEntry
<1>5. AskersAlive'
  BY <1>4 DEF AskersAlive, Posted
<1> QED
  BY <1>2, <1>3, <1>5

LEMMA TableTypeKept ==
  ASSUME TableTyped, EntriesKept, UNCHANGED nextId, closed' \in BOOLEAN,
         DOMAIN selected' \subseteq Ids
  PROVE  TableTyped'
  BY DEF TableTyped, EntriesKept, KeepsTable, KeepsEntry, Posted

LEMMA TableKept ==
  ASSUME WebInv, EntriesKept, UNCHANGED <<contextVars, worker, nextId, closed, webVars>>,
         answer' \in [Workers -> Answers \cup {None}], DOMAIN selected' \subseteq Ids,
         StreamTyped',
         \A i \in DOMAIN actions' : \A s \in actions'[i].transfers : stream'[s] = stream[s],
         \A s \in Streams : stream'[s].at = "admitted" => stream[s].at = "admitted"
  PROVE  WebInv'
<1>1. AskedFor' /\ Families' /\ AskersAlive'
  BY AskersKept
<1>2. Typed'
  <2>1. TableTyped'
    BY TableTypeKept DEF WebInv, Typed, TableTyped
  <2>2. ContextTyped' /\ WorkerTyped' /\ WebTyped'
    BY DEF WebInv, Typed, ContextTyped, WorkerTyped, WebTyped, contextVars, webVars
  <2> QED
    BY <2>1, <2>2 DEF Typed
<1>3. Counted'
  <2>1. ASSUME NEW i \in DOMAIN actions', NEW s \in actions'[i].transfers
        PROVE  stream'[s].at = "open" /\ stream'[s].id = i
    BY DEF WebInv, Counted, EntriesKept, KeepsTable, KeepsEntry
  <2> QED
    BY <2>1 DEF Counted, Posted
<1>4. FreezeHolds'
  BY DEF WebInv, FreezeHolds, Frozen, Inside, Admitted, Serving, webVars
<1>5. ClosedIsEmpty'
  BY DEF WebInv, ClosedIsEmpty, EntriesKept, KeepsTable, KeepsEntry, Posted, webVars
<1>6. Settled'
  <2>1. ASSUME upgrade' = "installing", NEW i \in DOMAIN actions'
        PROVE  /\ actions'[i].reply = None /\ actions'[i].transfers = {}
               /\ actions'[i].kind = "download" => actions'[i].delivered
    <3>1. KeepsEntry(i, actions'[i]) /\ upgrade = "installing"
      BY <2>1 DEF EntriesKept, KeepsTable, webVars
    <3>2. /\ actions[i].reply = None /\ actions[i].transfers = {}
          /\ actions[i].kind = "download" => actions[i].delivered
      BY <3>1 DEF WebInv, Settled, KeepsEntry
    <3> QED
      BY <3>1, <3>2 DEF KeepsEntry
  <2> QED
    BY <2>1 DEF Settled, Posted
<1> QED
  BY <1>1, <1>2, <1>3, <1>4, <1>5, <1>6 DEF WebInv

(* Steps that do not even touch the streams.                                        *)
LEMMA StreamsAlone ==
  ASSUME WebInv, EntriesKept, UNCHANGED <<contextVars, worker, nextId, closed, webVars, stream>>,
         answer' \in [Workers -> Answers \cup {None}], DOMAIN selected' \subseteq Ids,
         creds' \subseteq Ids, keyed' \subseteq Streams
  PROVE  WebInv'
  BY TableKept DEF WebInv, Typed, StreamTyped

(* ------------------------------------------------------------------ table operations *)
LEMMA ExpiresStep ==
  ASSUME WebInv, NEW i, Expires(i), UNCHANGED webVars
  PROVE  WebInv'
<1> DEFINE e == [actions[i] EXCEPT !.old = TRUE]
<1>1. /\ i \in Posted /\ actions' = [actions EXCEPT ![i] = e]
      /\ UNCHANGED <<closed, selected, nextId, contextVars, workerVars, streamVars>>
  BY DEF Expires
<1>2. KeepsEntry(i, e)
  BY <1>1 DEF WebInv, Typed, TableTyped, Interactions, KeepsEntry
<1> HIDE DEF e
<1>3. KeepsTable(actions)
  BY RemovalKeeps DEF WebInv, Typed
<1>4. EntriesKept
  BY <1>1, <1>2, <1>3 DEF EntriesKept, KeepsTable, Posted
<1> QED
  BY <1>1, <1>4, StreamsAlone
     DEF WebInv, Typed, TableTyped, WorkerTyped, StreamTyped, workerVars, streamVars

LEMMA ExpireStep ==
  ASSUME WebInv, Expire, UNCHANGED webVars
  PROVE  WebInv'
<1>1. EntriesKept
  BY RemovalKeeps DEF Expire, EntriesKept, WebInv, Typed
<1> QED
  BY <1>1, StreamsAlone
     DEF Expire, WebInv, Typed, TableTyped, WorkerTyped, StreamTyped, workerVars, streamVars

LEMMA SelectableHandles ==
  ASSUME DOMAIN selected \subseteq Ids
  PROVE  DOMAIN Selectable \subseteq Ids
  BY DEF Selectable, Restrict

LEMMA SelectedHandlesStep ==
  ASSUME WebInv, SelectedHandles, UNCHANGED webVars
  PROVE  WebInv'
<1>1. EntriesKept
  BY RemovalKeeps DEF SelectedHandles, EntriesKept, WebInv, Typed
<1>2. DOMAIN selected' \subseteq Ids
  BY SelectableHandles DEF SelectedHandles, WebInv, Typed, TableTyped
<1> QED
  BY <1>1, <1>2, StreamsAlone
     DEF SelectedHandles, WebInv, Typed, WorkerTyped, StreamTyped, workerVars, streamVars

LEMMA ReplyStep ==
  ASSUME WebInv, NEW i, NEW value \in Answers, Reply(i, value), UNCHANGED webVars
  PROVE  WebInv'
<1>1. /\ i \in Posted /\ actions' = Without(Pruned, {i})
      /\ UNCHANGED <<closed, nextId, contextVars, worker, stream>>
      /\ creds' \subseteq creds /\ keyed' \subseteq keyed
  BY PrunedTable DEF Reply
<1>2. EntriesKept
  BY <1>1, RemovalKeeps DEF EntriesKept, WebInv, Typed
<1>3. i \in Ids
  BY <1>1 DEF WebInv, Typed, TableTyped
<1>4. DOMAIN selected' \subseteq Ids
  BY <1>3 DEF Reply, WebInv, Typed, TableTyped
<1>5. answer' \in [Workers -> Answers \cup {None}]
  BY DEF Reply, WebInv, Typed, WorkerTyped
<1> QED
  BY <1>1, <1>2, <1>4, <1>5, StreamsAlone DEF WebInv, Typed, StreamTyped

LEMMA DiscardStep ==
  ASSUME WebInv, NEW i, Discard(i), UNCHANGED webVars
  PROVE  WebInv'
<1>1. EntriesKept
  BY RemovalKeeps DEF Discard, EntriesKept, WebInv, Typed
<1> QED
  BY <1>1, StreamsAlone
     DEF Discard, WebInv, Typed, TableTyped, WorkerTyped, StreamTyped, workerVars

LEMMA PrepareStep ==
  ASSUME WebInv, NEW i, Prepare(i), UNCHANGED webVars
  PROVE  WebInv'
<1>1. EntriesKept
  BY RemovalKeeps DEF Prepare, EntriesKept, WebInv, Typed
<1>2. i \in Ids
  BY PrunedTable DEF Prepare, WebInv, Typed, TableTyped
<1> QED
  BY <1>1, <1>2, StreamsAlone
     DEF Prepare, WebInv, Typed, TableTyped, WorkerTyped, StreamTyped, workerVars

LEMMA RevokeStep ==
  ASSUME WebInv, Revoke, UNCHANGED webVars
  PROVE  WebInv'
<1>1. EntriesKept
  BY RemovalKeeps DEF Revoke, EntriesKept, WebInv, Typed, brokerVars
<1> QED
  BY <1>1, StreamsAlone
     DEF Revoke, WebInv, Typed, TableTyped, WorkerTyped, StreamTyped, workerVars, brokerVars

(* A stream reports its end, or is dropped: the table counts it no more.            *)
LEMMA StreamEnds ==
  ASSUME WebInv, NEW s \in Streams, NEW received \in BOOLEAN,
         actions' = Delivered(stream[s].id, s, received),
         stream' = [stream EXCEPT ![s] = NoStream], keyed' = keyed \ {s},
         UNCHANGED <<closed, selected, nextId, contextVars, workerVars, creds, webVars>>
  PROVE  WebInv'
<1>1. /\ EntriesKept
      /\ stream[s].id \in DOMAIN actions' => s \notin actions'[stream[s].id].transfers
  BY DeliveredTable DEF EntriesKept, WebInv, Typed
<1>2. ASSUME NEW i \in DOMAIN actions', NEW x \in actions'[i].transfers
      PROVE  stream'[x] = stream[x]
  <2>1. i \in Posted /\ x \in actions[i].transfers /\ x \in Streams
    BY <1>1 DEF EntriesKept, KeepsTable, KeepsEntry, Interactions
  <2>2. stream[x].id = i
    BY <2>1 DEF WebInv, Counted
  <2>3. x # s
    BY <1>1, <2>2
  <2> QED
    BY <2>1, <2>3 DEF WebInv, Typed, StreamTyped
<1>3. StreamTyped' /\ NoStream.at = "none" /\ stream'[s] = NoStream
  BY DEF WebInv, Typed, StreamTyped, NoStream
<1>4. \A x \in Streams : stream'[x].at = "admitted" => stream[x].at = "admitted"
  BY <1>3 DEF WebInv, Typed, StreamTyped
<1> QED
  BY <1>1, <1>2, <1>3, <1>4, TableKept
     DEF WebInv, Typed, TableTyped, WorkerTyped, workerVars

LEMMA StreamEofStep ==
  ASSUME WebInv, NEW s \in Streams, StreamEof(s) \/ StreamDropped(s), UNCHANGED webVars
  PROVE  WebInv'
  BY StreamEnds DEF StreamEof, StreamDropped

LEMMA ConfirmStep ==
  ASSUME WebInv, NEW s \in Streams, NEW received \in BOOLEAN, Confirm(s, received),
         UNCHANGED webVars
  PROVE  WebInv'
<1>1. EntriesKept
  BY DeliveredTable DEF Confirm, EntriesKept, WebInv, Typed
<1> QED
  BY <1>1, StreamsAlone
     DEF Confirm, WebInv, Typed, TableTyped, WorkerTyped, StreamTyped, workerVars, streamVars

(* An admitted request: the manager is not frozen, and its body is counted at once. *)
LEMMA AdmitStep ==
  ASSUME WebInv, NEW s \in Streams, NEW i, NEW byKey \in BOOLEAN, AdmitStream(s, i, byKey)
  PROVE  WebInv'
<1> DEFINE b == [at |-> "admitted", id |-> i, byKey |-> byKey]
<1>1. /\ stream[s] = NoStream /\ i \in Posted /\ ~Frozen
      /\ stream' = [stream EXCEPT ![s] = b]
      /\ UNCHANGED <<brokerVars, contextVars, workerVars, creds, keyed, webVars>>
  BY DEF AdmitStream, MayAdmit
<1>2. b \in Bodies /\ b.at = "admitted"
  BY <1>1 DEF Bodies, WebInv, Typed, TableTyped
<1> HIDE DEF b
<1>3. EntriesKept /\ UNCHANGED actions
  BY <1>1, RemovalKeeps DEF EntriesKept, WebInv, Typed, brokerVars
<1>4. AskedFor' /\ Families' /\ AskersAlive'
  BY <1>1, <1>3, AskersKept DEF brokerVars, workerVars
<1>5. StreamTyped' /\ \A x \in Streams \ {s} : stream'[x] = stream[x]
  BY <1>1, <1>2 DEF WebInv, Typed, StreamTyped
<1>6. Typed'
  BY <1>1, <1>5 DEF WebInv, Typed, TableTyped, ContextTyped, WorkerTyped, WebTyped, brokerVars,
                    contextVars, workerVars, webVars, Posted
<1>7. Counted'
  <2>1. ASSUME NEW j \in DOMAIN actions', NEW x \in actions'[j].transfers
        PROVE  stream'[x].at = "open" /\ stream'[x].id = j
    <3>1. j \in Posted /\ x \in actions[j].transfers /\ x \in Streams
      BY <1>3 DEF EntriesKept, KeepsTable, KeepsEntry, Interactions
    <3>2. stream[x].at = "open" /\ stream[x].id = j
      BY <3>1 DEF WebInv, Counted
    <3>3. x # s
      BY <1>1, <3>2 DEF NoStream
    <3> QED
      BY <1>5, <3>1, <3>2, <3>3
  <2> QED
    BY <2>1 DEF Counted, Posted
<1>8. FreezeHolds' /\ ClosedIsEmpty' /\ Settled'
  BY <1>1, <1>3 DEF WebInv, FreezeHolds, ClosedIsEmpty, Settled, Frozen, Posted, webVars, brokerVars
<1> QED
  BY <1>4, <1>6, <1>7, <1>8 DEF WebInv

(* The body takes its place in the table, or is refused.                            *)
LEMMA BeginStep ==
  ASSUME WebInv, NEW s \in Streams, BeginStream(s)
  PROVE  WebInv'
<1> DEFINE i == stream[s].id
<1>1. stream[s].at = "admitted" /\ OpenStream(s, i, stream[s].byKey) /\ UNCHANGED webVars
  BY DEF BeginStream
<1>2. stream[s] \in Bodies /\ i \in Ids
  BY <1>1 DEF WebInv, Typed, StreamTyped, Bodies, NoStream
<1>3. ~Frozen
  BY <1>1 DEF WebInv, FreezeHolds, Admitted
<1>4. KeepsTable(Pruned)
  BY RemovalKeeps DEF WebInv, Typed
<1>5. CASE /\ actions' = Pruned /\ stream' = [stream EXCEPT ![s] = NoStream]
           /\ UNCHANGED <<closed, selected, nextId, contextVars, workerVars, creds, keyed>>
  <2>1. EntriesKept
    BY <1>4, <1>5 DEF EntriesKept
  <2>2. StreamTyped' /\ \A x \in Streams \ {s} : stream'[x] = stream[x]
    BY <1>5 DEF WebInv, Typed, StreamTyped
  <2>3. ASSUME NEW j \in DOMAIN actions', NEW x \in actions'[j].transfers
        PROVE  stream'[x] = stream[x]
    <3>1. j \in Posted /\ x \in actions[j].transfers /\ x \in Streams
      BY <2>1 DEF EntriesKept, KeepsTable, KeepsEntry, Interactions
    <3>2. x # s
      BY <1>1, <3>1 DEF WebInv, Counted
    <3> QED
      BY <2>2, <3>1, <3>2
  <2>4. \A x \in Streams : stream'[x].at = "admitted" => stream[x].at = "admitted"
    BY <1>1, <2>2
  <2> QED
    BY <1>1, <1>5, <2>1, <2>2, <2>3, <2>4, TableKept
       DEF WebInv, Typed, TableTyped, WorkerTyped, workerVars
<1>6. CASE /\ Openable(i) /\ Transfer(s, i)
           /\ stream' = [stream EXCEPT ![s] = [at |-> "open", id |-> i, byKey |-> stream[s].byKey]]
           /\ keyed' = IF stream[s].byKey /\ i \in creds THEN keyed \cup {s} ELSE keyed
  <2> DEFINE b == [at |-> "open", id |-> i, byKey |-> stream[s].byKey]
             e == [Pruned[i] EXCEPT !.transfers = Pruned[i].transfers \cup {s}]
  <2>1. b \in Bodies /\ b.at = "open" /\ b.id = i
    BY <1>2 DEF Bodies
  <2> HIDE DEF b, i
  <2>2. /\ i \in DOMAIN Pruned /\ actions' = [Pruned EXCEPT ![i] = e]
        /\ UNCHANGED <<closed, selected, nextId, contextVars, workerVars, creds>>
    BY <1>6 DEF Openable, Transfer
  <2>3. KeepsEntry(i, Pruned[i]) /\ Pruned[i] \in Interactions
    BY <1>4, <2>2 DEF KeepsTable, KeepsEntry
  <2>4. /\ e \in Interactions /\ e.ctx = Pruned[i].ctx /\ e.kind = Pruned[i].kind
        /\ e.reply = Pruned[i].reply /\ e.transfers = Pruned[i].transfers \cup {s}
    BY <2>3 DEF Interactions
  <2> HIDE DEF e
  <2>5. /\ DOMAIN actions' = DOMAIN Pruned /\ actions'[i] = e
        /\ \A j \in DOMAIN Pruned \ {i} : actions'[j] = Pruned[j]
    BY <2>2
  <2>6. StreamTyped' /\ stream'[s] = b /\ \A x \in Streams \ {s} : stream'[x] = stream[x]
    BY <1>6, <2>1, <2>2 DEF WebInv, Typed, StreamTyped, b
  <2>7. ASSUME NEW j \in DOMAIN actions'
        PROVE  /\ j \in Posted /\ actions'[j] \in Interactions
               /\ actions'[j].ctx = actions[j].ctx /\ actions'[j].kind = actions[j].kind
               /\ actions'[j].reply = actions[j].reply
    <3>1. KeepsEntry(j, Pruned[j])
      BY <1>4, <2>5 DEF KeepsTable
    <3> QED
      BY <2>4, <2>5, <3>1 DEF KeepsEntry
  <2>8. Typed'
    <3>1. TableTyped'
      BY <2>2, <2>7 DEF WebInv, Typed, TableTyped, Posted
    <3>2. ContextTyped' /\ WorkerTyped' /\ WebTyped'
      BY <1>1, <2>2 DEF WebInv, Typed, ContextTyped, WorkerTyped, WebTyped, contextVars,
                        workerVars, webVars
    <3> QED
      BY <2>6, <3>1, <3>2 DEF Typed
  <2>9. AskedFor' /\ Families'
    <3>1. ASSUME NEW j, Asked(j) PROVE Asked(j)'
      BY <2>2, <2>7, <3>1 DEF Asked, Posted
    <3> QED
      BY <2>2, <3>1 DEF WebInv, AskedFor, Families, contextVars, workerVars
  <2>10. AskersAlive'
    <3>1. ASSUME NEW j \in DOMAIN actions', actions'[j].reply # None
          PROVE  actions'[j].kind \in {"pick", "read"} /\ (Leaving(j)' \/ Withdrawable(j)')
      <4>1. actions[j].kind \in {"pick", "read"} /\ (Leaving(j) \/ Withdrawable(j))
        BY <2>7, <3>1 DEF WebInv, AskersAlive
      <4>2. (Leaving(j) => Leaving(j)') /\ (Withdrawable(j) => Withdrawable(j)')
        BY <2>2, <2>7 DEF Leaving, Withdrawable, contextVars, workerVars
      <4> QED
        BY <2>7, <4>1, <4>2
    <3> QED
      BY <3>1 DEF AskersAlive, Posted
  <2>11. Counted'
    <3>1. ASSUME NEW j \in DOMAIN actions', NEW x \in actions'[j].transfers
          PROVE  stream'[x].at = "open" /\ stream'[x].id = j
      <4>1. KeepsEntry(j, Pruned[j]) /\ x \in Streams
        BY <1>4, <2>5, <2>7 DEF KeepsTable, Interactions
      <4>2. x \in actions[j].transfers \/ (x = s /\ j = i)
        BY <2>4, <2>5, <4>1 DEF KeepsEntry
      <4>3. CASE x = s /\ j = i
        BY <2>1, <2>6, <4>3
      <4>4. CASE x \in actions[j].transfers
        <5>1. stream[x].at = "open" /\ stream[x].id = j
          BY <2>7, <4>4 DEF WebInv, Counted
        <5>2. x # s
          BY <1>1, <5>1
        <5> QED
          BY <2>6, <4>1, <5>1, <5>2
      <4> QED
        BY <4>2, <4>3, <4>4
    <3> QED
      BY <3>1 DEF Counted, Posted
  <2>12. FreezeHolds' /\ ClosedIsEmpty' /\ Settled'
    <3>1. ~Frozen'
      BY <1>1, <1>3 DEF Frozen, webVars
    <3>2. ClosedIsEmpty'
      BY <1>1, <2>2, <2>7 DEF WebInv, ClosedIsEmpty, Posted, webVars
    <3> QED
      BY <3>1, <3>2 DEF FreezeHolds, Settled, Frozen
  <2> QED
    BY <2>8, <2>9, <2>10, <2>11, <2>12 DEF WebInv
<1> QED
  BY <1>1, <1>5, <1>6 DEF OpenStream

(* ---------------------------------------------------- calls, stopping and the upgrade *)
(* Steps of the service itself: the table may lose entries.                          *)
LEMMA ServiceStep ==
  ASSUME WebInv, EntriesKept, UNCHANGED <<contextVars, workerVars, streamVars, nextId>>,
         closed' \in BOOLEAN, DOMAIN selected' \subseteq Ids,
         WebTyped', FreezeHolds', ClosedIsEmpty', Settled'
  PROVE  WebInv'
<1>1. AskedFor' /\ Families' /\ AskersAlive'
  BY AskersKept DEF workerVars
<1>2. TableTyped'
  BY TableTypeKept DEF WebInv, Typed
<1>3. Typed'
  BY <1>2 DEF WebInv, Typed, ContextTyped, WorkerTyped, StreamTyped, contextVars, workerVars,
              streamVars
<1>4. Counted'
  <2>1. ASSUME NEW i \in DOMAIN actions', NEW s \in actions'[i].transfers
        PROVE  stream'[s].at = "open" /\ stream'[s].id = i
    BY DEF WebInv, Counted, EntriesKept, KeepsTable, KeepsEntry, streamVars
  <2> QED
    BY <2>1 DEF Counted, Posted
<1> QED
  BY <1>1, <1>3, <1>4 DEF WebInv

LEMMA WebOnly ==
  ASSUME WebInv, UNCHANGED <<brokerVars, contextVars, workerVars, streamVars>>,
         WebTyped', FreezeHolds', ClosedIsEmpty', Settled'
  PROVE  WebInv'
<1>1. EntriesKept
  BY RemovalKeeps DEF EntriesKept, WebInv, Typed, brokerVars
<1> QED
  BY <1>1, ServiceStep DEF brokerVars, WebInv, Typed, TableTyped

(* Contexts are flagged, and nothing else of the broker changes.                    *)
LEMMA Flags ==
  ASSUME WebInv, cancel' \in [Contexts -> Progress],
         \A k \in Contexts : \/ cancel'[k] = cancel[k]
                             \/ cancel[k] = "no" /\ cancel'[k] = "flag",
         UNCHANGED <<brokerVars, born, children, files, waiting, workerVars, streamVars>>,
         WebTyped', FreezeHolds', ClosedIsEmpty', Settled'
  PROVE  WebInv'
<1>1. Typed'
  BY DEF WebInv, Typed, TableTyped, ContextTyped, WorkerTyped, StreamTyped, brokerVars,
         workerVars, streamVars, Posted
<1>2. AskedFor' /\ Counted'
  BY DEF WebInv, AskedFor, Asked, Counted, Posted, brokerVars, workerVars, streamVars
<1>3. Families'
  <2>1. ASSUME NEW k \in born, Parent[k] # None, cancel'[k] = "no"
        PROVE  k \in children /\ cancel'[Parent[k]] \in {"no", "flag", "children"}
    <3>1. k \in Contexts
      BY DEF WebInv, Typed, ContextTyped
    <3>2. Parent[k] \in Contexts
      BY <2>1, <3>1
    <3>3. k \in children /\ cancel[Parent[k]] \in {"no", "flag", "children"}
      BY <2>1, <3>1 DEF WebInv, Families
    <3> QED
      BY <3>2, <3>3
  <2> QED
    BY <2>1 DEF Families
<1>4. ASSUME NEW i \in Posted, actions[i].reply # None
      PROVE  actions[i].kind \in {"pick", "read"} /\ (Leaving(i)' \/ Withdrawable(i)')
  <2>1. actions[i].kind \in {"pick", "read"} /\ (Leaving(i) \/ Withdrawable(i))
    BY <1>4 DEF WebInv, AskersAlive
  <2>2. actions[i].ctx \in Contexts
    BY DEF WebInv, Typed, TableTyped, Interactions
  <2>3. Leaving(i) => Leaving(i)'
    BY DEF Leaving, workerVars
  <2>4. Withdrawable(i) => Withdrawable(i)'
    BY <2>2 DEF Withdrawable, brokerVars
  <2> QED
    BY <2>1, <2>3, <2>4
<1>5. AskersAlive'
  BY <1>4 DEF AskersAlive, Posted, brokerVars
<1> QED
  BY <1>1, <1>2, <1>3, <1>5 DEF WebInv

LEMMA FlagOne ==
  ASSUME WebInv, NEW c \in Contexts, Flagged(c)
  PROVE  /\ cancel' \in [Contexts -> Progress]
         /\ \A k \in Contexts : \/ cancel'[k] = cancel[k]
                                \/ cancel[k] = "no" /\ cancel'[k] = "flag"
  BY DEF Flagged, WebInv, Typed, ContextTyped, Progress

LEMMA RootsAreContexts == Roots \subseteq Contexts
  BY DEF Roots

(* A call registers with a context of its own, and waits for its worker.            *)
LEMMA RegisterStep ==
  ASSUME WebInv, NEW c \in Roots, Register(c)
  PROVE  WebInv'
<1>1. /\ UNCHANGED <<brokerVars, cancel, children, files, waiting, workerVars, streamVars,
                     active, stopping, upgrade>>
      /\ born \subseteq born' /\ born' \subseteq born \cup {c}
      /\ reg' \subseteq reg \cup {c}
      /\ future' = [future EXCEPT ![c] = "pending"] \/ future' = [future EXCEPT ![c] = "answered"]
      /\ UNCHANGED job \/ job' = [job EXCEPT ![c] = "queued"]
  BY DEF Register, NewContext
<1>2. c \in Contexts /\ Parent[c] = None
  BY DEF Roots
<1>3. WebTyped'
  BY <1>1 DEF WebInv, Typed, WebTyped
<1>4. Typed'
  BY <1>1, <1>2, <1>3 DEF WebInv, Typed, TableTyped, ContextTyped, WorkerTyped, StreamTyped,
                          brokerVars, workerVars, streamVars, Posted
<1>5. AskedFor' /\ Counted'
  BY <1>1 DEF WebInv, AskedFor, Asked, Counted, Posted, brokerVars, workerVars, streamVars
<1>6. Families'
  BY <1>1, <1>2 DEF WebInv, Families
<1>7. AskersAlive'
  <2>1. ASSUME NEW i, Withdrawable(i) PROVE Withdrawable(i)'
    BY <1>1, <2>1 DEF Withdrawable, brokerVars
  <2>2. ASSUME NEW i, Leaving(i) PROVE Leaving(i)'
    BY <1>1, <2>2 DEF Leaving, workerVars
  <2> QED
    BY <1>1, <2>1, <2>2 DEF WebInv, AskersAlive, Posted, brokerVars
<1>8. FreezeHolds'
  <2>1. Inside' \subseteq Inside
    BY <1>1 DEF WebInv, Typed, WebTyped, Inside
  <2> QED
    BY <1>1, <2>1 DEF WebInv, FreezeHolds, Frozen, Admitted, Serving, workerVars, streamVars
<1>9. ClosedIsEmpty' /\ Settled'
  BY <1>1 DEF WebInv, ClosedIsEmpty, Settled, Posted, brokerVars
<1> QED
  BY <1>4, <1>5, <1>6, <1>7, <1>8, <1>9 DEF WebInv

LEMMA EndJobEffect ==
  ASSUME WebInv, NEW c \in Roots, EndJob(c), UNCHANGED <<active, stopping, upgrade>>
  PROVE  WebTyped' /\ Inside' \subseteq Inside
<1>1. job' = [job EXCEPT ![c] = "ended"] /\ reg' = reg \ {c}
  BY DEF EndJob
<1>2. future' \in [Roots -> {"none", "pending", "answered", "lost"}]
  BY DEF EndJob, WebInv, Typed, WebTyped
<1> QED
  BY <1>1, <1>2 DEF WebInv, Typed, WebTyped, Inside

LEMMA ReturnsStep ==
  ASSUME WebInv, NEW c \in Roots, Returns(c)
  PROVE  WebInv'
<1>1. WebTyped' /\ Inside' \subseteq Inside
  BY EndJobEffect DEF Returns
<1>2. FreezeHolds' /\ ClosedIsEmpty' /\ Settled'
  BY <1>1 DEF Returns, WebInv, FreezeHolds, ClosedIsEmpty, Settled, Frozen, Admitted, Serving,
              Posted, brokerVars, workerVars, streamVars
<1> QED
  BY <1>1, <1>2, WebOnly DEF Returns

LEMMA EnterManagerStep ==
  ASSUME WebInv, NEW c \in Roots, EnterManager(c)
  PROVE  WebInv'
<1>1. UNCHANGED <<brokerVars, contextVars, workerVars, streamVars, active, stopping, upgrade>>
  BY DEF EnterManager
<1>2. CASE EndJob(c)
  <2>1. WebTyped' /\ Inside' \subseteq Inside
    BY <1>1, <1>2, EndJobEffect
  <2>2. FreezeHolds' /\ ClosedIsEmpty' /\ Settled'
    BY <1>1, <2>1 DEF WebInv, FreezeHolds, ClosedIsEmpty, Settled, Frozen, Admitted, Serving,
                      Posted, brokerVars, workerVars, streamVars
  <2> QED
    BY <1>1, <2>1, <2>2, WebOnly
<1>3. CASE ~Frozen /\ job' = [job EXCEPT ![c] = "inside"] /\ UNCHANGED <<reg, future>>
  <2>1. WebTyped'
    BY <1>1, <1>3 DEF WebInv, Typed, WebTyped
  <2>2. FreezeHolds' /\ ClosedIsEmpty' /\ Settled'
    BY <1>1, <1>3 DEF WebInv, FreezeHolds, ClosedIsEmpty, Settled, Frozen, Posted, brokerVars
  <2> QED
    BY <1>1, <2>1, <2>2, WebOnly
<1> QED
  BY <1>2, <1>3 DEF EnterManager

LEMMA LoseConnectionStep ==
  ASSUME WebInv, NEW c \in Roots, LoseConnection(c)
  PROVE  WebInv'
<1>1. /\ Flagged(c) /\ c \in Contexts /\ future' = [future EXCEPT ![c] = "lost"]
      /\ UNCHANGED <<brokerVars, born, children, files, waiting, workerVars, streamVars,
                     active, job, reg, stopping, upgrade>>
  BY RootsAreContexts DEF LoseConnection
<1>2. WebTyped'
  BY <1>1 DEF WebInv, Typed, WebTyped
<1>3. FreezeHolds' /\ ClosedIsEmpty' /\ Settled'
  BY <1>1 DEF WebInv, FreezeHolds, ClosedIsEmpty, Settled, Frozen, Inside, Admitted, Serving,
              Posted, brokerVars, workerVars, streamVars
<1> QED
  BY <1>1, <1>2, <1>3, FlagOne, Flags

LEMMA DropContextStep ==
  ASSUME WebInv, NEW c \in Contexts, DropContext(c)
  PROVE  WebInv'
<1>1. /\ Flagged(c)
      /\ UNCHANGED <<brokerVars, born, children, files, waiting, workerVars, streamVars, webVars>>
  BY DEF DropContext
<1>2. WebTyped' /\ FreezeHolds' /\ ClosedIsEmpty' /\ Settled'
  BY <1>1 DEF WebInv, Typed, WebTyped, FreezeHolds, ClosedIsEmpty, Settled, Frozen, Inside,
              Admitted, Serving, Posted, brokerVars, workerVars, streamVars, webVars
<1> QED
  BY <1>1, <1>2, FlagOne, Flags

LEMMA NothingLeft ==
  ASSUME Emptied
  PROVE  /\ EntriesKept /\ Posted' = {} /\ DOMAIN selected' = {} /\ closed' = TRUE
         /\ UNCHANGED nextId
<1>1. DOMAIN actions' = {} /\ DOMAIN selected' = {}
  BY DEF Emptied
<1> QED
  BY <1>1 DEF Emptied, EntriesKept, KeepsTable, Posted

LEMMA StopClosesStep ==
  ASSUME WebInv, StopCloses
  PROVE  WebInv'
<1>1. /\ UNCHANGED <<contextVars, workerVars, streamVars, active, future, job, reg, upgrade>>
      /\ stopping = "no"
  BY DEF StopCloses
<1>2. FreezeHolds'
  BY <1>1 DEF WebInv, FreezeHolds, Frozen, Inside, Admitted, Serving, workerVars, streamVars
<1>3. CASE stopping' = "closed" /\ Emptied
  <2>1. WebTyped' /\ ClosedIsEmpty' /\ Settled'
    BY <1>1, <1>3, NothingLeft DEF WebInv, Typed, WebTyped, ClosedIsEmpty, Settled
  <2> QED
    BY <1>1, <1>2, <1>3, <2>1, NothingLeft, ServiceStep
<1>4. CASE actions' = Pruned /\ UNCHANGED <<stopping, closed, selected, nextId>>
  <2>1. EntriesKept
    BY <1>4, RemovalKeeps DEF EntriesKept, WebInv, Typed
  <2>2. WebTyped'
    BY <1>1, <1>4 DEF WebInv, Typed, WebTyped
  <2>3. Posted' \subseteq Posted /\ \A i \in Posted' : actions'[i] = actions[i]
    BY <1>4, PrunedTable DEF Posted
  <2>4. ClosedIsEmpty' /\ Settled'
    BY <1>1, <1>4, <2>3 DEF WebInv, ClosedIsEmpty, Settled
  <2> QED
    BY <1>1, <1>2, <1>4, <2>1, <2>2, <2>4, ServiceStep DEF WebInv, Typed, TableTyped
<1> QED
  BY <1>3, <1>4 DEF StopCloses

LEMMA StopDeactivatesStep ==
  ASSUME WebInv, StopDeactivates
  PROVE  WebInv'
<1>1. /\ UNCHANGED <<contextVars, workerVars, streamVars, future, job, reg, upgrade>>
      /\ stopping' = "inactive" /\ active' = FALSE /\ Emptied
  BY DEF StopDeactivates
<1>2. FreezeHolds'
  BY <1>1 DEF WebInv, FreezeHolds, Frozen, Inside, Admitted, Serving, workerVars, streamVars
<1>3. WebTyped' /\ ClosedIsEmpty' /\ Settled'
  BY <1>1, NothingLeft DEF WebInv, Typed, WebTyped, ClosedIsEmpty, Settled
<1> QED
  BY <1>1, <1>2, <1>3, NothingLeft, ServiceStep

LEMMA StopCancelsStep ==
  ASSUME WebInv, StopCancels
  PROVE  WebInv'
<1>1. /\ UNCHANGED <<brokerVars, born, children, files, waiting, workerVars, streamVars,
                     active, future, job, upgrade>>
      /\ stopping = "inactive" /\ stopping' = "stopped" /\ reg' = {}
      /\ cancel' = [c \in Contexts |->
                      IF c \in reg /\ cancel[c] = "no" THEN "flag" ELSE cancel[c]]
  BY DEF StopCancels
<1>2. /\ cancel' \in [Contexts -> Progress]
      /\ \A k \in Contexts : \/ cancel'[k] = cancel[k]
                             \/ cancel[k] = "no" /\ cancel'[k] = "flag"
  BY <1>1 DEF WebInv, Typed, ContextTyped, Progress
<1>3. WebTyped'
  BY <1>1 DEF WebInv, Typed, WebTyped
<1>4. FreezeHolds' /\ ClosedIsEmpty' /\ Settled'
  BY <1>1 DEF WebInv, FreezeHolds, ClosedIsEmpty, Settled, Frozen, Inside, Admitted, Serving,
              Posted, brokerVars, workerVars, streamVars
<1> QED
  BY <1>1, <1>2, <1>3, <1>4, Flags

(* The upgrade begins when nobody is inside, and installs when nothing is waited for. *)
LEMMA BeginUpgradeStep ==
  ASSUME WebInv, BeginUpgrade
  PROVE  WebInv'
<1>1. /\ UNCHANGED <<brokerVars, contextVars, workerVars, streamVars,
                     active, future, job, reg, stopping>>
      /\ Inside = {} /\ Admitted = {} /\ Serving = {} /\ upgrade' = "frozen"
  BY DEF BeginUpgrade
<1>2. WebTyped'
  BY <1>1 DEF WebInv, Typed, WebTyped
<1>3. FreezeHolds' /\ ClosedIsEmpty' /\ Settled'
  BY <1>1 DEF WebInv, FreezeHolds, ClosedIsEmpty, Settled, Inside, Admitted, Serving,
              Posted, brokerVars, workerVars, streamVars
<1> QED
  BY <1>1, <1>2, <1>3, WebOnly

LEMMA CheckBlockersStep ==
  ASSUME WebInv, CheckBlockers
  PROVE  WebInv'
<1>1. /\ UNCHANGED <<closed, selected, nextId, contextVars, workerVars, streamVars,
                     active, future, job, reg, stopping>>
      /\ upgrade = "frozen" /\ RunningLockFree
      /\ actions' = Pruned \/ UNCHANGED actions
      /\ upgrade' \in {"no", "installing"}
      /\ upgrade' = "installing" => ~(stopping = "no" /\ (Blockers \/ reg # {}))
  BY DEF CheckBlockers
<1>2. EntriesKept /\ Posted' \subseteq Posted /\ \A i \in Posted' : actions'[i] = actions[i]
  <2>1. EntriesKept
    BY <1>1, RemovalKeeps DEF EntriesKept, WebInv, Typed
  <2>2. Posted' \subseteq Posted /\ \A i \in Posted' : actions'[i] = actions[i]
    BY <1>1, PrunedTable DEF Posted
  <2> QED
    BY <2>1, <2>2
<1>3. WebTyped'
  BY <1>1 DEF WebInv, Typed, WebTyped
<1>4. FreezeHolds' /\ ClosedIsEmpty'
  BY <1>1, <1>2 DEF WebInv, FreezeHolds, ClosedIsEmpty, Frozen, Inside, Admitted, Serving,
                    workerVars, streamVars
<1>5. Settled'
  <2>1. ASSUME upgrade' = "installing", NEW i \in Posted
        PROVE  /\ actions[i].reply = None /\ actions[i].transfers = {}
               /\ actions[i].kind = "download" => actions[i].delivered
    <3>1. stopping = "no"
      BY <1>1 DEF RunningLockFree, WebInv, ClosedIsEmpty
    <3>2. ~Blockers
      BY <1>1, <2>1, <3>1
    <3>3. actions[i].reply # None => actions[i].kind \in {"pick", "read"}
      BY DEF WebInv, AskersAlive
    <3> QED
      BY <3>2, <3>3 DEF Blockers, Undelivered
  <2> QED
    BY <1>2, <2>1 DEF Settled
<1> QED
  BY <1>1, <1>2, <1>3, <1>4, <1>5, ServiceStep DEF WebInv, Typed, TableTyped

LEMMA UpgradeFailsStep ==
  ASSUME WebInv, UpgradeFails
  PROVE  WebInv'
<1>1. /\ UNCHANGED <<brokerVars, contextVars, workerVars, streamVars,
                     active, future, job, reg, stopping>>
      /\ upgrade' = "no"
  BY DEF UpgradeFails
<1>2. WebTyped'
  BY <1>1 DEF WebInv, Typed, WebTyped
<1>3. FreezeHolds' /\ ClosedIsEmpty' /\ Settled'
  BY <1>1 DEF WebInv, FreezeHolds, ClosedIsEmpty, Settled, Frozen, Posted, brokerVars
<1> QED
  BY <1>1, <1>2, <1>3, WebOnly

(* --------------------------------------------------------------------------- contexts *)
(* Steps of contexts do not touch what the service knows.                            *)
LEMMA ServiceAlone ==
  ASSUME WebInv, UNCHANGED <<webVars, workerVars, streamVars, closed>>, EntriesKept
  PROVE  WebTyped' /\ FreezeHolds' /\ ClosedIsEmpty' /\ Settled' /\ Counted'
<1>1. WebTyped'
  BY DEF WebInv, Typed, WebTyped, webVars
<1>2. FreezeHolds'
  BY DEF WebInv, FreezeHolds, Frozen, Inside, Admitted, Serving, webVars, workerVars, streamVars
<1>3. ClosedIsEmpty'
  BY DEF WebInv, ClosedIsEmpty, EntriesKept, KeepsTable, KeepsEntry, Posted, webVars
<1>4. Settled'
  <2>1. ASSUME upgrade' = "installing", NEW i \in DOMAIN actions'
        PROVE  /\ actions'[i].reply = None /\ actions'[i].transfers = {}
               /\ actions'[i].kind = "download" => actions'[i].delivered
    <3>1. KeepsEntry(i, actions'[i]) /\ upgrade = "installing"
      BY <2>1 DEF EntriesKept, KeepsTable, webVars
    <3>2. /\ actions[i].reply = None /\ actions[i].transfers = {}
          /\ actions[i].kind = "download" => actions[i].delivered
      BY <3>1 DEF WebInv, Settled, KeepsEntry
    <3> QED
      BY <3>1, <3>2 DEF KeepsEntry
  <2> QED
    BY <2>1 DEF Settled, Posted
<1>5. Counted'
  <2>1. ASSUME NEW i \in DOMAIN actions', NEW s \in actions'[i].transfers
        PROVE  stream'[s].at = "open" /\ stream'[s].id = i
    BY DEF WebInv, Counted, EntriesKept, KeepsTable, KeepsEntry, streamVars
  <2> QED
    BY <2>1 DEF Counted, Posted
<1> QED
  BY <1>1, <1>2, <1>3, <1>4, <1>5

LEMMA ForPluginStep ==
  ASSUME WebInv, NEW c \in Contexts, ForPlugin(c), UNCHANGED webVars
  PROVE  WebInv'
<1>1. /\ Parent[c] \in born /\ c \notin born /\ born' = born \cup {c}
      /\ \/ /\ cancel[Parent[c]] # "no" /\ cancel' = [cancel EXCEPT ![c] = "flag"]
            /\ UNCHANGED children
         \/ /\ cancel[Parent[c]] = "no" /\ children' = children \cup {c} /\ UNCHANGED cancel
      /\ UNCHANGED <<brokerVars, files, waiting, workerVars, streamVars>>
  BY DEF ForPlugin
<1>2. EntriesKept /\ UNCHANGED <<actions, closed, nextId, selected>>
  BY <1>1, RemovalKeeps DEF EntriesKept, WebInv, Typed, brokerVars
<1>3. WebTyped' /\ FreezeHolds' /\ ClosedIsEmpty' /\ Settled' /\ Counted'
  BY <1>1, <1>2, ServiceAlone
<1>4. Typed'
  BY <1>1, <1>2, <1>3 DEF WebInv, Typed, TableTyped, ContextTyped, WorkerTyped, StreamTyped,
                          workerVars, streamVars, Posted, Progress
<1>5. AskedFor'
  BY <1>1, <1>2 DEF WebInv, AskedFor, Asked, Posted, workerVars
<1>6. ASSUME NEW k \in Contexts
      PROVE  /\ cancel'[k] = cancel[k] \/ (k = c /\ cancel'[k] = "flag")
             /\ k # c => cancel'[k] = cancel[k]
  BY <1>1 DEF WebInv, Typed, ContextTyped
<1>7. Families'
  <2>1. ASSUME NEW k \in born', Parent[k] # None, cancel'[k] = "no"
        PROVE  k \in children' /\ cancel'[Parent[k]] \in {"no", "flag", "children"}
    <3>1. k \in Contexts /\ Parent[k] \in Contexts
      BY <1>1, <2>1 DEF WebInv, Typed, ContextTyped
    <3>2. CASE k = c
      <4>1. cancel'[c] = "no" /\ cancel[Parent[c]] = "no" /\ c \in children'
        BY <1>1, <2>1, <3>2 DEF WebInv, Typed, ContextTyped
      <4> QED
        BY <1>6, <3>1, <3>2, <4>1
    <3>3. CASE k # c
      <4>1. k \in born /\ cancel[k] = "no"
        BY <1>1, <1>6, <2>1, <3>1, <3>3
      <4>2. k \in children /\ cancel[Parent[k]] \in {"no", "flag", "children"}
        BY <2>1, <4>1 DEF WebInv, Families
      <4> QED
        BY <1>1, <1>6, <3>1, <4>2
    <3> QED
      BY <3>2, <3>3
  <2> QED
    BY <2>1 DEF Families
<1>8. AskersAlive'
  <2>1. ASSUME NEW i \in Posted, Withdrawable(i) PROVE Withdrawable(i)'
    <3>1. actions[i].ctx \in Contexts
      BY DEF WebInv, Typed, TableTyped, Interactions
    <3>2. actions[i].ctx # c
      BY <1>1, <2>1 DEF Withdrawable
    <3> QED
      BY <1>1, <1>2, <1>6, <2>1, <3>1, <3>2 DEF Withdrawable
  <2>2. ASSUME NEW i, Leaving(i) PROVE Leaving(i)'
    BY <1>1, <2>2 DEF Leaving, workerVars
  <2> QED
    BY <1>2, <2>1, <2>2 DEF WebInv, AskersAlive, Posted
<1> QED
  BY <1>3, <1>4, <1>5, <1>7, <1>8 DEF WebInv

LEMMA CancelFilesStep ==
  ASSUME WebInv, NEW c \in Contexts, CancelFiles(c), UNCHANGED webVars
  PROVE  WebInv'
<1>1. /\ cancel[c] = "flag" /\ cancel' = [cancel EXCEPT ![c] = "children"]
      /\ files' = [files EXCEPT ![c] = {}] /\ selected' = Selectable
      /\ UNCHANGED <<closed, actions, nextId, born, children, waiting, workerVars, streamVars>>
  BY DEF CancelFiles
<1>2. EntriesKept
  BY <1>1, RemovalKeeps DEF EntriesKept, WebInv, Typed
<1>3. WebTyped' /\ FreezeHolds' /\ ClosedIsEmpty' /\ Settled' /\ Counted'
  BY <1>1, <1>2, ServiceAlone
<1>4. Typed'
  <2>1. DOMAIN selected' \subseteq Ids
    BY <1>1, SelectableHandles DEF WebInv, Typed, TableTyped
  <2> QED
    BY <1>1, <1>3, <2>1 DEF WebInv, Typed, TableTyped, ContextTyped, WorkerTyped, StreamTyped,
                            workerVars, streamVars, Posted, Progress
<1>5. AskedFor'
  BY <1>1 DEF WebInv, AskedFor, Asked, Posted, workerVars
<1>6. /\ \A k \in Contexts \ {c} : cancel'[k] = cancel[k]
      /\ cancel'[c] = "children"
  BY <1>1 DEF WebInv, Typed, ContextTyped
<1>7. Families'
  <2>1. ASSUME NEW k \in born, Parent[k] # None, cancel'[k] = "no"
        PROVE  k \in children /\ cancel'[Parent[k]] \in {"no", "flag", "children"}
    <3>1. k \in Contexts
      BY DEF WebInv, Typed, ContextTyped
    <3>2. Parent[k] \in Contexts /\ cancel[k] = "no"
      BY <1>6, <2>1, <3>1
    <3>3. k \in children /\ cancel[Parent[k]] \in {"no", "flag", "children"}
      BY <2>1, <3>2 DEF WebInv, Families
    <3> QED
      BY <1>6, <3>2, <3>3
  <2> QED
    BY <1>1, <2>1 DEF Families
<1>8. AskersAlive'
  <2>1. ASSUME NEW i \in Posted, Withdrawable(i) PROVE Withdrawable(i)'
    <3>1. actions[i].ctx \in Contexts
      BY DEF WebInv, Typed, TableTyped, Interactions
    <3> QED
      BY <1>1, <1>6, <2>1, <3>1 DEF Withdrawable
  <2>2. ASSUME NEW i, Leaving(i) PROVE Leaving(i)'
    BY <1>1, <2>2 DEF Leaving, workerVars
  <2> QED
    BY <1>1, <2>1, <2>2 DEF WebInv, AskersAlive, Posted
<1> QED
  BY <1>3, <1>4, <1>5, <1>7, <1>8 DEF WebInv

(* Every child that is not cancelled is among the children, and is flagged now.     *)
LEMMA CancelChildrenStep ==
  ASSUME WebInv, NEW c \in Contexts, CancelChildren(c), UNCHANGED webVars
  PROVE  WebInv'
<1> DEFINE mine == {k \in children : Parent[k] = c}
<1>1. /\ cancel[c] = "children" /\ children' = children \ mine
      /\ cancel' = [k \in Contexts |->
                      IF k = c THEN "waiting"
                      ELSE IF k \in mine /\ cancel[k] = "no" THEN "flag" ELSE cancel[k]]
      /\ UNCHANGED <<brokerVars, born, files, waiting, workerVars, streamVars>>
  BY DEF CancelChildren
<1>2. EntriesKept /\ UNCHANGED <<actions, closed, nextId, selected>>
  BY <1>1, RemovalKeeps DEF EntriesKept, WebInv, Typed, brokerVars
<1>3. WebTyped' /\ FreezeHolds' /\ ClosedIsEmpty' /\ Settled' /\ Counted'
  BY <1>1, <1>2, ServiceAlone
<1>4. Typed'
  <2>1. cancel' \in [Contexts -> Progress] /\ children' \subseteq born'
    BY <1>1 DEF WebInv, Typed, ContextTyped, Progress
  <2> QED
    BY <1>1, <1>2, <1>3, <2>1 DEF WebInv, Typed, TableTyped, ContextTyped, WorkerTyped,
                                  StreamTyped, workerVars, streamVars, Posted
<1>5. AskedFor'
  BY <1>1, <1>2 DEF WebInv, AskedFor, Asked, Posted, workerVars
<1>6. ASSUME NEW k \in Contexts
      PROVE  /\ k = c => cancel'[k] = "waiting"
             /\ k # c /\ k \in mine /\ cancel[k] = "no" => cancel'[k] = "flag"
             /\ k # c /\ ~(k \in mine /\ cancel[k] = "no") => cancel'[k] = cancel[k]
  BY <1>1
<1>7. Families'
  <2>1. ASSUME NEW k \in born, Parent[k] # None, cancel'[k] = "no"
        PROVE  k \in children' /\ cancel'[Parent[k]] \in {"no", "flag", "children"}
    <3>1. k \in Contexts
      BY DEF WebInv, Typed, ContextTyped
    <3>2. k # c /\ cancel[k] = "no" /\ k \notin mine /\ Parent[k] \in Contexts
      BY <1>6, <2>1, <3>1
    <3>3. k \in children /\ cancel[Parent[k]] \in {"no", "flag", "children"}
      BY <2>1, <3>2 DEF WebInv, Families
    <3>4. Parent[k] # c
      BY <3>2, <3>3
    <3> HIDE DEF mine
    <3>5. cancel'[Parent[k]] \in {cancel[Parent[k]], "flag"}
      BY <1>6, <3>2, <3>4
    <3> QED
      BY <1>1, <3>2, <3>3, <3>5
  <2> QED
    BY <1>1, <2>1 DEF Families
<1>8. AskersAlive'
  <2>1. ASSUME NEW i \in Posted, Withdrawable(i) PROVE Withdrawable(i)'
    <3>1. actions[i].ctx \in Contexts
      BY DEF WebInv, Typed, TableTyped, Interactions
    <3>2. \A k \in Contexts : cancel[k] # "done" => cancel'[k] # "done"
      BY <1>6
    <3> QED
      BY <1>1, <1>2, <2>1, <3>1, <3>2 DEF Withdrawable
  <2>2. ASSUME NEW i, Leaving(i) PROVE Leaving(i)'
    BY <1>1, <2>2 DEF Leaving, workerVars
  <2> QED
    BY <1>2, <2>1, <2>2 DEF WebInv, AskersAlive, Posted
<1> QED
  BY <1>3, <1>4, <1>5, <1>7, <1>8 DEF WebInv

(* The context is through: its requests go, and those of its children went before.  *)
LEMMA CancelWaitingStep ==
  ASSUME WebInv, NEW c \in Contexts, CancelWaiting(c), UNCHANGED webVars
  PROVE  WebInv'
<1>1. /\ cancel[c] = "waiting" /\ cancel' = [cancel EXCEPT ![c] = "done"]
      /\ \A k \in born : Parent[k] = c => cancel[k] \in {"no", "done"}
      /\ actions' = Without(actions, waiting[c])
      /\ UNCHANGED <<closed, selected, nextId, born, children, files, waiting,
                     workerVars, streamVars>>
  BY DEF CancelWaiting
<1>2. EntriesKept
  BY <1>1, RemovalKeeps DEF EntriesKept, WebInv, Typed
<1>3. /\ DOMAIN actions' = Posted \ waiting[c]
      /\ \A i \in DOMAIN actions' : actions'[i] = actions[i]
  BY <1>1 DEF Without, Restrict, Posted
<1>4. WebTyped' /\ FreezeHolds' /\ ClosedIsEmpty' /\ Settled' /\ Counted'
  BY <1>1, <1>2, ServiceAlone
<1>5. Typed'
  <2>1. TableTyped'
    BY <1>1, <1>2, TableTypeKept DEF WebInv, Typed, TableTyped
  <2>2. ContextTyped'
    BY <1>1 DEF WebInv, Typed, ContextTyped, Progress
  <2> QED
    BY <1>1, <1>4, <2>1, <2>2 DEF WebInv, Typed, WorkerTyped, StreamTyped, workerVars, streamVars
<1>6. AskedFor'
  <2>1. ASSUME NEW i, Asked(i) PROVE Asked(i)'
    BY <1>1, <1>3, <2>1 DEF Asked, Posted
  <2> QED
    BY <1>1, <2>1 DEF WebInv, AskedFor, workerVars
<1>7. cancel'[c] = "done" /\ \A k \in Contexts \ {c} : cancel'[k] = cancel[k]
  BY <1>1 DEF WebInv, Typed, ContextTyped
<1>8. ASSUME NEW k \in born, Parent[k] = c PROVE cancel[k] = "done"
  <2>1. Parent[k] # None
    BY <1>8
  <2>2. cancel[k] # "no"
    BY <1>1, <1>8, <2>1 DEF WebInv, Families
  <2> QED
    BY <1>1, <1>8, <2>2
<1>9. Families'
  <2>1. ASSUME NEW k \in born, Parent[k] # None, cancel'[k] = "no"
        PROVE  k \in children /\ cancel'[Parent[k]] \in {"no", "flag", "children"}
    <3>1. k \in Contexts
      BY DEF WebInv, Typed, ContextTyped
    <3>2. Parent[k] \in Contexts /\ cancel[k] = "no"
      BY <1>7, <2>1, <3>1
    <3>3. Parent[k] # c
      BY <1>8, <3>2
    <3> QED
      BY <1>7, <2>1, <3>2, <3>3 DEF WebInv, Families
  <2> QED
    BY <1>1, <2>1 DEF Families
<1>10. AskersAlive'
  <2>1. ASSUME NEW i \in DOMAIN actions', Withdrawable(i) PROVE Withdrawable(i)'
    <3>1. i \in Posted /\ i \notin waiting[c] /\ actions'[i] = actions[i]
      BY <1>3
    <3>2. actions[i].ctx \in Contexts
      BY <3>1 DEF WebInv, Typed, TableTyped, Interactions
    <3>3. actions[i].ctx # c /\ Parent[actions[i].ctx] # c
      BY <1>8, <2>1, <3>1 DEF Withdrawable
    <3> QED
      BY <1>1, <1>7, <2>1, <3>1, <3>2, <3>3 DEF Withdrawable
  <2>2. ASSUME NEW i, Leaving(i) PROVE Leaving(i)'
    BY <1>1, <2>2 DEF Leaving, workerVars
  <2> QED
    BY <1>3, <2>1, <2>2 DEF WebInv, AskersAlive, Posted
<1> QED
  BY <1>4, <1>5, <1>6, <1>9, <1>10 DEF WebInv

(* ---------------------------------------------------------------------------- workers *)
LEMMA BusyWorkers ==
  ASSUME WebInv, NEW w \in Workers, worker[w].at # "idle"
  PROVE  worker[w] \in Asking /\ worker[w] # Idle
  BY DEF WebInv, Typed, WorkerTyped, Idle

(* A worker that asked goes on with its request, or is done with it.                *)
LEMMA WorkerMoves ==
  ASSUME WebInv, NEW w \in Workers, NEW W \in {Idle} \cup Asking,
         worker[w] # Idle, worker' = [worker EXCEPT ![w] = W],
         W # Idle => W.ctx = worker[w].ctx /\ W.id = worker[w].id,
         W.at \in {"wait", "leave", "remove"} => worker[w].at \in {"wait", "leave", "remove"},
         W.at = "finish" => worker[w].at \in {"wait", "leave", "remove", "finish"},
         EntriesKept, UNCHANGED <<closed, nextId, born, cancel, children, streamVars, webVars>>,
         DOMAIN selected' \subseteq Ids, files' \in [Contexts -> SUBSET Ids],
         waiting' \in [Contexts -> SUBSET Ids], answer' \in [Workers -> Answers \cup {None}],
         \A c \in Contexts : waiting'[c] \subseteq waiting[c],
         AskersAlive'
  PROVE  WebInv'
<1>1. /\ worker' \in [Workers -> {Idle} \cup Asking] /\ worker'[w] = W
      /\ \A v \in Workers \ {w} : worker'[v] = worker[v]
  BY DEF WebInv, Typed, WorkerTyped
<1>2. Typed'
  <2>1. TableTyped'
    BY TableTypeKept DEF WebInv, Typed, TableTyped
  <2> QED
    BY <1>1, <2>1 DEF WebInv, Typed, ContextTyped, WorkerTyped, StreamTyped, WebTyped,
                      streamVars, webVars
<1>3. AskedFor'
  <2> DEFINE Then(i) == /\ i \in Ids /\ i < nextId'
                        /\ i \in DOMAIN actions' => actions'[i].kind \in {"pick", "read"}
  <2>1. ASSUME NEW i, Asked(i) PROVE Then(i)
    BY <2>1 DEF Asked, EntriesKept, KeepsTable, KeepsEntry, Posted
  <2> HIDE DEF Then
  <2>2. ASSUME NEW v \in Workers
        PROVE  /\ worker'[v] # Idle => worker'[v].ctx \in born
               /\ worker'[v].at \in {"wait", "leave", "remove"} => Then(worker'[v].id)
               /\ worker'[v].at = "finish" => worker'[v].id \in Ids
    <3>1. CASE v # w
      BY <1>1, <2>1, <3>1 DEF WebInv, AskedFor
    <3>2. CASE v = w
      <4>1. W # Idle => W.ctx \in born
        BY DEF WebInv, AskedFor
      <4>2. W.at \in {"wait", "leave", "remove"} => Asked(W.id)
        BY DEF WebInv, AskedFor, Idle
      <4>3. W.at = "finish" => W.id \in Ids
        BY DEF WebInv, AskedFor, Asked, Idle
      <4> QED
        BY <1>1, <2>1, <3>2, <4>1, <4>2, <4>3
    <3> QED
      BY <3>1, <3>2
  <2>3. \A c \in Contexts : \A i \in waiting'[c] : Then(i)
    BY <2>1 DEF WebInv, AskedFor
  <2> QED
    BY <2>2, <2>3 DEF AskedFor, Asked, Then, Posted
<1>4. Families'
  BY DEF WebInv, Families
<1>5. Counted' /\ ClosedIsEmpty' /\ Settled'
  <2>1. \A i \in DOMAIN actions' : KeepsEntry(i, actions'[i])
    BY DEF EntriesKept, KeepsTable
  <2>2. Counted'
    BY <2>1 DEF WebInv, Counted, KeepsEntry, Posted, streamVars
  <2>3. ClosedIsEmpty'
    BY <2>1 DEF WebInv, ClosedIsEmpty, KeepsEntry, Posted, webVars
  <2>4. Settled'
    <3>1. ASSUME upgrade' = "installing", NEW i \in DOMAIN actions'
          PROVE  /\ actions'[i].reply = None /\ actions'[i].transfers = {}
                 /\ actions'[i].kind = "download" => actions'[i].delivered
      <4>1. KeepsEntry(i, actions'[i]) /\ upgrade = "installing"
        BY <2>1, <3>1 DEF webVars
      <4>2. /\ actions[i].reply = None /\ actions[i].transfers = {}
            /\ actions[i].kind = "download" => actions[i].delivered
        BY <4>1 DEF WebInv, Settled, KeepsEntry
      <4> QED
        BY <4>1, <4>2 DEF KeepsEntry
    <3> QED
      BY <3>1 DEF Settled, Posted
  <2> QED
    BY <2>2, <2>3, <2>4
<1>6. FreezeHolds'
  <2>1. w \in Serving
    BY DEF Serving
  <2>2. ~Frozen
    BY <2>1 DEF WebInv, FreezeHolds
  <2> QED
    BY <2>2 DEF FreezeHolds, Frozen, webVars
<1> QED
  BY <1>2, <1>3, <1>4, <1>5, <1>6 DEF WebInv

(* The worker keeps waiting, or stops waiting with its entry still in the table.    *)
LEMMA AskersUntouched ==
  ASSUME WebInv, UNCHANGED <<actions, born, cancel, waiting>>,
         \A v \in Workers : worker[v].at = "remove" => worker'[v] = worker[v]
  PROVE  AskersAlive'
<1>1. ASSUME NEW i, Leaving(i) PROVE Leaving(i)'
  BY <1>1 DEF Leaving
<1>2. ASSUME NEW i, Withdrawable(i) PROVE Withdrawable(i)'
  BY <1>2 DEF Withdrawable
<1> QED
  BY <1>1, <1>2 DEF WebInv, AskersAlive, Posted

LEMMA WakesStep ==
  ASSUME WebInv, NEW w \in Workers, Woken(w) \/ Deadline(w), UNCHANGED webVars
  PROVE  WebInv'
<1> DEFINE W == [worker[w] EXCEPT !.at = "leave"]
<1>1. /\ worker[w].at = "wait" /\ worker' = [worker EXCEPT ![w] = W]
      /\ UNCHANGED answer \/ answer' = [answer EXCEPT ![w] = None]
      /\ UNCHANGED <<brokerVars, contextVars, streamVars>>
  BY DEF Woken, Deadline, WebInv, Typed, WorkerTyped
<1>2. worker[w] \in Asking /\ worker[w] # Idle
  BY <1>1, BusyWorkers
<1>3. W \in Asking /\ W.at = "leave" /\ W.ctx = worker[w].ctx /\ W.id = worker[w].id
  BY <1>2 DEF Asking
<1> HIDE DEF W
<1>4. EntriesKept
  BY <1>1, RemovalKeeps DEF EntriesKept, WebInv, Typed, brokerVars
<1>5. AskersAlive'
  BY <1>1, AskersUntouched DEF WebInv, Typed, WorkerTyped, brokerVars, contextVars
<1>6. answer' \in [Workers -> Answers \cup {None}]
  BY <1>1 DEF WebInv, Typed, WorkerTyped
<1> QED
  BY <1>1, <1>2, <1>3, <1>4, <1>5, <1>6, WorkerMoves
     DEF WebInv, Typed, TableTyped, ContextTyped, brokerVars, contextVars

LEMMA LeaveWaitingStep ==
  ASSUME WebInv, NEW w \in Workers, LeaveWaiting(w), UNCHANGED webVars
  PROVE  WebInv'
<1> DEFINE W == [worker[w] EXCEPT !.at = "remove"]
           x == worker[w].ctx
<1>1. /\ worker[w].at = "leave" /\ worker' = [worker EXCEPT ![w] = W]
      /\ waiting' = [waiting EXCEPT ![x] = waiting[x] \ {worker[w].id}]
      /\ UNCHANGED <<brokerVars, born, cancel, children, files, answer, streamVars>>
  BY DEF LeaveWaiting, WebInv, Typed, WorkerTyped
<1>2. worker[w] \in Asking /\ worker[w] # Idle
  BY <1>1, BusyWorkers
<1>3. /\ W \in Asking /\ W.at = "remove" /\ W.ctx = x /\ W.id = worker[w].id
      /\ x \in Contexts
  BY <1>2 DEF Asking
<1> HIDE DEF W, x
<1>4. EntriesKept
  BY <1>1, RemovalKeeps DEF EntriesKept, WebInv, Typed, brokerVars
<1>5. worker'[w] = W /\ \A v \in Workers \ {w} : worker'[v] = worker[v]
  BY <1>1, <1>3 DEF WebInv, Typed, WorkerTyped
<1>6. /\ waiting' \in [Contexts -> SUBSET Ids]
      /\ waiting'[x] = waiting[x] \ {worker[w].id}
      /\ \A c \in Contexts \ {x} : waiting'[c] = waiting[c]
  BY <1>1, <1>3 DEF WebInv, Typed, ContextTyped
<1>7. AskersAlive'
  <2>1. ASSUME NEW i \in Posted, actions[i].reply # None
        PROVE  actions[i].kind \in {"pick", "read"} /\ (Leaving(i)' \/ Withdrawable(i)')
    <3>1. actions[i].kind \in {"pick", "read"} /\ (Leaving(i) \/ Withdrawable(i))
      BY <2>1 DEF WebInv, AskersAlive
    <3>2. Leaving(i) => Leaving(i)'
      BY <1>1, <1>5 DEF Leaving
    <3>3. i = worker[w].id => Leaving(i)'
      BY <1>3, <1>5 DEF Leaving
    <3>4. i # worker[w].id /\ Withdrawable(i) => Withdrawable(i)'
      <4>1. actions[i].ctx \in Contexts
        BY DEF WebInv, Typed, TableTyped, Interactions
      <4> QED
        BY <1>1, <1>6, <4>1 DEF Withdrawable, brokerVars
    <3> QED
      BY <3>1, <3>2, <3>3, <3>4
  <2> QED
    BY <1>1, <2>1 DEF AskersAlive, Posted, brokerVars
<1> QED
  BY <1>1, <1>2, <1>3, <1>4, <1>6, <1>7, WorkerMoves
     DEF WebInv, Typed, TableTyped, ContextTyped, WorkerTyped, brokerVars, x

LEMMA LeaveTableStep ==
  ASSUME WebInv, NEW w \in Workers, LeaveTable(w), UNCHANGED webVars
  PROVE  WebInv'
<1> DEFINE F == [worker[w] EXCEPT !.at = "finish"]
<1>1. /\ worker[w].at = "remove"
      /\ worker' = [worker EXCEPT ![w] = F] \/ worker' = [worker EXCEPT ![w] = Idle]
      /\ actions' = Without(actions, {worker[w].id})
      /\ UNCHANGED <<closed, selected, nextId, contextVars, answer, streamVars>>
  BY DEF LeaveTable, WebInv, Typed, WorkerTyped
<1>2. worker[w] \in Asking /\ worker[w] # Idle
  BY <1>1, BusyWorkers
<1>3. F \in Asking /\ F.at = "finish" /\ F.ctx = worker[w].ctx /\ F.id = worker[w].id
  BY <1>2 DEF Asking
<1> HIDE DEF F
<1>4. EntriesKept
  BY <1>1, RemovalKeeps DEF EntriesKept, WebInv, Typed
<1>5. /\ DOMAIN actions' = Posted \ {worker[w].id}
      /\ \A i \in DOMAIN actions' : actions'[i] = actions[i]
  BY <1>1 DEF Without, Restrict, Posted
<1>6. \A v \in Workers \ {w} : worker'[v] = worker[v]
  BY <1>1 DEF WebInv, Typed, WorkerTyped
<1>7. AskersAlive'
  <2>1. ASSUME NEW i \in DOMAIN actions', actions'[i].reply # None
        PROVE  actions'[i].kind \in {"pick", "read"} /\ (Leaving(i)' \/ Withdrawable(i)')
    <3>1. i \in Posted /\ i # worker[w].id /\ actions'[i] = actions[i]
      BY <1>5
    <3>2. actions[i].kind \in {"pick", "read"} /\ (Leaving(i) \/ Withdrawable(i))
      BY <2>1, <3>1 DEF WebInv, AskersAlive
    <3>3. Leaving(i) => Leaving(i)'
      BY <1>6, <3>1 DEF Leaving
    <3>4. Withdrawable(i) => Withdrawable(i)'
      BY <1>1, <3>1 DEF Withdrawable, contextVars
    <3> QED
      BY <3>1, <3>2, <3>3, <3>4
  <2> QED
    BY <2>1 DEF AskersAlive, Posted
<1>8. Idle.at = "idle"
  BY DEF Idle
<1> QED
  BY <1>1, <1>2, <1>3, <1>4, <1>7, <1>8, WorkerMoves
     DEF WebInv, Typed, TableTyped, ContextTyped, WorkerTyped, contextVars

LEMMA FinishStep ==
  ASSUME WebInv, NEW w \in Workers, Finish(w), UNCHANGED webVars
  PROVE  WebInv'
<1> DEFINE x == worker[w].ctx
<1>1. /\ worker[w].at = "finish" /\ worker' = [worker EXCEPT ![w] = Idle]
      /\ \/ files' = [files EXCEPT ![x] = files[x] \cup {worker[w].id}]
         \/ files' = [files EXCEPT ![x] = files[x] \ {worker[w].handle}]
         \/ UNCHANGED files
      /\ UNCHANGED selected \/ selected' = Without(selected, {worker[w].handle})
      /\ UNCHANGED <<closed, actions, nextId, born, cancel, children, waiting, answer, streamVars>>
  BY DEF Finish
<1>2. worker[w] \in Asking /\ worker[w] # Idle /\ Idle.at = "idle"
  BY <1>1, BusyWorkers DEF Idle
<1>3. x \in Contexts /\ worker[w].id \in Ids
  BY <1>1, <1>2 DEF Asking, WebInv, AskedFor
<1> HIDE DEF x
<1>4. EntriesKept
  BY <1>1, RemovalKeeps DEF EntriesKept, WebInv, Typed
<1>5. AskersAlive'
  BY <1>1, AskersUntouched DEF WebInv, Typed, WorkerTyped
<1>6. files' \in [Contexts -> SUBSET Ids]
  BY <1>1, <1>3 DEF WebInv, Typed, ContextTyped
<1>7. DOMAIN selected' \subseteq Ids
  BY <1>1 DEF WebInv, Typed, TableTyped, Without, Restrict
<1> QED
  BY <1>1, <1>2, <1>4, <1>5, <1>6, <1>7, WorkerMoves
     DEF WebInv, Typed, ContextTyped, WorkerTyped

(* A call that is inside the manager was let in while it was not frozen.            *)
LEMMA ServingIsAllowed ==
  ASSUME WebInv
  PROVE  /\ \A c \in Contexts : MayServe(c) => ~Frozen
         /\ \A w \in Workers : worker[w] # Idle => ~Frozen
  BY DEF WebInv, FreezeHolds, MayServe, Serving

(* A worker is given a pick or a read to do.                                        *)
LEMMA StartsStep ==
  ASSUME WebInv, NEW w \in Workers, NEW c \in Contexts, MayServe(c), UNCHANGED webVars,
         StartPick(w, c) \/ (\E h \in files[c] : StartRead(w, c, h))
  PROVE  WebInv'
<1>1. PICK kind \in {"pick", "read"}, h \in Nat :
        worker' = [worker EXCEPT ![w] = [at |-> "ask", ctx |-> c, kind |-> kind, id |-> 0,
                                         handle |-> h]]
  <2>1. files[c] \subseteq Nat
    BY DEF WebInv, Typed, ContextTyped, Ids
  <2> QED
    BY <2>1 DEF StartPick, StartRead
<1>2. /\ worker[w] = Idle /\ c \in born
      /\ UNCHANGED <<brokerVars, contextVars, answer, streamVars>>
  BY DEF StartPick, StartRead
<1> DEFINE W == [at |-> "ask", ctx |-> c, kind |-> kind, id |-> 0, handle |-> h]
<1>3. W \in Asking /\ W.at = "ask" /\ W.ctx = c
  BY DEF Asking
<1> HIDE DEF W
<1>4. /\ worker' \in [Workers -> {Idle} \cup Asking] /\ worker'[w] = W
      /\ \A v \in Workers \ {w} : worker'[v] = worker[v]
  BY <1>1, <1>3 DEF WebInv, Typed, WorkerTyped, W
<1>5. Typed'
  BY <1>2, <1>4 DEF WebInv, Typed, TableTyped, ContextTyped, WorkerTyped, StreamTyped, WebTyped,
                    Posted, brokerVars, contextVars, streamVars, webVars
<1>6. AskedFor'
  <2>1. ASSUME NEW v \in Workers
        PROVE  /\ worker'[v] # Idle => worker'[v].ctx \in born
               /\ worker'[v].at \in {"wait", "leave", "remove"} =>
                     worker[v].at \in {"wait", "leave", "remove"} /\ worker'[v].id = worker[v].id
               /\ worker'[v].at = "finish" => worker'[v].id \in Ids
    BY <1>2, <1>3, <1>4 DEF WebInv, AskedFor
  <2>2. ASSUME NEW i, Asked(i)
        PROVE  /\ i \in Ids /\ i < nextId'
               /\ i \in DOMAIN actions' => actions'[i].kind \in {"pick", "read"}
    BY <1>2, <2>2 DEF Asked, Posted, brokerVars
  <2> QED
    BY <1>2, <2>1, <2>2 DEF WebInv, AskedFor, Asked, Posted, contextVars
<1>7. Families' /\ Counted' /\ ClosedIsEmpty' /\ Settled'
  BY <1>2 DEF WebInv, Families, Counted, ClosedIsEmpty, Settled, Posted, brokerVars, contextVars,
              streamVars, webVars
<1>8. AskersAlive'
  BY <1>2, <1>4, AskersUntouched DEF Idle, brokerVars, contextVars
<1>9. FreezeHolds'
  BY ServingIsAllowed DEF FreezeHolds, Frozen, webVars
<1> QED
  BY <1>5, <1>6, <1>7, <1>8, <1>9 DEF WebInv

(* An entry is put into the table under an id that nobody knows.                    *)
LEMMA Inserted ==
  ASSUME WebInv, NEW c \in Contexts, NEW kind \in {"pick", "read", "download", "notice"},
         NEW asker \in Workers \cup {None}, Insert(c, kind, asker), MayInsert
  PROVE  /\ TableTyped' /\ ~closed /\ nextId \in Ids /\ nextId \notin Posted
         /\ Posted' = DOMAIN Pruned \cup {nextId} /\ nextId' = nextId + 1
         /\ actions'[nextId] = Entry(c, kind, asker)
         /\ \A i \in DOMAIN Pruned : i \in Posted /\ i # nextId /\ actions'[i] = actions[i]
         /\ UNCHANGED <<closed, selected>>
<1>1. /\ nextId \in Ids /\ nextId' = nextId + 1 /\ UNCHANGED <<closed, selected>> /\ ~closed
      /\ actions' = [i \in DOMAIN Pruned \cup {nextId} |->
                       IF i = nextId THEN Entry(c, kind, asker) ELSE actions[i]]
  BY DEF Insert, MayInsert
<1>2. nextId \in Nat /\ nextId \notin Posted
  BY DEF WebInv, Typed, TableTyped
<1>3. \A i \in DOMAIN Pruned : i \in Posted
  BY PrunedTable
<1>4. /\ Posted' = DOMAIN Pruned \cup {nextId} /\ actions'[nextId] = Entry(c, kind, asker)
      /\ \A i \in DOMAIN Pruned : i \in Posted /\ i # nextId /\ actions'[i] = actions[i]
  BY <1>1, <1>2, <1>3 DEF Posted
<1>5. Entry(c, kind, asker) \in Interactions
  BY DEF Entry, Interactions
<1>6. TableTyped'
  <2>1. ASSUME NEW i \in Posted'
        PROVE  i \in Ids /\ i < nextId' /\ actions'[i] \in Interactions
    <3>1. CASE i = nextId
      BY <1>1, <1>2, <1>4, <1>5, <3>1
    <3>2. CASE i \in DOMAIN Pruned
      <4>1. i \in Ids /\ i < nextId /\ actions[i] \in Interactions /\ i \in Nat
        BY <1>4, <3>2 DEF WebInv, Typed, TableTyped, Ids
      <4> QED
        BY <1>1, <1>2, <1>4, <3>2, <4>1
    <3> QED
      BY <1>4, <2>1, <3>1, <3>2
  <2> QED
    BY <1>1, <1>2, <2>1 DEF WebInv, Typed, TableTyped
<1> QED
  BY <1>1, <1>2, <1>4, <1>6

(* What was asked for before is asked for after, whatever is inserted.              *)
LEMMA InsertedAsked ==
  ASSUME WebInv, nextId \notin Posted, nextId' = nextId + 1,
         Posted' = DOMAIN Pruned \cup {nextId},
         \A i \in DOMAIN Pruned : i \in Posted /\ actions'[i] = actions[i],
         NEW i, Asked(i)
  PROVE  /\ i \in Ids /\ i < nextId'
         /\ i \in DOMAIN actions' => actions'[i].kind \in {"pick", "read"}
<1>1. i \in Nat /\ nextId \in Nat /\ i < nextId
  BY DEF Asked, Ids, WebInv, Typed, TableTyped
<1>2. i # nextId /\ i < nextId'
  BY <1>1
<1> QED
  BY <1>2 DEF Asked, Posted

LEMMA PostStep ==
  ASSUME WebInv, NEW w \in Workers, NEW c \in Contexts, NEW kind \in {"download", "notice"},
         MayServe(c), Post(w, c, kind), UNCHANGED webVars
  PROVE  WebInv'
<1>1. /\ Insert(c, kind, None) /\ UNCHANGED <<contextVars, workerVars, streamVars>>
      /\ ~Frozen
  BY ServingIsAllowed DEF Post
<1>2. CASE MayInsert
  <2>1. /\ TableTyped' /\ ~closed /\ nextId \notin Posted
        /\ Posted' = DOMAIN Pruned \cup {nextId} /\ nextId' = nextId + 1
        /\ actions'[nextId] = Entry(c, kind, None)
        /\ \A i \in DOMAIN Pruned : i \in Posted /\ i # nextId /\ actions'[i] = actions[i]
        /\ UNCHANGED <<closed, selected>>
    BY <1>1, <1>2, Inserted
  <2>2. actions'[nextId].reply = None /\ actions'[nextId].transfers = {}
    BY <2>1 DEF Entry
  <2>3. Typed'
    BY <1>1, <2>1 DEF WebInv, Typed, ContextTyped, WorkerTyped, StreamTyped, WebTyped,
                      contextVars, workerVars, streamVars, webVars
  <2>4. AskedFor'
    <3>1. ASSUME NEW i, Asked(i)
          PROVE  /\ i \in Ids /\ i < nextId'
                 /\ i \in DOMAIN actions' => actions'[i].kind \in {"pick", "read"}
      BY <2>1, <3>1, InsertedAsked
    <3> QED
      BY <1>1, <3>1 DEF WebInv, AskedFor, Asked, Posted, contextVars, workerVars
  <2>5. Families'
    BY <1>1 DEF WebInv, Families, contextVars
  <2>6. AskersAlive'
    <3>1. ASSUME NEW i \in Posted', actions'[i].reply # None
          PROVE  actions'[i].kind \in {"pick", "read"} /\ (Leaving(i)' \/ Withdrawable(i)')
      <4>1. i \in DOMAIN Pruned
        BY <2>1, <2>2, <3>1
      <4>2. actions'[i] = actions[i] /\ i \in Posted
        BY <2>1, <4>1
      <4>3. actions[i].kind \in {"pick", "read"} /\ (Leaving(i) \/ Withdrawable(i))
        BY <3>1, <4>2 DEF WebInv, AskersAlive
      <4>4. (Leaving(i) => Leaving(i)') /\ (Withdrawable(i) => Withdrawable(i)')
        BY <1>1, <4>2 DEF Leaving, Withdrawable, contextVars, workerVars
      <4> QED
        BY <4>2, <4>3, <4>4
    <3> QED
      BY <3>1 DEF AskersAlive
  <2>7. Counted'
    <3>1. ASSUME NEW i \in Posted', NEW s \in actions'[i].transfers
          PROVE  stream'[s].at = "open" /\ stream'[s].id = i
      BY <1>1, <2>1, <2>2 DEF WebInv, Counted, streamVars
    <3> QED
      BY <3>1 DEF Counted
  <2>8. FreezeHolds' /\ Settled' /\ ClosedIsEmpty'
    BY <1>1, <2>1 DEF WebInv, FreezeHolds, Settled, Frozen, ClosedIsEmpty, webVars
  <2> QED
    BY <2>3, <2>4, <2>5, <2>6, <2>7, <2>8 DEF WebInv
<1>3. CASE ~MayInsert
  <2>1. /\ actions' = Pruned \/ UNCHANGED actions
        /\ UNCHANGED <<nextId, closed, selected>>
    BY <1>1, <1>3 DEF Insert
  <2>2. EntriesKept
    BY <2>1, RemovalKeeps DEF EntriesKept, WebInv, Typed
  <2> QED
    BY <1>1, <2>1, <2>2, StreamsAlone
       DEF WebInv, Typed, TableTyped, WorkerTyped, StreamTyped, workerVars, streamVars
<1> QED
  BY <1>2, <1>3

(* The request is posted, unless the context is cancelled or the table is full.     *)
LEMMA AskStep ==
  ASSUME WebInv, NEW w \in Workers, Ask(w), UNCHANGED webVars
  PROVE  WebInv'
<1> DEFINE c == worker[w].ctx
           kind == worker[w].kind
<1>1. worker[w].at = "ask" /\ UNCHANGED <<born, cancel, children, files, streamVars>>
  BY DEF Ask
<1>2. worker[w] \in Asking /\ worker[w] # Idle
  BY <1>1, BusyWorkers
<1>3. c \in Contexts /\ kind \in {"pick", "read"} /\ c \in born /\ ~Frozen
  BY <1>2, ServingIsAllowed DEF Asking, WebInv, AskedFor
<1>4. CASE ~(MayPost(c) /\ MayInsert)
  <2>1. /\ worker' = [worker EXCEPT ![w] = Idle] /\ UNCHANGED <<answer, waiting>>
        /\ actions' = Pruned \/ UNCHANGED actions
        /\ UNCHANGED <<nextId, closed, selected>>
    BY <1>4 DEF Ask, Insert, brokerVars
  <2>2. EntriesKept
    BY <2>1, RemovalKeeps DEF EntriesKept, WebInv, Typed
  <2>3. Posted' \subseteq Posted /\ \A i \in Posted' : actions'[i] = actions[i]
    BY <2>1, PrunedTable DEF Posted
  <2>4. \A v \in Workers : worker[v].at = "remove" => worker'[v] = worker[v]
    BY <1>1, <2>1 DEF WebInv, Typed, WorkerTyped
  <2>5. AskersAlive'
    <3>1. ASSUME NEW i, Leaving(i) PROVE Leaving(i)'
      BY <2>4, <3>1 DEF Leaving
    <3>2. ASSUME NEW i \in Posted', Withdrawable(i) PROVE Withdrawable(i)'
      BY <1>1, <2>1, <2>3, <3>2 DEF Withdrawable
    <3> QED
      BY <2>3, <3>1, <3>2 DEF WebInv, AskersAlive
  <2>6. Idle.at = "idle"
    BY DEF Idle
  <2> QED
    BY <1>1, <1>2, <2>1, <2>2, <2>5, <2>6, WorkerMoves
       DEF WebInv, Typed, TableTyped, ContextTyped, WorkerTyped
<1>5. CASE MayPost(c) /\ MayInsert
  <2> DEFINE W == [worker[w] EXCEPT !.at = "wait", !.id = nextId]
  <2>1. /\ Insert(c, kind, w) /\ cancel[c] = "no"
        /\ worker' = [worker EXCEPT ![w] = W]
        /\ answer' = [answer EXCEPT ![w] = None]
        /\ waiting' = [waiting EXCEPT ![c] = waiting[c] \cup {nextId}]
    BY <1>5 DEF Ask, MayPost, WebInv, Typed, WorkerTyped
  <2>2. /\ TableTyped' /\ ~closed /\ nextId \in Ids /\ nextId \notin Posted
        /\ Posted' = DOMAIN Pruned \cup {nextId} /\ nextId' = nextId + 1
        /\ actions'[nextId] = Entry(c, kind, w)
        /\ \A i \in DOMAIN Pruned : i \in Posted /\ i # nextId /\ actions'[i] = actions[i]
        /\ UNCHANGED <<closed, selected>>
    BY <1>3, <1>5, <2>1, Inserted
  <2>3. /\ actions'[nextId].reply = w /\ actions'[nextId].transfers = {}
        /\ actions'[nextId].ctx = c /\ actions'[nextId].kind = kind
    BY <2>2 DEF Entry
  <2>4. nextId \in Nat
    BY DEF WebInv, Typed, TableTyped
  <2>5. W \in Asking /\ W.at = "wait" /\ W.ctx = c /\ W.id = nextId
    BY <1>2, <2>4 DEF Asking
  <2> HIDE DEF W, c, kind
  <2>6. /\ worker' \in [Workers -> {Idle} \cup Asking] /\ worker'[w] = W
        /\ \A v \in Workers \ {w} : worker'[v] = worker[v]
    BY <2>1, <2>5 DEF WebInv, Typed, WorkerTyped
  <2>7. /\ waiting' \in [Contexts -> SUBSET Ids] /\ waiting'[c] = waiting[c] \cup {nextId}
        /\ \A x \in Contexts \ {c} : waiting'[x] = waiting[x]
    BY <1>3, <2>1, <2>2 DEF WebInv, Typed, ContextTyped
  <2>8. Typed'
    BY <1>1, <2>1, <2>2, <2>6, <2>7 DEF WebInv, Typed, ContextTyped, WorkerTyped, StreamTyped,
                                        WebTyped, streamVars, webVars
  <2> DEFINE Then(i) == /\ i \in Ids /\ i < nextId'
                        /\ i \in DOMAIN actions' => actions'[i].kind \in {"pick", "read"}
  <2>9. AskedFor'
    <3>1. ASSUME NEW i, Asked(i) PROVE Then(i)
      BY <2>2, <3>1, InsertedAsked
    <3>2. Then(nextId)
      BY <1>3, <2>2, <2>3, <2>4
    <3> HIDE DEF Then
    <3>3. ASSUME NEW v \in Workers
          PROVE  /\ worker'[v] # Idle => worker'[v].ctx \in born
                 /\ worker'[v].at \in {"wait", "leave", "remove"} => Then(worker'[v].id)
                 /\ worker'[v].at = "finish" => worker'[v].id \in Ids
      <4>1. CASE v = w
        BY <1>3, <2>5, <2>6, <3>2, <4>1
      <4>2. CASE v # w
        BY <2>6, <3>1, <4>2 DEF WebInv, AskedFor
      <4> QED
        BY <4>1, <4>2
    <3>4. ASSUME NEW x \in Contexts, NEW i \in waiting'[x] PROVE Then(i)
      BY <2>7, <3>1, <3>2 DEF WebInv, AskedFor
    <3> QED
      BY <1>1, <3>3, <3>4 DEF AskedFor, Asked, Posted, Then
  <2>10. Families'
    BY <1>1 DEF WebInv, Families
  <2>11. AskersAlive'
    <3>1. ASSUME NEW i \in Posted', actions'[i].reply # None
          PROVE  actions'[i].kind \in {"pick", "read"} /\ (Leaving(i)' \/ Withdrawable(i)')
      <4>1. CASE i = nextId
        <5>1. Parent[c] # None => cancel[Parent[c]] # "done"
          BY <1>3, <2>1 DEF WebInv, Families
        <5>2. Withdrawable(i)'
          BY <1>1, <1>3, <2>1, <2>3, <2>7, <4>1, <5>1 DEF Withdrawable
        <5> QED
          BY <1>3, <2>3, <4>1, <5>2
      <4>2. CASE i \in DOMAIN Pruned
        <5>1. i \in Posted /\ actions'[i] = actions[i] /\ actions[i].ctx \in Contexts
          BY <2>2, <4>2 DEF WebInv, Typed, TableTyped, Interactions
        <5>2. actions[i].kind \in {"pick", "read"} /\ (Leaving(i) \/ Withdrawable(i))
          BY <3>1, <5>1 DEF WebInv, AskersAlive
        <5>3. Leaving(i) => Leaving(i)'
          BY <1>1, <2>6 DEF Leaving
        <5>4. Withdrawable(i) => Withdrawable(i)'
          BY <1>1, <2>7, <5>1 DEF Withdrawable
        <5> QED
          BY <5>1, <5>2, <5>3, <5>4
      <4> QED
        BY <2>2, <4>1, <4>2
    <3> QED
      BY <3>1 DEF AskersAlive
  <2>12. Counted'
    <3>1. ASSUME NEW i \in Posted', NEW s \in actions'[i].transfers
          PROVE  stream'[s].at = "open" /\ stream'[s].id = i
      BY <1>1, <2>2, <2>3 DEF WebInv, Counted, streamVars
    <3> QED
      BY <3>1 DEF Counted
  <2>13. FreezeHolds' /\ Settled' /\ ClosedIsEmpty'
    BY <1>3, <2>2 DEF WebInv, FreezeHolds, Settled, Frozen, ClosedIsEmpty, webVars
  <2> QED
    BY <2>8, <2>9, <2>10, <2>11, <2>12, <2>13 DEF WebInv
<1> QED
  BY <1>4, <1>5

(* ------------------------------------------------------------------------ all the steps *)
LEMMA InitHolds ==
  ASSUME Init
  PROVE  WebInv
<1>1. Posted = {} /\ DOMAIN selected = {}
  BY DEF Init, BrokerInit, Posted
<1>2. /\ Idle.at = "idle" /\ NoStream.at = "none"
      /\ \A w \in Workers : worker[w] = Idle
      /\ \A s \in Streams : stream[s] = NoStream
      /\ \A c \in Roots : job[c] = "none"
  BY DEF Init, BrokerInit, Idle, NoStream
<1>3. TableTyped
  BY <1>1 DEF Init, BrokerInit, TableTyped
<1>4. ContextTyped
  BY DEF Init, BrokerInit, ContextTyped, Progress
<1>5. WorkerTyped /\ StreamTyped
  BY DEF Init, BrokerInit, WorkerTyped, StreamTyped
<1>6. WebTyped
  BY DEF Init, WebTyped
<1>7. AskedFor
  BY <1>2 DEF Init, BrokerInit, AskedFor
<1>8. Families /\ AskersAlive /\ Counted /\ ClosedIsEmpty /\ Settled
  BY <1>1 DEF Init, BrokerInit, Families, AskersAlive, Counted, ClosedIsEmpty, Settled
<1>9. FreezeHolds
  BY DEF Init, FreezeHolds, Frozen
<1> QED
  BY <1>3, <1>4, <1>5, <1>6, <1>7, <1>8, <1>9 DEF WebInv, Typed

LEMMA CallStepsKeep ==
  ASSUME WebInv, NEW c \in Roots, CallSteps(c) \/ CancelRequest(Key[c])
  PROVE  WebInv'
<1>1. CASE CancelRequest(Key[c])
  <2>1. PICK d \in reg : Returns(d)
    BY <1>1 DEF CancelRequest, Owned
  <2>2. d \in Roots
    BY DEF WebInv, Typed, WebTyped
  <2> QED
    BY <2>1, <2>2, ReturnsStep
<1> QED
  BY <1>1, RegisterStep, EnterManagerStep, ReturnsStep, LoseConnectionStep DEF CallSteps

LEMMA ContextStepsKeep ==
  ASSUME WebInv, NEW c \in Contexts, ContextSteps(c)
  PROVE  WebInv'
  BY DropContextStep, ForPluginStep, CancelFilesStep, CancelChildrenStep, CancelWaitingStep
     DEF ContextSteps

LEMMA WorkerStepsKeep ==
  ASSUME WebInv, NEW w \in Workers,
         WorkerStarts(w) \/ WorkerGoesOn(w) \/ (Deadline(w) /\ UNCHANGED webVars)
  PROVE  WebInv'
<1>1. CASE WorkerStarts(w)
  <2>1. PICK c \in Contexts :
          /\ MayServe(c)
          /\ \/ StartPick(w, c)
             \/ \E h \in files[c] : StartRead(w, c, h)
             \/ \E kind \in {"download", "notice"} : Post(w, c, kind)
          /\ UNCHANGED webVars
    BY <1>1 DEF WorkerStarts
  <2>2. CASE \E kind \in {"download", "notice"} : Post(w, c, kind)
    BY <2>1, <2>2, PostStep
  <2> QED
    BY <2>1, <2>2, StartsStep
<1>2. CASE WorkerGoesOn(w)
  BY <1>2, AskStep, WakesStep, LeaveWaitingStep, LeaveTableStep, FinishStep
     DEF WorkerGoesOn, InvocationEnded
<1> QED
  BY <1>1, <1>2, WakesStep

LEMMA DeviceStepsKeep ==
  ASSUME WebInv, DeviceSteps
  PROVE  WebInv'
  BY ReplyStep, PrepareStep, DiscardStep, RevokeStep, SelectedHandlesStep, ConfirmStep
     DEF DeviceSteps

LEMMA StreamStepsKeep ==
  ASSUME WebInv, NEW s \in Streams, StreamSteps(s)
  PROVE  WebInv'
  BY AdmitStep, BeginStep, StreamEofStep DEF StreamSteps

LEMMA NextKeeps ==
  ASSUME WebInv, [Next]_vars
  PROVE  WebInv'
<1>1. CASE TableSteps
  BY <1>1, ExpireStep, ExpiresStep DEF TableSteps
<1>2. CASE Stop
  BY <1>2, StopClosesStep, StopDeactivatesStep, StopCancelsStep DEF Stop
<1>3. CASE Upgrade
  BY <1>3, BeginUpgradeStep, CheckBlockersStep, UpgradeFailsStep DEF Upgrade
<1>4. CASE UNCHANGED vars
  <2>1. UNCHANGED <<brokerVars, contextVars, workerVars, streamVars, webVars>>
    BY <1>4 DEF vars
  <2>2. EntriesKept
    BY <2>1, RemovalKeeps DEF EntriesKept, WebInv, Typed, brokerVars
  <2> QED
    BY <2>1, <2>2, StreamsAlone
       DEF WebInv, Typed, TableTyped, WorkerTyped, StreamTyped, brokerVars, workerVars, streamVars
<1> QED
  BY <1>1, <1>2, <1>3, <1>4, CallStepsKeep, ContextStepsKeep, WorkerStepsKeep, StreamStepsKeep,
     DeviceStepsKeep DEF Next

(* --------------------------------------------------------------------------- exports *)
(* Every step that removes an export is a decision about it.                        *)
Decision(i) == Discard(i) \/ \E value \in Answers : Reply(i, value)
OnlyDecided == \A i \in Posted : Undelivered(i) /\ i \notin DOMAIN actions' => Decision(i)

LEMMA PruneKeepsExports ==
  /\ \A i \in Posted : Undelivered(i) => i \in DOMAIN Pruned
  /\ \A i, s : \A received \in BOOLEAN : DOMAIN Delivered(i, s, received) = DOMAIN Pruned
<1>1. \A i \in Posted : Undelivered(i) => i \in DOMAIN Pruned
  BY PrunedTable DEF Live
<1>2. \A i, s : \A received \in BOOLEAN : DOMAIN Delivered(i, s, received) = DOMAIN Pruned
  BY DEF Delivered
<1> QED
  BY <1>1, <1>2

LEMMA SameTableDecides ==
  ASSUME \/ UNCHANGED actions
         \/ DOMAIN actions' = DOMAIN Pruned
         \/ DOMAIN actions' = DOMAIN Pruned \cup {nextId}
  PROVE  OnlyDecided
  BY PruneKeepsExports DEF OnlyDecided, Posted

LEMMA CallsDecide ==
  ASSUME NEW c \in Roots, CallSteps(c) \/ CancelRequest(Key[c])
  PROVE  OnlyDecided
<1>1. UNCHANGED actions
  BY DEF CallSteps, CancelRequest, Register, EnterManager, Returns, LoseConnection, brokerVars
<1> QED
  BY <1>1, SameTableDecides

(* What a context withdraws when it is cancelled are picks and reads.               *)
LEMMA ContextsDecide ==
  ASSUME WebInv, NEW c \in Contexts, ContextSteps(c)
  PROVE  OnlyDecided
<1>1. CASE CancelWaiting(c)
  <2>1. DOMAIN actions' = Posted \ waiting[c]
    BY <1>1 DEF CancelWaiting, Without, Restrict, Posted
  <2>2. \A i \in waiting[c] : i \in Posted => actions[i].kind \in {"pick", "read"}
    BY DEF WebInv, AskedFor, Asked
  <2> QED
    BY <2>1, <2>2 DEF OnlyDecided, Undelivered
<1>2. CASE ~CancelWaiting(c)
  <2>1. UNCHANGED actions
    BY <1>2 DEF ContextSteps, DropContext, ForPlugin, CancelFiles, CancelChildren, brokerVars
  <2> QED
    BY <2>1, SameTableDecides
<1> QED
  BY <1>1, <1>2

(* What a worker takes out of the table is the request it waited for.               *)
LEMMA WorkersDecide ==
  ASSUME WebInv, NEW w \in Workers,
         WorkerStarts(w) \/ WorkerGoesOn(w) \/ (Deadline(w) /\ UNCHANGED webVars)
  PROVE  OnlyDecided
<1>1. ASSUME NEW c, NEW kind, NEW asker, Insert(c, kind, asker) PROVE OnlyDecided
  <2>1. \/ UNCHANGED actions
        \/ DOMAIN actions' = DOMAIN Pruned
        \/ DOMAIN actions' = DOMAIN Pruned \cup {nextId}
    BY <1>1 DEF Insert
  <2> QED
    BY <2>1, SameTableDecides
<1>2. CASE WorkerStarts(w)
  <2>1. \/ UNCHANGED actions
        \/ \E c, kind : Insert(c, kind, None)
    BY <1>2 DEF WorkerStarts, StartPick, StartRead, Post, brokerVars
  <2> QED
    BY <1>1, <2>1, SameTableDecides
<1>3. CASE Ask(w)
  <2>1. \/ UNCHANGED actions
        \/ \E c, kind : Insert(c, kind, w)
    BY <1>3 DEF Ask, brokerVars
  <2> QED
    BY <1>1, <2>1, SameTableDecides
<1>4. CASE LeaveTable(w)
  <2>1. DOMAIN actions' = Posted \ {worker[w].id} /\ worker[w].at = "remove"
    BY <1>4 DEF LeaveTable, Without, Restrict, Posted
  <2>2. worker[w].id \in Posted => actions[worker[w].id].kind \in {"pick", "read"}
    BY <2>1 DEF WebInv, AskedFor, Asked
  <2> QED
    BY <2>1, <2>2 DEF OnlyDecided, Undelivered
<1>5. CASE Woken(w) \/ Deadline(w) \/ LeaveWaiting(w) \/ Finish(w)
  <2>1. UNCHANGED actions
    BY <1>5 DEF Woken, Deadline, LeaveWaiting, Finish, brokerVars
  <2> QED
    BY <2>1, SameTableDecides
<1> QED
  BY <1>2, <1>3, <1>4, <1>5 DEF WorkerGoesOn, InvocationEnded

LEMMA DevicesDecide ==
  ASSUME DeviceSteps
  PROVE  OnlyDecided
<1>1. ASSUME NEW i \in Posted, NEW value \in Answers, Reply(i, value) PROVE OnlyDecided
  <2>1. DOMAIN actions' = DOMAIN Pruned \ {i}
    BY <1>1 DEF Reply, Without, Restrict
  <2> QED
    BY <1>1, <2>1, PruneKeepsExports DEF OnlyDecided, Decision
<1>2. ASSUME NEW i \in Posted, Discard(i) PROVE OnlyDecided
  <2>1. DOMAIN actions' = Posted \ {i}
    BY <1>2 DEF Discard, Without, Restrict, Posted
  <2> QED
    BY <1>2, <2>1 DEF OnlyDecided, Decision
<1>3. ASSUME NEW i \in Posted, Prepare(i) PROVE OnlyDecided
  BY <1>3, SameTableDecides DEF Prepare
<1>4. ASSUME Revoke \/ SelectedHandles PROVE OnlyDecided
  BY <1>4, SameTableDecides DEF Revoke, SelectedHandles, brokerVars
<1>5. ASSUME NEW s \in Streams, NEW received \in BOOLEAN, Confirm(s, received)
      PROVE  OnlyDecided
  BY <1>5, PruneKeepsExports, SameTableDecides DEF Confirm
<1> QED
  BY <1>1, <1>2, <1>3, <1>4, <1>5 DEF DeviceSteps

LEMMA StreamsDecide ==
  ASSUME NEW s \in Streams, StreamSteps(s)
  PROVE  OnlyDecided
<1>1. CASE \E i \in Ids, byKey \in BOOLEAN : AdmitStream(s, i, byKey)
  BY <1>1, SameTableDecides DEF AdmitStream, brokerVars
<1>2. CASE BeginStream(s)
  <2>1. DOMAIN actions' = DOMAIN Pruned
    BY <1>2 DEF BeginStream, OpenStream, Transfer
  <2> QED
    BY <2>1, SameTableDecides
<1>3. CASE StreamEof(s) \/ StreamDropped(s)
  <2>1. DOMAIN actions' = DOMAIN Pruned
    BY <1>3, PruneKeepsExports DEF StreamEof, StreamDropped
  <2> QED
    BY <2>1, SameTableDecides
<1> QED
  BY <1>1, <1>2, <1>3 DEF StreamSteps

(* Closing empties the table only when nothing in it waits for the device.          *)
LEMMA StopDecides ==
  ASSUME WebInv, Stop
  PROVE  OnlyDecided
<1>1. CASE StopCloses
  <2>1. CASE MayClose
    BY <2>1 DEF OnlyDecided, MayClose, Blockers
  <2>2. CASE ~MayClose
    BY <1>1, <2>2, SameTableDecides DEF StopCloses
  <2> QED
    BY <2>1, <2>2
<1>2. CASE StopDeactivates
  BY <1>2 DEF StopDeactivates, WebInv, ClosedIsEmpty, OnlyDecided
<1>3. CASE StopCancels
  BY <1>3, SameTableDecides DEF StopCancels, brokerVars
<1> QED
  BY <1>1, <1>2, <1>3 DEF Stop

LEMMA NextDecides ==
  ASSUME WebInv, [Next]_vars
  PROVE  OnlyDecided
<1>1. CASE TableSteps
  <2>1. DOMAIN actions' = DOMAIN Pruned \/ DOMAIN actions' = Posted
    BY <1>1 DEF TableSteps, Expire, Expires, Posted
  <2> QED
    BY <2>1, SameTableDecides DEF OnlyDecided
<1>2. CASE Upgrade
  BY <1>2, SameTableDecides DEF Upgrade, BeginUpgrade, CheckBlockers, UpgradeFails, brokerVars
<1>3. CASE UNCHANGED vars
  BY <1>3, SameTableDecides DEF vars, brokerVars
<1> QED
  BY <1>1, <1>2, <1>3, CallsDecide, ContextsDecide, WorkersDecide, StreamsDecide, DevicesDecide,
     StopDecides DEF Next

(* ----------------------------------------------------------------------- the theorems *)
(* What every variable of the service and of its broker holds, for any number of    *)
(* calls, workers and streams (RemoteBroker, RemoteContext, Access).                *)
THEOREM TypeCorrect == Spec => []TypeOK
<1>1. WebInv => TypeOK
  BY DEF WebInv, Typed, TableTyped, ContextTyped, WorkerTyped, StreamTyped, WebTyped, TypeOK,
         Interactions, Progress
<1> QED
  BY <1>1, InitHolds, NextKeeps, PTL DEF Spec

(* An entry lives no longer than who asked for it: a cancelled context leaves no    *)
(* request of its own or of a call nested in it to be answered, and a stream that   *)
(* is gone is not counted, whatever the order in which the locks are taken          *)
(* (RemoteContext::action, cancel, for_plugin, NativeDownload::drop).               *)
THEOREM AskersAreOutlived == Spec => []NothingOutlivesItsAsker
<1>1. WebInv => NothingOutlivesItsAsker
  <2> SUFFICES ASSUME WebInv PROVE NothingOutlivesItsAsker
    OBVIOUS
  <2>1. ASSUME NEW i \in Posted, NEW c \in Contexts, cancel[c] = "done",
               c \in {actions[i].ctx, Parent[actions[i].ctx]}
        PROVE  actions[i].reply = None \/ Leaving(i)
    <3>1. SUFFICES ASSUME actions[i].reply # None, Withdrawable(i) PROVE FALSE
      BY DEF WebInv, AskersAlive
    <3>2. actions[i].ctx # c
      BY <2>1, <3>1 DEF Withdrawable
    <3>3. Parent[actions[i].ctx] = c /\ c # None
      BY <2>1, <3>2
    <3> QED
      BY <2>1, <3>1, <3>3 DEF Withdrawable
  <2> QED
    BY <2>1 DEF NothingOutlivesItsAsker, WebInv, Counted
<1> QED
  BY <1>1, InitHolds, NextKeeps, PTL DEF Spec

(* While a Core update is installed nobody is inside the manager, no admitted       *)
(* request is about to open a stream, and nothing in the table waits for a device   *)
(* or for an export to be received (core_update_install, admit_work).               *)
THEOREM UpgradesInterruptNothing == Spec => []UpgradeLosesNothing
<1>1. WebInv => UpgradeLosesNothing
  BY DEF WebInv, UpgradeLosesNothing, Settled, FreezeHolds, Frozen
<1> QED
  BY <1>1, InitHolds, NextKeeps, PTL DEF Spec

(* An export that no device has received leaves the table only when the device      *)
(* answers for it or the host discards it: not by age, by the end of the call that  *)
(* made it, by a stop or by an upgrade (prune, close_if_idle, cancel).              *)
THEOREM ExportsAreKept == Spec => UndeliveredKept
<1>1. WebInv /\ [Next]_vars => OnlyDecided
  BY NextDecides
<1>2. OnlyDecided =>
        \A i \in Posted : Undelivered(i) /\ i \notin DOMAIN actions'
          => \/ Discard(i)
             \/ \E value \in Answers : Reply(i, value)
  BY DEF OnlyDecided, Decision
<1> QED
  BY <1>1, <1>2, InitHolds, NextKeeps, PTL DEF Spec, UndeliveredKept
==================================================================================
