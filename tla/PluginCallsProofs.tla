---------------------------- MODULE PluginCallsProofs ----------------------------
(* Proofs about PluginCalls, for any number of calls, processes, workers and      *)
(* frames, and whatever backends write: what every variable holds, and that an    *)
(* answer or an event reaches only the call it was made for.                      *)
EXTENDS PluginCalls, SequenceTheorems, TLAPS

USE PluginCallsAssumption

(* ------------------------------------------------------------------- the types *)
Early == {"none", "registered", "prepared", "entered"}
Numbered == {"inserted", "kept", "queueing", "waiting", "cancelling"}
CallSteps == Early \cup Numbered \cup {"leaving", "left", "returned"}
Enders == {"reader", "writer", "stop"}

Tokens == ({"own", "wait", "late"} \X (Calls \cup Requests)) \cup ({"proc"} \X Procs)
CallRecords == [at : CallSteps, proc : Procs \cup {None}, id : Ids \cup Calls \cup {None},
                wire : Nat, inv : SUBSET Tokens, box : {None} \cup [for : Calls \cup {None}]]
Received == [wire : Nat, call : Calls]
Pending == [wire : Nat, id : Ids \cup Calls \cup {None}, call : Calls]
ProcRecords == [alive : BOOLEAN, recorded : BOOLEAN, child : BOOLEAN, sequence : Nat,
                pending : SUBSET Pending, contexts : SUBSET Received,
                writer : BOOLEAN, reader : BOOLEAN]
Frames == [type : {"request"}, wire : Nat, call : Calls, inv : SUBSET Tokens]
     \cup [type : {"cancel", "reply"}, wire : Nat, call : Calls \cup {None},
           inv : SUBSET Tokens]
Output == [type : {"result", "event"}, wire : Nat, call : Calls]
     \cup [type : {"request"}, request : Requests] \cup [type : {"garbage"}]
Asked == [at : {"none", "written", "working", "calling", "replying", "answered", "dropped"},
          proc : Procs \cup {None}, context : Nat, inv : SUBSET Tokens]

Typed ==
    /\ call \in [Calls -> CallRecords]
    /\ fired \subseteq Tokens /\ told \subseteq Calls
    /\ proc \in [Procs -> ProcRecords]
    /\ ender \in [Procs -> [Enders -> {"off", "alive", "fail", "cancel", "kill", "exit", "done"}]]
    /\ queue \in [Procs -> Seq(Frames)]
    /\ inbox \in [Procs -> SUBSET Received]
    /\ stdout \in [Procs -> Seq(Output)]
    /\ said \in [Procs -> Nat]
    /\ request \in [Requests -> Asked]
    /\ events \subseteq [for : Calls, to : Calls]

In(s) == {s[k] : k \in 1 .. Len(s)}

(* Who takes part has a process; a request on its way to the host has been made.   *)
Placed ==
    /\ \A c \in Calls : call[c].at # "none" => call[c].proc \in Procs
    /\ \A r \in Requests : request[r].at # "none" => request[r].proc \in Procs
    /\ \A p \in Procs : \A f \in In(stdout[p]) :
          f.type = "request" => request[f.request].at # "none"

(* A wire id names one call of its process for ever: it is drawn once, from the   *)
(* sequence of the process, and kept by the call. Whatever carries it, in the     *)
(* host or in the backend, carries the call as well.                              *)
Names(p, w, c) == c \in Calls /\ w # 0 /\ call[c].proc = p /\ call[c].wire = w
Drawn ==
    /\ \A c \in Calls : /\ call[c].at \in Early => call[c].wire = 0
                        /\ call[c].at \in Numbered => call[c].wire # 0
                        /\ call[c].wire # 0 => call[c].proc \in Procs
    /\ \A p \in Procs, c \in Calls : call[c].proc = p => call[c].wire <= proc[p].sequence
    /\ \A c, d \in Calls : /\ call[c].wire # 0 /\ call[c].wire = call[d].wire
                           /\ call[c].proc = call[d].proc
                           => c = d
Carrying ==
    \A p \in Procs :
        /\ \A e \in proc[p].pending : Names(p, e.wire, e.call)
        /\ \A f \in In(queue[p]) : f.type = "request" => Names(p, f.wire, f.call)
        /\ \A m \in inbox[p] : Names(p, m.wire, m.call)
        /\ \A f \in In(stdout[p]) : f.type \in {"result", "event"} => Names(p, f.wire, f.call)
Wires == Drawn /\ Carrying

CallsInv == Typed /\ Placed /\ Wires /\ RepliesMatch

(* --------------------------------------------------------- what steps do to calls *)
Moved(c, at) ==
    /\ call' \in [Calls -> CallRecords]
    /\ \A d \in Calls : /\ call'[d].proc = call[d].proc /\ call'[d].wire = call[d].wire
                        /\ call'[d].box = call[d].box /\ call'[d].inv = call[d].inv
                        /\ call'[d].at = IF d = c THEN at ELSE call[d].at

LEMMA GotoMoves ==
  ASSUME Typed, NEW c \in Calls, NEW at \in CallSteps, Goto(c, at)
  PROVE  Moved(c, at)
<1>1. call' = [call EXCEPT ![c] = [call[c] EXCEPT !.at = at]] /\ call[c] \in CallRecords
  BY DEF Goto, Typed
<1>2. [call[c] EXCEPT !.at = at] \in CallRecords
  BY <1>1 DEF CallRecords
<1> QED
  BY <1>1, <1>2 DEF Moved, Typed, CallRecords

LEMMA RefuseMoves ==
  ASSUME Typed, NEW c \in Calls, Refuse(c)
  PROVE  Moved(c, "leaving")
  BY GotoMoves DEF Refuse, CallSteps

(* Registering names the process and the invocation, and gives no wire yet.       *)
LEMMA RegisterCall ==
  ASSUME Typed, NEW c \in Calls, NEW p \in Procs, NEW i \in Ids \cup Calls,
         NEW parent \in SUBSET Tokens, Register(c, p, i, parent)
  PROVE  /\ call' \in [Calls -> CallRecords] /\ call[c].at = "none"
         /\ \A d \in Calls \ {c} : call'[d] = call[d]
         /\ call'[c].at = "registered" /\ call'[c].proc = p /\ call'[c].wire = 0
         /\ call'[c].box = None
<1> DEFINE new == [None_ EXCEPT !.at = "registered", !.proc = p, !.id = i,
                     !.inv = parent \cup {<<"wait", c>>, <<"late", c>>}]
<1>1. call' = [call EXCEPT ![c] = new] /\ call[c].at = "none"
  BY DEF Register, At
<1>2. {<<"wait", c>>, <<"late", c>>} \subseteq Tokens
  BY DEF Tokens
<1>3. /\ new.at = "registered" /\ new.proc = p /\ new.wire = 0 /\ new.box = None
      /\ new \in CallRecords
  BY <1>2 DEF None_, CallRecords, CallSteps, Early
<1> HIDE DEF new
<1> QED
  BY <1>1, <1>3 DEF Typed

(* Failing the calls of a process gives each an empty answer.                      *)
LEMMA FailCalls ==
  ASSUME Typed, NEW p \in Procs, FailPending(p)
  PROVE  /\ call' \in [Calls -> CallRecords]
         /\ \A d \in Calls : /\ call'[d].proc = call[d].proc /\ call'[d].wire = call[d].wire
                             /\ call'[d].at = call[d].at
                             /\ \/ call'[d].box = call[d].box
                                \/ call'[d].box = [for |-> None]
<1>1. ASSUME NEW d \in Calls
      PROVE  /\ call'[d] \in CallRecords
             /\ call'[d].proc = call[d].proc /\ call'[d].wire = call[d].wire
             /\ call'[d].at = call[d].at
             /\ call'[d].box = call[d].box \/ call'[d].box = [for |-> None]
  <2>1. call[d] \in CallRecords
    BY DEF Typed
  <2>2. call'[d] = call[d] \/ call'[d] = [call[d] EXCEPT !.box = [for |-> None]]
    BY DEF FailPending
  <2>3. [for |-> None] \in [for : Calls \cup {None}]
    OBVIOUS
  <2> QED
    BY <2>1, <2>2, <2>3 DEF CallRecords
<1> QED
  BY <1>1 DEF FailPending

(* ------------------------------------------------------------ what queues contain *)
LEMMA AppendIn ==
  ASSUME NEW S, NEW s \in Seq(S), NEW x \in S
  PROVE  Append(s, x) \in Seq(S) /\ In(Append(s, x)) \subseteq In(s) \cup {x}
  BY DEF In

LEMMA HeadTailIn ==
  ASSUME NEW S, NEW s \in Seq(S), s # <<>>
  PROVE  /\ Tail(s) \in Seq(S) /\ In(Tail(s)) \subseteq In(s)
         /\ Head(s) \in In(s) /\ Head(s) \in S
  BY DEF In

LEMMA EmptyIn == In(<<>>) = {}
  BY DEF In

(* A frame is put at the end of one queue.                                         *)
LEMMA PushFrame ==
  ASSUME Typed, NEW p \in Procs, NEW f \in Frames, Push(p, f)
  PROVE  /\ queue' \in [Procs -> Seq(Frames)]
         /\ \A q \in Procs : In(queue'[q]) \subseteq In(queue[q]) \cup (IF q = p THEN {f} ELSE {})
<1>1. queue' = [queue EXCEPT ![p] = Append(queue[p], f)] /\ queue[p] \in Seq(Frames)
  BY DEF Push, Typed
<1>2. Append(queue[p], f) \in Seq(Frames) /\ In(Append(queue[p], f)) \subseteq In(queue[p]) \cup {f}
  BY <1>1, AppendIn
<1> QED
  BY <1>1, <1>2 DEF Typed

LEMMA FrameType ==
  /\ \A w \in Nat, c \in Calls, inv \in SUBSET Tokens :
        Frame("request", w, c, inv) \in Frames
  /\ \A w \in Nat, c \in Calls \cup {None}, type \in {"cancel", "reply"} :
        Frame(type, w, c, {}) \in Frames
  BY DEF Frame, Frames

(* ------------------------------------------------------------------- frame rules *)
(* No call draws a wire id, and none that had not drawn one goes on.               *)
CallsStay == \A c \in Calls :
    /\ call'[c].proc = call[c].proc /\ call'[c].wire = call[c].wire
    /\ call'[c].at \in Early => call[c].at \in Early
    /\ call'[c].at \in Numbered => call[c].at \in Numbered
PendingStays == \A p \in Procs :
    /\ proc'[p].sequence = proc[p].sequence
    /\ proc'[p].pending \subseteq proc[p].pending

(* What is carried further carries a wire id with the call it names.               *)
Carried ==
    \A p \in Procs :
        /\ \A f \in In(queue'[p]) :
              f \in In(queue[p]) \/ f.type # "request" \/ Names(p, f.wire, f.call)
        /\ \A m \in inbox'[p] : m \in inbox[p] \/ Names(p, m.wire, m.call)
        /\ \A f \in In(stdout'[p]) :
              \/ f \in In(stdout[p]) \/ f.type \notin {"result", "event"}
              \/ Names(p, f.wire, f.call)

LEMMA WiresKept ==
  ASSUME Wires, CallsStay, PendingStays, Carried
  PROVE  Wires'
<1>1. Drawn'
  <2>1. ASSUME NEW c \in Calls
        PROVE  /\ call'[c].at \in Early => call'[c].wire = 0
               /\ call'[c].at \in Numbered => call'[c].wire # 0
               /\ call'[c].wire # 0 => call'[c].proc \in Procs
    <3>1. /\ call[c].at \in Early => call[c].wire = 0
          /\ call[c].at \in Numbered => call[c].wire # 0
          /\ call[c].wire # 0 => call[c].proc \in Procs
      BY DEF Wires, Drawn
    <3> QED
      BY <3>1 DEF CallsStay
  <2>2. \A p \in Procs, c \in Calls : call'[c].proc = p => call'[c].wire <= proc'[p].sequence
    BY DEF Wires, Drawn, CallsStay, PendingStays
  <2>3. ASSUME NEW c \in Calls, NEW d \in Calls,
               call'[c].wire # 0, call'[c].wire = call'[d].wire,
               call'[c].proc = call'[d].proc
        PROVE  c = d
    <3>1. call[c].wire # 0 /\ call[c].wire = call[d].wire /\ call[c].proc = call[d].proc
      BY <2>3 DEF CallsStay
    <3> QED
      BY <3>1 DEF Wires, Drawn
  <2> QED
    BY <2>1, <2>2, <2>3 DEF Drawn
<1>2. ASSUME NEW p, NEW w, NEW c, Names(p, w, c)
      PROVE  c \in Calls /\ w # 0 /\ call'[c].proc = p /\ call'[c].wire = w
  BY <1>2 DEF CallsStay, Names
<1>3. ASSUME NEW p \in Procs
      PROVE  /\ \A e \in proc'[p].pending : Names(p, e.wire, e.call)
             /\ \A f \in In(queue'[p]) : f.type = "request" => Names(p, f.wire, f.call)
             /\ \A m \in inbox'[p] : Names(p, m.wire, m.call)
             /\ \A f \in In(stdout'[p]) : f.type \in {"result", "event"}
                                              => Names(p, f.wire, f.call)
  BY DEF Wires, Carrying, PendingStays, Carried
<1>4. Carrying'
  BY <1>2, <1>3 DEF Carrying, Names, In
<1> QED
  BY <1>1, <1>4 DEF Wires

BoxesStay == \A c \in Calls :
    call'[c].box \in {call[c].box, None, [for |-> None], [for |-> c]}

LEMMA RepliesKept ==
  ASSUME RepliesMatch, BoxesStay, \A e \in events' : e \in events \/ e.for = e.to
  PROVE  RepliesMatch'
<1>1. ASSUME NEW c \in Calls, call'[c].box # None
      PROVE  call'[c].box.for \in {c, None}
  <2>1. [for |-> None].for = None /\ [for |-> c].for = c
    OBVIOUS
  <2>2. call[c].box # None => call[c].box.for \in {c, None}
    BY DEF RepliesMatch
  <2> QED
    BY <1>1, <2>1, <2>2 DEF BoxesStay
<1> QED
  BY <1>1 DEF RepliesMatch

(* Steps that only move a call on.                                                 *)
LEMMA MovedOn ==
  ASSUME CallsInv, NEW c \in Calls, NEW at \in CallSteps, Moved(c, at),
         call[c].at # "none", at \in Early => call[c].at \in Early,
         at \in Numbered => call[c].at \in Numbered,
         UNCHANGED <<request, stdout>>
  PROVE  /\ CallsStay /\ BoxesStay /\ Placed'
<1>1. CallsStay /\ BoxesStay
  BY DEF Moved, CallsStay, BoxesStay
<1>2. ASSUME NEW d \in Calls, call'[d].at # "none"
      PROVE  call'[d].proc \in Procs
  <2>1. call'[d].proc = call[d].proc /\ call[d].at # "none"
    BY <1>2 DEF Moved
  <2> QED
    BY <2>1 DEF CallsInv, Placed
<1>3. Placed'
  BY <1>2 DEF CallsInv, Placed, In
<1> QED
  BY <1>1, <1>3

LEMMA CarriedAlong ==
  ASSUME UNCHANGED <<queue, inbox, stdout>>
  PROVE  Carried
  BY DEF Carried

LEMMA ProcsKept ==
  ASSUME UNCHANGED proc
  PROVE  PendingStays
  BY DEF PendingStays

LEMMA AllKept ==
  ASSUME CallsInv, Typed', Placed', CallsStay, BoxesStay, PendingStays, Carried,
         \A e \in events' : e \in events \/ e.for = e.to
  PROVE  CallsInv'
  BY WiresKept, RepliesKept DEF CallsInv

(* ----------------------------------------------------------------- calls progress *)
LEMMA PlainSteps ==
  ASSUME CallsInv, NEW c \in Calls, Prepare(c) \/ Receive(c) \/ Return(c)
  PROVE  CallsInv'
<1>1. /\ UNCHANGED <<fired, told, threads, backend, request, events>>
      /\ call[c].at \in {"registered", "waiting", "left"}
      /\ \E at \in {"leaving", "prepared", "returned"} :
            /\ Goto(c, at)
            /\ at = "prepared" => call[c].at = "registered"
  BY DEF Prepare, Receive, Return, Refuse, At
<1>2. PICK at \in {"leaving", "prepared", "returned"} :
        /\ Goto(c, at)
        /\ at = "prepared" => call[c].at = "registered"
  BY <1>1
<1>3. Moved(c, at) /\ at \in CallSteps
  BY <1>2, GotoMoves DEF CallsInv, CallSteps, Early
<1>4. CallsStay /\ BoxesStay /\ Placed'
  BY <1>1, <1>2, <1>3, MovedOn DEF Early, Numbered, backend
<1>5. Typed'
  BY <1>1, <1>3 DEF CallsInv, Typed, Moved, threads, backend
<1> QED
  BY <1>1, <1>4, <1>5, CarriedAlong, ProcsKept, AllKept DEF threads, backend

(* A call that registers, for a caller or for a request of a plugin: its record is *)
(* new, and nothing carries a wire id of it.                                       *)
LEMMA Registers ==
  ASSUME CallsInv, NEW c \in Calls, NEW p \in Procs, NEW i \in Ids \cup Calls,
         NEW parent \in SUBSET Tokens, Register(c, p, i, parent),
         UNCHANGED <<proc, queue, inbox, stdout>>
  PROVE  /\ call' \in [Calls -> CallRecords] /\ Wires' /\ BoxesStay
         /\ \A d \in Calls : call'[d].at # "none" => call'[d].proc \in Procs
<1>1. /\ call' \in [Calls -> CallRecords] /\ call[c].at = "none"
      /\ \A d \in Calls \ {c} : call'[d] = call[d]
      /\ call'[c].at = "registered" /\ call'[c].proc = p /\ call'[c].wire = 0
      /\ call'[c].box = None
  BY RegisterCall DEF CallsInv
<1>2. call[c].wire = 0
  BY <1>1 DEF CallsInv, Wires, Drawn, Early
<1>3. Drawn'
  <2>1. ASSUME NEW d \in Calls
        PROVE  /\ call'[d].at \in Early => call'[d].wire = 0
               /\ call'[d].at \in Numbered => call'[d].wire # 0
               /\ call'[d].wire # 0 => call'[d].proc \in Procs
    BY <1>1 DEF CallsInv, Wires, Drawn, Early, Numbered
  <2>2. ASSUME NEW q \in Procs, NEW d \in Calls, call'[d].proc = q
        PROVE  call'[d].wire <= proc'[q].sequence
    <3>1. proc[q].sequence \in Nat
      BY DEF CallsInv, Typed, ProcRecords
    <3>2. CASE d # c
      <4>1. call'[d] = call[d] /\ proc'[q].sequence = proc[q].sequence
        BY <1>1, <3>2
      <4> QED
        BY <2>2, <4>1 DEF CallsInv, Wires, Drawn
    <3>3. CASE d = c
      BY <1>1, <3>1, <3>3
    <3> QED
      BY <3>2, <3>3
  <2>3. ASSUME NEW d \in Calls, NEW e \in Calls, call'[d].wire # 0,
               call'[d].wire = call'[e].wire, call'[d].proc = call'[e].proc
        PROVE  d = e
    <3>1. d # c /\ e # c
      BY <1>1, <2>3
    <3>2. call'[d] = call[d] /\ call'[e] = call[e]
      BY <1>1, <3>1
    <3> QED
      BY <2>3, <3>2 DEF CallsInv, Wires, Drawn
  <2> QED
    BY <2>1, <2>2, <2>3 DEF Drawn
<1>4. ASSUME NEW q, NEW w, NEW d, Names(q, w, d)
      PROVE  d \in Calls /\ w # 0 /\ call'[d].proc = q /\ call'[d].wire = w
  BY <1>1, <1>2, <1>4 DEF Names
<1>5. Carrying'
  BY <1>4 DEF CallsInv, Wires, Carrying, Names, In
<1>6. ASSUME NEW d \in Calls, call'[d].at # "none" PROVE call'[d].proc \in Procs
  BY <1>1, <1>6 DEF CallsInv, Placed
<1>7. BoxesStay
  BY <1>1 DEF BoxesStay
<1> QED
  BY <1>1, <1>3, <1>5, <1>6, <1>7 DEF Wires

LEMMA CallerCallsStep ==
  ASSUME CallsInv, NEW c \in Calls, NEW p \in Procs, NEW i \in Ids, CallerCalls(c, p, i)
  PROVE  CallsInv'
<1>1. /\ Register(c, p, i, {}) /\ i \in Ids \cup Calls /\ {} \in SUBSET Tokens
      /\ UNCHANGED <<fired, told, threads, backend, request, events>>
  BY DEF CallerCalls
<1>2. /\ call' \in [Calls -> CallRecords] /\ Wires' /\ BoxesStay
      /\ \A d \in Calls : call'[d].at # "none" => call'[d].proc \in Procs
  BY <1>1, Registers DEF threads, backend
<1>3. Typed'
  BY <1>1, <1>2 DEF CallsInv, Typed, threads, backend
<1>4. Placed'
  BY <1>1, <1>2 DEF CallsInv, Placed, In, backend
<1>5. RepliesMatch'
  BY <1>1, <1>2, RepliesKept DEF CallsInv
<1> QED
  BY <1>2, <1>3, <1>4, <1>5 DEF CallsInv

LEMMA NestedStep ==
  ASSUME CallsInv, NEW c \in Calls, NEW r \in Requests, NEW q \in Procs, Nested(c, r, q)
  PROVE  CallsInv'
<1>1. request \in [Requests -> Asked] /\ request[r] \in Asked
  BY DEF CallsInv, Typed
<1>2. /\ Register(c, q, c, request[r].inv) /\ c \in Ids \cup Calls
      /\ request[r].inv \in SUBSET Tokens /\ request[r].at = "working"
      /\ UNCHANGED <<fired, told, threads, backend, events>>
  BY <1>1 DEF Nested, Asked
<1>3. /\ call' \in [Calls -> CallRecords] /\ Wires' /\ BoxesStay
      /\ \A d \in Calls : call'[d].at # "none" => call'[d].proc \in Procs
  BY <1>2, Registers DEF threads, backend
<1> DEFINE inv == request[r].inv \cup {<<"wait", c>>}
           new == [request[r] EXCEPT !.at = "calling", !.inv = inv]
<1>4. request' = [request EXCEPT ![r] = new]
  BY DEF Nested
<1>5. inv \in SUBSET Tokens
  BY <1>2 DEF Tokens
<1>6. new \in Asked /\ new.proc = request[r].proc /\ new.at = "calling"
  BY <1>1, <1>5 DEF Asked
<1> HIDE DEF new, inv
<1>7. Typed'
  BY <1>1, <1>2, <1>3, <1>4, <1>6 DEF CallsInv, Typed, threads, backend
<1>8. Placed'
  <2>1. request[r].proc \in Procs
    BY <1>2 DEF CallsInv, Placed
  <2> QED
    BY <1>1, <1>2, <1>3, <1>4, <1>6, <2>1 DEF CallsInv, Placed, In, backend, Asked
<1>9. RepliesMatch'
  BY <1>2, <1>3, RepliesKept DEF CallsInv
<1> QED
  BY <1>3, <1>7, <1>8, <1>9 DEF CallsInv

(* The call gets a flag of its own.                                                *)
LEMMA EnterStep ==
  ASSUME CallsInv, NEW c \in Calls, Enter(c)
  PROVE  CallsInv'
<1>1. /\ UNCHANGED <<fired, told, threads, backend, request, events>>
      /\ call[c].at = "prepared"
  BY DEF Enter, At
<1>2. call \in [Calls -> CallRecords] /\ call[c] \in CallRecords
  BY DEF CallsInv, Typed
<1> DEFINE inv == call[c].inv \cup {<<"own", c>>}
           new == [call[c] EXCEPT !.at = "entered", !.inv = inv]
<1>3. inv \in SUBSET Tokens
  BY <1>2 DEF CallRecords, Tokens
<1>4. /\ new \in CallRecords /\ new.proc = call[c].proc /\ new.wire = call[c].wire
      /\ new.box = call[c].box /\ new.at = "entered"
  BY <1>2, <1>3 DEF CallRecords, CallSteps, Early
<1> HIDE DEF new, inv
<1>5. /\ call' \in [Calls -> CallRecords] /\ CallsStay /\ BoxesStay
      /\ \A d \in Calls : call'[d].at # "none" => call[d].at # "none"
  <2>1. CASE Refuse(c)
    <3>1. Moved(c, "leaving")
      BY <2>1, RefuseMoves DEF CallsInv
    <3> QED
      BY <1>1, <3>1 DEF Moved, CallsStay, BoxesStay, Early, Numbered
  <2>2. CASE call' = [call EXCEPT ![c] = new]
    BY <1>1, <1>2, <1>4, <2>2 DEF CallsStay, BoxesStay, Early, Numbered
  <2> QED
    BY <2>1, <2>2 DEF Enter, new, inv
<1>6. Typed'
  BY <1>1, <1>5 DEF CallsInv, Typed, threads, backend
<1>7. Placed'
  BY <1>1, <1>5 DEF CallsInv, Placed, CallsStay, In, backend
<1> QED
  BY <1>1, <1>5, <1>6, <1>7, CarriedAlong, ProcsKept, AllKept DEF threads, backend

(* The next number of the process becomes the wire id of the call.                 *)
LEMMA InsertStep ==
  ASSUME CallsInv, NEW c \in Calls, Insert(c)
  PROVE  CallsInv'
<1> DEFINE p == call[c].proc
           w == proc[p].sequence + 1
           e == [wire |-> w, id |-> call[c].id, call |-> c]
<1>1. /\ UNCHANGED <<fired, told, ender, queue, backend, request, events>>
      /\ call[c].at = "entered"
  BY DEF Insert, At
<1>2. /\ call \in [Calls -> CallRecords] /\ call[c] \in CallRecords
      /\ proc \in [Procs -> ProcRecords]
  BY DEF CallsInv, Typed
<1>3. p \in Procs
  BY <1>1 DEF CallsInv, Placed
<1>4. CASE Refuse(c) /\ UNCHANGED proc
  <2>1. Moved(c, "leaving")
    BY <1>4, RefuseMoves DEF CallsInv
  <2>2. CallsStay /\ BoxesStay /\ Placed'
    BY <1>1, <2>1, MovedOn DEF Early, Numbered, CallSteps, backend
  <2>3. Typed'
    BY <1>1, <1>4, <2>1 DEF CallsInv, Typed, Moved, threads, backend
  <2> QED
    BY <1>1, <1>4, <2>2, <2>3, CarriedAlong, ProcsKept, AllKept DEF backend
<1>5. CASE /\ call' = [call EXCEPT ![c].at = "inserted", ![c].wire = w]
           /\ proc' = [proc EXCEPT ![p].sequence = @ + 1, ![p].pending = @ \cup {e}]
  <2> DEFINE new == [call[c] EXCEPT !.at = "inserted", !.wire = w]
             P == [proc[p] EXCEPT !.sequence = @ + 1, !.pending = @ \cup {e}]
  <2>1. call' = [call EXCEPT ![c] = new] /\ proc' = [proc EXCEPT ![p] = P]
    BY <1>2, <1>3, <1>5
  <2>2. proc[p] \in ProcRecords /\ proc[p].sequence \in Nat /\ proc[p].pending \in SUBSET Pending
    BY <1>2, <1>3 DEF ProcRecords
  <2>3. w \in Nat /\ w # 0 /\ w = proc[p].sequence + 1
    BY <2>2
  <2>4. e \in Pending /\ e.wire = w /\ e.call = c
    <3> HIDE DEF w
    <3> QED
      BY <1>2, <2>3 DEF Pending, CallRecords
  <2> HIDE DEF w, e
  <2>5. /\ new \in CallRecords /\ new.proc = p /\ new.wire = w /\ new.box = call[c].box
        /\ new.at = "inserted"
    BY <1>2, <2>3 DEF CallRecords, CallSteps, Numbered
  <2>6. /\ P \in ProcRecords /\ P.sequence = proc[p].sequence + 1
        /\ P.pending = proc[p].pending \cup {e}
    <3>1. proc[p].pending \cup {e} \in SUBSET Pending /\ proc[p].sequence + 1 \in Nat
      BY <2>2, <2>4
    <3> QED
      BY <2>2, <3>1 DEF ProcRecords
  <2> HIDE DEF new, P
  <2>7. call' \in [Calls -> CallRecords] /\ call'[c] = new
        /\ \A d \in Calls \ {c} : call'[d] = call[d]
    BY <1>2, <2>1, <2>5
  <2>8. proc' \in [Procs -> ProcRecords] /\ proc'[p] = P
        /\ \A q \in Procs \ {p} : proc'[q] = proc[q]
    BY <1>2, <1>3, <2>1, <2>6
  <2> HIDE DEF p
  <2>9. Typed'
    BY <1>1, <2>7, <2>8 DEF CallsInv, Typed, backend
  <2>10. call[c].wire = 0 /\ call[c].proc = p
    BY <1>1 DEF CallsInv, Wires, Drawn, Early, p
  <2>11. Placed'
    <3>1. ASSUME NEW d \in Calls, call'[d].at # "none" PROVE call'[d].proc \in Procs
      BY <1>3, <2>5, <2>7, <3>1 DEF CallsInv, Placed
    <3> QED
      BY <1>1, <3>1 DEF CallsInv, Placed, In, backend
  <2>12. ASSUME NEW d \in Calls, d # c, call[d].proc = p
         PROVE  call[d].wire # w
    <3>1. call[d].wire <= proc[p].sequence /\ call[d].wire \in Nat
      BY <1>2, <1>3, <2>12 DEF CallsInv, Wires, Drawn, CallRecords
    <3> QED
      BY <2>2, <2>3, <3>1
  <2>13. Drawn'
    <3>1. ASSUME NEW d \in Calls
          PROVE  /\ call'[d].at \in Early => call'[d].wire = 0
                 /\ call'[d].at \in Numbered => call'[d].wire # 0
                 /\ call'[d].wire # 0 => call'[d].proc \in Procs
      <4>1. CASE d = c
        BY <1>3, <2>3, <2>5, <2>7, <4>1 DEF Early, Numbered
      <4>2. CASE d # c
        <5>1. call'[d] = call[d]
          BY <2>7, <4>2
        <5> QED
          BY <5>1 DEF CallsInv, Wires, Drawn
      <4> QED
        BY <4>1, <4>2
    <3>2. ASSUME NEW q \in Procs, NEW d \in Calls, call'[d].proc = q
          PROVE  call'[d].wire <= proc'[q].sequence
      <4>1. CASE d = c
        BY <2>2, <2>3, <2>5, <2>6, <2>7, <2>8, <3>2, <4>1
      <4>2. CASE d # c
        <5>1. call'[d] = call[d] /\ call[d] \in CallRecords
          BY <1>2, <2>7, <4>2
        <5>2. call[d].wire <= proc[q].sequence /\ call[d].wire \in Nat
          BY <3>2, <5>1 DEF CallsInv, Wires, Drawn, CallRecords
        <5>3. q # p => proc'[q].sequence = proc[q].sequence
          BY <2>8
        <5>4. q = p => proc'[q].sequence = proc[q].sequence + 1
          BY <2>6, <2>8
        <5> QED
          BY <2>2, <5>1, <5>2, <5>3, <5>4
      <4> QED
        BY <4>1, <4>2
    <3>3. ASSUME NEW d \in Calls, NEW f \in Calls, call'[d].wire # 0,
                 call'[d].wire = call'[f].wire, call'[d].proc = call'[f].proc
          PROVE  d = f
      <4>1. CASE d # c /\ f # c
        <5>1. call'[d] = call[d] /\ call'[f] = call[f]
          BY <2>7, <4>1
        <5> QED
          BY <3>3, <5>1 DEF CallsInv, Wires, Drawn
      <4>2. CASE d = c /\ f # c
        BY <2>5, <2>7, <2>12, <3>3, <4>2
      <4>3. CASE d # c /\ f = c
        BY <2>5, <2>7, <2>12, <3>3, <4>3
      <4> QED
        BY <4>1, <4>2, <4>3
    <3> QED
      BY <3>1, <3>2, <3>3 DEF Drawn
  <2>14. ASSUME NEW q, NEW x, NEW d, Names(q, x, d)
         PROVE  d \in Calls /\ x # 0 /\ call'[d].proc = q /\ call'[d].wire = x
    BY <2>7, <2>10, <2>14 DEF Names
  <2>15. ASSUME NEW q \in Procs, NEW f \in proc'[q].pending
         PROVE  Names(q, f.wire, f.call)'
    <3>1. CASE f \in proc[q].pending
      <4>1. Names(q, f.wire, f.call)
        BY <3>1 DEF CallsInv, Wires, Carrying
      <4> QED
        BY <2>14, <4>1 DEF Names
    <3>2. CASE f \notin proc[q].pending
      <4>1. q = p /\ f = e
        BY <2>6, <2>8, <2>15, <3>2
      <4> QED
        BY <2>3, <2>4, <2>5, <2>7, <4>1 DEF Names
    <3> QED
      BY <3>1, <3>2
  <2>16. Carrying'
    BY <1>1, <2>14, <2>15 DEF CallsInv, Wires, Carrying, Names, In, backend
  <2>17. BoxesStay
    BY <2>5, <2>7 DEF BoxesStay
  <2>18. RepliesMatch'
    BY <1>1, <2>17, RepliesKept DEF CallsInv
  <2> QED
    BY <2>9, <2>11, <2>13, <2>16, <2>18 DEF CallsInv, Wires
<1> QED
  BY <1>4, <1>5 DEF Insert, WireId

(* --------------------------------------------------------- the other steps of calls *)
(* A process changed in one field only.                                            *)
LEMMA ProcChange ==
  ASSUME Typed, NEW p \in Procs, NEW P \in ProcRecords, proc' = [proc EXCEPT ![p] = P],
         P.sequence = proc[p].sequence, P.pending \subseteq proc[p].pending
  PROVE  proc' \in [Procs -> ProcRecords] /\ PendingStays
  BY DEF Typed, PendingStays

LEMMA PendingShrinks ==
  ASSUME Typed, NEW p \in Procs, NEW S \in SUBSET proc[p].pending,
         proc' = [proc EXCEPT ![p].pending = S]
  PROVE  proc' \in [Procs -> ProcRecords] /\ PendingStays
<1> DEFINE P == [proc[p] EXCEPT !.pending = S]
<1>1. proc' = [proc EXCEPT ![p] = P] /\ proc[p] \in ProcRecords
  BY DEF Typed
<1>2. S \in SUBSET Pending
  BY <1>1 DEF ProcRecords
<1>3. P \in ProcRecords /\ P.sequence = proc[p].sequence /\ P.pending = S
  BY <1>1, <1>2 DEF ProcRecords
<1> QED
  BY <1>1, <1>3, ProcChange

LEMMA RemoveType ==
  ASSUME Typed, NEW p \in Procs, NEW w, RemovePending(p, w)
  PROVE  proc' \in [Procs -> ProcRecords] /\ PendingStays
<1> DEFINE S == Without(p, w)
<1>1. S \in SUBSET proc[p].pending /\ proc' = [proc EXCEPT ![p].pending = S]
  BY DEF RemovePending, Without
<1> HIDE DEF S
<1> QED
  BY <1>1, PendingShrinks

LEMMA ContextsChange ==
  ASSUME Typed, NEW p \in Procs, NEW S \in SUBSET Received,
         proc' = [proc EXCEPT ![p].contexts = S]
  PROVE  proc' \in [Procs -> ProcRecords] /\ PendingStays
<1> DEFINE P == [proc[p] EXCEPT !.contexts = S]
<1>1. proc' = [proc EXCEPT ![p] = P] /\ proc[p] \in ProcRecords
  BY DEF Typed
<1>2. P \in ProcRecords /\ P.sequence = proc[p].sequence /\ P.pending = proc[p].pending
  BY <1>1 DEF ProcRecords
<1> QED
  BY <1>1, <1>2, ProcChange

(* The flags of a process.                                                         *)
LEMMA FlagChange ==
  ASSUME Typed, NEW p \in Procs,
         \/ proc' = [proc EXCEPT ![p].alive = FALSE]
         \/ proc' = [proc EXCEPT ![p].recorded = FALSE]
         \/ proc' = [proc EXCEPT ![p].child = FALSE]
         \/ proc' = [proc EXCEPT ![p].writer = FALSE]
         \/ proc' = [proc EXCEPT ![p].reader = FALSE]
  PROVE  proc' \in [Procs -> ProcRecords] /\ PendingStays
<1>1. proc[p] \in ProcRecords
  BY DEF Typed
<1>2. ASSUME NEW P \in {[proc[p] EXCEPT !.alive = FALSE], [proc[p] EXCEPT !.recorded = FALSE],
                        [proc[p] EXCEPT !.child = FALSE], [proc[p] EXCEPT !.writer = FALSE],
                        [proc[p] EXCEPT !.reader = FALSE]}
      PROVE  /\ P \in ProcRecords /\ P.sequence = proc[p].sequence
             /\ P.pending = proc[p].pending
  BY <1>1, <1>2 DEF ProcRecords
<1>3. PICK P \in {[proc[p] EXCEPT !.alive = FALSE], [proc[p] EXCEPT !.recorded = FALSE],
                  [proc[p] EXCEPT !.child = FALSE], [proc[p] EXCEPT !.writer = FALSE],
                  [proc[p] EXCEPT !.reader = FALSE]} :
        proc' = [proc EXCEPT ![p] = P]
  OBVIOUS
<1> QED
  BY <1>2, <1>3, ProcChange

(* A call moves on or away, and its process loses entries at most.                 *)
LEMMA CallLeaves ==
  ASSUME CallsInv, NEW c \in Calls, NEW at \in CallSteps, Moved(c, at),
         call[c].at # "none", at \notin Early, at \in Numbered => call[c].at \in Numbered,
         proc' \in [Procs -> ProcRecords], PendingStays,
         queue' \in [Procs -> Seq(Frames)], Carried, fired' \subseteq Tokens,
         UNCHANGED <<told, ender, backend, request, events>>
  PROVE  CallsInv'
<1>1. CallsStay /\ BoxesStay /\ Placed'
  BY MovedOn DEF backend
<1>2. Typed'
  BY DEF CallsInv, Typed, Moved, backend
<1> QED
  BY <1>1, <1>2, AllKept

LEMMA KeepContextStep ==
  ASSUME CallsInv, NEW c \in Calls, KeepContext(c)
  PROVE  CallsInv'
<1> DEFINE p == call[c].proc
           S == proc[p].contexts \cup {[wire |-> call[c].wire, call |-> c]}
<1>1. /\ UNCHANGED <<fired, told, ender, queue, backend, request, events>>
      /\ call[c].at = "inserted" /\ Goto(c, "kept")
      /\ proc' = [proc EXCEPT ![p].contexts = S]
  BY DEF KeepContext, At
<1>2. p \in Procs /\ call[c] \in CallRecords
  BY <1>1 DEF CallsInv, Placed, Typed
<1>3. proc[p] \in ProcRecords
  BY <1>2 DEF CallsInv, Typed
<1>4. S \in SUBSET Received
  BY <1>2, <1>3 DEF CallRecords, ProcRecords, Received
<1> HIDE DEF S, p
<1>5. proc' \in [Procs -> ProcRecords] /\ PendingStays
  BY <1>1, <1>2, <1>4, ContextsChange DEF CallsInv
<1>6. Moved(c, "kept")
  BY <1>1, GotoMoves DEF CallsInv, CallSteps, Numbered
<1>7. Carried
  BY <1>1, CarriedAlong DEF backend
<1> QED
  BY <1>1, <1>5, <1>6, <1>7, CallLeaves DEF CallsInv, Typed, CallSteps, Early, Numbered

LEMMA CheckAliveStep ==
  ASSUME CallsInv, NEW c \in Calls, CheckAlive(c)
  PROVE  CallsInv'
<1> DEFINE p == call[c].proc
<1>1. /\ UNCHANGED <<fired, told, ender, queue, backend, request, events>>
      /\ call[c].at = "kept"
      /\ \/ Goto(c, "queueing") /\ UNCHANGED proc
         \/ Refuse(c) /\ RemovePending(p, call[c].wire)
  BY DEF CheckAlive, At
<1>2. p \in Procs
  BY <1>1 DEF CallsInv, Placed
<1> HIDE DEF p
<1>3. proc' \in [Procs -> ProcRecords] /\ PendingStays
  <2>1. CASE UNCHANGED proc
    BY <2>1, ProcsKept DEF CallsInv, Typed
  <2>2. CASE RemovePending(p, call[c].wire)
    BY <1>2, <2>2, RemoveType DEF CallsInv
  <2> QED
    BY <1>1, <2>1, <2>2
<1>4. Moved(c, "queueing") \/ Moved(c, "leaving")
  BY <1>1, GotoMoves, RefuseMoves DEF CallsInv, CallSteps, Numbered
<1>5. Carried
  BY <1>1, CarriedAlong DEF backend
<1> QED
  BY <1>1, <1>3, <1>4, <1>5, CallLeaves DEF CallsInv, Typed, CallSteps, Early, Numbered

LEMMA QueueRequestStep ==
  ASSUME CallsInv, NEW c \in Calls, QueueRequest(c)
  PROVE  CallsInv'
<1> DEFINE p == call[c].proc
           f == Frame("request", call[c].wire, c, call[c].inv)
<1>1. /\ UNCHANGED <<fired, told, ender, backend, request, events>>
      /\ call[c].at = "queueing"
      /\ \/ Push(p, f) /\ Goto(c, "waiting") /\ UNCHANGED proc
         \/ Refuse(c) /\ RemovePending(p, call[c].wire) /\ UNCHANGED queue
  BY DEF QueueRequest, At
<1>2. p \in Procs /\ call[c] \in CallRecords
  BY <1>1 DEF CallsInv, Placed, Typed
<1>3. f \in Frames /\ f.wire = call[c].wire /\ f.call = c
  BY <1>2, FrameType DEF CallRecords, Frame
<1>4. Names(p, f.wire, f.call)
  BY <1>1, <1>3 DEF CallsInv, Wires, Drawn, Names, Numbered
<1> HIDE DEF p, f
<1>5. CASE Push(p, f) /\ Goto(c, "waiting") /\ UNCHANGED proc
  <2>1. /\ queue' \in [Procs -> Seq(Frames)]
        /\ \A q \in Procs :
              In(queue'[q]) \subseteq In(queue[q]) \cup (IF q = p THEN {f} ELSE {})
    BY <1>2, <1>3, <1>5, PushFrame DEF CallsInv
  <2>2. Carried
    BY <1>1, <1>4, <2>1 DEF Carried, backend
  <2>3. Moved(c, "waiting")
    BY <1>5, GotoMoves DEF CallsInv, CallSteps, Numbered
  <2> QED
    BY <1>1, <1>5, <2>1, <2>2, <2>3, ProcsKept, CallLeaves
       DEF CallsInv, Typed, CallSteps, Early, Numbered
<1>6. CASE Refuse(c) /\ RemovePending(p, call[c].wire) /\ UNCHANGED queue
  <2>1. proc' \in [Procs -> ProcRecords] /\ PendingStays
    BY <1>2, <1>6, RemoveType DEF CallsInv
  <2>2. Moved(c, "leaving") /\ Carried
    BY <1>1, <1>6, RefuseMoves, CarriedAlong DEF CallsInv, backend
  <2> QED
    BY <1>1, <1>6, <2>1, <2>2, CallLeaves DEF CallsInv, Typed, CallSteps, Early, Numbered
<1> QED
  BY <1>1, <1>5, <1>6

LEMMA GivesUpStep ==
  ASSUME CallsInv, NEW c \in Calls, Notice(c) \/ SendCancel(c) \/ Leave(c)
  PROVE  CallsInv'
<1> DEFINE p == call[c].proc
<1>1. /\ UNCHANGED <<told, ender, backend, request, events>>
      /\ call[c].at \in {"waiting", "cancelling", "leaving"}
  BY DEF Notice, SendCancel, Leave, At, threads
<1>2. p \in Procs /\ call[c] \in CallRecords
  BY <1>1 DEF CallsInv, Placed, Typed
<1>3. proc[p] \in ProcRecords /\ <<"own", c>> \in Tokens
  BY <1>2 DEF CallsInv, Typed, Tokens
<1>4. CASE Notice(c)
  <2>1. /\ UNCHANGED <<proc, queue>> /\ Goto(c, "cancelling") /\ call[c].at = "waiting"
        /\ fired' \subseteq fired \cup {<<"own", c>>}
    BY <1>4 DEF Notice, threads, At
  <2>2. Moved(c, "cancelling") /\ Carried
    BY <1>1, <2>1, GotoMoves, CarriedAlong DEF CallsInv, CallSteps, Numbered, backend
  <2> QED
    BY <1>1, <1>3, <2>1, <2>2, ProcsKept, CallLeaves
       DEF CallsInv, Typed, CallSteps, Early, Numbered
<1>5. CASE SendCancel(c)
  <2> DEFINE f == Frame("cancel", call[c].wire, c, {})
  <2>1. /\ UNCHANGED fired /\ Goto(c, "leaving")
        /\ RemovePending(p, call[c].wire)
        /\ UNCHANGED queue \/ Push(p, f)
    BY <1>5 DEF SendCancel
  <2>2. proc' \in [Procs -> ProcRecords] /\ PendingStays
    BY <1>2, <2>1, RemoveType DEF CallsInv
  <2>3. f \in Frames
    BY <1>2, FrameType DEF CallRecords
  <2>4. f.type = "cancel"
    BY DEF Frame
  <2> HIDE DEF f
  <2>5. queue' \in [Procs -> Seq(Frames)] /\ Carried
    <3>1. CASE UNCHANGED queue
      BY <1>1, <3>1, CarriedAlong DEF CallsInv, Typed, backend
    <3>2. CASE Push(p, f)
      <4>1. /\ queue' \in [Procs -> Seq(Frames)]
            /\ \A q \in Procs : In(queue'[q]) \subseteq In(queue[q]) \cup
                 (IF q = p THEN {f} ELSE {})
        BY <1>2, <2>3, <3>2, PushFrame DEF CallsInv
      <4> QED
        BY <1>1, <2>4, <4>1 DEF Carried, backend
    <3> QED
      BY <2>1, <3>1, <3>2
  <2>6. Moved(c, "leaving")
    BY <2>1, GotoMoves DEF CallsInv, CallSteps
  <2> QED
    BY <1>1, <2>1, <2>2, <2>5, <2>6, CallLeaves DEF CallsInv, Typed, CallSteps, Early, Numbered
<1>6. CASE Leave(c)
  <2> DEFINE kept == {e \in proc[p].contexts : e.call = c}
  <2>1. /\ UNCHANGED queue /\ Goto(c, "left")
        /\ proc' = [proc EXCEPT ![p].contexts = proc[p].contexts \ kept]
        /\ fired' \subseteq fired \cup {<<"own", c>>}
    BY <1>6 DEF Leave
  <2>2. proc[p].contexts \ kept \in SUBSET Received
    BY <1>3 DEF ProcRecords
  <2> HIDE DEF kept
  <2>3. proc' \in [Procs -> ProcRecords] /\ PendingStays
    BY <1>2, <2>1, <2>2, ContextsChange DEF CallsInv
  <2>4. Moved(c, "left") /\ Carried
    BY <1>1, <2>1, GotoMoves, CarriedAlong DEF CallsInv, CallSteps, backend
  <2> QED
    BY <1>1, <1>3, <2>1, <2>3, <2>4, CallLeaves DEF CallsInv, Typed, CallSteps, Early, Numbered
<1> QED
  BY <1>4, <1>5, <1>6

(* ------------------------------------------------- steps that leave the calls alone *)
LEMMA CallsUntouched ==
  ASSUME CallsInv, Typed', Placed', UNCHANGED call, PendingStays, Carried,
         \A e \in events' : e \in events \/ e.for = e.to
  PROVE  CallsInv'
<1>1. CallsStay /\ BoxesStay
  BY DEF CallsStay, BoxesStay
<1> QED
  BY <1>1, AllKept

(* What is on its way to the host has been made, unless it is put there now.       *)
LEMMA StaysPlaced ==
  ASSUME CallsInv, UNCHANGED <<call, request>>,
         \A p \in Procs : \A f \in In(stdout'[p]) : f \in In(stdout[p]) \/ f.type # "request"
  PROVE  Placed'
<1>1. ASSUME NEW p \in Procs, NEW f \in In(stdout'[p]), f.type = "request"
      PROVE  request'[f.request].at # "none"
  BY <1>1 DEF CallsInv, Placed
<1> QED
  BY <1>1 DEF CallsInv, Placed, In

LEMMA EnderMoves ==
  ASSUME Typed, NEW p \in Procs, NEW w \in Enders,
         NEW to \in {"off", "alive", "fail", "cancel", "kill", "exit", "done"},
         ender' = [ender EXCEPT ![p][w] = to]
  PROVE  ender' \in [Procs -> [Enders -> {"off", "alive", "fail", "cancel", "kill", "exit", "done"}]]
<1>1. ender[p] \in [Enders -> {"off", "alive", "fail", "cancel", "kill", "exit", "done"}]
  BY DEF Typed
<1>2. ender' = [ender EXCEPT ![p] = [ender[p] EXCEPT ![w] = to]]
  OBVIOUS
<1>3. [ender[p] EXCEPT ![w] = to]
        \in [Enders -> {"off", "alive", "fail", "cancel", "kill", "exit", "done"}]
  BY <1>1
<1> QED
  BY <1>2, <1>3 DEF Typed

LEMMA TokenSteps ==
  ASSUME CallsInv, fired' \subseteq Tokens, told' \subseteq Calls,
         UNCHANGED <<call, threads, backend, request, events>>
  PROVE  CallsInv'
<1>1. Typed'
  BY DEF CallsInv, Typed, threads, backend
<1>2. Placed' /\ PendingStays /\ Carried
  BY StaysPlaced, ProcsKept, CarriedAlong DEF threads, backend
<1> QED
  BY <1>1, <1>2, CallsUntouched

LEMMA CancelStep ==
  ASSUME CallsInv, NEW p \in Procs, NEW i \in Ids, Cancel(p, i)
  PROVE  CallsInv'
<1>1. proc[p].pending \subseteq Pending
  BY DEF CallsInv, Typed, ProcRecords
<1>2. \A e \in Pending : e.call \in Calls
  BY DEF Pending
<1>3. Holding(p, i) \subseteq Calls /\ {e.call : e \in Entries(p, i)} \subseteq Calls
  BY <1>1, <1>2 DEF Holding, Entries
<1>4. \A c \in Calls : <<"wait", c>> \in Tokens /\ <<"own", c>> \in Tokens
  BY DEF Tokens
<1>5. CancelTokens(p, i) \subseteq Tokens
  BY <1>3, <1>4 DEF CancelTokens
<1>6. fired' \subseteq Tokens /\ told' \subseteq Calls
  BY <1>3, <1>5 DEF Cancel, CallsInv, Typed
<1> QED
  BY <1>6, TokenSteps DEF Cancel

LEMMA DeadlineStep ==
  ASSUME CallsInv, NEW t \in {"late"} \X (Calls \cup Requests), DeadlinePasses(t)
  PROVE  CallsInv'
<1>1. t \in Tokens
  BY DEF Tokens
<1> QED
  BY <1>1, TokenSteps DEF DeadlinePasses, CallsInv, Typed

(* -------------------------------------------------------------- writer and backend *)
LEMMA WriteStep ==
  ASSUME CallsInv, NEW p \in Procs, Write(p)
  PROVE  CallsInv'
<1> DEFINE f == Head(queue[p])
           m == [wire |-> f.wire, call |-> f.call]
<1>1. /\ queue[p] \in Seq(Frames) /\ queue[p] # <<>>
      /\ queue \in [Procs -> Seq(Frames)] /\ inbox \in [Procs -> SUBSET Received]
      /\ ender \in [Procs -> [Enders -> {"off", "alive", "fail", "cancel", "kill", "exit", "done"}]]
      /\ UNCHANGED <<call, fired, told, stdout, said, request, events>>
  BY DEF Write, CallsInv, Typed
<1>2. /\ Tail(queue[p]) \in Seq(Frames) /\ In(Tail(queue[p])) \subseteq In(queue[p])
      /\ f \in In(queue[p]) /\ f \in Frames
  BY <1>1, HeadTailIn
<1>3. f.type = "request" => m \in Received /\ Names(p, m.wire, m.call)
  BY <1>2 DEF Frames, Received, CallsInv, Wires, Carrying
<1> DEFINE more == [inbox EXCEPT ![p] = @ \cup {m}]
<1>4. /\ \/ UNCHANGED proc
         \/ proc' = [proc EXCEPT ![p].writer = FALSE]
      /\ queue' = [queue EXCEPT ![p] = Tail(@)] \/ queue' = [queue EXCEPT ![p] = <<>>]
      /\ UNCHANGED inbox \/ (f.type = "request" /\ inbox' = more)
      /\ UNCHANGED ender \/ ender' = [ender EXCEPT ![p]["writer"] = "alive"]
  BY DEF Write
<1> HIDE DEF f, m
<1>5. proc' \in [Procs -> ProcRecords] /\ PendingStays
  BY <1>4, FlagChange, ProcsKept DEF CallsInv, Typed
<1>6. ender' \in [Procs -> [Enders -> {"off", "alive", "fail", "cancel", "kill", "exit", "done"}]]
  BY <1>1, <1>4, EnderMoves DEF CallsInv, Enders
<1>7. /\ queue' \in [Procs -> Seq(Frames)]
      /\ \A q \in Procs : In(queue'[q]) \subseteq In(queue[q])
  <2>1. CASE queue' = [queue EXCEPT ![p] = Tail(@)]
    BY <1>1, <1>2, <2>1
  <2>2. CASE queue' = [queue EXCEPT ![p] = <<>>]
    <3>1. <<>> \in Seq(Frames)
      OBVIOUS
    <3> QED
      BY <1>1, <2>2, <3>1, EmptyIn
  <2> QED
    BY <1>4, <2>1, <2>2
<1>8. /\ inbox' \in [Procs -> SUBSET Received]
      /\ \A q \in Procs : \A x \in inbox'[q] : x \in inbox[q] \/ Names(q, x.wire, x.call)
  <2>1. CASE UNCHANGED inbox
    BY <1>1, <2>1
  <2>2. CASE f.type = "request" /\ inbox' = more
    <3>1. /\ inbox'[p] = inbox[p] \cup {m} /\ m \in Received /\ Names(p, m.wire, m.call)
          /\ \A q \in Procs \ {p} : inbox'[q] = inbox[q]
          /\ inbox' = [q \in Procs |-> inbox'[q]]
      BY <1>1, <1>3, <2>2
    <3>2. ASSUME NEW q \in Procs PROVE inbox'[q] \in SUBSET Received
      <4>1. inbox[q] \in SUBSET Received
        BY <1>1
      <4> QED
        BY <3>1, <4>1
    <3>3. ASSUME NEW q \in Procs, NEW x \in inbox'[q]
          PROVE  x \in inbox[q] \/ Names(q, x.wire, x.call)
      BY <3>1, <3>3
    <3> QED
      BY <3>1, <3>2, <3>3
  <2> QED
    BY <1>4, <2>1, <2>2
<1>9. Typed'
  BY <1>1, <1>5, <1>6, <1>7, <1>8 DEF CallsInv, Typed
<1>10. Carried
  BY <1>1, <1>7, <1>8 DEF Carried
<1>11. Placed'
  BY <1>1, StaysPlaced
<1> QED
  BY <1>1, <1>5, <1>9, <1>10, <1>11, CallsUntouched

(* The backend puts a frame at the end of its output.                              *)
LEMMA Writes1 ==
  ASSUME Typed, NEW p \in Procs, NEW f \in Output, stdout' = [stdout EXCEPT ![p] = Append(@, f)]
  PROVE  /\ stdout' \in [Procs -> Seq(Output)]
         /\ \A q \in Procs : In(stdout'[q]) \subseteq In(stdout[q]) \cup (IF q = p THEN {f} ELSE {})
<1>1. stdout' = [stdout EXCEPT ![p] = Append(stdout[p], f)] /\ stdout[p] \in Seq(Output)
  BY DEF Typed
<1>2. Append(stdout[p], f) \in Seq(Output) /\ In(Append(stdout[p], f)) \subseteq In(stdout[p]) \cup {f}
  BY <1>1, AppendIn
<1> QED
  BY <1>1, <1>2 DEF Typed

LEMMA SaysStep ==
  ASSUME CallsInv, NEW p \in Procs, NEW m \in inbox[p], NEW type \in {"result", "event"},
         Says(p, type, m)
  PROVE  CallsInv'
<1> DEFINE f == [type |-> type, wire |-> m.wire, call |-> m.call]
<1>1. m \in Received /\ Names(p, m.wire, m.call)
  BY DEF CallsInv, Typed, Wires, Carrying
<1>2. f \in Output /\ f.type = type /\ f.wire = m.wire /\ f.call = m.call
  BY <1>1 DEF Output, Received
<1>3. /\ stdout' = [stdout EXCEPT ![p] = Append(@, f)]
      /\ said' = [said EXCEPT ![p] = @ + 1]
      /\ UNCHANGED <<call, fired, told, threads, inbox, request, events>>
  BY DEF Says
<1> HIDE DEF f
<1>4. /\ stdout' \in [Procs -> Seq(Output)]
      /\ \A q \in Procs : In(stdout'[q]) \subseteq In(stdout[q]) \cup (IF q = p THEN {f} ELSE {})
  BY <1>2, <1>3, Writes1 DEF CallsInv
<1>5. said' \in [Procs -> Nat]
  BY <1>3 DEF CallsInv, Typed
<1>6. Typed'
  BY <1>3, <1>4, <1>5 DEF CallsInv, Typed, threads
<1>7. Carried
  BY <1>1, <1>2, <1>3, <1>4 DEF Carried, threads
<1>8. Placed'
  <2>1. \A q \in Procs : \A x \in In(stdout'[q]) : x \in In(stdout[q]) \/ x.type # "request"
    BY <1>2, <1>4
  <2> QED
    BY <1>3, <2>1, StaysPlaced
<1> QED
  BY <1>3, <1>6, <1>7, <1>8, ProcsKept, CallsUntouched DEF threads

LEMMA BabblesStep ==
  ASSUME CallsInv, NEW p \in Procs, Babbles(p)
  PROVE  CallsInv'
<1> DEFINE f == [type |-> "garbage"]
<1>1. f \in Output /\ f.type = "garbage"
  BY DEF Output
<1>2. /\ stdout' = [stdout EXCEPT ![p] = Append(@, f)]
      /\ UNCHANGED <<call, fired, told, threads, inbox, said, request, events>>
  BY DEF Babbles
<1> HIDE DEF f
<1>3. /\ stdout' \in [Procs -> Seq(Output)]
      /\ \A q \in Procs : In(stdout'[q]) \subseteq In(stdout[q]) \cup (IF q = p THEN {f} ELSE {})
  BY <1>1, <1>2, Writes1 DEF CallsInv
<1>4. Typed'
  BY <1>2, <1>3 DEF CallsInv, Typed, threads
<1>5. Carried
  BY <1>1, <1>2, <1>3 DEF Carried, threads
<1>6. Placed'
  <2>1. \A q \in Procs : \A x \in In(stdout'[q]) : x \in In(stdout[q]) \/ x.type # "request"
    BY <1>1, <1>3
  <2> QED
    BY <1>2, <2>1, StaysPlaced
<1> QED
  BY <1>2, <1>4, <1>5, <1>6, ProcsKept, CallsUntouched DEF threads

(* A request that is written has been made, by the process that writes it.         *)
LEMMA AsksStep ==
  ASSUME CallsInv, NEW p \in Procs, NEW r \in Requests,
         NEW w \in {0} \cup {m.wire : m \in inbox[p]}, Asks(p, r, w)
  PROVE  CallsInv'
<1> DEFINE f == [type |-> "request", request |-> r]
           new == [request[r] EXCEPT !.at = "written", !.proc = p, !.context = w]
<1>1. f \in Output /\ f.type = "request" /\ f.request = r
  BY DEF Output
<1>2. w \in Nat
  BY DEF CallsInv, Typed, Received
<1>3. request \in [Requests -> Asked] /\ request[r] \in Asked
  BY DEF CallsInv, Typed
<1>4. new \in Asked /\ new.at = "written" /\ new.proc = p
  BY <1>2, <1>3 DEF Asked
<1>5. /\ stdout' = [stdout EXCEPT ![p] = Append(@, f)]
      /\ request' = [request EXCEPT ![r] = new]
      /\ UNCHANGED <<call, fired, told, threads, inbox, said, events>>
  BY <1>3 DEF Asks
<1> HIDE DEF f, new
<1>6. /\ stdout' \in [Procs -> Seq(Output)]
      /\ \A q \in Procs : In(stdout'[q]) \subseteq In(stdout[q]) \cup (IF q = p THEN {f} ELSE {})
  BY <1>1, <1>5, Writes1 DEF CallsInv
<1>7. request' \in [Requests -> Asked] /\ request'[r] = new
      /\ \A x \in Requests \ {r} : request'[x] = request[x]
  BY <1>3, <1>4, <1>5
<1>8. Typed'
  BY <1>5, <1>6, <1>7 DEF CallsInv, Typed, threads
<1>9. Carried
  BY <1>1, <1>5, <1>6 DEF Carried, threads
<1>10. Placed'
  <2>1. ASSUME NEW x \in Requests, request'[x].at # "none" PROVE request'[x].proc \in Procs
    BY <1>4, <1>7, <2>1 DEF CallsInv, Placed
  <2>2. ASSUME NEW q \in Procs, NEW x \in In(stdout'[q]), x.type = "request"
        PROVE  request'[x.request].at # "none"
    <3>1. CASE x = f
      BY <1>1, <1>4, <1>7, <3>1
    <3>2. CASE x # f
      <4>1. x \in In(stdout[q]) /\ stdout[q] \in Seq(Output)
        BY <1>6, <2>2, <3>2 DEF CallsInv, Typed
      <4>2. x \in Output
        BY <4>1 DEF In
      <4>3. x.request \in Requests
        BY <2>2, <4>2 DEF Output
      <4>4. request[x.request].at # "none"
        BY <2>2, <4>1 DEF CallsInv, Placed
      <4> QED
        BY <1>4, <1>7, <4>3, <4>4
    <3> QED
      BY <3>1, <3>2
  <2> QED
    BY <1>5, <2>1, <2>2 DEF CallsInv, Placed, In
<1> QED
  BY <1>5, <1>8, <1>9, <1>10, ProcsKept, CallsUntouched DEF threads

(* ------------------------------------------------------------- what the reader does *)
LEMMA ReadsFrame ==
  ASSUME CallsInv, NEW p \in Procs, NEW type, Reads(p, type)
  PROVE  /\ Head(stdout[p]) \in In(stdout[p]) /\ Head(stdout[p]) \in Output
         /\ Head(stdout[p]).type = type
         /\ stdout' \in [Procs -> Seq(Output)]
         /\ \A q \in Procs : In(stdout'[q]) \subseteq In(stdout[q])
<1>1. /\ stdout \in [Procs -> Seq(Output)] /\ stdout[p] \in Seq(Output) /\ stdout[p] # <<>>
      /\ stdout' = [stdout EXCEPT ![p] = Tail(stdout[p])]
  BY DEF Reads, CallsInv, Typed
<1>2. /\ Tail(stdout[p]) \in Seq(Output) /\ In(Tail(stdout[p])) \subseteq In(stdout[p])
      /\ Head(stdout[p]) \in In(stdout[p]) /\ Head(stdout[p]) \in Output
  BY <1>1, HeadTailIn
<1>3. \A q \in Procs : In(stdout'[q]) \subseteq In(stdout[q])
  BY <1>1, <1>2
<1> QED
  BY <1>1, <1>2, <1>3 DEF Reads

(* The entry a frame finds by its wire id is that of the call it was written for.  *)
LEMMA SameCall ==
  ASSUME CallsInv, NEW p \in Procs, NEW f \in In(stdout[p]), f.type \in {"result", "event"},
         NEW e \in Matching(p, f.wire)
  PROVE  e.call = f.call /\ f.call \in Calls
<1>1. e \in proc[p].pending /\ e.wire = f.wire
  BY DEF Matching
<1>2. Names(p, e.wire, e.call) /\ Names(p, f.wire, f.call)
  BY <1>1 DEF CallsInv, Wires, Carrying
<1> QED
  BY <1>1, <1>2 DEF Names, CallsInv, Wires, Drawn

LEMMA DeliverStep ==
  ASSUME CallsInv, NEW p \in Procs, Deliver(p)
  PROVE  CallsInv'
<1> DEFINE f == Head(stdout[p])
           found == Matching(p, f.wire)
<1>1. /\ Reads(p, "result") /\ RemovePending(p, f.wire)
      /\ UNCHANGED <<fired, told, ender, queue, inbox, said, request, events>>
      /\ call' = [c \in Calls |-> IF \E e \in found : e.call = c
                                  THEN [call[c] EXCEPT !.box = [for |-> f.call]] ELSE call[c]]
  BY DEF Deliver
<1>2. /\ f \in In(stdout[p]) /\ f.type = "result"
      /\ stdout' \in [Procs -> Seq(Output)]
      /\ \A q \in Procs : In(stdout'[q]) \subseteq In(stdout[q])
  BY <1>1, ReadsFrame
<1>3. \A e \in found : e.call = f.call /\ f.call \in Calls
  BY <1>2, SameCall
<1> HIDE DEF f, found
<1>4. ASSUME NEW c \in Calls
      PROVE  /\ call'[c] \in CallRecords
             /\ call'[c].proc = call[c].proc /\ call'[c].wire = call[c].wire
             /\ call'[c].at = call[c].at
             /\ call'[c].box \in {call[c].box, [for |-> c]}
  <2>1. call[c] \in CallRecords
    BY DEF CallsInv, Typed
  <2>2. CASE call'[c] = call[c]
    BY <2>1, <2>2
  <2>3. CASE call'[c] = [call[c] EXCEPT !.box = [for |-> c]]
    BY <2>1, <2>3 DEF CallRecords
  <2>4. call'[c] = call[c] \/ call'[c] = [call[c] EXCEPT !.box = [for |-> c]]
    <3>1. CASE \E e \in found : e.call = c
      <4>1. f.call = c
        BY <1>3, <3>1
      <4> QED
        BY <1>1, <3>1, <4>1
    <3>2. CASE ~ \E e \in found : e.call = c
      BY <1>1, <3>2
    <3> QED
      BY <3>1, <3>2
  <2> QED
    BY <2>2, <2>3, <2>4
<1>5. CallsStay /\ BoxesStay
  BY <1>4 DEF CallsStay, BoxesStay
<1>6. proc' \in [Procs -> ProcRecords] /\ PendingStays
  BY <1>1, RemoveType DEF CallsInv
<1>7. call' \in [Calls -> CallRecords]
  BY <1>1, <1>4
<1>8. Typed'
  BY <1>1, <1>2, <1>6, <1>7 DEF CallsInv, Typed
<1>9. Carried
  BY <1>1, <1>2 DEF Carried
<1>10. Placed'
  <2>1. \A c \in Calls : call'[c].at # "none" => call'[c].proc \in Procs
    BY <1>4 DEF CallsInv, Placed
  <2>2. \A q \in Procs : \A x \in In(stdout'[q]) :
            x.type = "request" => request[x.request].at # "none"
    BY <1>2 DEF CallsInv, Placed
  <2> QED
    BY <1>1, <2>1, <2>2 DEF CallsInv, Placed, In
<1> QED
  BY <1>1, <1>5, <1>6, <1>8, <1>9, <1>10, AllKept

LEMMA PublishStep ==
  ASSUME CallsInv, NEW p \in Procs, Publish(p)
  PROVE  CallsInv'
<1> DEFINE f == Head(stdout[p])
           found == Matching(p, f.wire)
<1>1. /\ Reads(p, "event")
      /\ UNCHANGED <<call, fired, told, threads, inbox, said, request>>
      /\ events' = events \cup {[for |-> f.call, to |-> e.call] : e \in found}
  BY DEF Publish
<1>2. /\ f \in In(stdout[p]) /\ f.type = "event"
      /\ stdout' \in [Procs -> Seq(Output)]
      /\ \A q \in Procs : In(stdout'[q]) \subseteq In(stdout[q])
  BY <1>1, ReadsFrame
<1>3. \A e \in found : e.call = f.call /\ f.call \in Calls
  BY <1>2, SameCall
<1> HIDE DEF f, found
<1>4. ASSUME NEW x \in events', x \notin events
      PROVE  x \in [for : Calls, to : Calls] /\ x.for = x.to
  <2>1. PICK e \in found : x = [for |-> f.call, to |-> e.call]
    BY <1>1, <1>4
  <2> QED
    BY <1>3, <2>1
<1>5. Typed'
  BY <1>1, <1>2, <1>4 DEF CallsInv, Typed, threads
<1>6. Carried
  BY <1>1, <1>2 DEF Carried, threads
<1>7. Placed'
  BY <1>1, <1>2, StaysPlaced
<1> QED
  BY <1>1, <1>4, <1>5, <1>6, <1>7, ProcsKept, CallsUntouched DEF threads

LEMMA EndReaderMoves ==
  ASSUME Typed, NEW p \in Procs, EndReader(p)
  PROVE  /\ proc' \in [Procs -> ProcRecords] /\ PendingStays
         /\ ender' \in [Procs -> [Enders -> {"off", "alive", "fail", "cancel", "kill", "exit", "done"}]]
  BY FlagChange, EnderMoves DEF EndReader, Enders

LEMMA ReaderEndsStep ==
  ASSUME CallsInv, NEW p \in Procs, ReaderEnds(p)
  PROVE  CallsInv'
<1>1. /\ Reads(p, "garbage") \/ UNCHANGED stdout
      /\ EndReader(p)
      /\ UNCHANGED <<call, fired, told, queue, inbox, said, request, events>>
  BY DEF ReaderEnds
<1>2. /\ stdout' \in [Procs -> Seq(Output)]
      /\ \A q \in Procs : In(stdout'[q]) \subseteq In(stdout[q])
  BY <1>1, ReadsFrame DEF CallsInv, Typed
<1>3. /\ proc' \in [Procs -> ProcRecords] /\ PendingStays
      /\ ender' \in [Procs -> [Enders -> {"off", "alive", "fail", "cancel", "kill", "exit", "done"}]]
  BY <1>1, EndReaderMoves DEF CallsInv
<1>4. Typed'
  BY <1>1, <1>2, <1>3 DEF CallsInv, Typed
<1>5. Carried
  BY <1>1, <1>2 DEF Carried
<1>6. Placed'
  BY <1>1, <1>2, StaysPlaced
<1> QED
  BY <1>1, <1>3, <1>4, <1>5, <1>6, CallsUntouched

(* -------------------------------------------------------------- what workers are given *)
(* A request moves on: to another place, or with the tokens of its invocation.      *)
LEMMA RequestMoves ==
  ASSUME CallsInv, NEW r \in Requests, NEW R \in Asked,
         R.proc = request[r].proc, request[r].at # "none",
         R.at # "none", request' = [request EXCEPT ![r] = R],
         \A d \in Calls : call'[d].at # "none" => call'[d].proc \in Procs,
         \A q \in Procs : In(stdout'[q]) \subseteq In(stdout[q])
  PROVE  request' \in [Requests -> Asked] /\ Placed'
<1>1. /\ request' \in [Requests -> Asked] /\ request'[r] = R
      /\ \A x \in Requests \ {r} : request'[x] = request[x]
  BY DEF CallsInv, Typed
<1>2. ASSUME NEW x \in Requests, request'[x].at # "none" PROVE request'[x].proc \in Procs
  BY <1>1, <1>2 DEF CallsInv, Placed
<1>3. ASSUME NEW q \in Procs, NEW x \in In(stdout'[q]), x.type = "request"
      PROVE  request'[x.request].at # "none"
  <2>1. x \in In(stdout[q]) /\ stdout[q] \in Seq(Output)
    BY <1>3 DEF CallsInv, Typed
  <2>2. x \in Output
    BY <2>1 DEF In
  <2>3. x.request \in Requests /\ request[x.request].at # "none"
    BY <1>3, <2>1, <2>2 DEF Output, CallsInv, Placed
  <2> QED
    BY <1>1, <2>3
<1> QED
  BY <1>1, <1>2, <1>3 DEF Placed, In

LEMMA InheritedTokens ==
  ASSUME CallsInv, NEW p \in Procs, NEW r \in Requests
  PROVE  HostInvocation(p, r) \in SUBSET Tokens
<1>1. ASSUME NEW e \in ContextOf(p, request[r].context) PROVE call[e.call].inv \subseteq Tokens
  <2>1. proc[p].contexts \subseteq Received
    BY DEF CallsInv, Typed, ProcRecords
  <2>2. e.call \in Calls
    BY <1>1, <2>1 DEF ContextOf, Received
  <2> QED
    BY <2>2 DEF CallsInv, Typed, CallRecords
<1>2. {<<"late", r>>, <<"proc", p>>} \subseteq Tokens
  BY DEF Tokens
<1> DEFINE S == {call[e.call].inv : e \in ContextOf(p, request[r].context)}
<1>3. \A T \in S : T \subseteq Tokens
  BY <1>1
<1>4. HostInvocation(p, r) = (UNION S) \cup {<<"late", r>>, <<"proc", p>>}
  BY DEF HostInvocation
<1> HIDE DEF S
<1>5. UNION S \subseteq Tokens
  BY <1>3
<1> QED
  BY <1>2, <1>4, <1>5

LEMMA DispatchStep ==
  ASSUME CallsInv, NEW p \in Procs, Dispatch(p)
  PROVE  CallsInv'
<1> DEFINE f == Head(stdout[p])
           r == f.request
           A(to) == [request[r] EXCEPT !.at = to]
           B(to) == [request[r] EXCEPT !.at = to, !.inv = HostInvocation(p, r)]
<1>1. Reads(p, "request") /\ UNCHANGED <<call, fired, told, inbox, said, events>>
  BY DEF Dispatch
<1>2. /\ f \in In(stdout[p]) /\ f \in Output /\ f.type = "request"
      /\ stdout' \in [Procs -> Seq(Output)]
      /\ \A q \in Procs : In(stdout'[q]) \subseteq In(stdout[q])
  BY <1>1, ReadsFrame
<1>3. r \in Requests /\ request[r].at # "none"
  BY <1>2 DEF Output, CallsInv, Placed
<1>4. request[r] \in Asked /\ request \in [Requests -> Asked]
  BY <1>3 DEF CallsInv, Typed
<1>5. \/ /\ request' = [request EXCEPT ![r] = B("working")]
            \/ request' = [request EXCEPT ![r] = B("replying")]
         /\ UNCHANGED threads
      \/ /\ Push(p, Frame("reply", 0, None, {}))
         /\ request' = [request EXCEPT ![r] = A("answered")]
         /\ UNCHANGED <<proc, ender>>
      \/ /\ EndReader(p)
         /\ request' = [request EXCEPT ![r] = A("dropped")]
         /\ UNCHANGED queue
  BY <1>3, <1>4 DEF Dispatch
<1>6. HostInvocation(p, r) \in SUBSET Tokens
  BY <1>3, InheritedTokens
<1>7. ASSUME NEW to \in {"working", "replying", "answered", "dropped"}
      PROVE  /\ A(to) \in Asked /\ A(to).at # "none" /\ A(to).proc = request[r].proc
             /\ B(to) \in Asked /\ B(to).at # "none" /\ B(to).proc = request[r].proc
  BY <1>4, <1>6 DEF Asked
<1>8. \A d \in Calls : call'[d].at # "none" => call'[d].proc \in Procs
  BY <1>1 DEF CallsInv, Placed
<1> HIDE DEF A, B, r, f
<1>9. request' \in [Requests -> Asked] /\ Placed'
  <2>1. PICK R \in {A("answered"), A("dropped"), B("working"), B("replying")} :
          request' = [request EXCEPT ![r] = R]
    BY <1>5
  <2>2. R \in Asked /\ R.at # "none" /\ R.proc = request[r].proc
    BY <1>7, <2>1
  <2> QED
    BY <1>2, <1>3, <1>8, <2>1, <2>2, RequestMoves
<1>10. /\ queue' \in [Procs -> Seq(Frames)]
       /\ \A q \in Procs : \A x \in In(queue'[q]) : x \in In(queue[q]) \/ x.type # "request"
  <2> DEFINE g == Frame("reply", 0, None, {})
  <2>1. g \in Frames /\ g.type = "reply"
    BY FrameType DEF Frame
  <2> HIDE DEF g
  <2>2. CASE UNCHANGED queue
    BY <2>2 DEF CallsInv, Typed
  <2>3. CASE Push(p, g)
    BY <2>1, <2>3, PushFrame DEF CallsInv
  <2> QED
    BY <1>5, <2>2, <2>3 DEF threads, g
<1>11. /\ proc' \in [Procs -> ProcRecords] /\ PendingStays
       /\ ender' \in [Procs -> [Enders -> {"off", "alive", "fail", "cancel", "kill", "exit", "done"}]]
  BY <1>5, EndReaderMoves, ProcsKept DEF CallsInv, Typed, threads
<1>12. Typed'
  BY <1>1, <1>2, <1>9, <1>10, <1>11 DEF CallsInv, Typed
<1>13. Carried
  BY <1>1, <1>2, <1>10 DEF Carried
<1> QED
  BY <1>1, <1>9, <1>11, <1>12, <1>13, CallsUntouched

LEMMA WorkedStep ==
  ASSUME CallsInv, NEW r \in Requests, Worked(r)
  PROVE  CallsInv'
<1> DEFINE R == [request[r] EXCEPT !.at = "replying"]
<1>1. /\ request' = [request EXCEPT ![r] = R] /\ request[r].at # "none"
      /\ UNCHANGED <<call, fired, told, threads, backend, events>>
  BY DEF Worked, CallsInv, Typed
<1>2. R \in Asked /\ R.at # "none" /\ R.proc = request[r].proc
  BY DEF CallsInv, Typed, Asked
<1>3. /\ \A d \in Calls : call'[d].at # "none" => call'[d].proc \in Procs
      /\ \A q \in Procs : In(stdout'[q]) \subseteq In(stdout[q])
  BY <1>1 DEF CallsInv, Placed, backend
<1> HIDE DEF R
<1>4. request' \in [Requests -> Asked] /\ Placed'
  BY <1>1, <1>2, <1>3, RequestMoves
<1>5. Typed'
  BY <1>1, <1>4 DEF CallsInv, Typed, threads, backend
<1> QED
  BY <1>1, <1>4, <1>5, CarriedAlong, ProcsKept, CallsUntouched DEF threads, backend

(* Every call of a process fails, and nothing of it stays registered.              *)
LEMMA Fails ==
  ASSUME CallsInv, NEW p \in Procs, FailPending(p), proc' = [proc EXCEPT ![p].pending = {}]
  PROVE  /\ CallsStay /\ BoxesStay /\ call' \in [Calls -> CallRecords]
         /\ proc' \in [Procs -> ProcRecords] /\ PendingStays
         /\ \A d \in Calls : call'[d].at # "none" => call'[d].proc \in Procs
<1>1. /\ call' \in [Calls -> CallRecords]
      /\ \A d \in Calls : /\ call'[d].proc = call[d].proc /\ call'[d].wire = call[d].wire
                          /\ call'[d].at = call[d].at
                          /\ \/ call'[d].box = call[d].box
                             \/ call'[d].box = [for |-> None]
  BY FailCalls DEF CallsInv
<1>2. CallsStay /\ BoxesStay
  BY <1>1 DEF CallsStay, BoxesStay
<1>3. proc' \in [Procs -> ProcRecords] /\ PendingStays
  BY PendingShrinks DEF CallsInv
<1>4. \A d \in Calls : call'[d].at # "none" => call'[d].proc \in Procs
  BY <1>1 DEF CallsInv, Placed
<1> QED
  BY <1>1, <1>2, <1>3, <1>4

LEMMA ReplyStep ==
  ASSUME CallsInv, NEW r \in Requests, Reply(r)
  PROVE  CallsInv'
<1> DEFINE p == request[r].proc
           A(to) == [request[r] EXCEPT !.at = to]
           g == Frame("reply", 0, None, {})
<1>1. /\ request[r].at = "replying"
      /\ UNCHANGED <<fired, told, ender, backend, events>>
  BY DEF Reply
<1>2. p \in Procs /\ request[r] \in Asked /\ request \in [Requests -> Asked]
  BY <1>1 DEF CallsInv, Placed, Typed
<1>3. \/ Push(p, g) /\ request' = [request EXCEPT ![r] = A("answered")] /\ UNCHANGED <<call, proc>>
      \/ Unanswered(p) /\ request' = [request EXCEPT ![r] = A("dropped")] /\ UNCHANGED queue
  BY <1>2 DEF Reply
<1>4. ASSUME NEW to \in {"answered", "dropped"}
      PROVE  A(to) \in Asked /\ A(to).at # "none" /\ A(to).proc = request[r].proc
  BY <1>2 DEF Asked
<1>5. g \in Frames /\ g.type = "reply"
  BY FrameType DEF Frame
<1> HIDE DEF A, g, p
<1>6. \A q \in Procs : In(stdout'[q]) \subseteq In(stdout[q])
  BY <1>1 DEF backend
<1>7. CASE /\ Push(p, g) /\ request' = [request EXCEPT ![r] = A("answered")]
           /\ UNCHANGED <<call, proc>>
  <2>1. \A d \in Calls : call'[d].at # "none" => call'[d].proc \in Procs
    BY <1>7 DEF CallsInv, Placed
  <2>2. request' \in [Requests -> Asked] /\ Placed'
    BY <1>1, <1>4, <1>6, <1>7, <2>1, RequestMoves
  <2>3. /\ queue' \in [Procs -> Seq(Frames)]
        /\ \A q \in Procs : In(queue'[q]) \subseteq In(queue[q]) \cup (IF q = p THEN {g} ELSE {})
    BY <1>2, <1>5, <1>7, PushFrame DEF CallsInv
  <2>4. Typed'
    BY <1>1, <1>7, <2>2, <2>3 DEF CallsInv, Typed, backend
  <2>5. Carried
    BY <1>1, <1>5, <2>3 DEF Carried, backend
  <2> QED
    BY <1>1, <1>7, <2>2, <2>4, <2>5, ProcsKept, CallsUntouched
<1>8. CASE /\ Unanswered(p) /\ request' = [request EXCEPT ![r] = A("dropped")]
           /\ UNCHANGED queue
  <2>1. /\ CallsStay /\ BoxesStay /\ call' \in [Calls -> CallRecords]
        /\ proc' \in [Procs -> ProcRecords] /\ PendingStays
        /\ \A d \in Calls : call'[d].at # "none" => call'[d].proc \in Procs
    BY <1>2, <1>8, Fails DEF Unanswered
  <2>2. request' \in [Requests -> Asked] /\ Placed'
    BY <1>1, <1>4, <1>6, <1>8, <2>1, RequestMoves
  <2>3. Typed'
    BY <1>1, <1>8, <2>1, <2>2 DEF CallsInv, Typed, backend
  <2> QED
    BY <1>1, <1>8, <2>1, <2>2, <2>3, CarriedAlong, AllKept DEF backend
<1> QED
  BY <1>3, <1>7, <1>8

(* ------------------------------------------------------------------- a process ends *)
LEMMA ProcessSteps ==
  ASSUME CallsInv, proc' \in [Procs -> ProcRecords], PendingStays,
         ender' \in [Procs -> [Enders -> {"off", "alive", "fail", "cancel", "kill", "exit", "done"}]],
         fired' \subseteq Tokens, UNCHANGED <<call, told, queue, backend, request, events>>
  PROVE  CallsInv'
<1>1. Typed'
  BY DEF CallsInv, Typed, backend
<1>2. Placed' /\ Carried
  BY StaysPlaced, CarriedAlong DEF backend
<1> QED
  BY <1>1, <1>2, CallsUntouched

LEMMA CrashesStep ==
  ASSUME CallsInv, NEW p \in Procs, Crashes(p)
  PROVE  CallsInv'
<1>1. proc' \in [Procs -> ProcRecords] /\ PendingStays
  BY FlagChange DEF Crashes, CallsInv
<1> QED
  BY <1>1, ProcessSteps DEF Crashes, CallsInv, Typed

LEMMA StopStep ==
  ASSUME CallsInv, NEW p \in Procs, Stop(p)
  PROVE  CallsInv'
<1>1. ender' \in [Procs -> [Enders -> {"off", "alive", "fail", "cancel", "kill", "exit", "done"}]]
  BY EnderMoves DEF Stop, CallsInv, Enders
<1> QED
  BY <1>1, ProcsKept, ProcessSteps DEF Stop, CallsInv, Typed

LEMMA KillStep ==
  ASSUME CallsInv, NEW p \in Procs, Kill(p)
  PROVE  CallsInv'
<1>1. ender' \in [Procs -> [Enders -> {"off", "alive", "fail", "cancel", "kill", "exit", "done"}]]
  BY EnderMoves DEF Kill, CallsInv, Enders
<1>2. proc' \in [Procs -> ProcRecords] /\ PendingStays
  BY FlagChange, ProcsKept DEF Kill, CallsInv, Typed
<1> QED
  BY <1>1, <1>2, ProcessSteps DEF Kill, CallsInv, Typed

LEMMA NotAliveStep ==
  ASSUME CallsInv, NEW p \in Procs, NEW w \in Enders, NotAlive(p, w)
  PROVE  CallsInv'
<1>1. ender' \in [Procs -> [Enders -> {"off", "alive", "fail", "cancel", "kill", "exit", "done"}]]
  BY EnderMoves DEF NotAlive, CallsInv
<1>2. proc' \in [Procs -> ProcRecords] /\ PendingStays
  BY FlagChange DEF NotAlive, CallsInv
<1> QED
  BY <1>1, <1>2, ProcessSteps DEF NotAlive, CallsInv, Typed

LEMMA ExitedStep ==
  ASSUME CallsInv, NEW p \in Procs, NEW w \in Enders, Exited(p, w)
  PROVE  CallsInv'
<1>1. ender' \in [Procs -> [Enders -> {"off", "alive", "fail", "cancel", "kill", "exit", "done"}]]
  BY EnderMoves DEF Exited, CallsInv
<1>2. proc' \in [Procs -> ProcRecords] /\ PendingStays
  BY FlagChange DEF Exited, CallsInv
<1> QED
  BY <1>1, <1>2, ProcessSteps DEF Exited, CallsInv, Typed

LEMMA CancelAllStep ==
  ASSUME CallsInv, NEW p \in Procs, NEW w \in Enders, CancelAll(p, w)
  PROVE  CallsInv'
<1>1. ender' \in [Procs -> [Enders -> {"off", "alive", "fail", "cancel", "kill", "exit", "done"}]]
  BY EnderMoves DEF CancelAll, CallsInv
<1>2. \A e \in proc[p].contexts : <<"own", e.call>> \in Tokens
  BY DEF CallsInv, Typed, ProcRecords, Received, Tokens
<1>3. fired' \subseteq Tokens
  <2>1. <<"proc", p>> \in Tokens /\ fired \subseteq Tokens
    BY DEF Tokens, CallsInv, Typed
  <2>2. fired' = fired \cup {<<"proc", p>>} \cup {<<"own", e.call>> : e \in proc[p].contexts}
    BY DEF CancelAll
  <2> QED
    BY <1>2, <2>1, <2>2
<1> QED
  BY <1>1, <1>3, ProcsKept, ProcessSteps DEF CancelAll, CallsInv, Typed

LEMMA FailAllStep ==
  ASSUME CallsInv, NEW p \in Procs, NEW w \in Enders, FailAll(p, w)
  PROVE  CallsInv'
<1>1. ender' \in [Procs -> [Enders -> {"off", "alive", "fail", "cancel", "kill", "exit", "done"}]]
  BY EnderMoves DEF FailAll, CallsInv
<1>2. /\ CallsStay /\ BoxesStay /\ call' \in [Calls -> CallRecords]
      /\ proc' \in [Procs -> ProcRecords] /\ PendingStays
      /\ \A d \in Calls : call'[d].at # "none" => call'[d].proc \in Procs
  BY Fails DEF FailAll
<1>3. UNCHANGED <<fired, told, queue, backend, request, events>>
  BY DEF FailAll
<1>4. Typed'
  BY <1>1, <1>2, <1>3 DEF CallsInv, Typed, backend
<1>5. Placed'
  BY <1>2, <1>3 DEF CallsInv, Placed, In, backend
<1> QED
  BY <1>2, <1>3, <1>4, <1>5, CarriedAlong, AllKept DEF backend

(* ----------------------------------------------------------------------- the theorems *)
LEMMA InitHolds ==
  ASSUME Init
  PROVE  CallsInv
<1>1. None_ \in CallRecords
  BY DEF None_, CallRecords, CallSteps, Early
<1>2. Typed
  <2>1. call \in [Calls -> CallRecords]
    BY <1>1 DEF Init
  <2>2. proc \in [Procs -> ProcRecords]
    BY DEF Init, ProcRecords
  <2>3. /\ fired \subseteq Tokens /\ told \subseteq Calls
        /\ events \subseteq [for : Calls, to : Calls]
    BY DEF Init
  <2>4. ender \in [Procs -> [Enders -> {"off", "alive", "fail", "cancel", "kill", "exit", "done"}]]
    BY DEF Init, Enders
  <2>5. /\ queue \in [Procs -> Seq(Frames)] /\ stdout \in [Procs -> Seq(Output)]
        /\ inbox \in [Procs -> SUBSET Received] /\ said \in [Procs -> Nat]
    <3>1. <<>> \in Seq(Frames) /\ <<>> \in Seq(Output)
      OBVIOUS
    <3> QED
      BY <3>1 DEF Init
  <2>6. request \in [Requests -> Asked]
    BY DEF Init, Asked
  <2> QED
    BY <2>1, <2>2, <2>3, <2>4, <2>5, <2>6 DEF Typed
<1>3. \A c \in Calls : /\ call[c].at = "none" /\ call[c].wire = 0 /\ call[c].box = None
                       /\ call[c].proc = None
  BY DEF Init, None_
<1>4. \A p \in Procs : /\ proc[p].pending = {} /\ inbox[p] = {} /\ proc[p].sequence = 0
                       /\ In(queue[p]) = {} /\ In(stdout[p]) = {}
  BY EmptyIn DEF Init
<1>5. Placed
  BY <1>3, <1>4 DEF Init, Placed
<1>6. Drawn
  BY <1>3, <1>4 DEF Drawn, Early, Numbered
<1>7. Carrying
  BY <1>4 DEF Carrying
<1>8. RepliesMatch
  BY <1>3 DEF Init, RepliesMatch
<1> QED
  BY <1>2, <1>5, <1>6, <1>7, <1>8 DEF CallsInv, Wires

LEMMA NextKeeps ==
  ASSUME CallsInv, [Next]_vars
  PROVE  CallsInv'
<1>1. ASSUME NEW c \in Calls, CallStep(c) PROVE CallsInv'
  BY <1>1, PlainSteps, EnterStep, InsertStep, KeepContextStep, CheckAliveStep, QueueRequestStep,
     GivesUpStep DEF CallStep
<1>2. ASSUME NEW p \in Procs, Write(p) \/ BackendStep(p) \/ ReaderStep(p) \/ Stop(p) \/ Kill(p)
      PROVE  CallsInv'
  <2>1. CASE BackendStep(p)
    BY <2>1, SaysStep, AsksStep, BabblesStep, CrashesStep DEF BackendStep
  <2>2. CASE ReaderStep(p)
    BY <2>2, DeliverStep, PublishStep, ReaderEndsStep, DispatchStep DEF ReaderStep
  <2> QED
    BY <1>2, <2>1, <2>2, WriteStep, StopStep, KillStep
<1>3. ASSUME NEW p \in Procs, NEW w \in {"reader", "writer", "stop"}, EnderStep(p, w)
      PROVE  CallsInv'
  <2>1. w \in Enders
    BY DEF Enders
  <2> QED
    BY <1>3, <2>1, NotAliveStep, FailAllStep, CancelAllStep, ExitedStep DEF EnderStep
<1>4. ASSUME NEW r \in Requests, WorkerStep(r) PROVE CallsInv'
  BY <1>4, WorkedStep, ReplyStep DEF WorkerStep
<1>5. CASE UNCHANGED vars
  <2>1. /\ UNCHANGED <<call, told, queue, backend, request, events>>
        /\ UNCHANGED <<proc, ender, fired>>
    BY <1>5 DEF vars, backend
  <2> QED
    BY <2>1, ProcsKept, ProcessSteps DEF CallsInv, Typed
<1> QED
  BY <1>1, <1>2, <1>3, <1>4, <1>5, CallerCallsStep, CancelStep, DeadlineStep, NestedStep
     DEF Next

(* What every variable of the protocol holds, for any backends: in particular no   *)
(* wire id is negative or missing where a frame needs one, every frame in a queue  *)
(* is one the protocol has, and every token belongs to a call, a request or a      *)
(* process (PendingRequests, ProtocolFrame, Invocation of plugin_runtime.rs).      *)
THEOREM TypesHold == Spec => []Typed
<1>1. CallsInv => Typed
  BY DEF CallsInv
<1> QED
  BY <1>1, InitHolds, NextKeeps, PTL DEF Spec

(* Two calls of one process never share a wire id, and whatever a frame, an entry  *)
(* or the backend's memory carries under a wire id is the call that drew it: ids   *)
(* are drawn under the lock of the pending table and never given back, while       *)
(* callers choose and choose again the request ids they use.                       *)
THEOREM WiresNameCalls == Spec => []Wires
<1>1. CallsInv => Wires
  BY DEF CallsInv
<1> QED
  BY <1>1, InitHolds, NextKeeps, PTL DEF Spec

(* A caller receives only the answer to its own request, and an event reaches only *)
(* the call it was made for, for any number of calls, processes and request ids,   *)
(* however late or often a backend answers and whatever gave up meanwhile.         *)
THEOREM RepliesReachTheirCalls == Spec => []RepliesMatch
<1>1. CallsInv => RepliesMatch
  BY DEF CallsInv
<1> QED
  BY <1>1, InitHolds, NextKeeps, PTL DEF Spec
==================================================================================
