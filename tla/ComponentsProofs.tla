----------------------------- MODULE ComponentsProofs ----------------------------
(* Theorems about seven of the smaller components, which share no state: the        *)
(* commands for the window (CliBridge), the options of commands (CliArguments), the *)
(* events a browser polls (EventFeed), the proxy settings with the update found     *)
(* through them (NetworkSettings), the verification of a plugin and its retries     *)
(* (ScanRetry), the installation of reviewed packages (LocalInstaller), and data    *)
(* of the user (UserData). For any number of commands, words, events, checks,       *)
(* workers, packages, roots, files, changes, failures, crashes and restarts.        *)
EXTENDS CliArguments, CliBridge, EventFeed, NetworkSettings, ScanRetry, LocalInstaller,
        UserData, WellFoundedInduction, FiniteSetTheorems, SequenceTheorems, TLAPS

(* ------------------------------------------------------------------ CliBridge  *)
Lists(q, x) == \E i \in 1..Len(q) : q[i] = x
Once(q, x) == \A i, j \in 1..Len(q) : q[i] = x /\ q[j] = x => i = j

CliEvents == [type : {"request", "cancel"}, command : Commands]
Places == {"none", "accepted", "inserted", "emitting", "waiting", "removing", "refusing",
           "unqueueing", "forgetting", "cancelling", "writing", "done"}
Answers == {"none", "ok", "failed"}
CliPages == [at : {"absent", "listening", "ready"}, hears : BOOLEAN,
             stage : [Commands -> CommandStages], aborted : SUBSET Commands,
             dropped : SUBSET Commands]
CliTyped ==
    /\ thread \in [Commands -> [at : Places, result : Answers]]
    /\ client \in [Commands -> {"new", "alone", "waiting", "gone", "lost"} \cup Answers]
    /\ requests \subseteq Commands /\ box \in [Commands -> SUBSET Answers]
    /\ queued \in Seq(Commands) /\ marking \in Seq(Commands) /\ channel \in Seq(CliEvents)
    /\ ui \in CliPages
    /\ seen \in [started : [Commands -> Nat], cancels : SUBSET Commands]

(* Where the word to start a command is: its thread has not given it out, it waits  *)
(* for the page, mark_ready has taken it, or it is on its way to the page.          *)
Unspoken(r) == thread[r].at \in {"none", "accepted", "inserted", "emitting"}
Waits(r) == Lists(queued, r)
Marked(r) == Lists(marking, r)
Sent(r) == Lists(channel, Event("request", r))
OnTheWay(r) == Unspoken(r) \/ Waits(r) \/ Marked(r) \/ Sent(r)

(* It is in one place, once, until the page has it.                                 *)
SpokenOnce(r) ==
    /\ Unspoken(r) => ~Waits(r) /\ ~Marked(r) /\ ~Sent(r)
    /\ Waits(r) => ~Marked(r) /\ ~Sent(r)
    /\ Marked(r) => ~Sent(r)
    /\ Once(queued, r) /\ Once(marking, r) /\ Once(channel, Event("request", r))
    /\ OnTheWay(r) => seen.started[r] = 0
    /\ seen.started[r] <= 1
    /\ ui.stage[r] # "none" => seen.started[r] = 1

(* A command is given up after its word was given out. A page that was told so has  *)
(* set the signal of the command, or remembers it until the word comes.             *)
GivenUp(r) ==
    /\ Unspoken(r) => r \notin seen.cancels /\ ~Lists(channel, Event("cancel", r))
    /\ r \in seen.cancels => /\ ui.stage[r] # "none" => r \in ui.aborted
                             /\ OnTheWay(r) => r \in ui.dropped

(* What Core keeps of a command, by the place of its thread.                        *)
Forgotten(r) ==
    /\ client[r] = "new" => thread[r].at = "none"
    /\ thread[r].at \in {"unqueueing", "forgetting", "cancelling", "writing", "done"}
         => r \notin requests
    /\ thread[r].at \in {"cancelling", "writing", "done"} => ~Waits(r)

Followed(r) == SpokenOnce(r) /\ GivenUp(r) /\ Forgotten(r)
CliInv == CliTyped /\ \A r \in Commands : Followed(r)

-----------------------------------------------------------------------------------
(* Sequences of which every element occurs once.                                    *)
LEMMA AppendOnce ==
  ASSUME NEW S, NEW q \in Seq(S), NEW x \in S
  PROVE  /\ Append(q, x) \in Seq(S)
         /\ \A y : Lists(Append(q, x), y) <=> Lists(q, y) \/ y = x
         /\ \A y : Once(q, y) /\ (y = x => ~Lists(q, y)) => Once(Append(q, x), y)
<1>1. /\ Append(q, x) \in Seq(S) /\ Len(q) \in Nat /\ Len(Append(q, x)) = Len(q) + 1
      /\ \A i \in 1..Len(q) : Append(q, x)[i] = q[i]
      /\ Append(q, x)[Len(q) + 1] = x
  BY AppendProperties, LenProperties
<1> DEFINE p == Append(q, x)
<1> HIDE DEF p
<1>2. \A i \in 1..Len(p) : i = Len(q) + 1 \/ i \in 1..Len(q)
  BY <1>1 DEF p
<1>3. \A i \in 1..Len(q) : i \in 1..Len(p)
  BY <1>1 DEF p
<1>4. Len(q) + 1 \in 1..Len(p)
  BY <1>1 DEF p
<1>5. \A y : Lists(p, y) <=> Lists(q, y) \/ y = x
  BY <1>1, <1>2, <1>3, <1>4 DEF Lists, p
<1>6. ASSUME NEW y, Once(q, y), y = x => ~Lists(q, y), NEW i \in 1..Len(p), NEW j \in 1..Len(p),
             p[i] = y, p[j] = y
      PROVE  i = j
  BY <1>1, <1>2, <1>6 DEF Lists, Once, p
<1>7. \A y : Once(q, y) /\ (y = x => ~Lists(q, y)) => Once(p, y)
  BY <1>6 DEF Once
<1> QED
  BY <1>1, <1>5, <1>7 DEF p

LEMMA TailOnce ==
  ASSUME NEW S, NEW q \in Seq(S), q # <<>>
  PROVE  /\ Tail(q) \in Seq(S) /\ Head(q) \in S
         /\ \A y : Lists(q, y) <=> y = Head(q) \/ Lists(Tail(q), y)
         /\ \A y : Once(q, y) => Once(Tail(q), y) /\ ~(y = Head(q) /\ Lists(Tail(q), y))
<1>1. /\ Tail(q) \in Seq(S) /\ Head(q) \in S /\ Len(q) \in Nat /\ Len(q) > 0
      /\ Len(Tail(q)) = Len(q) - 1 /\ Head(q) = q[1]
      /\ \A i \in 1..Len(Tail(q)) : Tail(q)[i] = q[i + 1]
  BY HeadTailProperties, LenProperties, EmptySeq
<1> DEFINE t == Tail(q)
<1> HIDE DEF t
<1>2. \A i \in 1..Len(t) : i + 1 \in 1..Len(q) /\ t[i] = q[i + 1] /\ i + 1 # 1
  BY <1>1 DEF t
<1>3. \A i \in 1..Len(q) : i = 1 \/ (i - 1 \in 1..Len(t) /\ q[i] = t[i - 1])
  BY <1>1 DEF t
<1>4. 1 \in 1..Len(q)
  BY <1>1
<1>5. \A y : Lists(q, y) <=> y = Head(q) \/ Lists(t, y)
  BY <1>1, <1>2, <1>3, <1>4 DEF Lists
<1>6. ASSUME NEW y, Once(q, y) PROVE Once(t, y)
  <2>1. ASSUME NEW i \in 1..Len(t), NEW j \in 1..Len(t), t[i] = y, t[j] = y
        PROVE  i = j
    <3>1. i + 1 = j + 1
      BY <1>2, <1>6, <2>1 DEF Once
    <3> QED
      BY <3>1
  <2> QED
    BY <2>1 DEF Once
<1>7. ASSUME NEW y, Once(q, y), y = Head(q), Lists(t, y) PROVE FALSE
  <2>1. PICK i \in 1..Len(t) : t[i] = y
    BY <1>7 DEF Lists
  <2> QED
    BY <1>1, <1>2, <1>4, <1>7, <2>1 DEF Once
<1> QED
  BY <1>1, <1>5, <1>6, <1>7 DEF t

LEMMA WithoutOnce ==
  ASSUME NEW S, NEW q \in Seq(S), NEW r, Once(q, r)
  PROVE  /\ Without(q, r) \in Seq(S)
         /\ \A y : Lists(Without(q, r), y) <=> Lists(q, y) /\ y # r
         /\ \A y : Once(q, y) => Once(Without(q, r), y)
<1>1. Len(q) \in Nat /\ DOMAIN q = 1..Len(q) /\ \A i \in 1..Len(q) : q[i] \in S
  BY LenProperties, ElementOfSeq
<1>2. CASE ~Lists(q, r)
  <2>1. Without(q, r) = q
    BY <1>1, <1>2 DEF Without, Lists
  <2> QED
    BY <1>2, <2>1
<1>3. CASE Lists(q, r)
  <2>1. PICK i \in 1..Len(q) : q[i] = r
    BY <1>3 DEF Lists
  <2>2. {k \in DOMAIN q : q[k] = r} = {i}
    BY <1>1, <2>1 DEF Once
  <2> DEFINE w == [k \in 1..Len(q) - 1 |-> IF i <= k THEN q[k + 1] ELSE q[k]]
  <2>3. Without(q, r) = w
    BY <2>2 DEF Without
  <2>4. \A k \in 1..Len(q) - 1 : w[k] \in S
    BY <1>1
  <2>5. w \in Seq(S) /\ Len(w) = Len(q) - 1
    <3>1. Len(q) - 1 \in Nat
      BY <1>1, <2>1
    <3> QED
      BY <2>4, <3>1, IsASeq
  <2>6. \A k \in 1..Len(w) : IF i <= k THEN k + 1 \in 1..Len(q) /\ w[k] = q[k + 1]
                             ELSE k \in 1..Len(q) /\ w[k] = q[k]
    BY <1>1, <2>5
  <2>7. \A k \in 1..Len(q) : k # i => IF k < i THEN k \in 1..Len(w) /\ w[k] = q[k]
                                      ELSE k - 1 \in 1..Len(w) /\ w[k - 1] = q[k]
    BY <1>1, <2>1, <2>5
  <2> HIDE DEF w
  <2>8. ASSUME NEW y, Lists(w, y) PROVE Lists(q, y) /\ y # r
    <3>1. PICK k \in 1..Len(w) : w[k] = y
      BY <2>8 DEF Lists
    <3>2. CASE i <= k
      <4>1. k + 1 \in 1..Len(q) /\ q[k + 1] = y /\ k + 1 # i
        BY <2>1, <2>6, <3>1, <3>2
      <4> QED
        BY <2>1, <4>1 DEF Lists, Once
    <3>3. CASE ~(i <= k)
      <4>1. k \in 1..Len(q) /\ q[k] = y /\ k # i
        BY <2>1, <2>6, <3>1, <3>3
      <4> QED
        BY <2>1, <4>1 DEF Lists, Once
    <3> QED
      BY <3>2, <3>3
  <2>9. ASSUME NEW y, Lists(q, y), y # r PROVE Lists(w, y)
    <3>1. PICK k \in 1..Len(q) : q[k] = y
      BY <2>9 DEF Lists
    <3>2. k # i
      BY <2>1, <2>9, <3>1
    <3> QED
      BY <2>7, <3>1, <3>2 DEF Lists
  <2>10. ASSUME NEW y, Once(q, y), NEW k \in 1..Len(w), NEW l \in 1..Len(w), w[k] = y, w[l] = y
         PROVE  k = l
    <3> DEFINE up(n) == IF i <= n THEN n + 1 ELSE n
    <3>1. up(k) \in 1..Len(q) /\ q[up(k)] = y /\ up(l) \in 1..Len(q) /\ q[up(l)] = y
      BY <2>6, <2>10
    <3>2. up(k) = up(l)
      BY <2>10, <3>1 DEF Once
    <3> QED
      BY <2>1, <3>2
  <2> QED
    BY <2>3, <2>5, <2>8, <2>9, <2>10 DEF Once
<1> QED
  BY <1>2, <1>3

-----------------------------------------------------------------------------------
LEMMA MovedTyped ==
  ASSUME CliTyped, NEW c \in Commands, NEW pc \in Places
  PROVE  [thread EXCEPT ![c].at = pc] \in [Commands -> [at : Places, result : Answers]]
<1>1. thread \in [Commands -> [at : Places, result : Answers]]
  BY DEF CliTyped
<1> HIDE DEF Places, Answers
<1> QED
  BY <1>1

LEMMA DecidedTyped ==
  ASSUME CliTyped, NEW c \in Commands, NEW pc \in Places, NEW result \in Answers
  PROVE  [thread EXCEPT ![c] = [at |-> pc, result |-> result]]
           \in [Commands -> [at : Places, result : Answers]]
<1>1. thread \in [Commands -> [at : Places, result : Answers]]
  BY DEF CliTyped
<1> QED
  BY <1>1

LEMMA PlacesAre ==
  /\ "accepted" \in Places /\ "emitting" \in Places /\ "waiting" \in Places
  /\ "refusing" \in Places /\ "cancelling" \in Places /\ "writing" \in Places
  /\ "failed" \in Answers
BY DEF Places, Answers

LEMMA StagePut ==
  ASSUME NEW p \in CliPages, NEW c \in Commands, NEW s \in CommandStages
  PROVE  [p EXCEPT !.stage[c] = s] \in CliPages
<1>1. [p.stage EXCEPT ![c] = s] \in [Commands -> CommandStages]
  BY DEF CliPages
<1> QED
  BY <1>1 DEF CliPages

LEMMA NoPageTyped == NoPage \in CliPages /\ \A r \in Commands : NoPage.stage[r] = "none"
BY DEF NoPage, CliPages, CommandStages

-----------------------------------------------------------------------------------
(* Core. A process that ends takes the words under way with it; only a command that *)
(* no thread has served yet is asked for later.                                     *)
LEMMA CoreKeeps == ASSUME CliInv, CoreStep PROVE CliInv'
<1> USE DEF CliInv
<1>1. CASE StartServer \/ Close
  <2>1. CliTyped'
    BY <1>1 DEF StartServer, Close, CliTyped
  <2>2. ASSUME NEW r \in Commands PROVE Followed(r)'
    BY <1>1, <2>2 DEF StartServer, Close, Followed, SpokenOnce, GivenUp, Forgotten, Unspoken, Waits,
       Marked, Sent, OnTheWay
  <2> QED
    BY <2>1, <2>2
<1>2. CASE ClearRequests
  <2>1. CliTyped'
    BY <1>2 DEF ClearRequests, CliTyped
  <2>2. ASSUME NEW r \in Commands PROVE Followed(r)'
    BY <1>2, <2>2 DEF ClearRequests, Followed, SpokenOnce, GivenUp, Forgotten, Unspoken, Waits,
       Marked, Sent, OnTheWay
  <2> QED
    BY <2>1, <2>2
<1>3. CASE ClearQueue
  <2>1. CliTyped'
    BY <1>3 DEF ClearQueue, CliTyped
  <2>2. ASSUME NEW r \in Commands PROVE Followed(r)'
    <3>1. queued' = <<>> /\ UNCHANGED <<thread, client, requests, marking, channel, ui, seen>>
      BY <1>3 DEF ClearQueue
    <3>2. ~Waits(r)' /\ Once(queued', r)
      BY <3>1 DEF Waits, Lists, Once
    <3> QED
      BY <2>2, <3>1, <3>2 DEF Followed, SpokenOnce, GivenUp, Forgotten, Unspoken, Marked, Sent, OnTheWay
  <2> QED
    BY <2>1, <2>2
<1>4. CASE StartCore
  <2>1. CliTyped'
    <3>1. /\ requests' = {} /\ queued' = <<>> /\ marking' = <<>> /\ channel' = <<>>
          /\ ui' = NoPage /\ seen' = seen /\ box' = [r \in Commands |-> {}]
      BY <1>4 DEF StartCore
    <3>2. thread' \in [Commands -> [at : Places, result : Answers]]
      <4>1. ASSUME NEW r \in Commands
            PROVE  (IF thread[r].at = "none" THEN thread[r] ELSE [thread[r] EXCEPT !.at = "done"])
                     \in [at : Places, result : Answers]
        <5>1. thread[r] \in [at : Places, result : Answers]
          BY <4>1 DEF CliTyped
        <5> QED
          BY <5>1 DEF Places
      <4> QED
        BY <1>4, <4>1 DEF StartCore
    <3>3. client' \in [Commands -> {"new", "alone", "waiting", "gone", "lost"} \cup Answers]
      BY <1>4 DEF StartCore, CliTyped
    <3>4. ui' \in CliPages
      BY <3>1, NoPageTyped
    <3> QED
      BY <3>1, <3>2, <3>3, <3>4 DEF CliTyped
  <2>2. ASSUME NEW r \in Commands PROVE Followed(r)'
    <3>1. /\ requests' = {} /\ queued' = <<>> /\ marking' = <<>> /\ channel' = <<>>
          /\ ui' = NoPage /\ seen' = seen
          /\ thread'[r].at = IF thread[r].at = "none" THEN "none" ELSE "done"
          /\ client'[r] = "new" => client[r] = "new"
      BY <1>4 DEF StartCore, CliTyped
    <3>2. /\ ~Waits(r)' /\ ~Marked(r)' /\ ~Sent(r)' /\ ~Lists(channel', Event("cancel", r))
          /\ Once(queued', r) /\ Once(marking', r) /\ Once(channel', Event("request", r))
      BY <3>1 DEF Waits, Marked, Sent, Lists, Once
    <3>3. ui'.stage[r] = "none"
      BY <2>2, <3>1, NoPageTyped
    <3>4. Event("request", r)' = Event("request", r) /\ Event("cancel", r)' = Event("cancel", r)
      BY DEF Event
    <3> QED
      BY <2>2, <3>1, <3>2, <3>3, <3>4
      DEF Followed, SpokenOnce, GivenUp, Forgotten, Unspoken, OnTheWay
  <2> QED
    BY <2>1, <2>2
<1> QED
  BY <1>1, <1>2, <1>3, <1>4 DEF CoreStep

(* Clients and monitors.                                                            *)
LEMMA ClientKeeps ==
  ASSUME CliInv, NEW c \in Commands, Dial(c) \/ HangUp(c) \/ Monitor(c) \/ DeadlinePasses(c)
  PROVE  CliInv'
<1> USE DEF CliInv
<1>1. CliTyped'
  <2>1. CASE Dial(c)
    <3>1. /\ thread' = thread \/ thread' = [thread EXCEPT ![c].at = "accepted"]
          /\ \E to \in {"waiting", "alone"} : client' = [client EXCEPT ![c] = to]
          /\ UNCHANGED <<requests, box, queued, marking, channel, ui, seen>>
      BY <2>1 DEF Dial
    <3>2. thread' \in [Commands -> [at : Places, result : Answers]]
      <4>1. thread \in [Commands -> [at : Places, result : Answers]]
        BY DEF CliTyped
      <4> QED
        BY <3>1, <4>1, MovedTyped, PlacesAre
    <3>3. client' \in [Commands -> {"new", "alone", "waiting", "gone", "lost"} \cup Answers]
      BY <3>1 DEF CliTyped
    <3> QED
      BY <3>1, <3>2, <3>3 DEF CliTyped
  <2>2. CASE HangUp(c)
    BY <2>2 DEF HangUp, CliTyped
  <2>3. CASE Monitor(c) \/ DeadlinePasses(c)
    BY <2>3 DEF Monitor, DeadlinePasses, CliTyped
  <2> QED
    BY <2>1, <2>2, <2>3
<1>2. ASSUME NEW r \in Commands PROVE Followed(r)'
  <2>1. /\ UNCHANGED <<requests, queued, marking, channel, ui, seen>>
        /\ \/ thread'[r] = thread[r] /\ client'[r] = client[r]
           \/ thread'[r] = thread[r] /\ client'[r] # "new"
           \/ client[r] = "new" /\ thread'[r].at = "accepted" /\ client'[r] = "waiting"
    BY DEF Dial, HangUp, Monitor, DeadlinePasses, CliTyped
  <2> QED
    BY <1>2, <2>1 DEF Followed, SpokenOnce, GivenUp, Forgotten, Unspoken, Waits, Marked, Sent, OnTheWay
<1> QED
  BY <1>1, <1>2

-----------------------------------------------------------------------------------
(* CliUiPending::request.                                                           *)
LEMMA QuietThreadKeeps ==
  ASSUME CliInv, NEW c \in Commands, Insert(c) \/ Wake(c) \/ Remove(c) \/ Respond(c)
  PROVE  CliInv'
<1> USE DEF CliInv
<1>1. CliTyped'
  <2>1. CASE Insert(c) \/ Remove(c)
    <3>1. PICK pc \in Places : thread' = [thread EXCEPT ![c].at = pc]
      BY <2>1 DEF Insert, Remove, MoveTo, Places
    <3>2. thread' \in [Commands -> [at : Places, result : Answers]]
      BY <3>1 DEF CliTyped
    <3>3. requests' \subseteq Commands
      BY <2>1 DEF Insert, Remove, CliTyped
    <3> QED
      BY <2>1, <3>2, <3>3 DEF Insert, Remove, CliTyped
  <2>2. CASE Wake(c)
    <3>1. PICK result \in Endings(c) : Decide(c, "removing", result)
      BY <2>2 DEF Wake
    <3>2. result \in Answers
      BY <3>1 DEF Endings, CliTyped, Answers
    <3> QED
      BY <2>2, <3>1, <3>2 DEF Wake, Decide, CliTyped, Places
  <2>3. CASE Respond(c)
    BY <2>3 DEF Respond, MoveTo, CliTyped, Places
  <2> QED
    BY <2>1, <2>2, <2>3
<1>2. ASSUME NEW r \in Commands PROVE Followed(r)'
  <2>1. UNCHANGED <<queued, marking, channel, ui, seen>>
    BY DEF Insert, Wake, Remove, Respond
  <2>2. CASE r # c
    <3>1. thread'[r] = thread[r] /\ client'[r] = client[r] /\ (r \in requests' => r \in requests)
      BY <1>2, <2>2 DEF Insert, Wake, Remove, Respond, MoveTo, Decide, CliTyped
    <3> QED
      BY <1>2, <2>1, <3>1
         DEF Followed, SpokenOnce, GivenUp, Forgotten, Unspoken, Waits, Marked, Sent, OnTheWay
  <2>3. CASE r = c
    <3>1. /\ thread'[c].at # "none" /\ client'[c] # "new"
          /\ Unspoken(c)' => Unspoken(c)
          /\ thread'[c].at \notin {"cancelling", "writing"}
          /\ thread'[c].at = "done" => thread[c].at = "writing" /\ requests' = requests
          /\ thread'[c].at \in {"unqueueing", "forgetting"} => c \notin requests'
      <4>1. thread[c] \in [at : Places, result : Answers] /\ Followed(c)
        BY DEF CliTyped
      <4>2. CASE Insert(c)
        BY <4>1, <4>2 DEF Insert, MoveTo, CliTyped, Unspoken, Followed, Forgotten
      <4>3. CASE Wake(c)
        BY <4>1, <4>3 DEF Wake, Decide, CliTyped, Unspoken, Followed, Forgotten
      <4>4. CASE Remove(c)
        BY <4>1, <4>4 DEF Remove, MoveTo, CliTyped, Unspoken, Followed, Forgotten
      <4>5. CASE Respond(c)
        BY <4>1, <4>5 DEF Respond, MoveTo, CliTyped, Unspoken, Followed, Forgotten, Answers
      <4> QED
        BY <4>2, <4>3, <4>4, <4>5
    <3> QED
      BY <1>2, <2>1, <2>3, <3>1
         DEF Followed, SpokenOnce, GivenUp, Forgotten, Unspoken, Waits, Marked, Sent, OnTheWay
  <2> QED
    BY <2>2, <2>3
<1> QED
  BY <1>1, <1>2

(* The word is given out: it moves to the queue or to the page and is nowhere else. *)
LEMMA EnqueueKeeps == ASSUME CliInv, NEW c \in Commands, Enqueue(c) PROVE CliInv'
<1> USE DEF CliInv
<1>1. /\ thread[c].at = "inserted" /\ queued \in Seq(Commands)
      /\ UNCHANGED <<client, requests, box, marking, channel, ui, seen>>
      /\ \/ thread' = [thread EXCEPT ![c].at = "emitting"] /\ queued' = queued
         \/ thread' = [thread EXCEPT ![c].at = "waiting"] /\ queued' = Append(queued, c)
  BY DEF Enqueue, MoveTo, CliTyped
<1>2. /\ Append(queued, c) \in Seq(Commands)
      /\ \A y : Lists(Append(queued, c), y) <=> Lists(queued, y) \/ y = c
      /\ \A y : Once(queued, y) /\ (y = c => ~Lists(queued, y)) => Once(Append(queued, c), y)
  BY <1>1, AppendOnce
<1>3. CliTyped'
  <2>1. thread' \in [Commands -> [at : Places, result : Answers]]
    <3>1. \E pc \in Places : thread' = [thread EXCEPT ![c].at = pc]
      BY <1>1, PlacesAre
    <3> QED
      BY <3>1, MovedTyped
  <2> QED
    BY <1>1, <1>2, <2>1 DEF CliTyped
<1>4. ASSUME NEW r \in Commands PROVE Followed(r)'
  <2>1. CASE r # c
    <3>1. thread'[r] = thread[r] /\ (Lists(queued', r) <=> Lists(queued, r))
          /\ (Once(queued, r) => Once(queued', r))
      BY <1>1, <1>2, <1>4, <2>1 DEF CliTyped
    <3> QED
      BY <1>1, <1>4, <3>1
         DEF Followed, SpokenOnce, GivenUp, Forgotten, Unspoken, Waits, Marked, Sent, OnTheWay
  <2>2. CASE r = c
    <3>1. /\ ~Lists(queued, c) /\ Once(queued, c) /\ client[c] # "new"
      BY <1>1 DEF Followed, SpokenOnce, Forgotten, Unspoken, Waits
    <3>2. /\ Once(queued', c)
          /\ \/ thread'[c].at = "emitting" /\ ~Lists(queued', c)
             \/ thread'[c].at = "waiting" /\ Lists(queued', c)
      BY <1>1, <1>2, <3>1 DEF CliTyped
    <3> QED
      BY <1>1, <1>4, <2>2, <3>1, <3>2
         DEF Followed, SpokenOnce, GivenUp, Forgotten, Unspoken, Waits, Marked, Sent, OnTheWay
  <2> QED
    BY <2>1, <2>2
<1> QED
  BY <1>3, <1>4

(* What emitting an event does to the events on their way.                          *)
LEMMA EmittedOnce ==
  ASSUME channel \in Seq(CliEvents), NEW t \in {"request", "cancel"}, NEW c \in Commands
  PROVE  LET x == Event(t, c) IN
         /\ Emitted(x) \in Seq(CliEvents)
         /\ \A y : Lists(Emitted(x), y) => Lists(channel, y) \/ y = x
         /\ \A y : Lists(channel, y) => Lists(Emitted(x), y)
         /\ \A y : Once(channel, y) /\ (y = x => ~Lists(channel, y)) => Once(Emitted(x), y)
<1>1. Event(t, c) \in CliEvents
  BY DEF Event, CliEvents
<1> QED
  BY <1>1, AppendOnce DEF Emitted

LEMMA EventsDiffer ==
  ASSUME NEW c \in Commands, NEW r \in Commands
  PROVE  /\ Event("request", r) # Event("cancel", c)
         /\ r # c => Event("request", r) # Event("request", c) /\ Event("cancel", r) # Event("cancel", c)
<1>1. /\ Event("request", r).type = "request" /\ Event("cancel", c).type = "cancel"
      /\ Event("request", r).command = r /\ Event("request", c).command = c
      /\ Event("cancel", r).command = r /\ Event("cancel", c).command = c
  BY DEF Event
<1> QED
  BY <1>1

LEMMA EmitRequestKeeps == ASSUME CliInv, NEW c \in Commands, EmitRequest(c) PROVE CliInv'
<1> USE DEF CliInv
<1> DEFINE x == Event("request", c)
<1>1. /\ thread[c].at = "emitting" /\ channel \in Seq(CliEvents)
      /\ UNCHANGED <<client, requests, box, queued, marking, ui, seen>>
      /\ \/ thread' = [thread EXCEPT ![c].at = "waiting"] /\ channel' = Emitted(x)
         \/ /\ thread' = [thread EXCEPT ![c] = [at |-> "refusing", result |-> "failed"]]
            /\ channel' = channel
  BY DEF EmitRequest, MoveTo, Decide, CliTyped
<1>2. /\ Emitted(x) \in Seq(CliEvents)
      /\ \A y : Lists(Emitted(x), y) => Lists(channel, y) \/ y = x
      /\ \A y : Lists(channel, y) => Lists(Emitted(x), y)
      /\ \A y : Once(channel, y) /\ (y = x => ~Lists(channel, y)) => Once(Emitted(x), y)
  BY <1>1, EmittedOnce
<1> HIDE DEF x
<1>3. CliTyped'
  <2>1. thread' \in [Commands -> [at : Places, result : Answers]]
    <3>1. \/ thread' = [thread EXCEPT ![c].at = "waiting"]
          \/ thread' = [thread EXCEPT ![c] = [at |-> "refusing", result |-> "failed"]]
      BY <1>1
    <3> QED
      BY <3>1, MovedTyped, DecidedTyped, PlacesAre
  <2> QED
    BY <1>1, <1>2, <2>1 DEF CliTyped
<1>4. ASSUME NEW r \in Commands PROVE Followed(r)'
  <2>0. Event("request", r)' = Event("request", r) /\ Event("cancel", r)' = Event("cancel", r)
    BY DEF Event
  <2>1. Lists(channel', Event("cancel", r)) <=> Lists(channel, Event("cancel", r))
    BY <1>1, <1>2, <1>4, EventsDiffer DEF x
  <2>2. CASE r # c
    <3>1. /\ thread'[r] = thread[r]
          /\ Lists(channel', Event("request", r)) <=> Lists(channel, Event("request", r))
          /\ Once(channel, Event("request", r)) => Once(channel', Event("request", r))
      BY <1>1, <1>2, <1>4, <2>2, EventsDiffer DEF CliTyped, x
    <3> QED
      BY <1>1, <1>4, <2>0, <2>1, <3>1
         DEF Followed, SpokenOnce, GivenUp, Forgotten, Unspoken, Waits, Marked, Sent, OnTheWay
  <2>3. CASE r = c
    <3>1. ~Lists(channel, x) /\ Once(channel, x) /\ client[c] # "new"
      BY <1>1 DEF Followed, SpokenOnce, Forgotten, Unspoken, Sent, x
    <3>2. Once(channel', x) /\ thread'[c].at \in {"waiting", "refusing"}
      BY <1>1, <1>2, <3>1 DEF CliTyped
    <3> QED
      BY <1>1, <1>4, <2>0, <2>1, <2>3, <3>1, <3>2
         DEF Followed, SpokenOnce, GivenUp, Forgotten, Unspoken, Waits, Marked, Sent, OnTheWay, x
  <2> QED
    BY <2>2, <2>3
<1> QED
  BY <1>3, <1>4

(* remove's second half: the queue.                                                 *)
LEMMA UnqueueKeeps == ASSUME CliInv, NEW c \in Commands, Unqueue(c) PROVE CliInv'
<1> USE DEF CliInv
<1>1. /\ thread[c].at \in {"unqueueing", "forgetting"} /\ queued \in Seq(Commands)
      /\ UNCHANGED <<client, requests, box, marking, channel, ui, seen>>
      /\ queued' = Without(queued, c)
      /\ \E pc \in {"cancelling", "writing"} : thread' = [thread EXCEPT ![c].at = pc]
  BY DEF Unqueue, Retained, MoveTo, CliTyped
<1>2. /\ queued' \in Seq(Commands)
      /\ \A y : Lists(queued', y) <=> Lists(queued, y) /\ y # c
      /\ \A y : Once(queued, y) => Once(queued', y)
  <2>1. Once(queued, c)
    BY DEF Followed, SpokenOnce
  <2> QED
    BY <1>1, <2>1, WithoutOnce, Zenon
<1>3. CliTyped'
  <2>1. thread' \in [Commands -> [at : Places, result : Answers]]
    BY <1>1, MovedTyped, PlacesAre
  <2> QED
    BY <1>1, <1>2, <2>1 DEF CliTyped
<1>4. ASSUME NEW r \in Commands PROVE Followed(r)'
  <2>1. CASE r # c
    <3>1. thread'[r] = thread[r] /\ (Lists(queued', r) <=> Lists(queued, r))
          /\ (Once(queued, r) => Once(queued', r))
      BY <1>1, <1>2, <1>4, <2>1 DEF CliTyped
    <3> QED
      BY <1>1, <1>4, <3>1
         DEF Followed, SpokenOnce, GivenUp, Forgotten, Unspoken, Waits, Marked, Sent, OnTheWay
  <2>2. CASE r = c
    <3>1. thread'[c].at \in {"cancelling", "writing"} /\ ~Lists(queued', c)
          /\ (Once(queued, c) => Once(queued', c))
      BY <1>1, <1>2 DEF CliTyped
    <3> QED
      BY <1>1, <1>4, <2>2, <3>1
         DEF Followed, SpokenOnce, GivenUp, Forgotten, Unspoken, Waits, Marked, Sent, OnTheWay
  <2> QED
    BY <2>1, <2>2
<1> QED
  BY <1>3, <1>4

LEMMA EmitCancelKeeps == ASSUME CliInv, NEW c \in Commands, EmitCancel(c) PROVE CliInv'
<1> USE DEF CliInv
<1> DEFINE x == Event("cancel", c)
<1>1. /\ thread[c].at = "cancelling" /\ channel \in Seq(CliEvents)
      /\ UNCHANGED <<client, requests, box, queued, marking, ui, seen>>
      /\ thread' = [thread EXCEPT ![c].at = "writing"] /\ channel' = Emitted(x)
  BY DEF EmitCancel, MoveTo, CliTyped
<1>2. /\ Emitted(x) \in Seq(CliEvents)
      /\ \A y : Lists(Emitted(x), y) => Lists(channel, y) \/ y = x
      /\ \A y : Lists(channel, y) => Lists(Emitted(x), y)
      /\ \A y : Once(channel, y) /\ (y = x => ~Lists(channel, y)) => Once(Emitted(x), y)
  BY <1>1, EmittedOnce
<1> HIDE DEF x
<1>3. CliTyped'
  <2>1. thread' \in [Commands -> [at : Places, result : Answers]]
    BY <1>1, MovedTyped, PlacesAre
  <2> QED
    BY <1>1, <1>2, <2>1 DEF CliTyped
<1>4. ASSUME NEW r \in Commands PROVE Followed(r)'
  <2>0. Event("request", r)' = Event("request", r) /\ Event("cancel", r)' = Event("cancel", r)
    BY DEF Event
  <2>1. /\ Lists(channel', Event("request", r)) <=> Lists(channel, Event("request", r))
        /\ Once(channel, Event("request", r)) => Once(channel', Event("request", r))
        /\ r # c => (Lists(channel', Event("cancel", r)) <=> Lists(channel, Event("cancel", r)))
    BY <1>1, <1>2, <1>4, EventsDiffer DEF x
  <2>2. \/ r # c /\ thread'[r] = thread[r]
        \/ r = c /\ thread[r].at = "cancelling" /\ thread'[r].at = "writing"
    BY <1>1, <1>4 DEF CliTyped
  <2> QED
    BY <1>1, <1>4, <2>0, <2>1, <2>2
       DEF Followed, SpokenOnce, GivenUp, Forgotten, Unspoken, Waits, Marked, Sent, OnTheWay
<1> QED
  BY <1>3, <1>4

-----------------------------------------------------------------------------------
(* The page. One that is loaded again knows of no cancellation.                     *)
LEMMA PageKeeps == ASSUME CliInv, ListenForCancels \/ Listen \/ Reload PROVE CliInv'
<1> USE DEF CliInv
<1>1. CASE ListenForCancels \/ Listen
  <2>1. CliTyped'
    BY <1>1 DEF ListenForCancels, Listen, CliTyped, CliPages
  <2>2. UNCHANGED <<ui.stage, ui.aborted, ui.dropped>>
    BY <1>1 DEF ListenForCancels, Listen, CliTyped, CliPages
  <2>3. ASSUME NEW r \in Commands PROVE Followed(r)'
    BY <1>1, <2>2, <2>3 DEF ListenForCancels, Listen, Followed, SpokenOnce, GivenUp, Forgotten, Unspoken, Waits,
       Marked, Sent, OnTheWay
  <2> QED
    BY <2>1, <2>3
<1>2. CASE Reload
  <2>1. /\ UNCHANGED <<thread, client, requests, box, queued, marking>>
        /\ ui' = NoPage /\ channel' = <<>> /\ seen' = [seen EXCEPT !.cancels = {}]
    BY <1>2 DEF Reload
  <2>2. /\ seen'.started = seen.started /\ seen'.cancels = {}
        /\ \A r \in Commands : ui'.stage[r] = "none"
    BY <2>1, NoPageTyped DEF CliTyped
  <2>3. CliTyped'
    <3>1. ui' \in CliPages
      BY <2>1, NoPageTyped
    <3>2. seen' \in [started : [Commands -> Nat], cancels : SUBSET Commands]
      BY <2>1 DEF CliTyped
    <3>3. channel' \in Seq(CliEvents)
      BY <2>1
    <3> QED
      BY <2>1, <3>1, <3>2, <3>3 DEF CliTyped
  <2>4. ASSUME NEW r \in Commands PROVE Followed(r)'
    <3>1. ~Sent(r)' /\ Once(channel', Event("request", r))
      BY <2>1 DEF Sent, Lists, Once
    <3>2. Event("request", r)' = Event("request", r) /\ Event("cancel", r)' = Event("cancel", r)
      BY DEF Event
    <3>3. ~Lists(channel', Event("cancel", r))
      BY <2>1 DEF Lists
    <3> QED
      BY <2>1, <2>2, <2>4, <3>1, <3>2, <3>3
         DEF Followed, SpokenOnce, GivenUp, Forgotten, Unspoken, Waits, Marked, OnTheWay
  <2> QED
    BY <2>3, <2>4
<1> QED
  BY <1>1, <1>2

(* mark_ready takes the queue, and nothing was left of an earlier one.              *)
LEMMA MarkReadyKeeps == ASSUME CliInv, MarkReady PROVE CliInv'
<1> USE DEF CliInv
<1>1. /\ UNCHANGED <<thread, client, requests, box, channel, seen>>
      /\ marking = <<>> /\ marking' = queued /\ queued' = <<>> /\ ui' = [ui EXCEPT !.at = "ready"]
  BY DEF MarkReady
<1>2. CliTyped' /\ UNCHANGED <<ui.stage, ui.aborted, ui.dropped>>
  BY <1>1 DEF CliTyped, CliPages
<1>3. ASSUME NEW r \in Commands PROVE Followed(r)'
  <2>1. /\ ~Lists(queued', r) /\ Once(queued', r) /\ ~Lists(marking, r)
        /\ Lists(marking', r) <=> Lists(queued, r)
        /\ Once(queued, r) => Once(marking', r)
    BY <1>1 DEF Lists, Once
  <2> QED
    BY <1>1, <1>2, <1>3, <2>1
       DEF Followed, SpokenOnce, GivenUp, Forgotten, Unspoken, Waits, Marked, Sent, OnTheWay
<1> QED
  BY <1>2, <1>3

LEMMA CompletedKeeps ==
  ASSUME CliTyped, NEW c \in Commands, NEW answer \in Answers, Completed(c, answer)
  PROVE  requests' \subseteq requests /\ box' \in [Commands -> SUBSET Answers]
<1>1. box \in [Commands -> SUBSET Answers]
  BY DEF CliTyped
<1>2. CASE c \in requests
  <2>1. requests' = requests \ {c} /\ box' = [box EXCEPT ![c] = {answer}]
    BY <1>2 DEF Completed
  <2> QED
    BY <1>1, <2>1
<1>3. CASE c \notin requests
  BY <1>1, <1>3 DEF Completed
<1> QED
  BY <1>2, <1>3

LEMMA EmitQueuedKeeps == ASSUME CliInv, EmitQueued PROVE CliInv'
<1> USE DEF CliInv
<1> DEFINE c == Head(marking)
           x == Event("request", c)
<1>1. /\ marking # <<>> /\ marking \in Seq(Commands) /\ channel \in Seq(CliEvents)
      /\ UNCHANGED <<thread, client, queued, ui, seen>>
      /\ \/ /\ channel' = Emitted(x) /\ marking' = Tail(marking)
            /\ UNCHANGED <<requests, box>>
         \/ /\ channel' = channel /\ Completed(c, "failed")
            /\ marking' = Tail(marking) \/ marking' = <<>>
  BY DEF EmitQueued, CliTyped
<1>2. /\ Tail(marking) \in Seq(Commands) /\ c \in Commands
      /\ \A y : Lists(marking, y) <=> y = c \/ Lists(Tail(marking), y)
      /\ \A y : Once(marking, y) => Once(Tail(marking), y) /\ ~(y = c /\ Lists(Tail(marking), y))
  BY <1>1, TailOnce
<1> HIDE DEF c
<1>3. /\ Emitted(x) \in Seq(CliEvents)
      /\ \A y : Lists(Emitted(x), y) => Lists(channel, y) \/ y = x
      /\ \A y : Lists(channel, y) => Lists(Emitted(x), y)
      /\ \A y : Once(channel, y) /\ (y = x => ~Lists(channel, y)) => Once(Emitted(x), y)
  BY <1>1, <1>2, EmittedOnce
<1> HIDE DEF x
<1>4. /\ marking' \in Seq(Commands)
      /\ \A y : Lists(marking', y) => Lists(marking, y) /\ (Once(marking, y) => y # c)
      /\ \A y : Once(marking, y) => Once(marking', y)
  <2>1. CASE marking' = Tail(marking)
    BY <1>2, <2>1
  <2>2. CASE marking' = <<>>
    BY <2>2 DEF Lists, Once
  <2> QED
    BY <1>1, <2>1, <2>2
<1>5. requests' \subseteq requests /\ box' \in [Commands -> SUBSET Answers]
  BY <1>1, <1>2, CompletedKeeps DEF CliTyped, Answers
<1>6. CliTyped'
  BY <1>1, <1>3, <1>4, <1>5 DEF CliTyped
<1>7. ASSUME NEW r \in Commands PROVE Followed(r)'
  <2>0. Event("request", r)' = Event("request", r) /\ Event("cancel", r)' = Event("cancel", r)
    BY DEF Event
  <2>1. Lists(channel', Event("cancel", r)) <=> Lists(channel, Event("cancel", r))
    BY <1>1, <1>2, <1>3, <1>7, EventsDiffer DEF x
  <2>2. Lists(marking, c) /\ Followed(r) /\ Followed(c)
    BY <1>2, <1>7
  <2>3. Once(marking', r) /\ (Lists(marking', r) => Lists(marking, r) /\ r # c)
    BY <1>4, <2>2 DEF Followed, SpokenOnce
  <2>4. CASE r # c
    <3>1. /\ Lists(channel', Event("request", r)) <=> Lists(channel, Event("request", r))
          /\ Once(channel, Event("request", r)) => Once(channel', Event("request", r))
      BY <1>1, <1>2, <1>3, <1>7, <2>4, EventsDiffer DEF x
    <3> QED
      BY <1>1, <1>5, <1>7, <2>0, <2>1, <2>2, <2>3, <3>1
         DEF Followed, SpokenOnce, GivenUp, Forgotten, Unspoken, Waits, Marked, Sent, OnTheWay
  <2>5. CASE r = c
    <3>1. /\ ~Lists(channel, x) /\ ~Unspoken(c) /\ ~Waits(c) /\ OnTheWay(c)
      BY <2>2 DEF Followed, SpokenOnce, Marked, Sent, OnTheWay, x
    <3>2. Once(channel', x)
      BY <1>1, <1>3, <2>2, <3>1 DEF Followed, SpokenOnce, x
    <3>3. ~Unspoken(r)' /\ ~Waits(r)'
      BY <1>1, <2>5, <3>1 DEF Unspoken, Waits
    <3> QED
      BY <1>1, <1>5, <1>7, <2>0, <2>1, <2>2, <2>3, <2>5, <3>1, <3>2, <3>3
         DEF Followed, SpokenOnce, GivenUp, Forgotten, Marked, Sent, OnTheWay, x, Unspoken, Waits
  <2> QED
    BY <2>4, <2>5
<1> QED
  BY <1>6, <1>7

(* What taking the first event off the channel leaves.                              *)
LEMMA ReceivedOnce ==
  ASSUME CliInv, channel # <<>>
  PROVE  LET x == Head(channel) IN
         /\ x \in CliEvents /\ Tail(channel) \in Seq(CliEvents)
         /\ \A y : Lists(channel, y) <=> y = x \/ Lists(Tail(channel), y)
         /\ \A r \in Commands : /\ Once(Tail(channel), Event("request", r))
                                /\ ~(Event("request", r) = x /\ Lists(Tail(channel), x))
<1>1. channel \in Seq(CliEvents) /\ \A r \in Commands : Once(channel, Event("request", r))
  BY DEF CliInv, CliTyped, Followed, SpokenOnce
<1>2. \A y : Once(channel, y) => Once(Tail(channel), y) /\ ~(y = Head(channel) /\ Lists(Tail(channel), y))
  BY <1>1, TailOnce
<1>3. \A y : Lists(channel, y) <=> y = Head(channel) \/ Lists(Tail(channel), y)
  BY <1>1, TailOnce
<1>4. Head(channel) \in CliEvents /\ Tail(channel) \in Seq(CliEvents)
  BY <1>1, TailOnce
<1> QED
  BY <1>1, <1>2, <1>3, <1>4

(* The word arrives, for the only time.                                             *)
LEMMA ReceiveRequestKeeps == ASSUME CliInv, ReceiveRequest PROVE CliInv'
<1>1. PICK c : c = Head(channel).command
  OBVIOUS
<1> DEFINE x == Head(channel)
           t == Tail(channel)
<1>2. /\ channel # <<>> /\ x.type = "request" /\ channel' = t
      /\ UNCHANGED <<thread, client, queued, marking>>
      /\ \/ /\ c \notin ui.dropped
            /\ ui' = [ui EXCEPT !.stage[c] = "asked"]
            /\ seen' = [seen EXCEPT !.started[c] = @ + 1]
            /\ UNCHANGED <<requests, box>>
         \/ /\ c \in ui.dropped /\ ui' = [ui EXCEPT !.dropped = @ \ {c}]
            /\ Completed(c, "failed") /\ seen' = seen
  BY <1>1 DEF ReceiveRequest, MayStart
<1>3. /\ x \in CliEvents /\ t \in Seq(CliEvents)
      /\ \A y : Lists(channel, y) <=> y = x \/ Lists(t, y)
      /\ \A r \in Commands : /\ Once(t, Event("request", r))
                             /\ ~(Event("request", r) = x /\ Lists(t, x))
  BY <1>2, ReceivedOnce
<1>4. c \in Commands /\ x = Event("request", c)
  BY <1>1, <1>2, <1>3 DEF CliEvents, Event
<1> HIDE DEF x, t
<1>5. CliTyped /\ \A r \in Commands : Followed(r)
  BY DEF CliInv
<1>6. Sent(c) /\ ~Lists(t, Event("request", c))
  BY <1>3, <1>4 DEF Sent
<1>7. /\ ~Unspoken(c) /\ ~Waits(c) /\ ~Marked(c) /\ seen.started[c] = 0
  BY <1>4, <1>5, <1>6 DEF Followed, SpokenOnce, OnTheWay
<1>8. requests' \subseteq requests /\ box' \in [Commands -> SUBSET Answers]
  BY <1>2, <1>4, <1>5, CompletedKeeps, PlacesAre DEF CliTyped
<1>9. /\ ui' \in CliPages
      /\ seen' \in [started : [Commands -> Nat], cancels : SUBSET Commands]
  <2>1. /\ ui \in CliPages
        /\ seen \in [started : [Commands -> Nat], cancels : SUBSET Commands]
    BY <1>5 DEF CliTyped
  <2>2. CASE ui' = [ui EXCEPT !.stage[c] = "asked"] /\ seen' = [seen EXCEPT !.started[c] = @ + 1]
    <3>1. "asked" \in CommandStages /\ [ui EXCEPT !.stage[c] = "asked"] \in CliPages
      BY <1>4, <2>1, StagePut DEF CommandStages
    <3>2. ui' \in CliPages
      BY <2>2, <3>1
    <3>3. seen.started \in [Commands -> Nat] /\ seen.cancels \in SUBSET Commands
      BY <2>1
    <3>4. [seen.started EXCEPT ![c] = @ + 1] \in [Commands -> Nat]
      BY <1>4, <3>3
    <3> QED
      BY <2>1, <2>2, <3>2, <3>3, <3>4
  <2>3. CASE ui' = [ui EXCEPT !.dropped = @ \ {c}] /\ seen' = seen
    BY <1>4, <2>1, <2>3 DEF CliPages
  <2> QED
    BY <1>2, <2>2, <2>3
<1>10. CliTyped'
  BY <1>2, <1>3, <1>5, <1>8, <1>9 DEF CliTyped
<1>11. /\ seen'.cancels = seen.cancels
       /\ \A r \in Commands : r # c => /\ seen'.started[r] = seen.started[r]
                                       /\ ui'.stage[r] = ui.stage[r]
                                       /\ r \in ui'.dropped <=> r \in ui.dropped
       /\ ui'.aborted = ui.aborted
       /\ \/ /\ seen'.started[c] = 1 /\ c \notin ui.dropped
          \/ /\ seen'.started[c] = 0 /\ ui'.stage[c] = ui.stage[c]
  <2>1. /\ ui \in CliPages
        /\ seen \in [started : [Commands -> Nat], cancels : SUBSET Commands]
    BY <1>5 DEF CliTyped
  <2> QED
    BY <1>2, <1>4, <1>7, <2>1 DEF CliPages
<1>12. ASSUME NEW r \in Commands PROVE Followed(r)'
  <2>0. Event("request", r)' = Event("request", r) /\ Event("cancel", r)' = Event("cancel", r)
    BY DEF Event
  <2>1. /\ Lists(channel', Event("cancel", r)) <=> Lists(channel, Event("cancel", r))
        /\ Once(channel', Event("request", r))
        /\ r # c => (Lists(channel', Event("request", r)) <=> Lists(channel, Event("request", r)))
    BY <1>2, <1>3, <1>4, <1>12, EventsDiffer
  <2>2. CASE r # c
    BY <1>2, <1>5, <1>8, <1>11, <1>12, <2>0, <2>1, <2>2
       DEF Followed, SpokenOnce, GivenUp, Forgotten, Unspoken, Waits, Marked, Sent, OnTheWay
  <2>3. CASE r = c
    <3>1. ~OnTheWay(r)'
      BY <1>2, <1>6, <1>7, <2>0, <2>3 DEF OnTheWay, Unspoken, Waits, Marked, Sent
    <3>2. c \in seen.cancels => c \in ui.dropped
      BY <1>4, <1>5, <1>6 DEF Followed, GivenUp, OnTheWay
    <3>3. ui.stage[c] = "none"
      BY <1>4, <1>5, <1>7 DEF Followed, SpokenOnce
    <3>4. SpokenOnce(r)'
      BY <1>2, <1>4, <1>5, <1>11, <2>0, <2>1, <2>3, <3>1, <3>3
         DEF Followed, SpokenOnce, OnTheWay, Unspoken, Waits, Marked, Sent
    <3>5. GivenUp(r)'
      BY <1>11, <2>3, <3>1, <3>2, <3>3 DEF GivenUp, OnTheWay
    <3>6. Forgotten(r)'
      BY <1>2, <1>5, <1>8, <1>12 DEF Followed, Forgotten, Waits
    <3> QED
      BY <3>4, <3>5, <3>6 DEF Followed
  <2> QED
    BY <2>2, <2>3
<1> QED
  BY <1>10, <1>12 DEF CliInv

(* The page hears that a command was given up: it sets its signal, or remembers.    *)
LEMMA ReceiveCancelKeeps == ASSUME CliInv, ReceiveCancel PROVE CliInv'
<1>1. PICK c : c = Head(channel).command
  OBVIOUS
<1> DEFINE x == Head(channel)
           t == Tail(channel)
<1>2. /\ channel # <<>> /\ x.type = "cancel" /\ channel' = t
      /\ UNCHANGED <<thread, client, requests, box, queued, marking>>
      /\ IF ui.stage[c] # "none" THEN ui' = [ui EXCEPT !.aborted = @ \cup {c}]
         ELSE ui' = [ui EXCEPT !.dropped = @ \cup {c}]
      /\ seen' = [seen EXCEPT !.cancels = @ \cup {c}]
  BY <1>1 DEF ReceiveCancel
<1>3. /\ x \in CliEvents /\ t \in Seq(CliEvents)
      /\ \A y : Lists(channel, y) <=> y = x \/ Lists(t, y)
      /\ \A r \in Commands : /\ Once(t, Event("request", r))
                             /\ ~(Event("request", r) = x /\ Lists(t, x))
  BY <1>2, ReceivedOnce
<1>4. c \in Commands /\ x = Event("cancel", c)
  BY <1>1, <1>2, <1>3 DEF CliEvents, Event
<1> HIDE DEF x, t
<1>5. CliTyped /\ \A r \in Commands : Followed(r)
  BY DEF CliInv
<1>6. /\ ui \in CliPages
      /\ seen \in [started : [Commands -> Nat], cancels : SUBSET Commands]
  BY <1>5 DEF CliTyped
<1>7. /\ ui' \in CliPages
      /\ seen' \in [started : [Commands -> Nat], cancels : SUBSET Commands]
  BY <1>2, <1>4, <1>6 DEF CliPages
<1>8. CliTyped'
  BY <1>2, <1>3, <1>5, <1>7 DEF CliTyped
<1>9. /\ seen'.started = seen.started /\ seen'.cancels = seen.cancels \cup {c}
      /\ ui'.stage = ui.stage /\ ui.dropped \subseteq ui'.dropped /\ ui.aborted \subseteq ui'.aborted
      /\ IF ui.stage[c] = "none" THEN c \in ui'.dropped ELSE c \in ui'.aborted
  BY <1>2, <1>4, <1>6 DEF CliPages
<1>10. ASSUME NEW r \in Commands PROVE Followed(r)'
  <2>0. Event("request", r)' = Event("request", r) /\ Event("cancel", r)' = Event("cancel", r)
    BY DEF Event
  <2>1. /\ Lists(channel', Event("request", r)) <=> Lists(channel, Event("request", r))
        /\ Once(channel', Event("request", r))
        /\ Lists(channel', Event("cancel", r)) => Lists(channel, Event("cancel", r))
        /\ Lists(channel, Event("cancel", c))
    BY <1>2, <1>3, <1>4, <1>10, EventsDiffer
  <2>2. SpokenOnce(r)' /\ Forgotten(r)'
    BY <1>2, <1>5, <1>9, <1>10, <2>0, <2>1
       DEF Followed, SpokenOnce, Forgotten, Unspoken, Waits, Marked, Sent, OnTheWay
  <2>3. GivenUp(r)'
    <3>1. (OnTheWay(r)' <=> OnTheWay(r)) /\ (Unspoken(r)' <=> Unspoken(r))
      BY <1>2, <2>0, <2>1 DEF OnTheWay, Unspoken, Waits, Marked, Sent
    <3>2. r = c => ~Unspoken(r) /\ (ui.stage[r] # "none" => ~OnTheWay(r))
      <4>1. CASE r = c
        <5>1. ~Unspoken(c)
          BY <1>4, <1>5, <2>1 DEF Followed, GivenUp
        <5>2. ui.stage[c] # "none" => ~OnTheWay(c)
          BY <1>4, <1>5 DEF Followed, SpokenOnce
        <5> QED
          BY <4>1, <5>1, <5>2
      <4> QED
        BY <4>1
    <3> QED
      BY <1>5, <1>9, <1>10, <2>0, <2>1, <3>1, <3>2 DEF Followed, GivenUp
  <2> QED
    BY <2>2, <2>3 DEF Followed
<1> QED
  BY <1>8, <1>10 DEF CliInv

LEMMA AcknowledgeKeeps == ASSUME CliInv, NEW c \in Commands, Acknowledge(c) PROVE CliInv'
<1>1. CliTyped /\ \A r \in Commands : Followed(r)
  BY DEF CliInv
<1>2. PICK answer \in {"ok", "failed"} : Completed(c, answer)
  BY DEF Acknowledge, AnswersOf
<1>3. requests' \subseteq requests /\ box' \in [Commands -> SUBSET Answers]
  BY <1>1, <1>2, CompletedKeeps DEF Answers
<1>4. /\ UNCHANGED <<thread, client, queued, marking, channel, seen>>
      /\ ui' = [ui EXCEPT !.stage[c] = "none", !.aborted = @ \ {c}]
  BY DEF Acknowledge
<1>5. CliTyped'
  BY <1>1, <1>3, <1>4 DEF CliTyped, CliPages, CommandStages
<1>6. /\ ui'.stage[c] = "none" /\ ui'.dropped = ui.dropped
      /\ \A r \in Commands : r # c => /\ ui'.stage[r] = ui.stage[r]
                                      /\ r \in ui'.aborted <=> r \in ui.aborted
  BY <1>1, <1>4 DEF CliTyped, CliPages
<1>7. ASSUME NEW r \in Commands PROVE Followed(r)'
  BY <1>1, <1>3, <1>4, <1>6, <1>7
     DEF Followed, SpokenOnce, GivenUp, Forgotten, Unspoken, Waits, Marked, Sent, OnTheWay
<1> QED
  BY <1>5, <1>7 DEF CliInv

(* A check that a command passes changes only how far it is.                        *)
LEMMA PassCheckKeeps == ASSUME CliInv, NEW c \in Commands, PassCheck(c) PROVE CliInv'
<1>1. CliTyped /\ \A r \in Commands : Followed(r)
  BY DEF CliInv
<1>2. /\ UNCHANGED <<thread, client, requests, box, queued, marking, channel, seen>>
      /\ ui.stage[c] # "none"
      /\ ui' = [ui EXCEPT !.stage[c] = "acting"] \/ ui' = [ui EXCEPT !.stage[c] = "handed"]
  BY DEF PassCheck
<1>3. CliTyped'
  <2>1. ui \in CliPages
    BY <1>1 DEF CliTyped
  <2>2. ui' \in CliPages
    BY <1>2, <2>1, StagePut DEF CommandStages
  <2> QED
    BY <1>1, <1>2, <2>2 DEF CliTyped
<1>4. /\ ui'.dropped = ui.dropped /\ ui'.aborted = ui.aborted
      /\ \A r \in Commands : ui'.stage[r] # "none" <=> ui.stage[r] # "none"
  BY <1>1, <1>2 DEF CliTyped, CliPages
<1>5. ASSUME NEW r \in Commands PROVE Followed(r)'
  BY <1>1, <1>2, <1>4, <1>5
     DEF Followed, SpokenOnce, GivenUp, Forgotten, Unspoken, Waits, Marked, Sent, OnTheWay
<1> QED
  BY <1>3, <1>5 DEF CliInv

-----------------------------------------------------------------------------------
LEMMA CliInvAlways == CliSpec => []CliInv
<1>1. CliInit => CliInv
  <2> SUFFICES ASSUME CliInit PROVE CliInv
    OBVIOUS
  <2>1. CliTyped
    BY NoPageTyped DEF CliInit, CliTyped, Places, Answers
  <2>2. ASSUME NEW r \in Commands PROVE Followed(r)
    <3>1. /\ ~Lists(queued, r) /\ ~Lists(marking, r) /\ Once(queued, r) /\ Once(marking, r)
          /\ ~Lists(channel, Event("request", r)) /\ ~Lists(channel, Event("cancel", r))
          /\ Once(channel, Event("request", r))
      BY DEF CliInit, Lists, Once
    <3> QED
      BY <2>2, <3>1, NoPageTyped DEF CliInit, Followed, SpokenOnce, GivenUp, Forgotten, Unspoken, Waits,
         Marked, Sent, OnTheWay
  <2> QED
    BY <2>1, <2>2 DEF CliInv
<1>2. CliInv /\ [CliNext]_allCliVars => CliInv'
  <2> SUFFICES ASSUME CliInv, [CliNext]_allCliVars PROVE CliInv'
    OBVIOUS
  <2>1. CASE UNCHANGED allCliVars
    BY <2>1 DEF allCliVars, cliVars, CliInv, CliTyped, Followed, SpokenOnce, GivenUp, Forgotten,
       Unspoken, Waits, Marked, Sent, OnTheWay
  <2>2. CASE CoreStep \/ PageStep
    BY <2>2, CoreKeeps, PageKeeps, MarkReadyKeeps, EmitQueuedKeeps, ReceiveRequestKeeps,
       ReceiveCancelKeeps DEF PageStep
  <2>3. ASSUME NEW r \in Commands,
               \/ Dial(r) \/ HangUp(r) \/ Monitor(r) \/ DeadlinePasses(r)
               \/ ThreadStep(r) \/ PassCheck(r) \/ Acknowledge(r)
        PROVE  CliInv'
    BY <2>3, ClientKeeps, QuietThreadKeeps, EnqueueKeeps, EmitRequestKeeps, UnqueueKeeps,
       EmitCancelKeeps, PassCheckKeeps, AcknowledgeKeeps DEF ThreadStep
  <2> QED
    BY <2>1, <2>2, <2>3 DEF CliNext
<1> QED
  BY <1>1, <1>2, PTL DEF CliSpec

(* No step but a check takes a command further on the page, and its signal is looked *)
(* at there.                                                                        *)
LEMMA GoesNoFurther ==
  ASSUME CliInv, [CliNext]_allCliVars, NEW r \in Commands, r \in seen.cancels
  PROVE  NoFurther(r)
<1>1. CliTyped /\ (ui.stage[r] # "none" => r \in ui.aborted)
  BY DEF CliInv, Followed, GivenUp
<1>2. CASE ui' = ui
  BY <1>2 DEF NoFurther
<1>3. CASE \E c \in Commands : PassCheck(c)
  <2> PICK c \in Commands : PassCheck(c)
    BY <1>3
  <2>1. c # r
    BY <1>1 DEF PassCheck, PassesCheck
  <2> QED
    BY <1>1, <2>1 DEF PassCheck, NoFurther, CliTyped, CliPages
<1>4. CASE \E c \in Commands : Acknowledge(c)
  BY <1>1, <1>4 DEF Acknowledge, NoFurther, CliTyped, CliPages
<1>5. CASE ListenForCancels \/ Listen \/ MarkReady
  BY <1>1, <1>5 DEF ListenForCancels, Listen, MarkReady, NoFurther, CliTyped, CliPages
<1>6. CASE StartCore \/ Reload
  BY <1>6, NoPageTyped DEF StartCore, Reload, NoFurther
<1>7. CASE ReceiveRequest \/ ReceiveCancel
  <2>1. \/ ui'.stage = ui.stage
        \/ \E c : ui' = [ui EXCEPT !.stage[c] = "asked"]
    BY <1>1, <1>7 DEF ReceiveRequest, ReceiveCancel, CliTyped, CliPages
  <2> QED
    BY <1>1, <2>1 DEF NoFurther, CliTyped, CliPages
<1> QED
  BY <1>2, <1>3, <1>4, <1>5, <1>6, <1>7
     DEF CliNext, CoreStep, PageStep, ThreadStep, StartServer, Close, ClearRequests, ClearQueue,
         EmitQueued, Dial, HangUp, Monitor, DeadlinePasses, Insert, Enqueue, EmitRequest, Wake,
         Remove, Unqueue, EmitCancel, Respond, allCliVars, cliVars

(* The page starts a command at most once and, once it was told that a command was   *)
(* given up, begins nothing more for it, for any number of commands, restarts of     *)
(* Core and reloads of the page, in whatever order the word to start and the word to *)
(* cancel were emitted (CliUiBridge.tsx, CliUiPending).                              *)
THEOREM CommandsRunAsAsked == CliSpec => RunsAsAsked
<1>1. CliInv /\ CliInv' /\ [CliNext]_allCliVars
        => [\A r \in Commands : /\ seen'.started[r] <= 1
                                /\ r \in seen.cancels => NoFurther(r)]_allCliVars
  <2> SUFFICES ASSUME CliInv, CliInv', [CliNext]_allCliVars, NEW r \in Commands
               PROVE  seen'.started[r] <= 1 /\ (r \in seen.cancels => NoFurther(r))
    OBVIOUS
  <2>1. seen'.started[r] <= 1
    BY DEF CliInv, Followed, SpokenOnce
  <2> QED
    BY <2>1, GoesNoFurther
<1> QED
  BY <1>1, CliInvAlways, PTL DEF CliSpec, RunsAsAsked

(* An answered command is in neither table of Core, so no later page is handed a    *)
(* command that nobody waits for (CliUiPending::remove).                            *)
THEOREM AnsweredIsForgotten == CliSpec => []NothingLeftBehind
<1>1. CliInv => NothingLeftBehind
  <2> SUFFICES ASSUME CliInv, NEW r \in Commands, thread[r].at \in {"writing", "done"}
               PROVE  r \notin requests /\ \A i \in DOMAIN queued : queued[i] # r
    BY DEF NothingLeftBehind
  <2>1. r \notin requests /\ ~Lists(queued, r) /\ DOMAIN queued = 1..Len(queued)
    BY DEF CliInv, CliTyped, Followed, Forgotten, Waits
  <2> QED
    BY <2>1 DEF Lists
<1> QED
  BY <1>1, CliInvAlways, PTL

(* ------------------------------------------------------------------ EventFeed  *)
Items == [id : Nat, mine : BOOLEAN]
Feeds == [sequence : Nat, items : Seq(Items), run : Nat]
Polls == [at : {"none", "asked", "answered"}, after : Nat, cursor : Nat,
          missed : BOOLEAN, events : SUBSET Nat]
Pages == [connected : BOOLEAN, run : Nat, cursor : Nat, resync : BOOLEAN, poll : Polls]

FeedTyped == feed \in Feeds /\ page \in Pages /\ unseen \subseteq Nat

(* Numbers are given out in order, and what is unseen and still in the buffer is    *)
(* for this page, so that the next answer holds it.                                 *)
Numbered ==
    /\ page.run <= feed.run
    /\ \A id \in unseen : id <= feed.sequence
    /\ \A j \in DOMAIN feed.items :
          /\ feed.items[j].id <= feed.sequence
          /\ feed.items[j].id \in unseen => feed.items[j].mine

(* The answer under way tells of everything that its cursor moves past.             *)
InSync == page.connected /\ page.run = feed.run
AnswerComplete ==
    InSync =>
        /\ page.cursor <= feed.sequence
        /\ page.poll.at # "none" => page.poll.after = page.cursor
        /\ page.poll.at = "answered" =>
              /\ page.poll.cursor <= feed.sequence
              /\ ~page.poll.missed =>
                    \A id \in unseen : id <= page.poll.cursor => id \in page.poll.events

FeedInv == FeedTyped /\ Numbered /\ AnswerComplete /\ NoSilentGap

-----------------------------------------------------------------------------------
LEMMA ItemTyped ==
    ASSUME NEW items \in Seq(Items), NEW j \in DOMAIN items
    PROVE  items[j].id \in Nat /\ items[j].mine \in BOOLEAN
<1>1. items[j] \in Items
  OBVIOUS
<1> QED
  BY <1>1 DEF Items

(* The buffer keeps the last of its items, and the new one.                         *)
LEMMA Buffered ==
    ASSUME NEW items \in Seq(Items), NEW item \in Items
    PROVE  /\ LastOf(Append(items, item)) \in Seq(Items)
           /\ \A j \in DOMAIN LastOf(Append(items, item)) :
                 \/ LastOf(Append(items, item))[j] = item
                 \/ \E i \in DOMAIN items : items[i] = LastOf(Append(items, item))[j]
<1> DEFINE all == Append(items, item)
           first == IF Len(all) > MaxEvents THEN 2 ELSE 1
<1>1. all \in Seq(Items) /\ Len(all) = Len(items) + 1
  OBVIOUS
<1>2. first \in {1, 2}
  OBVIOUS
<1> HIDE DEF first
<1>3. \A j \in 1 .. Len(all) : all[j] = item \/ \E i \in DOMAIN items : items[i] = all[j]
  OBVIOUS
<1> HIDE DEF all
<1>4. /\ SubSeq(all, first, Len(all)) \in Seq(Items)
      /\ \A j \in DOMAIN SubSeq(all, first, Len(all)) :
            \E i \in 1 .. Len(all) : SubSeq(all, first, Len(all))[j] = all[i]
  <2>1. Len(all) \in Nat
    BY <1>1
  <2>2. CASE first = 1
    BY <1>1, <2>1, <2>2
  <2>3. CASE first = 2
    BY <1>1, <2>1, <2>3
  <2>4. QED
    BY <1>2, <2>2, <2>3
<1>5. LastOf(all) = SubSeq(all, first, Len(all))
  BY DEF LastOf, first
<1>6. \A j \in DOMAIN LastOf(all) :
         LastOf(all)[j] = item \/ \E i \in DOMAIN items : items[i] = LastOf(all)[j]
  BY <1>3, <1>4, <1>5
<1>7. LastOf(all) \in Seq(Items)
  BY <1>4, <1>5
<1> QED
  BY <1>6, <1>7 DEF all

(* An event is behind no cursor, and no answer was to tell of it.                   *)
LEMMA PublishKeeps ==
    ASSUME FeedInv, NEW mine \in BOOLEAN, Publish(mine)
    PROVE  FeedInv'
<1> DEFINE new == [id |-> feed.sequence + 1, mine |-> mine]
<1>1. feed \in Feeds /\ page \in Pages /\ unseen \subseteq Nat /\ page' = page
  BY DEF FeedInv, FeedTyped, Publish
<1>2. new \in Items /\ feed.items \in Seq(Items)
  BY <1>1 DEF Feeds, Items
<1>3. /\ feed'.sequence = feed.sequence + 1 /\ feed'.run = feed.run
      /\ feed'.items = LastOf(Append(feed.items, new))
  BY <1>1 DEF Publish, Pushed, Feeds
<1>4. feed' \in Feeds
  <2>1. LastOf(Append(feed.items, new)) \in Seq(Items)
    <3> HIDE DEF new
    <3>1. QED
      BY <1>2, Buffered
  <2>2. feed' = [feed EXCEPT !.sequence = feed.sequence + 1,
                             !.items = LastOf(Append(feed.items, new))]
    BY <1>1 DEF Publish, Pushed
  <2>3. feed.sequence + 1 \in Nat
    BY <1>1 DEF Feeds
  <2> HIDE DEF new
  <2>4. QED
    BY <1>1, <2>1, <2>2, <2>3 DEF Feeds
<1>a. /\ feed.sequence \in Nat /\ page.cursor \in Nat /\ page.poll.cursor \in Nat
      /\ \A id \in unseen : id \in Nat /\ id <= feed.sequence
  BY <1>1 DEF FeedInv, Numbered, Feeds, Pages, Polls
<1>5. unseen' = IF mine THEN unseen \cup {feed.sequence + 1} ELSE unseen
  BY DEF Publish
<1>b. unseen' \subseteq unseen \cup {feed.sequence + 1}
  BY <1>5
<1>6. FeedTyped'
  BY <1>1, <1>4, <1>a, <1>b DEF FeedTyped
<1>7. Numbered'
  <2>1. \A id \in unseen' : id <= feed'.sequence
    BY <1>3, <1>a, <1>b
  <2>2. ASSUME NEW j \in DOMAIN feed'.items
        PROVE  /\ feed'.items[j].id <= feed'.sequence
               /\ feed'.items[j].id \in unseen' => feed'.items[j].mine
    <3>1. feed'.items[j] = new \/ \E i \in DOMAIN feed.items : feed.items[i] = feed'.items[j]
      <4> HIDE DEF new
      <4>1. \A i \in DOMAIN LastOf(Append(feed.items, new)) :
               \/ LastOf(Append(feed.items, new))[i] = new
               \/ \E k \in DOMAIN feed.items :
                     feed.items[k] = LastOf(Append(feed.items, new))[i]
        BY <1>2, Buffered
      <4>2. QED
        BY <1>3, <2>2, <4>1
    <3>2. CASE feed'.items[j] = new
      <4>1. new.id = feed.sequence + 1 /\ new.mine = mine
        OBVIOUS
      <4>2. feed.sequence + 1 \in unseen' => mine
        BY <1>1, <1>5 DEF FeedInv, Numbered, Feeds
      <4>3. QED
        BY <1>1, <1>3, <3>2, <4>1, <4>2 DEF Feeds
    <3>3. CASE \E i \in DOMAIN feed.items : feed.items[i] = feed'.items[j]
      <4>1. PICK i \in DOMAIN feed.items : feed.items[i] = feed'.items[j]
        BY <3>3
      <4>2. feed.items[i].id \in Nat /\ feed.items[i].id <= feed.sequence
        BY <1>2, ItemTyped DEF FeedInv, Numbered
      <4>3. feed.items[i].id \in unseen' => feed.items[i].id \in unseen
        BY <1>1, <1>5, <4>2 DEF Feeds
      <4>4. QED
        BY <1>1, <1>3, <4>1, <4>2, <4>3 DEF FeedInv, Numbered, Feeds
    <3>4. QED
      BY <3>1, <3>2, <3>3
  <2>3. QED
    BY <1>1, <1>3, <2>1, <2>2 DEF FeedInv, Numbered
<1>8. AnswerComplete'
  <2>1. ASSUME InSync, page.poll.at = "answered", ~page.poll.missed, NEW id \in unseen',
               id <= page.poll.cursor
        PROVE  id \in page.poll.events
    <3>1. page.poll.cursor <= feed.sequence
      BY <2>1 DEF FeedInv, AnswerComplete
    <3>2. id # feed.sequence + 1
      BY <1>a, <2>1, <3>1
    <3>3. id \in unseen
      BY <1>5, <2>1, <3>2
    <3>4. QED
      BY <2>1, <3>3 DEF FeedInv, AnswerComplete
  <2>2. InSync' <=> InSync
    BY <1>1, <1>3 DEF InSync
  <2>3. InSync => page.cursor <= feed'.sequence
    BY <1>a, <1>3 DEF FeedInv, AnswerComplete
  <2>4. InSync /\ page.poll.at = "answered" => page.poll.cursor <= feed'.sequence
    BY <1>a, <1>3 DEF FeedInv, AnswerComplete
  <2>5. QED
    BY <1>1, <2>1, <2>2, <2>3, <2>4 DEF FeedInv, AnswerComplete
<1>9. NoSilentGap'
  <2>1. ASSUME InSync, NEW id \in unseen' PROVE id > page.cursor
    <3>1. page.cursor <= feed.sequence
      BY <2>1 DEF FeedInv, AnswerComplete
    <3>2. CASE id \in unseen
      BY <2>1, <3>2 DEF FeedInv, NoSilentGap, InSync
    <3>3. CASE id = feed.sequence + 1
      BY <1>a, <3>1, <3>3
    <3>4. QED
      BY <1>5, <2>1, <3>2, <3>3
  <2>2. QED
    BY <1>1, <1>3, <2>1 DEF NoSilentGap, InSync
<1> QED
  BY <1>6, <1>7, <1>8, <1>9 DEF FeedInv

LEMMA PublishLongKeeps == ASSUME FeedInv, PublishLong PROVE FeedInv'
<1>1. feed \in Feeds /\ page \in Pages /\ unseen \subseteq Nat /\ page' = page
  BY DEF FeedInv, FeedTyped, PublishLong
<1>2. /\ feed'.sequence = feed.sequence + 1 /\ feed'.run = feed.run
      /\ feed'.items = feed.items /\ feed' \in Feeds
      /\ unseen' = unseen \cup {feed.sequence + 1}
  BY <1>1 DEF PublishLong, Overlong, Feeds
<1>a. /\ feed.sequence \in Nat /\ page.cursor \in Nat /\ page.poll.cursor \in Nat
      /\ \A id \in unseen : id \in Nat /\ id <= feed.sequence
  BY <1>1 DEF FeedInv, Numbered, Feeds, Pages, Polls
<1>3. FeedTyped'
  BY <1>1, <1>2 DEF FeedTyped, Feeds
<1>4. Numbered'
  <2>1. \A id \in unseen' : id <= feed'.sequence
    BY <1>1, <1>2 DEF FeedInv, Numbered, Feeds
  <2>2. ASSUME NEW j \in DOMAIN feed.items
        PROVE  /\ feed.items[j].id <= feed.sequence + 1
               /\ feed.items[j].id \in unseen' => feed.items[j].mine
    <3>1. feed.items[j].id \in Nat
      BY <1>1, ItemTyped DEF Feeds
    <3>2. QED
      BY <1>1, <1>2, <3>1 DEF FeedInv, Numbered, Feeds
  <2>3. QED
    BY <1>1, <1>2, <2>1, <2>2 DEF FeedInv, Numbered
<1>5. AnswerComplete'
  <2>1. ASSUME InSync, page.poll.at = "answered", ~page.poll.missed, NEW id \in unseen',
               id <= page.poll.cursor
        PROVE  id \in page.poll.events
    <3>1. page.poll.cursor <= feed.sequence
      BY <2>1 DEF FeedInv, AnswerComplete
    <3>2. id # feed.sequence + 1
      BY <1>a, <2>1, <3>1
    <3>3. id \in unseen
      BY <1>2, <2>1, <3>2
    <3>4. QED
      BY <2>1, <3>3 DEF FeedInv, AnswerComplete
  <2>2. InSync' <=> InSync
    BY <1>1, <1>2 DEF InSync
  <2>3. InSync => page.cursor <= feed'.sequence
    BY <1>a, <1>2 DEF FeedInv, AnswerComplete
  <2>4. InSync /\ page.poll.at = "answered" => page.poll.cursor <= feed'.sequence
    BY <1>a, <1>2 DEF FeedInv, AnswerComplete
  <2>5. QED
    BY <1>1, <2>1, <2>2, <2>3, <2>4 DEF FeedInv, AnswerComplete
<1>6. NoSilentGap'
  <2>1. ASSUME InSync, NEW id \in unseen' PROVE id > page.cursor
    <3>1. page.cursor <= feed.sequence
      BY <2>1 DEF FeedInv, AnswerComplete
    <3>2. CASE id \in unseen
      BY <2>1, <3>2 DEF FeedInv, NoSilentGap, InSync
    <3>3. CASE id = feed.sequence + 1
      BY <1>a, <3>1, <3>3
    <3>4. QED
      BY <1>2, <2>1, <3>2, <3>3
  <2>2. QED
    BY <1>1, <1>2, <2>1 DEF NoSilentGap, InSync
<1> QED
  BY <1>3, <1>4, <1>5, <1>6 DEF FeedInv

(* Of a gap the answer says so; without one it holds what is unseen.                *)
LEMMA ServeKeeps == ASSUME FeedInv, Serve PROVE FeedInv'
<1>1. feed \in Feeds /\ page \in Pages /\ unseen \subseteq Nat
      /\ feed' = feed /\ unseen' = unseen /\ page.poll.at = "asked"
  BY DEF FeedInv, FeedTyped, Serve
<1> DEFINE after == page.poll.after
<1>2. feed.items \in Seq(Items) /\ feed.sequence \in Nat /\ after \in Nat
  BY <1>1 DEF Feeds, Pages, Polls
<1>3. Since(after) \subseteq Nat /\ Missed(after) \in BOOLEAN
  <2>1. \A j \in DOMAIN feed.items : feed.items[j].id \in Nat
    BY <1>2, ItemTyped
  <2>2. QED
    BY <2>1 DEF Since, Missed
<1>4. /\ page' = [page EXCEPT !.poll = [at |-> "answered", after |-> after,
                      cursor |-> feed.sequence, missed |-> Missed(after), events |-> Since(after)]]
  BY DEF Serve
<1>5. /\ page' \in Pages
      /\ page'.connected = page.connected /\ page'.run = page.run /\ page'.cursor = page.cursor
      /\ page'.poll.after = after /\ page'.poll.cursor = feed.sequence
      /\ page'.poll.missed = Missed(after) /\ page'.poll.events = Since(after)
  <2>1. [at |-> "answered", after |-> after, cursor |-> feed.sequence,
         missed |-> Missed(after), events |-> Since(after)] \in Polls
    BY <1>2, <1>3 DEF Polls
  <2> HIDE DEF after
  <2>2. QED
    BY <1>1, <1>4, <2>1 DEF Pages
<1>6. ASSUME InSync, ~Missed(after), NEW id \in unseen
      PROVE  id \in Since(after)
  <2>1. id > after /\ id <= feed.sequence /\ id \in Nat
    BY <1>1, <1>6 DEF FeedInv, NoSilentGap, Numbered, AnswerComplete, InSync
  <2>2. id \in after + 1 .. feed.sequence
    BY <1>2, <2>1
  <2>3. PICK j \in DOMAIN feed.items : feed.items[j].id = id
    BY <1>6, <2>2 DEF Missed
  <2>4. feed.items[j].mine
    BY <1>6, <2>3 DEF FeedInv, Numbered
  <2>5. QED
    BY <2>1, <2>3, <2>4 DEF Since
<1>7. FeedTyped' /\ Numbered' /\ NoSilentGap'
  BY <1>1, <1>5 DEF FeedInv, FeedTyped, Numbered, NoSilentGap
<1>8. AnswerComplete'
  <2>1. InSync' => InSync
    BY <1>1, <1>5 DEF InSync
  <2>2. InSync => after = page.cursor /\ page.cursor <= feed.sequence
    BY <1>1 DEF FeedInv, AnswerComplete
  <2> HIDE DEF after
  <2>3. QED
    BY <1>1, <1>2, <1>5, <1>6, <2>1, <2>2 DEF AnswerComplete
<1> QED
  BY <1>7, <1>8 DEF FeedInv

(* The cursor moves past what the page was told.                                    *)
LEMMA ReceiveKeeps == ASSUME FeedInv, Receive PROVE FeedInv'
<1>1. feed \in Feeds /\ page \in Pages /\ unseen \subseteq Nat /\ feed' = feed
      /\ page.poll.at = "answered"
  BY DEF FeedInv, FeedTyped, Receive
<1>2. /\ page' \in Pages /\ page'.connected = page.connected /\ page'.run = page.run
      /\ page'.cursor = page.poll.cursor /\ page'.poll.at = "none"
  BY <1>1 DEF Receive, Pages, Polls, NoPoll
<1>3. unseen' \subseteq unseen
  BY DEF Receive
<1>4. FeedTyped' /\ Numbered'
  BY <1>1, <1>2, <1>3 DEF FeedInv, FeedTyped, Numbered
<1>5. AnswerComplete'
  BY <1>1, <1>2 DEF FeedInv, AnswerComplete, InSync
<1>6. ASSUME InSync, NEW id \in unseen' PROVE id > page.poll.cursor
  <2>1. CASE page.poll.missed \/ page.resync
    BY <1>6, <2>1 DEF Receive
  <2>2. CASE ~(page.poll.missed \/ page.resync)
    <3>1. id \in unseen \ page.poll.events
      BY <1>6, <2>2 DEF Receive
    <3>2. ~(id <= page.poll.cursor)
      BY <1>1, <1>6, <2>2, <3>1 DEF FeedInv, AnswerComplete
    <3>3. id \in Nat /\ page.poll.cursor \in Nat
      BY <1>1, <3>1 DEF Pages, Polls
    <3>4. QED
      BY <3>2, <3>3
  <2>3. QED
    BY <2>1, <2>2
<1>7. NoSilentGap'
  BY <1>1, <1>2, <1>6 DEF NoSilentGap, InSync
<1> QED
  BY <1>4, <1>5, <1>7 DEF FeedInv

(* A new run is not the one the page is of; connecting begins at its cursor.        *)
LEMMA ConnectionKeeps ==
    ASSUME FeedInv, StartSharing \/ Connect \/ Poll \/ LosePoll
    PROVE  FeedInv'
<1>1. feed \in Feeds /\ page \in Pages /\ unseen \subseteq Nat
  BY DEF FeedInv, FeedTyped
<1>2. CASE StartSharing
  <2>1. /\ feed'.run = feed.run + 1 /\ feed'.items = <<>> /\ feed'.sequence = 0
        /\ page' = page /\ unseen' = {} /\ page'.run # feed'.run
    BY <1>1, <1>2 DEF StartSharing, FeedInv, Numbered, Feeds, Pages
  <2>2. feed' \in Feeds
    BY <1>1, <1>2 DEF StartSharing, Feeds
  <2>3. page'.run <= feed'.run
    BY <1>1, <2>1 DEF FeedInv, Numbered, Feeds, Pages
  <2>4. QED
    BY <1>1, <2>1, <2>2, <2>3
       DEF FeedInv, FeedTyped, Numbered, AnswerComplete, InSync, NoSilentGap
<1>3. CASE Connect
  <2>1. /\ feed' = feed /\ unseen' = {} /\ page' \in Pages
        /\ page'.run = feed.run /\ page'.cursor = feed.sequence /\ page'.poll.at = "none"
    BY <1>1, <1>3 DEF Connect, Feeds, Pages, Polls, NoPoll
  <2>2. QED
    BY <1>1, <2>1 DEF FeedInv, FeedTyped, Numbered, AnswerComplete, InSync, NoSilentGap, Feeds
<1>4. CASE Poll
  <2>1. /\ feed' = feed /\ unseen' = unseen /\ page' \in Pages
        /\ page'.connected = page.connected /\ page'.run = page.run
        /\ page'.cursor = page.cursor /\ page'.poll.at = "asked"
        /\ page'.poll.after = page.cursor
    BY <1>1, <1>4 DEF Poll, Pages, Polls, NoPoll
  <2>2. QED
    BY <1>1, <2>1 DEF FeedInv, FeedTyped, Numbered, AnswerComplete, InSync, NoSilentGap
<1>5. CASE LosePoll
  <2>1. /\ feed' = feed /\ unseen' = unseen /\ page' \in Pages
        /\ page'.connected = page.connected /\ page'.run = page.run
        /\ page'.cursor = page.cursor /\ page'.poll.at = "none"
    BY <1>1, <1>5 DEF LosePoll, Pages, Polls, NoPoll
  <2>2. QED
    BY <1>1, <2>1 DEF FeedInv, FeedTyped, Numbered, AnswerComplete, InSync, NoSilentGap
<1> QED
  BY <1>2, <1>3, <1>4, <1>5

-----------------------------------------------------------------------------------
(* The page never moves its cursor past an event it was not told of, for any length *)
(* of the buffer and however often it loses an answer, connects again or sharing is *)
(* restarted (web_access.rs, transport.ts).                                         *)
THEOREM GapsAreTold == FeedSpec => []NoSilentGap
<1>1. FeedInit => FeedInv
  BY DEF FeedInit, FeedInv, FeedTyped, Numbered, AnswerComplete, InSync, NoSilentGap, Feeds, Pages,
         Polls, NoPoll, Items
<1>2. FeedInv /\ [FeedNext]_allFeedVars => FeedInv'
  <2> SUFFICES ASSUME FeedInv, [FeedNext]_allFeedVars PROVE FeedInv'
    OBVIOUS
  <2>1. CASE UNCHANGED allFeedVars
    BY <2>1 DEF allFeedVars, feedVars, FeedInv, FeedTyped, Numbered, AnswerComplete, InSync,
                NoSilentGap
  <2>2. CASE FeedNext
    BY <2>2, PublishKeeps, PublishLongKeeps, ServeKeeps, ReceiveKeeps, ConnectionKeeps
       DEF FeedNext
  <2>3. QED
    BY <2>1, <2>2
<1>3. FeedInv => NoSilentGap
  BY DEF FeedInv
<1> QED
  BY <1>1, <1>2, <1>3, PTL DEF FeedSpec

(* ------------------------------------------------------------ NetworkSettings  *)
AddressNames == Addresses \cup {NoAddress}
Modes == {"system", "custom", "missing", "corrupt"}
Settings == [mode : Modes, address : AddressNames, credentials : AddressNames, bound : AddressNames]
Proxies == [mode : Modes, address : AddressNames, credentials : AddressNames]
Stages == {"idle", "writing", "keeping", "swapping", "written", "clearing"}
Updates == Checks \cup {NoUpdate}

NetTyped ==
    /\ file \in [path : Settings, backup : Settings]
    /\ memory \in Settings /\ proxy \in Proxies
    /\ writer \in [at : Stages, new : Settings]
    /\ cache \in [update : Updates, generation : Nat]
    /\ check \in [Checks -> [at : {"new", "begun", "asking", "done"}, generation : Nat,
                             proxy : Proxies]]
    /\ install \in [at : {"idle", "installing"}, update : Updates, generation : Nat]
    /\ answered \in Seq(Updates)

-----------------------------------------------------------------------------------
(* What the file and its backup say at each stage of a change. A backup counts      *)
(* where the file is missing, and then it is what is in use.                        *)
FileFollows ==
    /\ Readable(memory) /\ Readable(writer.new)
    /\ Readable(file.path) =>
          file.path = IF writer.at = "written" THEN writer.new ELSE memory
    /\ file.path = Missing =>
          /\ Readable(file.backup) => file.backup = memory
          /\ file.backup = Missing => memory = Fresh
          /\ writer.at # "written"
    /\ writer.at = "swapping" => file.path = Missing

(* Credentials are bound to the address they were entered for, wherever they are.   *)
Bound(s) == s.credentials \in {NoAddress, s.bound}
CredentialsBound ==
    /\ Bound(memory) /\ Bound(writer.new) /\ Bound(file.path) /\ Bound(file.backup)
    /\ proxy.credentials \in {NoAddress, proxy.address}

FileInv == FileFollows /\ CredentialsBound

-----------------------------------------------------------------------------------
(* A check that would still count asks through the proxy in use, except between the *)
(* two steps of a change; an installation that may put its update back took what    *)
(* the latest answer had found.                                                     *)
Through(u) == writer.at # "clearing" => check[u].proxy = proxy
Latest(u) == answered # <<>> /\ answered[Len(answered)] = u
CheckedAs(c) ==
    /\ check[c].at \in {"begun", "asking"} => check[c].generation <= cache.generation
    /\ check[c].at = "asking" /\ Current(c) => Through(c)
InstalledAs ==
    install.at = "installing" =>
        /\ install.update \in Checks /\ check[install.update].at = "done"
        /\ install.generation <= cache.generation
        /\ install.generation = cache.generation =>
              Through(install.update) /\ Latest(install.update)
FoundAs ==
    cache.update # NoUpdate =>
        /\ check[cache.update].at = "done"
        /\ Through(cache.update) /\ Latest(cache.update)
UpdateInv == (\A c \in Checks : CheckedAs(c)) /\ InstalledAs /\ FoundAs

NetInv == NetTyped /\ FileFollows /\ CredentialsBound /\ UpdateInv

-----------------------------------------------------------------------------------
LEMMA SettingsTyped ==
    /\ Fresh \in Settings /\ Missing \in Settings /\ Corrupt \in Settings
    /\ Readable(Fresh) /\ ~Readable(Missing) /\ ~Readable(Corrupt) /\ Missing # Corrupt
    /\ Bound(Fresh) /\ Bound(Missing) /\ Bound(Corrupt)
    /\ Idle.at = "idle" /\ Idle.new = Fresh
    /\ Idle \in [at : Stages, new : Settings]
BY DEF Fresh, Missing, Corrupt, Settings, Modes, AddressNames, Readable, Bound, Idle, Stages

(* Credentials go only to the address that they are bound to.                       *)
LEMMA ConfigurationBound ==
    ASSUME NEW s \in Settings, Bound(s)
    PROVE  /\ Configuration(s) \in Proxies
           /\ Configuration(s).credentials \in {NoAddress, Configuration(s).address}
BY DEF Settings, Bound, Configuration, Proxies, CredentialsForSettings, AddressNames

(* What a start would load, and what it leaves on the disk.                         *)
LEMMA FoundReadable ==
    ASSUME NetTyped, CredentialsBound
    PROVE  /\ Found \in Settings /\ Readable(Found) /\ Bound(Found)
           /\ Loaded \subseteq [path : Settings, backup : Settings]
<1>1. file.path \in Settings /\ file.backup \in Settings
  BY DEF NetTyped
<1>2. Found \in {file.path, file.backup, Fresh} /\ Readable(Found)
  BY SettingsTyped DEF Found
<1>3. Found \in Settings /\ Bound(Found)
  BY <1>1, <1>2, SettingsTyped DEF CredentialsBound
<1>4. Loaded \subseteq [path : Settings, backup : Settings]
  BY <1>3, SettingsTyped DEF Loaded, Restored, NetTyped
<1> QED
  BY <1>2, <1>3, <1>4

-----------------------------------------------------------------------------------
(* The steps of a change and of the disk.                                           *)

(* As long as the proxy in use stays, or while the change is not yet told to the    *)
(* cache of updates, what the checks know stays as good as it was.                  *)
LEMMA UpdatesUntouched ==
    ASSUME UpdateInv, cache' = cache, check' = check, install' = install, answered' = answered,
           \/ writer'.at = "clearing"
           \/ proxy' = proxy /\ (writer'.at # "clearing" => writer.at # "clearing")
    PROVE  UpdateInv'
<1>1. \A u : Through(u) => Through(u)'
  BY DEF Through
<1>2. \A u : Latest(u) <=> Latest(u)'
  BY DEF Latest
<1> QED
  BY <1>1, <1>2 DEF UpdateInv, CheckedAs, InstalledAs, FoundAs, Current

LEMMA DamageKeeps == ASSUME NetInv, Damage PROVE NetInv'
<1>1. /\ file.path \in Settings /\ file.backup \in Settings /\ Readable(file.path)
      /\ file' = [path |-> Corrupt, backup |-> file.backup]
  BY DEF NetInv, NetTyped, Damage
<1>2. UpdateInv'
  BY UpdatesUntouched DEF NetInv, Damage
<1>3. NetTyped'
  BY <1>1, SettingsTyped DEF NetInv, NetTyped, Damage
<1>4. FileFollows' /\ CredentialsBound'
  <2>1. file'.path = Corrupt /\ file'.backup = file.backup
    BY <1>1
  <2>2. memory' = memory /\ writer' = writer /\ proxy' = proxy /\ writer.at # "swapping"
    BY <1>1, SettingsTyped DEF NetInv, FileFollows, Damage
  <2>3. QED
    BY <2>1, <2>2, SettingsTyped DEF NetInv, FileFollows, CredentialsBound, Readable, Bound
<1> QED
  BY <1>2, <1>3, <1>4 DEF NetInv

(* What is written is readable and binds its credentials.                           *)
LEMMA UpdateKeeps == ASSUME NetInv, Update PROVE NetInv'
<1>1. PICK s \in Validated :
         \E new \in {Kept(s.mode, s.address), Cleared(s.mode, s.address)}
                    \cup {Entered(a) : a \in {s.address} \ {NoAddress}} :
            writer' = [at |-> "writing", new |-> new]
  BY DEF Update
<1>2. PICK new \in {Kept(s.mode, s.address), Cleared(s.mode, s.address)}
                   \cup {Entered(a) : a \in {s.address} \ {NoAddress}} :
         writer' = [at |-> "writing", new |-> new]
  BY <1>1
<1>3. s.mode \in {"custom", "system"} /\ s.address \in AddressNames
  BY DEF Validated, AddressNames
<1>4. memory \in Settings /\ Bound(memory)
  BY DEF NetInv, NetTyped, CredentialsBound
<1>5. new \in Settings /\ Readable(new) /\ Bound(new)
  <2>1. CASE new = Kept(s.mode, s.address)
    BY <1>3, <1>4, <2>1
       DEF Kept, Settings, Modes, AddressNames, Bound, Readable, Missing, Corrupt, Fresh
  <2>2. CASE new = Cleared(s.mode, s.address)
    BY <1>3, <2>2 DEF Cleared, Settings, Modes, AddressNames, Bound, Readable, Missing, Corrupt, Fresh
  <2>3. CASE new = Entered(s.address)
    BY <1>3, <2>3 DEF Entered, Settings, Modes, AddressNames, Bound, Readable, Missing, Corrupt, Fresh
  <2>4. QED
    BY <1>2, <2>1, <2>2, <2>3
<1>6. /\ file' = file /\ memory' = memory /\ proxy' = proxy /\ writer.at = "idle"
      /\ cache' = cache /\ check' = check /\ install' = install /\ answered' = answered
  BY DEF Update
<1>7. writer'.at = "writing" /\ writer'.new = new
      /\ writer' \in [at : Stages, new : Settings]
  BY <1>2, <1>5 DEF Stages
<1>8. UpdateInv'
  BY <1>6, <1>7, UpdatesUntouched DEF NetInv
<1> QED
  BY <1>5, <1>6, <1>7, <1>8 DEF NetInv, NetTyped, FileFollows, CredentialsBound, Readable, Bound

LEMMA DropBackupKeeps == ASSUME NetInv, DropBackup PROVE NetInv'
<1>1. /\ memory' = memory /\ proxy' = proxy /\ writer.at = "writing"
      /\ cache' = cache /\ check' = check /\ install' = install /\ answered' = answered
      /\ file \in [path : Settings, backup : Settings]
      /\ writer \in [at : Stages, new : Settings]
  BY DEF NetInv, NetTyped, DropBackup
<1>2. UpdateInv'
  BY <1>1, UpdatesUntouched DEF NetInv
<1>3. \/ /\ writer' = [writer EXCEPT !.at = "keeping"]
         /\ file' = IF file.path = Missing THEN file ELSE [file EXCEPT !.backup = Missing]
      \/ writer' = Idle /\ file' = file
  BY DEF DropBackup
<1>4. \/ writer'.at = "keeping" /\ writer'.new = writer.new
      \/ writer'.at = "idle" /\ writer'.new = Fresh
  BY <1>1, <1>3, SettingsTyped
<1>5. /\ writer' \in [at : Stages, new : Settings]
      /\ file' \in [path : Settings, backup : Settings]
  BY <1>1, <1>3, SettingsTyped DEF Stages
<1>6. \/ file' = file
      \/ file.path # Missing /\ file'.path = file.path /\ file'.backup = Missing
  BY <1>1, <1>3
<1>7. NetTyped'
  BY <1>1, <1>5 DEF NetInv, NetTyped
<1>8. FileFollows'
  BY <1>1, <1>4, <1>6, SettingsTyped DEF NetInv, FileFollows, Readable
<1>9. CredentialsBound'
  BY <1>1, <1>4, <1>6, SettingsTyped DEF NetInv, CredentialsBound, Bound
<1> QED
  BY <1>2, <1>7, <1>8, <1>9 DEF NetInv

LEMMA KeepBackupKeeps == ASSUME NetInv, KeepBackup PROVE NetInv'
<1>1. /\ memory' = memory /\ proxy' = proxy /\ writer.at = "keeping"
      /\ cache' = cache /\ check' = check /\ install' = install /\ answered' = answered
      /\ file \in [path : Settings, backup : Settings]
      /\ writer \in [at : Stages, new : Settings]
  BY DEF NetInv, NetTyped, KeepBackup
<1>2. UpdateInv'
  BY <1>1, UpdatesUntouched DEF NetInv
<1>3. \/ writer' = [writer EXCEPT !.at = "swapping"] /\ file' = IF file.path = Missing THEN file ELSE Aside
      \/ writer' = Idle /\ file' = file
  BY DEF KeepBackup
<1>4. \/ writer'.at = "swapping" /\ writer'.new = writer.new
      \/ writer'.at = "idle" /\ writer'.new = Fresh
  BY <1>1, <1>3, SettingsTyped
<1>5. writer' \in [at : Stages, new : Settings]
  BY <1>1, <1>3, SettingsTyped DEF Stages
<1>6. \/ file' = file /\ (writer'.at = "swapping" => file.path = Missing)
      \/ file.path # Missing /\ file'.path = Missing /\ file'.backup = file.path
  BY <1>1, <1>3, SettingsTyped DEF Aside
<1>7. file' \in [path : Settings, backup : Settings]
  BY <1>1, <1>3, SettingsTyped DEF Aside
<1>8. NetTyped'
  BY <1>1, <1>5, <1>7 DEF NetInv, NetTyped
<1>9. FileFollows'
  <2> USE DEF Readable
  <2>1. CASE file' = file
    BY <1>1, <1>4, <1>6, <2>1, SettingsTyped DEF NetInv, FileFollows
  <2>2. CASE file.path # Missing /\ file'.path = Missing /\ file'.backup = file.path
    BY <1>1, <1>4, <2>2, SettingsTyped DEF NetInv, FileFollows
  <2>3. QED
    BY <1>6, <2>1, <2>2
<1>10. CredentialsBound'
  BY <1>1, <1>4, <1>6, SettingsTyped DEF NetInv, CredentialsBound, Bound
<1> QED
  BY <1>2, <1>8, <1>9, <1>10 DEF NetInv

LEMMA SwapKeeps == ASSUME NetInv, Swap PROVE NetInv'
<1>1. /\ memory' = memory /\ proxy' = proxy /\ writer.at = "swapping"
      /\ cache' = cache /\ check' = check /\ install' = install /\ answered' = answered
      /\ file \in [path : Settings, backup : Settings]
      /\ writer \in [at : Stages, new : Settings]
  BY DEF NetInv, NetTyped, Swap
<1>2. file.path = Missing
  BY <1>1 DEF NetInv, FileFollows
<1>3. \/ writer' = [writer EXCEPT !.at = "written"] /\ file' = [file EXCEPT !.path = writer.new]
      \/ writer' = Idle /\ file' \in {file, [path |-> file.backup, backup |-> Missing]}
  BY DEF Swap
<1>4. NetTyped'
  BY <1>1, <1>3, SettingsTyped DEF NetInv, NetTyped, Stages
<1>5. UpdateInv'
  <2>1. writer'.at \in {"written", "idle"}
    BY <1>1, <1>3, SettingsTyped
  <2>2. QED
    BY <1>1, <2>1, UpdatesUntouched DEF NetInv
<1>6. CASE writer' = [writer EXCEPT !.at = "written"] /\ file' = [file EXCEPT !.path = writer.new]
  <2>1. /\ writer'.at = "written" /\ writer'.new = writer.new
        /\ file'.path = writer.new /\ file'.backup = file.backup
    BY <1>1, <1>6
  <2>2. QED
    BY <1>1, <1>4, <1>5, <2>1, SettingsTyped
       DEF NetInv, FileFollows, CredentialsBound, Readable, Bound
<1>7. CASE writer' = Idle /\ file' \in {file, [path |-> file.backup, backup |-> Missing]}
  <2>1. /\ writer'.at = "idle" /\ writer'.new = Fresh
        /\ \/ file' = file
           \/ file'.path = file.backup /\ file'.backup = Missing
    BY <1>7, SettingsTyped
  <2>2. QED
    BY <1>1, <1>2, <1>4, <1>5, <2>1, SettingsTyped
       DEF NetInv, FileFollows, CredentialsBound, Readable, Bound
<1> QED
  BY <1>3, <1>6, <1>7

(* Clients and memory take what was written; a backup that stays says nothing more. *)
LEMMA CommitKeeps == ASSUME NetInv, Commit PROVE NetInv'
<1>1. /\ memory' = writer.new /\ proxy' = Configuration(writer.new) /\ writer.at = "written"
      /\ cache' = cache /\ check' = check /\ install' = install /\ answered' = answered
      /\ file \in [path : Settings, backup : Settings]
      /\ writer \in [at : Stages, new : Settings]
      /\ writer' = [writer EXCEPT !.at = "clearing"]
      /\ file' \in {file, [file EXCEPT !.backup = Missing]}
  BY DEF NetInv, NetTyped, Commit
<1>2. writer'.at = "clearing" /\ writer'.new = writer.new
      /\ writer' \in [at : Stages, new : Settings]
  BY <1>1 DEF Stages
<1>3. /\ file'.path = file.path /\ file'.backup \in {file.backup, Missing}
      /\ file' \in [path : Settings, backup : Settings]
  BY <1>1, SettingsTyped
<1>4. proxy' \in Proxies /\ proxy'.credentials \in {NoAddress, proxy'.address}
  BY <1>1, ConfigurationBound DEF NetInv, CredentialsBound
<1>5. UpdateInv'
  BY <1>1, <1>2, UpdatesUntouched DEF NetInv
<1>6. NetTyped'
  BY <1>1, <1>2, <1>3, <1>4 DEF NetInv, NetTyped
<1> QED
  BY <1>1, <1>2, <1>3, <1>4, <1>5, <1>6, SettingsTyped
     DEF NetInv, FileFollows, CredentialsBound, Readable, Bound

-----------------------------------------------------------------------------------
(* The cache of updates.                                                            *)

LEMMA ClearUpdatesKeeps == ASSUME NetInv, ClearUpdates PROVE NetInv'
<1>1. /\ memory' = memory /\ proxy' = proxy /\ writer.at = "clearing" /\ file' = file
      /\ check' = check /\ install' = install /\ answered' = <<>> /\ writer' = Idle
      /\ cache' = [update |-> NoUpdate, generation |-> cache.generation + 1]
  BY DEF ClearUpdates
<1>2. cache.generation \in Nat
  BY DEF NetInv, NetTyped
<1>3. cache'.update = NoUpdate /\ cache'.generation = cache.generation + 1
  BY <1>1
<1>4. NetTyped'
  BY <1>1, <1>2, SettingsTyped DEF NetInv, NetTyped, Updates
<1>5. FileFollows' /\ CredentialsBound'
  BY <1>1, SettingsTyped DEF NetInv, FileFollows, CredentialsBound, Readable, Bound
<1>6. \A c \in Checks : CheckedAs(c)'
  BY <1>1, <1>2, <1>3 DEF NetInv, NetTyped, UpdateInv, CheckedAs, Current
<1>7. InstalledAs'
  BY <1>1, <1>2, <1>3 DEF NetInv, NetTyped, UpdateInv, InstalledAs
<1> QED
  BY <1>3, <1>4, <1>5, <1>6, <1>7 DEF NetInv, UpdateInv, FoundAs

(* A step of the checks or of the installation leaves the settings alone.           *)
LEMMA SettingsUntouched ==
    ASSUME FileFollows, CredentialsBound, file' = file, memory' = memory, proxy' = proxy,
           writer' = writer
    PROVE  FileFollows' /\ CredentialsBound'
BY DEF FileFollows, CredentialsBound, Readable, Bound

LEMMA RestartKeeps == ASSUME NetInv, Restart PROVE NetInv'
<1>1. /\ Found \in Settings /\ Readable(Found) /\ Bound(Found)
      /\ Loaded \subseteq [path : Settings, backup : Settings]
  BY FoundReadable DEF NetInv
<1>2. /\ memory' = Found /\ proxy' = Configuration(Found) /\ writer' = Idle
      /\ cache' = [update |-> NoUpdate, generation |-> 0] /\ answered' = <<>>
      /\ install' = [at |-> "idle", update |-> NoUpdate, generation |-> 0]
      /\ file' \in Loaded
      /\ file \in [path : Settings, backup : Settings]
  BY DEF NetInv, NetTyped, Restart
<1>3. check' = [c \in Checks |-> IF check[c].at = "new" THEN check[c]
                                 ELSE [check[c] EXCEPT !.at = "done"]]
  BY DEF Restart
<1>4. /\ cache'.update = NoUpdate /\ install'.at = "idle"
      /\ writer'.at = "idle" /\ writer'.new = Fresh
  BY <1>2, SettingsTyped
<1>5. \A c \in Checks : /\ check'[c].at \in {"new", "done"}
                        /\ check'[c] \in [at : {"new", "begun", "asking", "done"},
                                          generation : Nat, proxy : Proxies]
  BY <1>3 DEF NetInv, NetTyped
<1>6. NetTyped'
  <2>1. check' \in [Checks -> [at : {"new", "begun", "asking", "done"}, generation : Nat,
                               proxy : Proxies]]
    BY <1>3, <1>5
  <2>2. proxy' \in Proxies
    BY <1>1, <1>2, ConfigurationBound
  <2>3. file' \in [path : Settings, backup : Settings]
    BY <1>1, <1>2
  <2>4. /\ cache' \in [update : Updates, generation : Nat]
        /\ install' \in [at : {"idle", "installing"}, update : Updates, generation : Nat]
        /\ answered' \in Seq(Updates)
    BY <1>2 DEF Updates
  <2>5. QED
    BY <1>1, <1>2, <2>1, <2>2, <2>3, <2>4, SettingsTyped DEF NetTyped
<1>7. UpdateInv'
  BY <1>4, <1>5 DEF UpdateInv, CheckedAs, InstalledAs, FoundAs
<1>8. CredentialsBound'
  <2>1. Bound(file'.path) /\ Bound(file'.backup)
    BY <1>1, <1>2, SettingsTyped DEF NetInv, CredentialsBound, Loaded, Restored
  <2>2. proxy'.credentials \in {NoAddress, proxy'.address}
    BY <1>1, <1>2, ConfigurationBound
  <2>3. QED
    BY <1>1, <1>2, <1>4, <2>1, <2>2, SettingsTyped DEF CredentialsBound, Bound
<1>9. FileFollows'
  <2>1. CASE Readable(file.path)
    <3>1. Found = file.path
      BY <2>1 DEF Found
    <3>2. file'.path = Found
      BY <1>2, <2>1, <3>1 DEF Loaded, Restored
    <3>3. QED
      BY <1>1, <1>2, <1>4, <3>2, SettingsTyped DEF FileFollows, Readable
  <2>2. CASE ~Readable(file.path) /\ Readable(file.backup)
    <3>1. Found = file.backup
      BY <2>2 DEF Found
    <3>2. \/ file' = file
          \/ file'.path = Found /\ file'.backup = Missing
          \/ file'.path = Missing /\ file'.backup = Found
      BY <1>2, <2>2, <3>1 DEF Loaded, Restored
    <3>3. QED
      BY <1>1, <1>2, <1>4, <2>2, <3>1, <3>2, SettingsTyped DEF FileFollows, Readable
  <2>3. CASE ~Readable(file.path) /\ ~Readable(file.backup)
    <3>1. Found = Fresh
      BY <2>3 DEF Found
    <3>2. file' = file
      BY <1>2, <2>3 DEF Loaded
    <3>3. QED
      BY <1>1, <1>2, <1>4, <2>3, <3>1, <3>2, SettingsTyped DEF FileFollows, Readable
  <2>4. QED
    BY <2>1, <2>2, <2>3
<1> QED
  BY <1>6, <1>7, <1>8, <1>9 DEF NetInv

(* A check begins with the generation it sees, and asks through the proxy it sees.  *)
LEMMA CheckStepKeeps ==
    ASSUME NetInv, NEW c \in Checks, BeginCheck(c) \/ Ask(c)
    PROVE  NetInv'
<1>1. /\ memory' = memory /\ proxy' = proxy /\ writer' = writer /\ file' = file
      /\ cache' = cache /\ install' = install /\ answered' = answered
      /\ check[c].at \in {"new", "begun"}
  BY DEF BeginCheck, Ask
<1>2. /\ cache.generation \in Nat /\ proxy \in Proxies
      /\ check \in [Checks -> [at : {"new", "begun", "asking", "done"}, generation : Nat,
                               proxy : Proxies]]
  BY DEF NetInv, NetTyped
<1>3. FileFollows' /\ CredentialsBound'
  BY <1>1, SettingsUntouched DEF NetInv
<1>4. \A d \in Checks \ {c} : check'[d] = check[d]
  BY <1>2 DEF BeginCheck, Ask
<1>5. /\ check'[c].generation <= cache.generation
      /\ check'[c].at = "asking" => check'[c].proxy = proxy
      /\ check' \in [Checks -> [at : {"new", "begun", "asking", "done"}, generation : Nat,
                                proxy : Proxies]]
  <2>1. CASE BeginCheck(c)
    <3> DEFINE begun == [check[c] EXCEPT !.at = "begun", !.generation = cache.generation]
    <3>1. check' = [check EXCEPT ![c] = begun]
      BY <2>1 DEF BeginCheck
    <3>2. begun \in [at : {"new", "begun", "asking", "done"}, generation : Nat,
                     proxy : Proxies]
      BY <1>2
    <3>3. begun.at = "begun" /\ begun.generation = cache.generation
      BY <1>2
    <3> HIDE DEF begun
    <3>4. check'[c] = begun
      BY <1>2, <3>1
    <3>5. QED
      BY <1>2, <3>1, <3>2, <3>3, <3>4
  <2>2. CASE Ask(c)
    BY <1>2, <2>2 DEF Ask, NetInv, UpdateInv, CheckedAs
  <2>3. QED
    BY <2>1, <2>2
<1>6. NetTyped'
  BY <1>1, <1>5 DEF NetInv, NetTyped
<1>7. ASSUME NEW d \in Checks PROVE CheckedAs(d)'
  <2>1. CASE d = c
    BY <1>1, <1>5, <2>1 DEF CheckedAs, Through
  <2>2. CASE d # c
    BY <1>1, <1>4, <2>2 DEF NetInv, UpdateInv, CheckedAs, Current, Through
  <2>3. QED
    BY <2>1, <2>2
<1>8. ASSUME NEW u \in Checks, check[u].at = "done"
      PROVE  check'[u] = check[u]
  BY <1>1, <1>4, <1>8
<1>9. InstalledAs'
  BY <1>1, <1>8 DEF NetInv, UpdateInv, InstalledAs, Through, Latest
<1>10. FoundAs'
  <2>1. cache.update # NoUpdate => cache.update \in Checks
    BY DEF NetInv, NetTyped, Updates
  <2>2. QED
    BY <1>1, <1>8, <2>1 DEF NetInv, UpdateInv, FoundAs, Through, Latest
<1> QED
  BY <1>3, <1>6, <1>7, <1>9, <1>10 DEF NetInv, UpdateInv

(* An answer that counts was asked for through the proxy in use. It begins a new    *)
(* generation, so that nothing begun before counts any longer.                      *)
LEMMA AnswerKeeps == ASSUME NetInv, NEW c \in Checks, Answer(c) PROVE NetInv'
<1>1. /\ memory' = memory /\ proxy' = proxy /\ writer' = writer /\ file' = file
      /\ install' = install /\ check[c].at = "asking"
      /\ check' = [check EXCEPT ![c].at = "done"]
  BY DEF Answer
<1>2. /\ cache.generation \in Nat /\ proxy \in Proxies
      /\ cache \in [update : Updates, generation : Nat] /\ answered \in Seq(Updates)
      /\ install.generation \in Nat
      /\ check \in [Checks -> [at : {"new", "begun", "asking", "done"}, generation : Nat,
                               proxy : Proxies]]
  BY DEF NetInv, NetTyped
<1>3. FileFollows' /\ CredentialsBound'
  BY <1>1, SettingsUntouched DEF NetInv
<1>4. /\ \A d \in Checks \ {c} : check'[d] = check[d]
      /\ check'[c].at = "done" /\ check'[c].proxy = check[c].proxy
  BY <1>1, <1>2
<1>5. check' \in [Checks -> [at : {"new", "begun", "asking", "done"}, generation : Nat,
                             proxy : Proxies]]
  BY <1>1, <1>2
<1>6. \A u \in Checks : /\ check[u].at = "done" => check'[u].at = "done"
                        /\ check'[u].proxy = check[u].proxy
  BY <1>4
<1>7. CASE cache' = cache /\ answered' = answered
  <2>1. NetTyped'
    BY <1>1, <1>5, <1>7 DEF NetInv, NetTyped
  <2>2. ASSUME NEW d \in Checks PROVE CheckedAs(d)'
    BY <1>1, <1>4, <1>7 DEF NetInv, UpdateInv, CheckedAs, Current, Through
  <2>3. InstalledAs'
    BY <1>1, <1>6, <1>7 DEF NetInv, UpdateInv, InstalledAs, Through, Latest
  <2>4. cache.update # NoUpdate => cache.update \in Checks
    BY <1>2 DEF Updates
  <2>5. FoundAs'
    BY <1>1, <1>6, <1>7, <2>4 DEF NetInv, UpdateInv, FoundAs, Through, Latest
  <2>6. QED
    BY <1>3, <2>1, <2>2, <2>3, <2>5 DEF NetInv, UpdateInv
<1>8. CASE /\ Current(c)
           /\ \E found \in {c, NoUpdate} :
                 cache' = [update |-> found, generation |-> cache.generation + 1]
           /\ answered' = Append(answered, cache'.update)
  <2>1. PICK found \in {c, NoUpdate} :
           cache' = [update |-> found, generation |-> cache.generation + 1]
    BY <1>8
  <2>2. cache'.update = found /\ cache'.generation = cache.generation + 1 /\ found \in Updates
    BY <2>1 DEF Updates
  <2>3. answered' = Append(answered, found)
    BY <1>8, <2>2
  <2>4. /\ answered' \in Seq(Updates) /\ answered' # <<>>
        /\ answered'[Len(answered')] = found
    BY <1>2, <2>2, <2>3
  <2>5. cache' \in [update : Updates, generation : Nat]
    BY <1>2, <2>1, <2>2
  <2>6. NetTyped'
    BY <1>1, <1>5, <2>4, <2>5 DEF NetInv, NetTyped
  <2>7. ASSUME NEW d \in Checks PROVE CheckedAs(d)'
    <3>1. CASE d = c
      BY <1>4, <3>1 DEF CheckedAs
    <3>2. CASE d # c
      <4>1. check'[d] = check[d] /\ check[d].generation \in Nat
        BY <1>2, <1>4, <3>2
      <4>2. check[d].at \in {"begun", "asking"} => check[d].generation <= cache.generation
        BY DEF NetInv, UpdateInv, CheckedAs
      <4>3. QED
        BY <1>2, <2>2, <4>1, <4>2 DEF CheckedAs, Current
    <3>3. QED
      BY <3>1, <3>2
  <2>8. InstalledAs'
    <3>1. install.at = "installing" =>
             /\ install.update \in Checks /\ check'[install.update].at = "done"
             /\ install.generation < cache.generation + 1
      BY <1>2, <1>6 DEF NetInv, UpdateInv, InstalledAs
    <3>2. QED
      BY <1>1, <1>2, <2>2, <3>1 DEF InstalledAs
  <2>9. Through(c)'
    BY <1>1, <1>4, <1>8 DEF NetInv, UpdateInv, CheckedAs, Through
  <2>10. FoundAs'
    BY <1>4, <2>2, <2>4, <2>9 DEF FoundAs, Latest
  <2>11. QED
    BY <1>3, <2>6, <2>7, <2>8, <2>10 DEF NetInv, UpdateInv
<1>9. CASE Current(c) /\ cache' = [cache EXCEPT !.generation = @ + 1] /\ answered' = answered
  <2>1. /\ cache'.update = cache.update /\ cache'.generation = cache.generation + 1
        /\ cache' \in [update : Updates, generation : Nat]
    BY <1>2, <1>9
  <2>2. NetTyped'
    BY <1>1, <1>5, <1>9, <2>1 DEF NetInv, NetTyped
  <2>3. ASSUME NEW d \in Checks PROVE CheckedAs(d)'
    <3>1. CASE d = c
      BY <1>4, <3>1 DEF CheckedAs
    <3>2. CASE d # c
      <4>1. check'[d] = check[d] /\ check[d].generation \in Nat
        BY <1>2, <1>4, <3>2
      <4>2. check[d].at \in {"begun", "asking"} => check[d].generation <= cache.generation
        BY DEF NetInv, UpdateInv, CheckedAs
      <4>3. QED
        BY <1>2, <2>1, <4>1, <4>2 DEF CheckedAs, Current
    <3>3. QED
      BY <3>1, <3>2
  <2>4. InstalledAs'
    <3>1. install.at = "installing" =>
             /\ install.update \in Checks /\ check'[install.update].at = "done"
             /\ install.generation < cache.generation + 1
      BY <1>2, <1>6 DEF NetInv, UpdateInv, InstalledAs
    <3>2. QED
      BY <1>1, <1>2, <2>1, <3>1 DEF InstalledAs
  <2>5. cache.update # NoUpdate => cache.update \in Checks
    BY <1>2 DEF Updates
  <2>6. FoundAs'
    BY <1>1, <1>6, <1>9, <2>1, <2>5 DEF NetInv, UpdateInv, FoundAs, Through, Latest
  <2>7. QED
    BY <1>3, <2>2, <2>3, <2>4, <2>6 DEF NetInv, UpdateInv
<1> QED
  BY <1>7, <1>8, <1>9 DEF Answer

(* The installation takes the latest answer, and puts back only that.               *)
LEMMA InstallKeeps == ASSUME NetInv, Install \/ InstallFails PROVE NetInv'
<1>1. /\ memory' = memory /\ proxy' = proxy /\ writer' = writer /\ file' = file
      /\ check' = check /\ answered' = answered
  BY DEF Install, InstallFails
<1>2. /\ cache \in [update : Updates, generation : Nat]
      /\ install \in [at : {"idle", "installing"}, update : Updates, generation : Nat]
  BY DEF NetInv, NetTyped
<1>3. FileFollows' /\ CredentialsBound'
  BY <1>1, SettingsUntouched DEF NetInv
<1>4. cache'.generation = cache.generation
  BY <1>2 DEF Install, InstallFails
<1>5. \A c \in Checks : CheckedAs(c)'
  BY <1>1, <1>4 DEF NetInv, UpdateInv, CheckedAs, Current, Through
<1>6. CASE Install
  <2>1. /\ cache'.update = NoUpdate /\ cache.update # NoUpdate /\ cache.update \in Checks
        /\ install'.at = "installing" /\ install'.update = cache.update
        /\ install'.generation = cache.generation
        /\ cache' \in [update : Updates, generation : Nat]
        /\ install' \in [at : {"idle", "installing"}, update : Updates, generation : Nat]
    BY <1>2, <1>6 DEF Install, Updates
  <2>2. NetTyped'
    BY <1>1, <2>1 DEF NetInv, NetTyped
  <2>3. InstalledAs'
    BY <1>1, <1>2, <1>4, <2>1 DEF NetInv, UpdateInv, InstalledAs, FoundAs, Through, Latest
  <2>4. QED
    BY <1>3, <1>5, <2>1, <2>2, <2>3 DEF NetInv, UpdateInv, FoundAs
<1>7. CASE InstallFails
  <2>1. /\ install.at = "installing" /\ install'.at = "idle"
        /\ install' \in [at : {"idle", "installing"}, update : Updates, generation : Nat]
        /\ cache' \in [update : Updates, generation : Nat]
        /\ cache'.update = IF MayRetry THEN install.update ELSE cache.update
    BY <1>2, <1>7 DEF InstallFails
  <2>2. NetTyped'
    BY <1>1, <2>1 DEF NetInv, NetTyped
  <2>3. InstalledAs'
    BY <2>1 DEF InstalledAs
  <2>4. FoundAs'
    BY <1>1, <2>1 DEF NetInv, UpdateInv, FoundAs, InstalledAs, MayRetry, Through, Latest
  <2>5. QED
    BY <1>3, <1>5, <2>2, <2>3, <2>4 DEF NetInv, UpdateInv
<1> QED
  BY <1>6, <1>7

-----------------------------------------------------------------------------------
LEMMA NetInvInitially == NetInit => NetInv
<1> SUFFICES ASSUME NetInit PROVE NetInv
  OBVIOUS
<1>1. /\ file = [path |-> Missing, backup |-> Missing] /\ memory = Fresh
      /\ proxy = Configuration(Fresh) /\ writer = Idle
      /\ cache = [update |-> NoUpdate, generation |-> 0]
      /\ check = [c \in Checks |-> [at |-> "new", generation |-> 0,
                                    proxy |-> Configuration(Fresh)]]
      /\ install = [at |-> "idle", update |-> NoUpdate, generation |-> 0]
      /\ answered = <<>>
  BY DEF NetInit
<1>2. Configuration(Fresh) \in Proxies
      /\ Configuration(Fresh).credentials \in {NoAddress, Configuration(Fresh).address}
  BY SettingsTyped, ConfigurationBound
<1>3. NetTyped
  BY <1>1, <1>2, SettingsTyped DEF NetTyped, Updates
<1>4. FileFollows /\ CredentialsBound
  BY <1>1, <1>2, SettingsTyped DEF FileFollows, CredentialsBound
<1>5. UpdateInv
  BY <1>1 DEF UpdateInv, CheckedAs, InstalledAs, FoundAs
<1> QED
  BY <1>3, <1>4, <1>5 DEF NetInv

LEMMA NetInvAlways == NetSpec => []NetInv
<1>1. NetInv /\ [NetNext]_allNetVars => NetInv'
  <2> SUFFICES ASSUME NetInv, [NetNext]_allNetVars PROVE NetInv'
    OBVIOUS
  <2>1. CASE UNCHANGED allNetVars
    <3>1. /\ file' = file /\ memory' = memory /\ proxy' = proxy /\ writer' = writer
          /\ cache' = cache /\ check' = check /\ install' = install /\ answered' = answered
      BY <2>1 DEF allNetVars, netVars
    <3>2. QED
      BY <3>1, SettingsUntouched, UpdatesUntouched DEF NetInv, NetTyped
  <2>2. CASE NetNext
    BY <2>2, DamageKeeps, RestartKeeps, UpdateKeeps, DropBackupKeeps, KeepBackupKeeps, SwapKeeps, CommitKeeps,
       ClearUpdatesKeeps, InstallKeeps, CheckStepKeeps, AnswerKeeps DEF NetNext
  <2>3. QED
    BY <2>1, <2>2
<1> QED
  BY <1>1, NetInvInitially, PTL DEF NetSpec

(* Whatever fails and wherever the process ends in a change, a start would load the *)
(* settings in use, or the new ones once their file is in place, unless what it has *)
(* to read was damaged; and credentials go only to the address they were entered    *)
(* for (network.rs).                                                                *)
THEOREM SettingsAreKept == NetSpec => []SettingsKept
<1>1. NetInv => SettingsKept
  <2> SUFFICES ASSUME NetInv, Undamaged
               PROVE  Found = IF writer.at = "written" THEN writer.new ELSE memory
    BY DEF NetInv, CredentialsBound, SettingsKept
  <2>1. CASE Readable(file.path)
    BY <2>1 DEF Found, NetInv, FileFollows
  <2>2. CASE file.path = Missing /\ Readable(file.backup)
    BY <2>2, SettingsTyped DEF Found, NetInv, FileFollows
  <2>3. CASE file.path = Missing /\ file.backup = Missing
    BY <2>3, SettingsTyped DEF Found, NetInv, FileFollows
  <2>4. QED
    BY <2>1, <2>2, <2>3, SettingsTyped DEF Undamaged, Readable
<1> QED
  BY <1>1, NetInvAlways, PTL

(* However checks, changes of the settings and installations overlap, the update    *)
(* that can be installed is what the latest answer found, through the proxy in use  *)
(* (core_update.rs).                                                                *)
THEOREM UpdateStaysCurrent == NetSpec => []UpdateIsCurrent
<1>1. NetInv => UpdateIsCurrent
  BY DEF NetInv, UpdateInv, FoundAs, Through, Latest, UpdateIsCurrent
<1> QED
  BY <1>1, NetInvAlways, PTL

(* ------------------------------------------------------------------ ScanRetry  *)
Verdicts == {"none", "io", "recovery", "ok", "invalid", "absent"}
OnDisk == {"good", "unreadable", "broken", "rootless", "gone"}
Choices == [enabled : {"unset", "yes", "no"}, active : Nat]
Journals == [open : BOOLEAN, at : OnDisk, version : Nat, chosen : Choices]
Readings == [verdict : Verdicts, version : Nat, epoch : Nat]
Retries == [kept : BOOLEAN, attempts : Nat, worker : Nat, running : BOOLEAN, late : BOOLEAN]
Records == [at : {"none", "installed", "checking", "invalid"}, version : Nat, enabled : BOOLEAN,
            code : Verdicts \cup {"worker failed", "exhausted", "retrying"},
            retrying : BOOLEAN, retry : Retries, read : Nat, skipped : BOOLEAN]
VerifierSteps == {"off", "decide", "sleep", "end", "pause", "attempt", "scan", "apply", "restore",
                  "exhaust"}
ManagerSteps == {"idle", "read", "swap", "schedule", "spawn", "scanned", "failed", "save", "undo",
                 "remove", "forget"}
Managers == [op : {"none", "load", "recover", "retry", "other", "install", "remove"},
             pc : ManagerSteps, seen : Readings, verified : BOOLEAN, undo : Journals]
PackageTyped == package \in [at : OnDisk, version : Nat, journal : Journals, epoch : Nat]
RecordTyped == record \in Records
VerifierTyped == verifier \in [1 .. Verifiers -> [pc : VerifierSteps, active : Nat, seen : Readings]]
ManagerTyped == manager \in Managers
RestTyped == chosen \in Choices /\ scheduled \in 0 .. Verifiers /\ owed \in BOOLEAN /\ stale \in BOOLEAN
ScanTyped == PackageTyped /\ RecordTyped /\ VerifierTyped /\ ManagerTyped /\ RestTyped

(* A retry that runs belongs to the latest worker that was given it, and what that  *)
(* worker read is not older than the record.                                        *)
Awaited(v) ==
    /\ verifier[v].pc # "off" => v <= scheduled
    /\ verifier[v].seen.epoch <= package.epoch
    /\ Assigned(v) => verifier[v].pc # "restore"
    /\ Assigned(v) /\ verifier[v].pc = "apply" => record.read <= verifier[v].seen.epoch

(* What the manager holds while it works.                                           *)
Managed ==
    /\ manager.op = "none" => manager.pc = "idle"
    /\ manager.seen.epoch <= package.epoch
    /\ manager.pc = "spawn" =>
          scheduled > 0 /\ verifier[scheduled].pc = "off" /\ record.retry.worker \in {0, scheduled}

Retried ==
    /\ record.retry.running \/ record.retrying => record.retry.kept
    /\ record.retry.worker <= scheduled
    /\ record.read <= package.epoch

Restoring == \E v \in 1 .. Verifiers : verifier[v].pc = "restore"
RestoreKept == autostart = "done" /\ owed /\ Restorable(record) => Restoring

ScanInv ==
    /\ ScanTyped
    /\ \A v \in 1 .. Verifiers : Awaited(v)
    /\ Managed /\ Retried /\ RetryOwned /\ VerdictIsFresh /\ RestoreKept
-----------------------------------------------------------------------------------
(* What becomes of the record, as far as the invariant sees it.                     *)
Turns(q, a, e, t, n, k, w, g) ==
    /\ q.at = a /\ q.enabled = e /\ q.retrying = t /\ q.read = n
    /\ q.retry.kept = k /\ q.retry.worker = w /\ q.retry.running = g
LEMMA BlankValues ==
  /\ NoJournal \in Journals /\ Unread \in Readings /\ NotChosen \in Choices /\ NoRetry \in Retries
  /\ Released.op = "none" /\ Released.pc = "idle" /\ Released.seen = Unread /\ Unread.epoch = 0
<1>1. Unread \in Readings /\ Unread.epoch = 0 BY DEF Unread, NoVersion, Readings, Verdicts
<1>2. NotChosen \in Choices BY DEF NotChosen, NoVersion, Choices
<1>3. NoJournal \in Journals BY <1>2 DEF NoJournal, NoVersion, Journals, OnDisk
<1>4. NoRetry \in Retries BY DEF NoRetry, Retries
<1> QED BY <1>1, <1>2, <1>3, <1>4 DEF Released

LEMMA NewRetries ==
  ASSUME NEW n \in Nat
  PROVE  /\ NewRetry(n) \in Retries /\ NewRetry(n).kept = TRUE /\ NewRetry(n).running = FALSE
         /\ NewRetry(n).worker = 0
BY DEF NewRetry, NoRetry, Retries

LEMMA NoRecordTurns ==
  NoRecord \in Records /\ Turns(NoRecord, "none", FALSE, FALSE, 0, FALSE, 0, FALSE) /\ NoRecord.skipped = FALSE
<1>1. NoRetry \in Retries /\ ~NoRetry.kept /\ NoRetry.worker = 0 /\ ~NoRetry.running
  BY BlankValues DEF NoRetry
<1> QED BY <1>1 DEF NoRecord, NoVersion, Records, Verdicts, Turns, Retries

LEMMA ReadingIs ==
  ASSUME PackageTyped, NEW active \in Nat
  PROVE  Reading(active) \in Readings /\ Reading(active).epoch = package.epoch
<1>1. Verdict \in Verdicts BY DEF Verdict, Verdicts
<1> QED BY <1>1 DEF PackageTyped, Reading, Readings, NoVersion

LEMMA RootReadingIs ==
  ASSUME PackageTyped, chosen \in Choices
  PROVE  RootReading \in Readings /\ RootReading.epoch = package.epoch
<1>1. chosen.active \in Nat BY DEF Choices
<1>2. [Unread EXCEPT !.verdict = "absent", !.epoch = package.epoch] \in Readings
  BY DEF Unread, Readings, Verdicts, NoVersion, PackageTyped
<1>3. [Unread EXCEPT !.verdict = "absent", !.epoch = package.epoch].epoch = package.epoch
  BY DEF Unread
<1> QED BY <1>1, <1>2, <1>3, ReadingIs DEF RootReading

LEMMA TrustedIs ==
  ASSUME PackageTyped, NEW s \in Readings
  PROVE  Trusted(s) \in Readings /\ Trusted(s).epoch = s.epoch
BY DEF Trusted, Readings, Verdicts, PackageTyped

LEMMA KnownIs ==
  ASSUME NEW c \in Choices, NEW s, s.version \in Nat
  PROVE  Known(c, s) \in Choices
BY DEF Known, Choices

LEMMA ScannedTurns ==
  ASSUME NEW c \in Choices, NEW s \in Readings
  PROVE  /\ Scanned(c, s) \in Records
         /\ \E e \in BOOLEAN : Turns(Scanned(c, s), "installed", e, FALSE, s.epoch, FALSE, 0, FALSE)
         /\ ~Scanned(c, s).skipped
<1>1. s.version \in Nat /\ s.epoch \in Nat BY DEF Readings
<1>2. (Known(c, s).enabled = "yes") \in BOOLEAN OBVIOUS
<1> DEFINE e == Known(c, s).enabled = "yes"
<1> HIDE DEF e
<1>3. e \in BOOLEAN BY <1>2 DEF e
<1>4. Scanned(c, s) = [NoRecord EXCEPT !.at = "installed", !.version = s.version, !.read = s.epoch,
                                       !.enabled = e]
  BY DEF Scanned, e
<1>5. [NoRecord EXCEPT !.at = "installed", !.version = s.version, !.read = s.epoch, !.enabled = e]
         \in Records
  BY <1>1, <1>3, NoRecordTurns DEF Records
<1>6. Turns(Scanned(c, s), "installed", e, FALSE, s.epoch, FALSE, 0, FALSE)
  BY <1>1, <1>3, <1>4, NoRecordTurns DEF Records, Turns
<1>7. ~Scanned(c, s).skipped BY <1>4, NoRecordTurns DEF Records
<1> QED BY <1>3, <1>4, <1>5, <1>6, <1>7

LEMMA FailedTurns ==
  ASSUME NEW s \in Readings
  PROVE  /\ Failed(s) \in Records
         /\ \E a \in {"checking", "invalid"}, t \in BOOLEAN :
               Turns(Failed(s), a, FALSE, t, s.epoch, t, 0, FALSE)
<1>1. s.verdict \in Verdicts /\ s.epoch \in Nat BY DEF Readings
<1> DEFINE a == IF Retryable(s.verdict) THEN "checking" ELSE "invalid"
           y == IF Retryable(s.verdict) THEN NewRetry(1) ELSE NoRetry
           t == Retryable(s.verdict)
<1>2. t \in BOOLEAN /\ a \in {"checking", "invalid"} BY DEF Retryable
<1>3. y \in Retries /\ y.kept = t /\ y.worker = 0 /\ y.running = FALSE
  <2>1. CASE Retryable(s.verdict) BY <2>1, NewRetries DEF Retryable
  <2>2. CASE ~Retryable(s.verdict) BY <2>2, BlankValues DEF NoRetry, Retryable
  <2> QED BY <2>1, <2>2
<1>4. Failed(s) = [NoRecord EXCEPT !.at = a, !.code = s.verdict, !.read = s.epoch, !.retrying = t,
                                   !.retry = y]
  BY DEF Failed
<1> HIDE DEF a, t, y
<1>5. Failed(s) \in Records BY <1>1, <1>2, <1>3, <1>4, NoRecordTurns DEF Records
<1>6. Turns(Failed(s), a, FALSE, t, s.epoch, t, 0, FALSE)
  BY <1>1, <1>2, <1>3, <1>4, NoRecordTurns DEF Records, Turns
<1> QED BY <1>2, <1>5, <1>6

LEMMA HaltedTurns ==
  ASSUME NEW q \in Records
  PROVE  /\ Halted(q) \in Records
         /\ Turns(Halted(q), q.at, q.enabled, FALSE, q.read, q.retry.kept, q.retry.worker, FALSE)
         /\ Halted(q).skipped = q.skipped
BY DEF Halted, Records, Retries, Turns

LEMMA UnstartedTurns ==
  ASSUME NEW q \in Records, NEW v
  PROVE  /\ Unstarted(q, v) \in Records /\ Unstarted(q, v).skipped = q.skipped
         /\ Mine(q, v) => Turns(Unstarted(q, v), "checking", q.enabled, FALSE, q.read,
                                q.retry.kept, q.retry.worker, FALSE)
         /\ ~Mine(q, v) => Unstarted(q, v) = q
<1>1. CASE ~Mine(q, v) BY <1>1 DEF Unstarted
<1>2. CASE Mine(q, v) BY <1>2 DEF Unstarted, Records, Retries, Turns
<1> QED BY <1>1, <1>2

LEMMA FailureTurns ==
  ASSUME NEW q \in Records, NEW s \in Readings
  PROVE  /\ FailsFor(s, q) \in Records /\ FailsFor(s, q).skipped = q.skipped
         /\ \E a \in {"checking", "invalid"}, t \in BOOLEAN :
               Turns(FailsFor(s, q), a, FALSE, t, s.epoch, q.retry.kept, q.retry.worker, t)
<1>1. s.verdict \in Verdicts /\ s.epoch \in Nat BY DEF Readings
<1> DEFINE a == IF Retryable(s.verdict) THEN "checking" ELSE "invalid"
           c == IF Spent THEN "exhausted" ELSE s.verdict
           t == Retryable(s.verdict) /\ ~Spent
<1>2. t \in BOOLEAN /\ a \in {"checking", "invalid"} /\ c \in Verdicts \cup {"exhausted"}
  BY <1>1
<1>3. FailsFor(s, q) = [q EXCEPT !.at = a, !.code = c, !.enabled = FALSE, !.retrying = t,
                                 !.read = s.epoch, !.retry.running = t]
  BY DEF FailsFor
<1> HIDE DEF a, t, c
<1> DEFINE y == [q.retry EXCEPT !.running = t]
<1>7. y \in Retries /\ y.kept = q.retry.kept /\ y.worker = q.retry.worker /\ y.running = t
  BY <1>2 DEF Records, Retries
<1>8. FailsFor(s, q) = [q EXCEPT !.at = a, !.code = c, !.enabled = FALSE, !.retrying = t,
                                 !.read = s.epoch, !.retry = y]
  BY <1>3 DEF Records
<1> HIDE DEF y
<1>4. FailsFor(s, q) \in Records BY <1>1, <1>2, <1>7, <1>8 DEF Records
<1>5. Turns(FailsFor(s, q), a, FALSE, t, s.epoch, q.retry.kept, q.retry.worker, t)
  BY <1>1, <1>2, <1>7, <1>8 DEF Records, Turns
<1>6. FailsFor(s, q).skipped = q.skipped BY <1>3 DEF Records
<1> QED BY <1>2, <1>4, <1>5, <1>6

LEMMA ExhaustedTurns ==
  ASSUME NEW q \in Records
  PROVE  LET x == [Halted(q) EXCEPT !.at = "checking", !.enabled = FALSE, !.code = "exhausted"] IN
         /\ x \in Records /\ x.skipped = q.skipped
         /\ Turns(x, "checking", FALSE, FALSE, q.read, q.retry.kept, q.retry.worker, FALSE)
<1> DEFINE h == Halted(q)
<1>1. /\ h \in Records
      /\ Turns(h, q.at, q.enabled, FALSE, q.read, q.retry.kept, q.retry.worker, FALSE)
      /\ h.skipped = q.skipped
  BY HaltedTurns
<1> HIDE DEF h
<1> DEFINE x == [h EXCEPT !.at = "checking", !.enabled = FALSE, !.code = "exhausted"]
<1>2. x \in Records /\ x.skipped = q.skipped BY <1>1 DEF Records
<1>3. Turns(x, "checking", FALSE, FALSE, q.read, q.retry.kept, q.retry.worker, FALSE)
  BY <1>1 DEF Records, Turns
<1> QED BY <1>2, <1>3 DEF h

(* What becomes of the workers and of the manager.                                  *)
Others(v) == \A w \in 1 .. Verifiers : w # v => verifier'[w] = verifier[w]
Moves(v, p) == Others(v) /\ verifier'[v].pc = p /\ verifier'[v].seen = verifier[v].seen

LEMMA GotoMoves ==
  ASSUME VerifierTyped, NEW v \in 1 .. Verifiers, NEW p \in VerifierSteps, Goto(v, p)
  PROVE  VerifierTyped' /\ Moves(v, p)
BY DEF VerifierTyped, Goto, Moves, Others

LEMMA AttemptMoves ==
  ASSUME VerifierTyped, NEW v \in 1 .. Verifiers, NEW n \in Nat,
         verifier' = [verifier EXCEPT ![v].pc = "scan", ![v].active = n]
  PROVE  VerifierTyped' /\ Moves(v, "scan")
BY DEF VerifierTyped, VerifierSteps, Moves, Others

LEMMA ScanMoves ==
  ASSUME VerifierTyped, NEW v \in 1 .. Verifiers, NEW s \in Readings,
         verifier' = [verifier EXCEPT ![v].pc = "apply", ![v].seen = s]
  PROVE  VerifierTyped' /\ Others(v) /\ verifier'[v].pc = "apply" /\ verifier'[v].seen = s
BY DEF VerifierTyped, VerifierSteps, Others

LEMMA SpawnMoves ==
  ASSUME VerifierTyped, NEW v \in 1 .. Verifiers,
         verifier' = [verifier EXCEPT ![v] = [Asleep EXCEPT !.pc = "decide"]]
  PROVE  VerifierTyped' /\ Others(v) /\ verifier'[v].pc = "decide" /\ verifier'[v].seen = Unread
<1> DEFINE x == [Asleep EXCEPT !.pc = "decide"]
<1>1. x \in [pc : VerifierSteps, active : Nat, seen : Readings] /\ x.pc = "decide" /\ x.seen = Unread
  BY BlankValues DEF Asleep, NoVersion, VerifierSteps
<1> HIDE DEF x
<1>2. verifier' = [verifier EXCEPT ![v] = x] BY DEF x
<1> QED BY <1>1, <1>2 DEF VerifierTyped, Others

LEMMA ManagerGoes ==
  ASSUME ManagerTyped, NEW p \in ManagerSteps, manager' = ManagerAt(p)
  PROVE  /\ ManagerTyped' /\ manager'.pc = p /\ manager'.op = manager.op
         /\ manager'.seen = manager.seen
BY DEF ManagerTyped, Managers, ManagerAt

LEMMA ManagerRests ==
  ASSUME manager' = Released
  PROVE  ManagerTyped' /\ manager'.pc = "idle" /\ manager'.seen = Unread
BY BlankValues DEF ManagerTyped, Managers, ManagerSteps, Released

LEMMA ManagerStarts ==
  ASSUME NEW o \in {"load", "recover", "retry", "other", "install", "remove"}, NEW p \in ManagerSteps,
         Manages(o, p)
  PROVE  ManagerTyped' /\ manager'.op = o /\ manager'.pc = p /\ manager'.seen = Unread
BY BlankValues DEF ManagerTyped, Managers, ManagerSteps, Released, Manages

LEMMA InitTyped ==
  ASSUME ScanAssumption, ScanInit
  PROVE  /\ ScanTyped /\ record = NoRecord /\ scheduled = 0 /\ manager.op = "load"
         /\ manager.pc = "read" /\ manager.seen = Unread /\ ~owed /\ ~stale
         /\ package.epoch = 1
         /\ \A v \in 1 .. Verifiers : verifier[v].pc = "off" /\ verifier[v].seen = Unread
<1>1. chosen \in Choices BY DEF ScanInit, Choices
<1>2. Journal("good", 1) \in Journals BY <1>1 DEF Journal, Journals, OnDisk
<1>3. PackageTyped /\ package.epoch = 1
  BY <1>2, BlankValues DEF ScanInit, PackageTyped, OnDisk
<1>4. RecordTyped /\ record = NoRecord BY NoRecordTurns DEF ScanInit, RecordTyped
<1>5. Asleep \in [pc : VerifierSteps, active : Nat, seen : Readings] /\ Asleep.pc = "off"
      /\ Asleep.seen = Unread
  BY BlankValues DEF Asleep, NoVersion, VerifierSteps
<1>6. VerifierTyped /\ \A v \in 1 .. Verifiers : verifier[v] = Asleep
  BY <1>5 DEF ScanInit, VerifierTyped
<1>7. ManagerTyped /\ manager.op = "load" /\ manager.pc = "read" /\ manager.seen = Unread
  BY BlankValues DEF ScanInit, ManagerTyped, Managers, ManagerSteps, Released
<1>8. owed = FALSE /\ stale = FALSE /\ scheduled = 0 BY DEF ScanInit
<1>9. 0 \in 0 .. Verifiers BY DEF ScanAssumption
<1>10. RestTyped BY <1>1, <1>8, <1>9 DEF RestTyped
<1> QED BY <1>3, <1>4, <1>5, <1>6, <1>7, <1>8, <1>10 DEF ScanTyped

LEMMA ScanInitially == ASSUME ScanAssumption, ScanInit PROVE ScanInv
<1>1. /\ ScanTyped /\ record = NoRecord /\ scheduled = 0 /\ manager.op = "load"
      /\ manager.pc = "read" /\ manager.seen = Unread /\ ~owed /\ ~stale
      /\ package.epoch = 1
      /\ \A v \in 1 .. Verifiers : verifier[v].pc = "off" /\ verifier[v].seen = Unread
  BY InitTyped
<1>2. /\ ~record.retrying /\ record.read = 0 /\ ~record.retry.kept /\ record.retry.worker = 0
      /\ ~record.retry.running
  BY <1>1, NoRecordTurns DEF Turns
<1> QED BY <1>1, <1>2, BlankValues
        DEF ScanInv, Awaited, Assigned, Managed, Retried, RetryOwned, VerdictIsFresh, RestoreKept

LEMMA Numbers ==
  ASSUME ScanAssumption, ScanTyped
  PROVE  /\ scheduled \in Nat /\ scheduled <= Verifiers /\ Verifiers \in Nat
         /\ package.epoch \in Nat /\ record.read \in Nat /\ record.retry \in Retries
         /\ record.retry.worker \in Nat /\ record.retry.kept \in BOOLEAN
         /\ record.retry.running \in BOOLEAN /\ record.retrying \in BOOLEAN
         /\ record.skipped \in BOOLEAN /\ record.enabled \in BOOLEAN
         /\ manager.seen \in Readings /\ manager.seen.epoch \in Nat
         /\ \A v \in 1 .. Verifiers : verifier[v].seen \in Readings /\ verifier[v].seen.epoch \in Nat
                                      /\ verifier[v].pc \in VerifierSteps
         /\ \A v \in 1 .. scheduled : v \in 1 .. Verifiers
<1>1. scheduled \in Nat /\ scheduled <= Verifiers /\ Verifiers \in Nat
  BY DEF ScanAssumption, ScanTyped, RestTyped
<1>2. package.epoch \in Nat BY DEF ScanTyped, PackageTyped
<1>3. /\ record.read \in Nat /\ record.retry \in Retries /\ record.retrying \in BOOLEAN
      /\ record.skipped \in BOOLEAN /\ record.enabled \in BOOLEAN
  BY DEF ScanTyped, RecordTyped, Records
<1>4. /\ record.retry.worker \in Nat /\ record.retry.kept \in BOOLEAN
      /\ record.retry.running \in BOOLEAN
  BY <1>3 DEF Retries
<1>5. manager.seen \in Readings BY DEF ScanTyped, ManagerTyped, Managers
<1>6. manager.seen.epoch \in Nat BY <1>5 DEF Readings
<1>7. \A v \in 1 .. Verifiers : verifier[v].seen \in Readings /\ verifier[v].pc \in VerifierSteps
  BY DEF ScanTyped, VerifierTyped
<1>8. \A v \in 1 .. Verifiers : verifier[v].seen.epoch \in Nat BY <1>7 DEF Readings
<1>9. \A v \in 1 .. scheduled : v \in 1 .. Verifiers BY <1>1
<1> QED BY <1>1, <1>2, <1>3, <1>4, <1>5, <1>6, <1>7, <1>8, <1>9

(* A plugin that waits to be restored still waits when another worker moves.        *)
LEMMA StillRestored ==
  ASSUME RestoreKept, NEW v \in 1 .. Verifiers, Others(v), verifier[v].pc # "restore",
         autostart' = autostart, owed' = owed, Restorable(record)' => Restorable(record)
  PROVE  RestoreKept'
BY DEF RestoreKept, Restoring, Others

LEMMA RestoredUnmoved ==
  ASSUME RestoreKept, verifier' = verifier, autostart' = autostart,
         (owed /\ Restorable(record))' => owed /\ Restorable(record)
  PROVE  RestoreKept'
BY DEF RestoreKept, Restoring

(* Nothing but the flags moves.                                                     *)
LEMMA ScanUnmoved ==
  ASSUME ScanInv, RestoreKept', owed' \in BOOLEAN,
         UNCHANGED <<package, chosen, record, verifier, scheduled, manager, stale>>
  PROVE  ScanInv'
<1>1. ScanTyped'
  BY DEF ScanInv, ScanTyped, PackageTyped, RecordTyped, VerifierTyped, ManagerTyped, RestTyped
<1> QED BY <1>1 DEF ScanInv, Awaited, Assigned, Managed, Retried, RetryOwned, VerdictIsFresh

(* A worker goes on without touching the record.                                    *)
LEMMA WorkerGoesOn ==
  ASSUME ScanAssumption, ScanInv, NEW v \in 1 .. scheduled, VerifierTyped', Others(v),
         verifier[v].pc # "off", verifier'[v].seen.epoch <= package.epoch,
         verifier'[v].pc \in {"off", "restore"} => ~Assigned(v),
         verifier'[v].pc = "apply" => record.read <= verifier'[v].seen.epoch,
         RestoreKept', owed' \in BOOLEAN,
         UNCHANGED <<package, chosen, record, scheduled, manager, stale>>
  PROVE  ScanInv'
<1>0. v \in 1 .. Verifiers /\ scheduled \in Nat /\ Verifiers \in Nat BY Numbers DEF ScanInv
<1>1. ScanTyped'
  BY DEF ScanInv, ScanTyped, PackageTyped, RecordTyped, ManagerTyped, RestTyped
<1>2. ASSUME NEW w \in 1 .. Verifiers PROVE Awaited(w)'
  <2>1. CASE w = v BY <1>0, <2>1 DEF ScanInv, Awaited, Assigned
  <2>2. CASE w # v
    <3>1. verifier'[w] = verifier[w] BY <2>2 DEF Others
    <3> QED BY <3>1 DEF ScanInv, Awaited, Assigned
  <2> QED BY <2>1, <2>2
<1>3. Managed'
  <2>1. CASE manager.pc = "spawn"
    <3>1. scheduled \in 1 .. Verifiers /\ scheduled # v BY <2>1, Numbers, <1>0 DEF ScanInv, Managed
    <3>2. verifier'[scheduled] = verifier[scheduled] BY <3>1 DEF Others
    <3> QED BY <3>2 DEF ScanInv, Managed
  <2>2. CASE manager.pc # "spawn" BY <2>2 DEF ScanInv, Managed
  <2> QED BY <2>1, <2>2
<1>4. RetryOwned'
  <2>1. record.retry.worker \in Nat /\ record.retry.worker <= scheduled
    BY Numbers DEF ScanInv, Retried
  <2>2. CASE record.retry.running /\ record.retry.worker = v
    BY <1>0, <2>2 DEF ScanInv, RetryOwned, Retried, Assigned
  <2>3. CASE record.retry.running /\ record.retry.worker # v
    BY <1>0, <2>1, <2>3, Numbers DEF ScanInv, RetryOwned, Others
  <2>4. CASE ~record.retry.running BY <2>4 DEF ScanInv, RetryOwned
  <2> QED BY <2>2, <2>3, <2>4
<1>5. Retried' /\ VerdictIsFresh' BY DEF ScanInv, Retried, VerdictIsFresh
<1> QED BY <1>1, <1>2, <1>3, <1>4, <1>5 DEF ScanInv

LEMMA FlagsMove ==
  ASSUME ScanInv, FreezeScans \/ UnfreezeScans \/ StopScans \/ StartEnabled \/ ListRestores
  PROVE  ScanInv'
<1>1. UNCHANGED <<package, chosen, record, verifier, scheduled, manager, stale>>
  BY DEF FreezeScans, UnfreezeScans, StopScans, StartEnabled, ListRestores, disk, rest
<1>2. RestoreKept'
  <2>1. CASE StartEnabled BY <2>1 DEF StartEnabled, RestoreKept
  <2>2. CASE ListRestores BY <2>2 DEF ListRestores, RestoreKept, Restorable
  <2>3. CASE FreezeScans \/ UnfreezeScans \/ StopScans
    <3>1. autostart' = autostart /\ owed' = owed BY <2>3 DEF FreezeScans, UnfreezeScans, StopScans, rest
    <3> QED BY <1>1, <3>1 DEF ScanInv, RestoreKept, Restoring, Restorable
  <2> QED BY <2>1, <2>2, <2>3
<1>3. owed' \in BOOLEAN
  <2>1. owed \in BOOLEAN BY DEF ScanInv, ScanTyped, RestTyped
  <2>2. owed' = owed \/ owed' = (owed /\ ~Restorable(record))
    BY DEF FreezeScans, UnfreezeScans, StopScans, StartEnabled, ListRestores, disk, rest
  <2>3. Restorable(record) \in BOOLEAN BY DEF Restorable, ScanInv, ScanTyped, RecordTyped, Records
  <2> QED BY <2>1, <2>2
<1> QED BY <1>1, <1>2, <1>3, ScanUnmoved

LEMMA ConsiderKeeps ==
  ASSUME ScanAssumption, ScanInv, NEW v \in 1 .. scheduled, Consider(v)
  PROVE  ScanInv'
<1>0. v \in 1 .. Verifiers BY Numbers DEF ScanInv
<1> DEFINE p == IF ~Assigned(v) THEN "off" ELSE IF Spent THEN "end" ELSE "sleep"
<1>1. p \in VerifierSteps /\ (p = "off" => ~Assigned(v)) /\ p \notin {"apply", "restore"}
  BY DEF VerifierSteps
<1> HIDE DEF p
<1>2. VerifierTyped' /\ Moves(v, p) BY <1>0, <1>1, GotoMoves DEF Consider, p, ScanInv, ScanTyped
<1>3. /\ verifier[v].pc = "decide" /\ autostart' = autostart /\ owed' = owed
      /\ UNCHANGED <<package, chosen, record, scheduled, manager, stale>>
  BY DEF Consider, disk, rest
<1>4. RestoreKept' BY <1>0, <1>2, <1>3, StillRestored DEF ScanInv, Moves, Restorable
<1>5. owed' \in BOOLEAN BY <1>3 DEF ScanInv, ScanTyped, RestTyped
<1>6. verifier'[v].pc = p /\ verifier'[v].seen = verifier[v].seen /\ Others(v) BY <1>2 DEF Moves
<1>7. verifier'[v].seen.epoch <= package.epoch BY <1>0, <1>6 DEF ScanInv, Awaited
<1> QED BY <1>1, <1>2, <1>3, <1>4, <1>5, <1>6, <1>7, WorkerGoesOn

LEMMA AdmitKeeps ==
  ASSUME ScanAssumption, ScanInv, NEW v \in 1 .. scheduled, AdmitAttempt(v)
  PROVE  ScanInv'
<1>0. v \in 1 .. Verifiers BY Numbers DEF ScanInv
<1> DEFINE p == IF ~Admits THEN "pause" ELSE IF verifier[v].pc = "end" THEN "exhaust" ELSE "attempt"
<1>1. p \in VerifierSteps /\ p \notin {"off", "apply", "restore"}
  BY DEF VerifierSteps
<1> HIDE DEF p
<1>2. VerifierTyped' /\ Moves(v, p) BY <1>0, <1>1, GotoMoves DEF AdmitAttempt, p, ScanInv, ScanTyped
<1>3. /\ verifier[v].pc \in {"sleep", "end"} /\ autostart' = autostart /\ owed' = owed
      /\ UNCHANGED <<package, chosen, record, scheduled, manager, stale>>
  BY DEF AdmitAttempt, disk, rest
<1>4. RestoreKept' BY <1>0, <1>2, <1>3, StillRestored DEF ScanInv, Moves, Restorable
<1>5. owed' \in BOOLEAN BY <1>3 DEF ScanInv, ScanTyped, RestTyped
<1>6. verifier'[v].pc = p /\ verifier'[v].seen = verifier[v].seen /\ Others(v) BY <1>2 DEF Moves
<1>7. verifier'[v].seen.epoch <= package.epoch BY <1>0, <1>6 DEF ScanInv, Awaited
<1> QED BY <1>1, <1>2, <1>3, <1>4, <1>5, <1>6, <1>7, WorkerGoesOn

(* A worker that gives its place up, or finds that it has lost it.                  *)
LEMMA WorkerLeaves ==
  ASSUME ScanAssumption, ScanInv, NEW v \in 1 .. scheduled, ~Assigned(v), Goto(v, "off"),
         verifier[v].pc \notin {"off", "restore"},
         UNCHANGED <<package, chosen, record, scheduled, manager, autostart, owed, stale>>
  PROVE  ScanInv'
<1>0. v \in 1 .. Verifiers BY Numbers DEF ScanInv
<1>2. VerifierTyped' /\ Moves(v, "off") BY <1>0, GotoMoves DEF ScanInv, ScanTyped, VerifierSteps
<1>4. RestoreKept' BY <1>0, <1>2, StillRestored DEF ScanInv, Moves, Restorable
<1>5. owed' \in BOOLEAN BY DEF ScanInv, ScanTyped, RestTyped
<1>6. verifier'[v].pc = "off" /\ verifier'[v].seen = verifier[v].seen /\ Others(v) BY <1>2 DEF Moves
<1>7. verifier'[v].seen.epoch <= package.epoch BY <1>0, <1>6 DEF ScanInv, Awaited
<1> QED BY <1>2, <1>4, <1>5, <1>6, <1>7, WorkerGoesOn

LEMMA ScanKeeps ==
  ASSUME ScanAssumption, ScanInv, NEW v \in 1 .. scheduled, Scan(v)
  PROVE  ScanInv'
<1>0. v \in 1 .. Verifiers BY Numbers DEF ScanInv
<1>1. verifier[v].active \in Nat BY <1>0 DEF ScanInv, ScanTyped, VerifierTyped
<1> DEFINE s == Reading(verifier[v].active)
<1>2. s \in Readings /\ s.epoch = package.epoch BY <1>1, ReadingIs DEF ScanInv, ScanTyped
<1> HIDE DEF s
<1>3. verifier' = [verifier EXCEPT ![v].pc = "apply", ![v].seen = s] BY DEF Scan, s
<1>4. VerifierTyped' /\ Others(v) /\ verifier'[v].pc = "apply" /\ verifier'[v].seen = s
  BY <1>0, <1>2, <1>3, ScanMoves DEF ScanInv, ScanTyped
<1>5. /\ verifier[v].pc = "scan" /\ autostart' = autostart /\ owed' = owed
      /\ UNCHANGED <<package, chosen, record, scheduled, manager, stale>>
  BY DEF Scan, disk, rest
<1>6. RestoreKept' BY <1>0, <1>4, <1>5, StillRestored DEF ScanInv, Restorable
<1>7. owed' \in BOOLEAN BY <1>5 DEF ScanInv, ScanTyped, RestTyped
<1>8. verifier'[v].seen.epoch <= package.epoch /\ record.read <= verifier'[v].seen.epoch
  BY <1>2, <1>4, Numbers DEF ScanInv, Retried
<1> QED BY <1>4, <1>5, <1>6, <1>7, <1>8, WorkerGoesOn

LEMMA RestoreKeeps ==
  ASSUME ScanAssumption, ScanInv, NEW v \in 1 .. scheduled, RestoreAccepted(v)
  PROVE  ScanInv'
<1>0. v \in 1 .. Verifiers BY Numbers DEF ScanInv
<1>1. /\ verifier[v].pc = "restore" /\ autostart' = autostart /\ owed' = (owed /\ ~Requested)
      /\ UNCHANGED <<package, chosen, record, scheduled, manager, stale>> /\ Goto(v, "off")
  BY DEF RestoreAccepted, disk, rest
<1>2. VerifierTyped' /\ Moves(v, "off") BY <1>0, <1>1, GotoMoves DEF ScanInv, ScanTyped, VerifierSteps
<1>3. RestoreKept' BY <1>1 DEF RestoreKept, Requested
<1>4. owed' \in BOOLEAN
  <2>1. owed \in BOOLEAN BY DEF ScanInv, ScanTyped, RestTyped
  <2> QED BY <2>1, <1>1 DEF Requested
<1>5. verifier'[v].pc = "off" /\ verifier'[v].seen = verifier[v].seen /\ Others(v) BY <1>2 DEF Moves
<1>6. verifier'[v].seen.epoch <= package.epoch /\ ~Assigned(v) BY <1>0, <1>1, <1>5 DEF ScanInv, Awaited
<1> QED BY <1>1, <1>2, <1>3, <1>4, <1>5, <1>6, WorkerGoesOn

(* The record stops being verified: whoever ran is no longer assigned.              *)
LEMMA RecordHalts ==
  ASSUME ScanAssumption, ScanInv, record' \in Records, VerifierTyped',
         NEW a, NEW e,
         Turns(record', a, e, FALSE, record.read, record.retry.kept, record.retry.worker, FALSE),
         \A w \in 1 .. Verifiers : verifier'[w] = verifier[w]
              \/ (verifier'[w].pc = "off" /\ verifier'[w].seen = verifier[w].seen /\ verifier[w].pc # "off"),
         RestoreKept',
         UNCHANGED <<package, chosen, scheduled, manager, owed, stale>>
  PROVE  ScanInv'
<1>1. ScanTyped'
  BY DEF ScanInv, ScanTyped, PackageTyped, RecordTyped, ManagerTyped, RestTyped
<1>2. /\ record'.retrying = FALSE /\ record'.read = record.read
      /\ record'.retry.worker = record.retry.worker /\ record'.retry.running = FALSE
  BY DEF Turns
<1>3. ASSUME NEW w \in 1 .. Verifiers PROVE Awaited(w)'
  <2>1. ~Assigned(w)' BY <1>2 DEF Assigned
  <2>2. verifier'[w].seen = verifier[w].seen /\ (verifier'[w].pc # "off" => verifier[w].pc # "off")
    OBVIOUS
  <2> QED BY <2>1, <2>2 DEF ScanInv, Awaited
<1>4. Managed'
  <2>1. CASE manager.pc = "spawn"
    <3>1. scheduled \in 1 .. Verifiers /\ verifier[scheduled].pc = "off"
      BY <2>1, Numbers DEF ScanInv, Managed
    <3>2. verifier'[scheduled].pc = "off" BY <3>1
    <3> QED BY <1>2, <3>2 DEF ScanInv, Managed
  <2>2. CASE manager.pc # "spawn" BY <2>2 DEF ScanInv, Managed
  <2> QED BY <2>1, <2>2
<1>5. Retried' /\ RetryOwned' /\ VerdictIsFresh'
  BY <1>2 DEF ScanInv, Retried, RetryOwned, VerdictIsFresh
<1> QED BY <1>1, <1>3, <1>4, <1>5 DEF ScanInv

LEMMA PauseKeeps ==
  ASSUME ScanAssumption, ScanInv, NEW v \in 1 .. scheduled, Pause(v)
  PROVE  ScanInv'
<1>0. v \in 1 .. Verifiers BY Numbers DEF ScanInv
<1>1. /\ verifier[v].pc = "pause" /\ Goto(v, "off") /\ record' = Paused(record, v)
      /\ UNCHANGED <<package, chosen, scheduled, manager, autostart, owed, stale>>
  BY DEF Pause, disk, rest
<1>2. CASE ~Mine(record, v)
  <2>1. record' = record /\ ~Assigned(v) BY <1>1, <1>2 DEF Paused, Mine, Assigned
  <2> QED BY <1>1, <2>1, WorkerLeaves
<1>3. CASE Mine(record, v)
  <2>1. record' = Halted(record) BY <1>1, <1>3 DEF Paused
  <2>2. /\ record' \in Records
        /\ Turns(record', record.at, record.enabled, FALSE, record.read, record.retry.kept,
                 record.retry.worker, FALSE)
    BY <2>1, HaltedTurns DEF ScanInv, ScanTyped, RecordTyped
  <2>3. VerifierTyped' /\ Moves(v, "off")
    BY <1>0, <1>1, GotoMoves DEF ScanInv, ScanTyped, VerifierSteps
  <2>4. Restorable(record)' => Restorable(record) BY <2>2 DEF Turns, Restorable
  <2>5. RestoreKept' BY <1>0, <1>1, <2>3, <2>4, StillRestored DEF ScanInv, Moves
  <2>6. \A w \in 1 .. Verifiers : verifier'[w] = verifier[w]
           \/ (verifier'[w].pc = "off" /\ verifier'[w].seen = verifier[w].seen /\ verifier[w].pc # "off")
    <3>1. verifier[v].pc # "off" BY <1>1
    <3> QED BY <2>3, <3>1 DEF Moves, Others
  <2> QED BY <1>1, <2>2, <2>3, <2>5, <2>6, RecordHalts
<1> QED BY <1>2, <1>3

LEMMA ExhaustKeeps ==
  ASSUME ScanAssumption, ScanInv, NEW v \in 1 .. scheduled, Exhaust(v)
  PROVE  ScanInv'
<1>0. v \in 1 .. Verifiers BY Numbers DEF ScanInv
<1> DEFINE x == [Halted(record) EXCEPT !.at = "checking", !.enabled = FALSE, !.code = "exhausted"]
<1>1. /\ verifier[v].pc = "exhaust" /\ Goto(v, "off")
      /\ record' = IF ~Mine(record, v) THEN record ELSE x
      /\ UNCHANGED <<package, chosen, scheduled, manager, autostart, owed, stale>>
  BY DEF Exhaust, disk, rest
<1>2. /\ x \in Records
      /\ Turns(x, "checking", FALSE, FALSE, record.read, record.retry.kept, record.retry.worker, FALSE)
  BY ExhaustedTurns DEF ScanInv, ScanTyped, RecordTyped
<1> HIDE DEF x
<1>3. CASE ~Mine(record, v)
  <2>1. record' = record /\ ~Assigned(v) BY <1>1, <1>3 DEF Mine, Assigned
  <2> QED BY <1>1, <2>1, WorkerLeaves
<1>4. CASE Mine(record, v)
  <2>1. record' = x BY <1>1, <1>4
  <2>3. VerifierTyped' /\ Moves(v, "off")
    BY <1>0, <1>1, GotoMoves DEF ScanInv, ScanTyped, VerifierSteps
  <2>4. Restorable(record)' => Restorable(record) BY <1>2, <2>1 DEF Turns, Restorable
  <2>5. RestoreKept' BY <1>0, <1>1, <2>3, <2>4, StillRestored DEF ScanInv, Moves
  <2>6. \A w \in 1 .. Verifiers : verifier'[w] = verifier[w]
           \/ (verifier'[w].pc = "off" /\ verifier'[w].seen = verifier[w].seen /\ verifier[w].pc # "off")
    <3>1. verifier[v].pc # "off" BY <1>1
    <3> QED BY <2>3, <3>1 DEF Moves, Others
  <2>7. record' \in Records /\ Turns(record', "checking", FALSE, FALSE, record.read,
                                     record.retry.kept, record.retry.worker, FALSE)
    BY <1>2, <2>1
  <2> QED BY <1>1, <2>3, <2>5, <2>6, <2>7, RecordHalts
<1> QED BY <1>3, <1>4

LEMMA HaltKeeps ==
  ASSUME ScanAssumption, ScanInv, HaltRetries
  PROVE  ScanInv'
<1>1. /\ record' = Halted(record) /\ verifier' = verifier
      /\ UNCHANGED <<package, chosen, scheduled, manager, autostart, owed, stale>>
  BY DEF HaltRetries, disk
<1>2. /\ record' \in Records
      /\ Turns(record', record.at, record.enabled, FALSE, record.read, record.retry.kept,
               record.retry.worker, FALSE)
  BY <1>1, HaltedTurns DEF ScanInv, ScanTyped, RecordTyped
<1>3. VerifierTyped' BY <1>1 DEF ScanInv, ScanTyped, VerifierTyped
<1>4. RestoreKept' BY <1>1, <1>2, RestoredUnmoved DEF ScanInv, Turns, Restorable
<1>5. \A w \in 1 .. Verifiers : verifier'[w] = verifier[w] BY <1>1
<1> QED BY <1>1, <1>2, <1>3, <1>4, <1>5, RecordHalts

(* The record is replaced by one that nobody verifies.                              *)
LEMMA RecordReplaced ==
  ASSUME ScanAssumption, ScanInv, record' \in Records, NEW a, NEW e, NEW n \in Nat,
         Turns(record', a, e, FALSE, n, FALSE, 0, FALSE), n <= package.epoch,
         NEW v \in 1 .. Verifiers, Goto(v, "off") \/ Goto(v, "restore"), verifier[v].pc # "off",
         chosen' \in Choices, RestoreKept', owed' \in BOOLEAN,
         UNCHANGED <<package, scheduled, manager, stale>>
  PROVE  ScanInv'
<1>1. VerifierTyped' /\ (Moves(v, "off") \/ Moves(v, "restore"))
  BY GotoMoves DEF ScanInv, ScanTyped, VerifierSteps
<1>2. ScanTyped'
  BY <1>1 DEF ScanInv, ScanTyped, PackageTyped, RecordTyped, ManagerTyped, RestTyped
<1>3. /\ record'.retrying = FALSE /\ record'.read = n /\ record'.retry.worker = 0
      /\ record'.retry.running = FALSE
  BY DEF Turns
<1>4. ASSUME NEW w \in 1 .. Verifiers PROVE Awaited(w)'
  <2>1. ~Assigned(w)' BY <1>3 DEF Assigned
  <2>2. verifier'[w].seen = verifier[w].seen /\ (verifier'[w].pc # "off" => verifier[w].pc # "off")
    BY <1>1 DEF Moves, Others
  <2> QED BY <2>1, <2>2 DEF ScanInv, Awaited
<1>5. Managed'
  <2>1. CASE manager.pc = "spawn"
    <3>1. scheduled \in 1 .. Verifiers /\ verifier[scheduled].pc = "off"
      BY <2>1, Numbers DEF ScanInv, Managed
    <3>2. verifier'[scheduled].pc = "off" BY <1>1, <3>1 DEF Moves, Others
    <3> QED BY <1>3, <2>1, <3>2 DEF ScanInv, Managed
  <2>2. CASE manager.pc # "spawn" BY <2>2 DEF ScanInv, Managed
  <2> QED BY <2>1, <2>2
<1>6. Retried' BY <1>3, Numbers DEF ScanInv, Retried
<1>7. RetryOwned' /\ VerdictIsFresh' BY <1>3 DEF ScanInv, RetryOwned, VerdictIsFresh
<1> QED BY <1>2, <1>4, <1>5, <1>6, <1>7, RestoreKept' DEF ScanInv

LEMMA AcceptKeeps ==
  ASSUME ScanAssumption, ScanInv, NEW v \in 1 .. scheduled, Accept(v)
  PROVE  ScanInv'
<1>0. v \in 1 .. Verifiers BY Numbers DEF ScanInv
<1> DEFINE s == verifier[v].seen
<1>1. s \in Readings /\ s.epoch \in Nat /\ s.version \in Nat
  BY <1>0, Numbers DEF ScanInv, Readings
<1>2. verifier[v].pc = "apply" /\ UNCHANGED <<package, scheduled, manager, autostart>>
  BY DEF Accept, disk, rest
<1>3. CASE ~Assigned(v)
  <2>1. Goto(v, "off") /\ UNCHANGED <<record, chosen, owed, stale>> BY <1>3 DEF Accept, Applies
  <2> QED BY <1>2, <1>3, <2>1, WorkerLeaves
<1>4. CASE Assigned(v)
  <2>1. /\ record' = Scanned(chosen, s) /\ chosen' = Known(chosen, s) /\ owed' = TRUE
        /\ stale' = (stale \/ s.epoch < record.read)
        /\ Goto(v, IF Restorable(record') THEN "restore" ELSE "off")
    BY <1>4 DEF Accept, Applies
  <2>2. record.read <= s.epoch /\ s.epoch <= package.epoch BY <1>0, <1>2, <1>4 DEF ScanInv, Awaited
  <2> HIDE DEF s
  <2>3. chosen \in Choices BY DEF ScanInv, ScanTyped, RestTyped
  <2>4. chosen' \in Choices BY <1>1, <2>1, <2>3, KnownIs
  <2>5. PICK e \in BOOLEAN : Turns(record', "installed", e, FALSE, s.epoch, FALSE, 0, FALSE)
    BY <1>1, <2>1, <2>3, ScannedTurns
  <2>6. record' \in Records BY <1>1, <2>1, <2>3, ScannedTurns
  <2>7. stale' = stale
    <3>1. ~(s.epoch < record.read) BY <1>1, <2>2, Numbers DEF ScanInv
    <3>2. stale \in BOOLEAN BY DEF ScanInv, ScanTyped, RestTyped
    <3> QED BY <3>1, <3>2, <2>1
  <2>8. owed' \in BOOLEAN BY <2>1
  <2>9. RestoreKept'
    <3>1. CASE Restorable(record')
      <4>1. verifier'[v].pc = "restore"
        BY <1>0, <2>1, <3>1, GotoMoves DEF Moves, ScanInv, ScanTyped, VerifierSteps
      <4> QED BY <1>0, <4>1 DEF RestoreKept, Restoring
    <3>2. CASE ~Restorable(record') BY <3>2 DEF RestoreKept, Restorable
    <3> QED BY <3>1, <3>2
  <2>10. Goto(v, "off") \/ Goto(v, "restore") BY <2>1
  <2>11. verifier[v].pc # "off" BY <1>2
  <2> QED BY <1>0, <1>1, <1>2, <2>2, <2>4, <2>5, <2>6, <2>7, <2>8, <2>9, <2>10, <2>11, RecordReplaced
<1> QED BY <1>3, <1>4

LEMMA AttemptKeeps ==
  ASSUME ScanAssumption, ScanInv, NEW v \in 1 .. scheduled, Attempt(v)
  PROVE  ScanInv'
<1>0. v \in 1 .. Verifiers BY Numbers DEF ScanInv
<1>1. /\ verifier[v].pc = "attempt"
      /\ UNCHANGED <<package, chosen, scheduled, manager, autostart, owed, stale>>
  BY DEF Attempt, disk, rest
<1>2. CASE ~Assigned(v)
  <2>1. Goto(v, "off") /\ record' = record BY <1>2 DEF Attempt
  <2> QED BY <1>1, <1>2, <2>1, WorkerLeaves
<1>3. CASE Assigned(v) /\ Spent
  <2>1. Goto(v, "exhaust") /\ record' = record BY <1>3 DEF Attempt
  <2>2. VerifierTyped' /\ Moves(v, "exhaust")
    BY <1>0, <2>1, GotoMoves DEF ScanInv, ScanTyped, VerifierSteps
  <2>3. RestoreKept' BY <1>0, <1>1, <2>1, <2>2, StillRestored DEF ScanInv, Moves, Restorable
  <2>4. owed' \in BOOLEAN BY <1>1 DEF ScanInv, ScanTyped, RestTyped
  <2>5. verifier'[v].pc = "exhaust" /\ verifier'[v].seen = verifier[v].seen /\ Others(v)
    BY <2>2 DEF Moves
  <2>6. verifier'[v].seen.epoch <= package.epoch BY <1>0, <2>5 DEF ScanInv, Awaited
  <2> QED BY <1>1, <2>1, <2>2, <2>3, <2>4, <2>5, <2>6, WorkerGoesOn
<1>4. CASE Assigned(v) /\ ~Spent
  <2>1. /\ record' = [record EXCEPT !.retry.attempts = @ + 1, !.retrying = TRUE]
        /\ verifier' = [verifier EXCEPT ![v].pc = "scan", ![v].active = chosen.active]
    BY <1>4 DEF Attempt
  <2>2. chosen.active \in Nat BY DEF ScanInv, ScanTyped, RestTyped, Choices
  <2>3. VerifierTyped' /\ Moves(v, "scan") BY <1>0, <2>1, <2>2, AttemptMoves DEF ScanInv, ScanTyped
  <2>4. /\ record' \in Records
        /\ Turns(record', record.at, record.enabled, TRUE, record.read, record.retry.kept,
                 record.retry.worker, record.retry.running)
    <3> DEFINE y == [record.retry EXCEPT !.attempts = record.retry.attempts + 1]
    <3>1. record' = [record EXCEPT !.retry = y, !.retrying = TRUE]
      BY <2>1 DEF ScanInv, ScanTyped, RecordTyped, Records
    <3>2. record.retry \in Retries BY Numbers DEF ScanInv
    <3>3. /\ y \in Retries /\ y.kept = record.retry.kept /\ y.worker = record.retry.worker
          /\ y.running = record.retry.running
      BY <3>2 DEF Retries
    <3> HIDE DEF y
    <3> QED BY <3>1, <3>3 DEF ScanInv, ScanTyped, RecordTyped, Records, Turns
  <2>5. ScanTyped'
    BY <1>1, <2>3, <2>4
       DEF ScanInv, ScanTyped, PackageTyped, RecordTyped, ManagerTyped, RestTyped
  <2>6. RestoreKept'
    BY <1>0, <1>1, <2>3, <2>4, StillRestored DEF ScanInv, Moves, Restorable, Turns
  <2>7. ASSUME NEW w \in 1 .. Verifiers PROVE Awaited(w)'
    <3>1. Assigned(w)' <=> Assigned(w) BY <2>4 DEF Assigned, Turns
    <3>2. verifier'[w].seen = verifier[w].seen /\ (w # v => verifier'[w] = verifier[w])
      BY <2>3 DEF Moves, Others
    <3>3. verifier'[v].pc = "scan" /\ verifier[v].pc # "off" BY <1>1, <2>3 DEF Moves
    <3> QED BY <1>1, <2>4, <3>1, <3>2, <3>3 DEF ScanInv, Awaited, Turns
  <2>8. record.retry.running /\ record.retry.kept /\ record.retry.worker = v /\ v > 0
    BY <1>0, <1>4 DEF Assigned
  <2>9. Retried' BY <1>1, <2>4, <2>8 DEF ScanInv, Retried, Turns
  <2>10. RetryOwned' BY <2>3, <2>4, <2>8 DEF RetryOwned, Turns, Moves
  <2>11. Managed'
    <3>1. CASE manager.pc = "spawn"
      <4>1. scheduled = v BY <2>8, <3>1 DEF ScanInv, Managed
      <4> QED BY <1>1, <3>1, <4>1 DEF ScanInv, Managed
    <3>2. CASE manager.pc # "spawn" BY <1>1, <3>2 DEF ScanInv, Managed
    <3> QED BY <3>1, <3>2
  <2> QED BY <1>1, <2>5, <2>6, <2>7, <2>9, <2>10, <2>11 DEF ScanInv, VerdictIsFresh
<1> QED BY <1>2, <1>3, <1>4

LEMMA FailureKeeps ==
  ASSUME ScanAssumption, ScanInv, NEW v \in 1 .. scheduled, RecordFailure(v)
  PROVE  ScanInv'
<1>0. v \in 1 .. Verifiers BY Numbers DEF ScanInv
<1> DEFINE s == verifier[v].seen
<1>1. s \in Readings /\ s.epoch \in Nat BY <1>0, Numbers DEF ScanInv
<1>2. /\ verifier[v].pc = "apply"
      /\ UNCHANGED <<package, chosen, scheduled, manager, autostart, owed>>
  BY DEF RecordFailure, disk, rest
<1>3. CASE ~Assigned(v)
  <2>1. Goto(v, "off") /\ UNCHANGED <<record, stale>> BY <1>3 DEF RecordFailure, Applies
  <2> QED BY <1>2, <1>3, <2>1, WorkerLeaves
<1>4. CASE Assigned(v)
  <2>1. /\ record' = FailsFor(s, record) /\ stale' = (stale \/ s.epoch < record.read)
        /\ Goto(v, IF record'.retry.running THEN "decide" ELSE "off")
    BY <1>4 DEF RecordFailure, Applies
  <2>2. record.read <= s.epoch /\ s.epoch <= package.epoch BY <1>0, <1>2, <1>4 DEF ScanInv, Awaited
  <2> HIDE DEF s
  <2>3. record' \in Records BY <1>1, <2>1, FailureTurns DEF ScanInv, ScanTyped, RecordTyped
  <2>4. PICK a \in {"checking", "invalid"}, t \in BOOLEAN :
           Turns(record', a, FALSE, t, s.epoch, record.retry.kept, record.retry.worker, t)
    BY <1>1, <2>1, FailureTurns DEF ScanInv, ScanTyped, RecordTyped
  <2>5. stale' = stale
    <3>1. ~(s.epoch < record.read) BY <1>1, <2>2, Numbers DEF ScanInv
    <3>2. stale \in BOOLEAN BY DEF ScanInv, ScanTyped, RestTyped
    <3> QED BY <3>1, <3>2, <2>1
  <2>6. record'.retry.running = t BY <2>4 DEF Turns
  <2>7. Goto(v, IF t THEN "decide" ELSE "off") BY <2>1, <2>6
  <2> DEFINE p == IF t THEN "decide" ELSE "off"
  <2>8. p \in VerifierSteps /\ (p = "off" => ~t) /\ p \in {"decide", "off"} BY DEF VerifierSteps
  <2> HIDE DEF p
  <2>9. VerifierTyped' /\ Moves(v, p)
    BY <1>0, <2>7, <2>8, GotoMoves DEF ScanInv, ScanTyped, p
  <2>10. ScanTyped'
    BY <1>2, <2>3, <2>5, <2>9
       DEF ScanInv, ScanTyped, PackageTyped, RecordTyped, ManagerTyped, RestTyped
  <2>11. RestoreKept' BY <2>4 DEF RestoreKept, Restorable, Turns
  <2>12. record.retry.running /\ record.retry.kept /\ record.retry.worker = v /\ v > 0
    BY <1>0, <1>4 DEF Assigned
  <2>13. ASSUME NEW w \in 1 .. Verifiers PROVE Awaited(w)'
    <3>1. CASE w = v
      BY <1>0, <1>1, <1>2, <2>2, <2>4, <2>8, <2>9, <3>1 DEF ScanInv, Awaited, Moves, Assigned, Turns
    <3>2. CASE w # v
      <4>1. ~Assigned(w)' BY <2>4, <2>12, <3>2 DEF Assigned, Turns
      <4>2. verifier'[w] = verifier[w] BY <2>9, <3>2 DEF Moves, Others
      <4> QED BY <1>2, <4>1, <4>2 DEF ScanInv, Awaited
    <3> QED BY <3>1, <3>2
  <2>14. Retried' BY <1>2, <2>2, <2>4, <2>12 DEF ScanInv, Retried, Turns
  <2>15. RetryOwned' BY <2>4, <2>8, <2>9, <2>12 DEF RetryOwned, Turns, Moves
  <2>16. Managed'
    <3>1. CASE manager.pc = "spawn"
      <4>1. scheduled = v BY <2>12, <3>1 DEF ScanInv, Managed
      <4> QED BY <1>2, <3>1, <4>1 DEF ScanInv, Managed
    <3>2. CASE manager.pc # "spawn" BY <1>2, <3>2 DEF ScanInv, Managed
    <3> QED BY <3>1, <3>2
  <2> QED BY <2>5, <2>10, <2>11, <2>13, <2>14, <2>15, <2>16 DEF ScanInv, VerdictIsFresh
<1> QED BY <1>3, <1>4

LEMMA LateKeeps ==
  ASSUME ScanAssumption, ScanInv, RetriesGetLate
  PROVE  ScanInv'
<1>1. /\ record' = [record EXCEPT !.retry.late = TRUE]
      /\ UNCHANGED <<package, chosen, verifier, scheduled, manager, autostart, owed, stale>>
  BY DEF RetriesGetLate, disk, rest
<1>2. /\ record' \in Records /\ record'.skipped = record.skipped
      /\ Turns(record', record.at, record.enabled, record.retrying, record.read, record.retry.kept,
               record.retry.worker, record.retry.running)
  BY <1>1 DEF ScanInv, ScanTyped, RecordTyped, Records, Retries, Turns
<1>3. ScanTyped'
  BY <1>1, <1>2
     DEF ScanInv, ScanTyped, PackageTyped, RecordTyped, VerifierTyped, ManagerTyped, RestTyped
<1>4. RestoreKept' BY <1>1, <1>2, RestoredUnmoved DEF ScanInv, Turns, Restorable
<1>5. ASSUME NEW w \in 1 .. Verifiers PROVE Awaited(w)'
  BY <1>1, <1>2 DEF ScanInv, Awaited, Assigned, Turns
<1>6. Managed' /\ Retried' BY <1>1, <1>2 DEF ScanInv, Managed, Retried, Turns
<1>7. RetryOwned' /\ VerdictIsFresh' BY <1>1, <1>2 DEF ScanInv, RetryOwned, VerdictIsFresh, Turns
<1> QED BY <1>3, <1>4, <1>5, <1>6, <1>7 DEF ScanInv

LEMMA PackageBecomes ==
  ASSUME PackageTyped, NEW at \in OnDisk, NEW n \in Nat, NEW j \in Journals, Becomes(at, n, j)
  PROVE  PackageTyped' /\ package'.epoch = package.epoch + 1 /\ package.epoch \in Nat
BY DEF PackageTyped, Becomes

(* The manager, or what is on disk, goes on and leaves records and workers alone.   *)
LEMMA ManagerGoesOn ==
  ASSUME ScanAssumption, ScanInv, PackageTyped', ManagerTyped', chosen' \in Choices,
         owed' \in BOOLEAN, owed' => owed, package.epoch <= package'.epoch,
         manager'.seen.epoch <= package'.epoch,
         manager'.op = "none" => manager'.pc = "idle",
         \/ manager' = manager
         \/ (manager.pc \notin {"spawn", "schedule"} /\ manager'.pc # "spawn"),
         UNCHANGED <<record, verifier, scheduled, autostart, stale>>
  PROVE  ScanInv'
<1>1. ScanTyped' BY DEF ScanInv, ScanTyped, RecordTyped, VerifierTyped, RestTyped
<1>2. package'.epoch \in Nat BY DEF PackageTyped
<1>3. ASSUME NEW w \in 1 .. Verifiers PROVE Awaited(w)'
  <2>1. Awaited(w) /\ verifier[w].seen.epoch \in Nat /\ package.epoch \in Nat BY Numbers DEF ScanInv
  <2> QED BY <1>2, <2>1 DEF Awaited, Assigned
<1>4. Managed' BY DEF ScanInv, Managed
<1>5. Retried' BY <1>2, Numbers DEF ScanInv, Retried
<1>6. RetryOwned' /\ VerdictIsFresh' BY DEF ScanInv, RetryOwned, VerdictIsFresh
<1>7. RestoreKept' BY RestoredUnmoved DEF ScanInv, Restorable
<1> QED BY <1>1, <1>3, <1>4, <1>5, <1>6, <1>7 DEF ScanInv

LEMMA ScanTypes ==
  ASSUME ScanInv
  PROVE  /\ PackageTyped /\ ManagerTyped /\ chosen \in Choices /\ owed \in BOOLEAN
         /\ package.at \in OnDisk /\ package.version \in Nat /\ package.journal \in Journals
         /\ package.journal.at \in OnDisk /\ package.journal.version \in Nat
         /\ package.journal.chosen \in Choices /\ package.epoch \in Nat
         /\ manager.undo.at \in OnDisk /\ manager.undo.version \in Nat
         /\ manager.undo.chosen \in Choices /\ manager.pc \in ManagerSteps
         /\ manager.seen \in Readings /\ manager.seen.epoch \in Nat
<1>1. PackageTyped /\ ManagerTyped /\ chosen \in Choices /\ owed \in BOOLEAN
  BY DEF ScanInv, ScanTyped, RestTyped
<1>2. /\ package.at \in OnDisk /\ package.version \in Nat /\ package.journal \in Journals
      /\ package.epoch \in Nat
  BY <1>1 DEF PackageTyped
<1>3. manager.undo \in Journals /\ manager.pc \in ManagerSteps /\ manager.seen \in Readings
  BY <1>1 DEF ManagerTyped, Managers
<1> QED BY <1>1, <1>2, <1>3 DEF Journals, Readings

LEMMA ReadsKeep ==
  ASSUME ScanAssumption, ScanInv, RefreshReads
  PROVE  ScanInv'
<1>1. /\ manager.pc = "read" /\ UNCHANGED <<package, chosen, record, verifier, scheduled, autostart, owed, stale>>
      /\ \/ manager' = [ManagerAt("swap") EXCEPT !.seen = RootReading]
         \/ manager' = ManagerAt("failed")
  BY DEF RefreshReads, disk, rest
<1>2. /\ PackageTyped /\ ManagerTyped /\ chosen \in Choices /\ owed \in BOOLEAN
      /\ manager.op # "none" /\ package.epoch \in Nat
  BY <1>1, ScanTypes DEF ScanInv, Managed
<1>3. RootReading \in Readings /\ RootReading.epoch = package.epoch BY <1>2, RootReadingIs
<1>4. /\ ManagerTyped' /\ manager'.pc \in {"swap", "failed"} /\ manager'.op = manager.op
      /\ manager'.seen.epoch <= package.epoch
  <2>1. CASE manager' = ManagerAt("failed")
    BY <2>1, <1>2, ManagerGoes DEF ManagerSteps, ScanInv, Managed
  <2>2. CASE manager' = [ManagerAt("swap") EXCEPT !.seen = RootReading]
    <3>1. manager' = [manager EXCEPT !.pc = "swap", !.seen = RootReading]
      BY <1>2, <2>2 DEF ManagerTyped, Managers, ManagerAt
    <3>2. /\ ManagerTyped' /\ manager'.pc = "swap" /\ manager'.op = manager.op
          /\ manager'.seen = RootReading
      BY <1>2, <1>3, <3>1 DEF ManagerTyped, Managers, ManagerSteps
    <3>3. manager'.seen.epoch <= package.epoch BY <1>2, <1>3, <3>2
    <3> QED BY <3>2, <3>3
  <2> QED BY <1>1, <2>1, <2>2
<1>5. PackageTyped' BY <1>1, <1>2 DEF PackageTyped
<1> QED BY <1>1, <1>2, <1>4, <1>5, ManagerGoesOn

LEMMA SaveKeeps ==
  ASSUME ScanAssumption, ScanInv, SaveActive
  PROVE  ScanInv'
<1>1. /\ manager.pc = "save" /\ UNCHANGED <<package, record, verifier, scheduled, autostart, owed, stale>>
      /\ \/ chosen' = Known(chosen, [version |-> 2]) /\ manager' = [ManagerAt("read") EXCEPT !.verified = TRUE]
         \/ chosen' = chosen /\ manager' = ManagerAt("undo")
  BY DEF SaveActive, rest
<1>2. /\ PackageTyped /\ ManagerTyped /\ chosen \in Choices /\ owed \in BOOLEAN
      /\ manager.op # "none" /\ package.epoch \in Nat /\ manager.seen.epoch <= package.epoch
  BY <1>1, ScanTypes DEF ScanInv, Managed
<1>3. chosen' \in Choices BY <1>1, <1>2, KnownIs
<1>4. /\ ManagerTyped' /\ manager'.pc \in {"read", "undo"} /\ manager'.op = manager.op
      /\ manager'.seen = manager.seen
  <2>1. CASE manager' = ManagerAt("undo") BY <2>1, <1>2, ManagerGoes DEF ManagerSteps
  <2>2. CASE manager' = [ManagerAt("read") EXCEPT !.verified = TRUE]
    <3>1. manager' = [manager EXCEPT !.pc = "read", !.verified = TRUE]
      BY <1>2, <2>2 DEF ManagerTyped, Managers, ManagerAt
    <3> QED BY <1>2, <3>1 DEF ManagerTyped, Managers, ManagerSteps
  <2> QED BY <1>1, <2>1, <2>2
<1>5. PackageTyped' BY <1>1, <1>2 DEF PackageTyped
<1> QED BY <1>1, <1>2, <1>3, <1>4, <1>5, ManagerGoesOn

LEMMA UndoKeeps ==
  ASSUME ScanAssumption, ScanInv, UndoInstall
  PROVE  ScanInv'
<1>1. manager.pc = "undo" /\ UNCHANGED <<record, verifier, scheduled, autostart, owed, stale>>
  BY DEF UndoInstall, rest
<1>2. /\ PackageTyped /\ ManagerTyped /\ chosen \in Choices /\ owed \in BOOLEAN
      /\ manager.op # "none" /\ package.epoch \in Nat /\ manager.seen.epoch <= package.epoch
      /\ manager.seen.epoch \in Nat
      /\ manager.undo.at \in OnDisk /\ manager.undo.version \in Nat /\ manager.undo.chosen \in Choices
  BY <1>1, ScanTypes DEF ScanInv, Managed
<1>3. CASE manager' = Released /\ package' = package /\ chosen' = chosen
  <2>1. ManagerTyped' /\ manager'.pc = "idle" /\ manager'.seen.epoch = 0
    BY <1>3, ManagerRests, BlankValues
  <2>2. PackageTyped' BY <1>2, <1>3 DEF PackageTyped
  <2> QED BY <1>1, <1>2, <1>3, <2>1, <2>2, ManagerGoesOn
<1>4. CASE /\ Back(manager.undo) /\ chosen' = manager.undo.chosen
           /\ manager' = IF manager.seen = Unread THEN Released
                         ELSE [ManagerAt("read") EXCEPT !.op = "other", !.verified = FALSE]
  <2>1. PackageTyped' /\ package'.epoch = package.epoch + 1
    BY <1>2, <1>4, BlankValues, PackageBecomes DEF Back
  <2>2. chosen' \in Choices BY <1>2, <1>4
  <2>3. CASE manager' = Released
    <3>1. ManagerTyped' /\ manager'.pc = "idle" /\ manager'.seen.epoch = 0
      BY <2>3, ManagerRests, BlankValues
    <3> QED BY <1>1, <1>2, <2>1, <2>2, <3>1, ManagerGoesOn
  <2>4. CASE manager' = [ManagerAt("read") EXCEPT !.op = "other", !.verified = FALSE]
    <3>1. manager' = [manager EXCEPT !.pc = "read", !.op = "other", !.verified = FALSE]
      BY <1>2, <2>4 DEF ManagerTyped, Managers, ManagerAt
    <3>2. /\ ManagerTyped' /\ manager'.pc = "read" /\ manager'.op = "other"
          /\ manager'.seen = manager.seen
      BY <1>2, <3>1 DEF ManagerTyped, Managers, ManagerSteps
    <3> QED BY <1>1, <1>2, <2>1, <2>2, <3>2, ManagerGoesOn
  <2> QED BY <1>4, <2>3, <2>4
<1> QED BY <1>3, <1>4 DEF UndoInstall

LEMMA FinishKeeps ==
  ASSUME ScanAssumption, ScanInv, FinishManagement
  PROVE  ScanInv'
<1>1. /\ manager.pc \in {"scanned", "failed"}
      /\ UNCHANGED <<chosen, record, verifier, scheduled, autostart, stale>>
  BY DEF FinishManagement, rest
<1>2. /\ PackageTyped /\ ManagerTyped /\ chosen \in Choices /\ owed \in BOOLEAN
      /\ manager.op # "none" /\ package.epoch \in Nat /\ manager.seen.epoch <= package.epoch
      /\ manager.seen.epoch \in Nat
  BY <1>1, ScanTypes DEF ScanInv, Managed
<1>3. CASE /\ UNCHANGED <<package, owed>>
           /\ manager' = ManagerAt("undo") \/ manager' = [ManagerAt("undo") EXCEPT !.seen = Unread]
  <2>1. /\ ManagerTyped' /\ manager'.pc = "undo" /\ manager'.op = manager.op
        /\ manager'.seen = manager.seen \/ manager'.seen = Unread
    <3>1. CASE manager' = ManagerAt("undo") BY <3>1, <1>2, ManagerGoes DEF ManagerSteps
    <3>2. CASE manager' = [ManagerAt("undo") EXCEPT !.seen = Unread]
      <4>1. manager' = [manager EXCEPT !.pc = "undo", !.seen = Unread]
        BY <1>2, <3>2 DEF ManagerTyped, Managers, ManagerAt
      <4> QED BY <1>2, <4>1, BlankValues DEF ManagerTyped, Managers, ManagerSteps
    <3> QED BY <1>3, <3>1, <3>2
  <2>2. manager'.seen.epoch <= package.epoch BY <1>2, <2>1, BlankValues
  <2>3. PackageTyped' BY <1>2, <1>3 DEF PackageTyped
  <2> QED BY <1>1, <1>2, <1>3, <2>1, <2>2, <2>3, ManagerGoesOn
<1>4. CASE /\ manager' = Released
           /\ package' = IF manager.op = "install" THEN [package EXCEPT !.journal = NoJournal] ELSE package
           /\ owed' = (owed /\ (manager.op \notin {"install", "recover"} \/ manager.pc = "failed"))
  <2>1. ManagerTyped' /\ manager'.pc = "idle" /\ manager'.seen.epoch = 0
    BY <1>4, ManagerRests, BlankValues
  <2>2. PackageTyped' /\ package'.epoch = package.epoch
    BY <1>2, <1>4, BlankValues DEF PackageTyped
  <2>3. owed' \in BOOLEAN /\ (owed' => owed) BY <1>2, <1>4
  <2> QED BY <1>1, <1>2, <2>1, <2>2, <2>3, ManagerGoesOn
<1> QED BY <1>3, <1>4 DEF FinishManagement, disk

LEMMA FilesKeep ==
  ASSUME ScanAssumption, ScanInv, RemoveFiles
  PROVE  ScanInv'
<1>1. manager.pc = "remove" /\ UNCHANGED <<chosen, record, verifier, scheduled, autostart, owed, stale>>
  BY DEF RemoveFiles, rest
<1>2. /\ PackageTyped /\ ManagerTyped /\ chosen \in Choices /\ owed \in BOOLEAN
      /\ manager.op # "none" /\ package.epoch \in Nat /\ manager.seen.epoch <= package.epoch
      /\ manager.seen.epoch \in Nat
  BY <1>1, ScanTypes DEF ScanInv, Managed
<1>3. CASE Becomes("gone", NoVersion, NoJournal) /\ manager' = ManagerAt("forget")
  <2>a. "gone" \in OnDisk /\ NoVersion \in Nat /\ NoJournal \in Journals
    BY BlankValues DEF OnDisk, NoVersion
  <2>1. PackageTyped' /\ package'.epoch = package.epoch + 1
    BY <1>2, <1>3, <2>a, PackageBecomes
  <2>2. /\ ManagerTyped' /\ manager'.pc = "forget" /\ manager'.op = manager.op
        /\ manager'.seen = manager.seen
    BY <1>2, <1>3, ManagerGoes DEF ManagerSteps
  <2> QED BY <1>1, <1>2, <2>1, <2>2, ManagerGoesOn
<1>4. CASE manager' = Released /\ package' = package
  <2>1. ManagerTyped' /\ manager'.pc = "idle" /\ manager'.seen.epoch = 0
    BY <1>4, ManagerRests, BlankValues
  <2>2. PackageTyped' BY <1>2, <1>4 DEF PackageTyped
  <2> QED BY <1>1, <1>2, <1>4, <2>1, <2>2, ManagerGoesOn
<1> QED BY <1>3, <1>4 DEF RemoveFiles

LEMMA OtherKeeps ==
  ASSUME ScanAssumption, ScanInv, RefreshForOther
  PROVE  ScanInv'
<1>1. /\ manager.op = "none" /\ Manages("other", "read")
      /\ UNCHANGED <<package, chosen, record, verifier, scheduled, autostart, owed, stale>>
  BY DEF RefreshForOther, MayManage, rest
<1>2. /\ PackageTyped /\ chosen \in Choices /\ owed \in BOOLEAN /\ package.epoch \in Nat
      /\ manager.pc = "idle"
  BY <1>1, ScanTypes DEF ScanInv, Managed
<1>3. ManagerTyped' /\ manager'.op = "other" /\ manager'.pc = "read" /\ manager'.seen.epoch = 0
  BY <1>1, ManagerStarts, BlankValues DEF ManagerSteps
<1>4. PackageTyped' BY <1>1, <1>2 DEF PackageTyped
<1> QED BY <1>1, <1>2, <1>3, <1>4, ManagerGoesOn

LEMMA PlaceKeeps ==
  ASSUME ScanAssumption, ScanInv, PlacePackage
  PROVE  ScanInv'
<1> DEFINE old == Journal(package.at, package.version)
<1>1. /\ manager.op = "none" /\ Becomes("good", 2, old)
      /\ manager' = [Released EXCEPT !.op = "install", !.pc = "save", !.undo = old]
      /\ UNCHANGED <<chosen, record, verifier, scheduled, autostart, owed, stale>>
  BY DEF PlacePackage, MayManage, rest
<1>2. /\ PackageTyped /\ chosen \in Choices /\ owed \in BOOLEAN /\ package.epoch \in Nat
      /\ manager.pc = "idle" /\ package.at \in OnDisk /\ package.version \in Nat
  BY <1>1, ScanTypes DEF ScanInv, Managed
<1>3. old \in Journals BY <1>2 DEF Journal, Journals
<1> HIDE DEF old
<1>4. ManagerTyped' /\ manager'.op = "install" /\ manager'.pc = "save" /\ manager'.seen = Unread
  BY <1>1, <1>3, BlankValues DEF ManagerTyped, Managers, ManagerSteps, Released
<1>5. PackageTyped' /\ package'.epoch = package.epoch + 1
  BY <1>1, <1>2, <1>3, PackageBecomes DEF OnDisk
<1>6. manager'.seen.epoch = 0 BY <1>4, BlankValues
<1> QED BY <1>1, <1>2, <1>4, <1>5, <1>6, ManagerGoesOn

LEMMA ChangesKeep ==
  ASSUME ScanAssumption, ScanInv, PackageChanges
  PROVE  ScanInv'
<1>1. /\ UNCHANGED <<chosen, record, verifier, scheduled, manager, autostart, owed, stale>>
      /\ \E at \in OnDisk : package' = [package EXCEPT !.at = at, !.epoch = @ + 1]
  BY DEF PackageChanges, rest, OnDisk
<1>2. /\ PackageTyped /\ ManagerTyped /\ chosen \in Choices /\ owed \in BOOLEAN
      /\ package.epoch \in Nat /\ manager.seen.epoch <= package.epoch /\ manager.seen.epoch \in Nat
      /\ (manager.op = "none" => manager.pc = "idle")
  BY ScanTypes DEF ScanInv, Managed
<1>5. PICK at \in OnDisk : package' = [package EXCEPT !.at = at, !.epoch = package.epoch + 1]
  BY <1>1
<1>6. package.epoch + 1 \in Nat BY <1>2
<1>7. PackageTyped' BY <1>2, <1>5, <1>6 DEF PackageTyped
<1>3. PackageTyped' /\ package'.epoch = package.epoch + 1 BY <1>2, <1>5, <1>7 DEF PackageTyped
<1>4. ManagerTyped' BY <1>1, <1>2 DEF ManagerTyped
<1> QED BY <1>1, <1>2, <1>3, <1>4, ManagerGoesOn

(* The record is made anew and has no worker, or waits for one to be scheduled.     *)
Anew(q) ==
    /\ q.retry.worker = 0 /\ q.retry.running = FALSE
    /\ q.retrying => q.retry.kept
    /\ q.read <= package.epoch

LEMMA RecordAnew ==
  ASSUME ScanAssumption, ScanInv, record' \in Records, ManagerTyped', chosen' \in Choices,
         owed' \in BOOLEAN, Anew(record'),
         record'.retrying => manager'.pc = "schedule" \/ record'.skipped,
         manager'.seen.epoch <= package.epoch, manager'.op = "none" => manager'.pc = "idle",
         manager'.pc # "spawn", RestoreKept',
         UNCHANGED <<package, verifier, scheduled, autostart, stale>>
  PROVE  ScanInv'
<1>1. ScanTyped'
  BY DEF ScanInv, ScanTyped, PackageTyped, RecordTyped, VerifierTyped, RestTyped
<1>2. ASSUME NEW w \in 1 .. Verifiers PROVE Awaited(w)' BY DEF ScanInv, Awaited, Assigned, Anew
<1>3. Managed' BY DEF ScanInv, Managed
<1>4. Retried' BY Numbers DEF ScanInv, Retried, Anew
<1>5. RetryOwned' /\ VerdictIsFresh' BY DEF ScanInv, RetryOwned, VerdictIsFresh, Anew
<1> QED BY <1>1, <1>2, <1>3, <1>4, <1>5, RestoreKept' DEF ScanInv

LEMMA SwapsKeep ==
  ASSUME ScanAssumption, ScanInv, RefreshSwaps
  PROVE  ScanInv'
<1> DEFINE s == Trusted(manager.seen)
           b == CASE s.verdict = "ok" -> Scanned(chosen, s)
                  [] s.verdict = "absent" -> NoRecord
                  [] OTHER -> Failed(s)
<1>1. /\ manager.pc = "swap" /\ owed' = FALSE
      /\ chosen' = (IF s.verdict = "ok" THEN Known(chosen, s) ELSE chosen)
      /\ UNCHANGED <<package, verifier, scheduled, autostart, stale>>
      /\ \/ record' = b /\ manager' = ManagerAt("schedule")
         \/ record' = [b EXCEPT !.skipped = TRUE] /\ manager' = ManagerAt("failed")
  BY DEF RefreshSwaps, rest
<1>2. /\ PackageTyped /\ ManagerTyped /\ chosen \in Choices /\ package.epoch \in Nat
      /\ manager.seen \in Readings /\ manager.seen.epoch <= package.epoch /\ manager.op # "none"
  BY <1>1, ScanTypes DEF ScanInv, Managed
<1>3. s \in Readings /\ s.epoch = manager.seen.epoch BY <1>2, TrustedIs
<1>4. s.epoch \in Nat /\ s.version \in Nat /\ s.epoch <= package.epoch BY <1>2, <1>3 DEF Readings
<1> HIDE DEF s
<1>5. chosen' \in Choices BY <1>1, <1>2, <1>4, KnownIs
<1>6. b \in Records /\ Anew(b)
  <2>1. CASE s.verdict = "ok"
    <3>1. b = Scanned(chosen, s) BY <2>1
    <3>2. b \in Records /\ \E e \in BOOLEAN : Turns(b, "installed", e, FALSE, s.epoch, FALSE, 0, FALSE)
      BY <1>2, <1>3, <3>1, ScannedTurns
    <3> HIDE DEF b
    <3> QED BY <1>4, <3>2 DEF Anew, Turns
  <2>2. CASE s.verdict = "absent"
    <3>1. b = NoRecord BY <2>2
    <3> HIDE DEF b
    <3> QED BY <1>2, <3>1, NoRecordTurns DEF Anew, Turns
  <2>3. CASE s.verdict \notin {"ok", "absent"}
    <3>1. b = Failed(s) BY <2>3
    <3> HIDE DEF b
    <3>2. PICK a \in {"checking", "invalid"}, t \in BOOLEAN :
             Turns(b, a, FALSE, t, s.epoch, t, 0, FALSE)
      BY <1>3, <3>1, FailedTurns
    <3> QED BY <1>3, <1>4, <3>1, <3>2, FailedTurns DEF Anew, Turns
  <2> QED BY <2>1, <2>2, <2>3
<1> HIDE DEF b
<1>9. RestoreKept' BY <1>1 DEF RestoreKept
<1>10. owed' \in BOOLEAN BY <1>1
<1>11. CASE record' = b /\ manager' = ManagerAt("schedule")
  <2>1. /\ ManagerTyped' /\ manager'.pc = "schedule" /\ manager'.op = manager.op
        /\ manager'.seen = manager.seen
    BY <1>2, <1>11, ManagerGoes DEF ManagerSteps
  <2>2. record' \in Records /\ Anew(record') BY <1>6, <1>11
  <2> QED BY <1>1, <1>2, <1>5, <1>9, <1>10, <2>1, <2>2, RecordAnew
<1>12. CASE record' = [b EXCEPT !.skipped = TRUE] /\ manager' = ManagerAt("failed")
  <2>1. /\ ManagerTyped' /\ manager'.pc = "failed" /\ manager'.op = manager.op
        /\ manager'.seen = manager.seen
    BY <1>2, <1>12, ManagerGoes DEF ManagerSteps
  <2>2. record' \in Records /\ record'.skipped = TRUE /\ Anew(record')
    BY <1>6, <1>12 DEF Records, Anew
  <2> QED BY <1>1, <1>2, <1>5, <1>9, <1>10, <2>1, <2>2, RecordAnew
<1> QED BY <1>1, <1>11, <1>12

LEMMA ForgetKeeps ==
  ASSUME ScanAssumption, ScanInv, ForgetRecord
  PROVE  ScanInv'
<1>1. /\ record' = NoRecord /\ owed' = FALSE /\ chosen' = NotChosen /\ manager' = Released
      /\ UNCHANGED <<package, verifier, scheduled, autostart, stale>>
  BY DEF ForgetRecord, disk, rest
<1>2. package.epoch \in Nat BY ScanTypes
<1>3. ManagerTyped' /\ manager'.pc = "idle" /\ manager'.seen.epoch = 0
  BY <1>1, ManagerRests, BlankValues
<1>4. record' \in Records /\ Anew(record') /\ record'.retrying = FALSE
  BY <1>1, <1>2, NoRecordTurns DEF Anew, Turns
<1>5. chosen' \in Choices /\ owed' \in BOOLEAN BY <1>1, BlankValues
<1>6. RestoreKept' BY <1>1 DEF RestoreKept
<1> QED BY <1>1, <1>2, <1>3, <1>4, <1>5, <1>6, RecordAnew

LEMMA RetryKeeps ==
  ASSUME ScanAssumption, ScanInv, RetryNow
  PROVE  ScanInv'
<1>1. manager.op = "none" /\ UNCHANGED <<verifier, scheduled, autostart, owed, stale>>
  BY DEF RetryNow, MayManage, rest
<1>2. /\ PackageTyped /\ chosen \in Choices /\ owed \in BOOLEAN /\ package.epoch \in Nat
      /\ manager.pc = "idle" /\ package.journal.at \in OnDisk /\ package.journal.version \in Nat
      /\ package.journal.chosen \in Choices
  BY <1>1, ScanTypes DEF ScanInv, Managed
<1>3. CASE /\ Back(package.journal) /\ chosen' = package.journal.chosen
           /\ Manages("recover", "read") /\ record' = record
  <2>1. PackageTyped' /\ package'.epoch = package.epoch + 1
    BY <1>2, <1>3, BlankValues, PackageBecomes DEF Back
  <2>2. ManagerTyped' /\ manager'.op = "recover" /\ manager'.pc = "read" /\ manager'.seen.epoch = 0
    BY <1>3, ManagerStarts, BlankValues DEF ManagerSteps
  <2> QED BY <1>1, <1>2, <1>3, <2>1, <2>2, ManagerGoesOn
<1>4. CASE /\ record' = [record EXCEPT !.at = "checking", !.enabled = FALSE, !.code = "retrying",
                                       !.retrying = TRUE, !.retry = NewRetry(0)]
           /\ Manages("retry", "schedule") /\ UNCHANGED <<package, chosen>>
  <2>1. /\ record' \in Records /\ record'.at = "checking" /\ record'.read = record.read
        /\ record'.retry = NewRetry(0)
    BY <1>4, NewRetries DEF ScanInv, ScanTyped, RecordTyped, Records
  <2>2. ManagerTyped' /\ manager'.op = "retry" /\ manager'.pc = "schedule" /\ manager'.seen.epoch = 0
    BY <1>4, ManagerStarts, BlankValues DEF ManagerSteps
  <2>3. RestoreKept' BY <2>1 DEF RestoreKept, Restorable
  <2>4. Anew(record')
    <3>1. record.read <= package.epoch BY DEF ScanInv, Retried
    <3> QED BY <2>1, <3>1, NewRetries DEF Anew
  <2>5. chosen' \in Choices /\ owed' \in BOOLEAN BY <1>1, <1>2, <1>4
  <2> QED BY <1>1, <1>2, <1>4, <2>1, <2>2, <2>3, <2>4, <2>5, RecordAnew
<1> QED BY <1>3, <1>4 DEF RetryNow

LEMMA SwitchedTurns ==
  ASSUME RecordTyped, NEW b \in BOOLEAN, record' = [record EXCEPT !.enabled = b]
  PROVE  /\ record' \in Records /\ record'.skipped = record.skipped
         /\ Turns(record', record.at, b, record.retrying, record.read, record.retry.kept,
                  record.retry.worker, record.retry.running)
BY DEF RecordTyped, Records, Turns

(* The user's switch says nothing of the verification.                              *)
LEMMA RecordSwitched ==
  ASSUME ScanAssumption, ScanInv, NEW b \in BOOLEAN, record' = [record EXCEPT !.enabled = b],
         manager.pc = "idle", ManagerTyped', chosen' \in Choices, owed' \in BOOLEAN,
         manager'.seen.epoch <= package.epoch, manager'.op = "none" => manager'.pc = "idle",
         manager'.pc # "spawn", RestoreKept',
         UNCHANGED <<package, verifier, scheduled, autostart, stale>>
  PROVE  ScanInv'
<1>1. /\ record' \in Records /\ record'.skipped = record.skipped
      /\ Turns(record', record.at, b, record.retrying, record.read, record.retry.kept,
               record.retry.worker, record.retry.running)
  BY SwitchedTurns DEF ScanInv, ScanTyped
<1>2. ScanTyped'
  BY <1>1 DEF ScanInv, ScanTyped, PackageTyped, RecordTyped, VerifierTyped, RestTyped
<1>3. ASSUME NEW w \in 1 .. Verifiers PROVE Awaited(w)' BY <1>1 DEF ScanInv, Awaited, Assigned, Turns
<1>4. Managed' BY DEF ScanInv, Managed
<1>5. Retried' BY <1>1 DEF ScanInv, Retried, Turns
<1>6. RetryOwned' /\ VerdictIsFresh' BY <1>1 DEF ScanInv, RetryOwned, VerdictIsFresh, Turns
<1> QED BY <1>2, <1>3, <1>4, <1>5, <1>6, RestoreKept' DEF ScanInv

LEMMA SwitchKeeps ==
  ASSUME ScanAssumption, ScanInv, SwitchPlugin
  PROVE  ScanInv'
<1>1. manager.op = "none" /\ UNCHANGED <<package, verifier, scheduled, manager, autostart, stale>>
  BY DEF SwitchPlugin, MayManage, rest
<1>2. PICK to \in {"yes", "no"} :
         /\ chosen' = [chosen EXCEPT !.enabled = to]
         /\ record' = [record EXCEPT !.enabled = (to = "yes")]
         /\ owed' = (owed /\ to = "no")
  BY DEF SwitchPlugin
<1>3. /\ chosen \in Choices /\ owed \in BOOLEAN /\ manager.pc = "idle" /\ ManagerTyped
      /\ manager.seen.epoch <= package.epoch
  BY <1>1, ScanTypes DEF ScanInv, Managed
<1>4. chosen' \in Choices BY <1>2, <1>3 DEF Choices
<1>5. owed' \in BOOLEAN /\ (owed' => to = "no") BY <1>2, <1>3
<1>6. ManagerTyped' BY <1>1, <1>3 DEF ManagerTyped
<1> DEFINE b == to = "yes"
<1>7. b \in BOOLEAN /\ record' = [record EXCEPT !.enabled = b] /\ (to = "no" => b = FALSE) BY <1>2
<1> HIDE DEF b
<1>8. record'.enabled = b BY <1>7, SwitchedTurns DEF ScanInv, ScanTyped, Turns
<1>9. RestoreKept' BY <1>5, <1>7, <1>8 DEF RestoreKept, Restorable
<1> QED BY <1>1, <1>3, <1>4, <1>5, <1>6, <1>7, <1>9, RecordSwitched

LEMMA RemoveKeeps ==
  ASSUME ScanAssumption, ScanInv, RemovePlugin
  PROVE  ScanInv'
<1>1. /\ manager.op = "none" /\ chosen' = [chosen EXCEPT !.enabled = "no"]
      /\ record' = [record EXCEPT !.enabled = FALSE] /\ Manages("remove", "remove")
      /\ UNCHANGED <<package, verifier, scheduled, autostart, owed, stale>>
  BY DEF RemovePlugin, MayManage, rest
<1>2. chosen \in Choices /\ owed \in BOOLEAN /\ manager.pc = "idle" /\ package.epoch \in Nat
  BY <1>1, ScanTypes DEF ScanInv, Managed
<1>3. chosen' \in Choices /\ owed' \in BOOLEAN BY <1>1, <1>2 DEF Choices
<1>4. ManagerTyped' /\ manager'.op = "remove" /\ manager'.pc = "remove" /\ manager'.seen.epoch = 0
  BY <1>1, ManagerStarts, BlankValues DEF ManagerSteps
<1>5. PICK b \in BOOLEAN : b = FALSE OBVIOUS
<1>6. record' = [record EXCEPT !.enabled = b] BY <1>1, <1>5
<1>7. record'.enabled = b BY <1>6, SwitchedTurns DEF ScanInv, ScanTyped, Turns
<1>8. RestoreKept' BY <1>5, <1>7 DEF RestoreKept, Restorable
<1>9. /\ manager'.seen.epoch <= package.epoch /\ manager'.pc # "spawn"
      /\ (manager'.op = "none" => manager'.pc = "idle")
  BY <1>2, <1>4
<1>10. UNCHANGED <<package, verifier, scheduled, autostart, stale>> BY <1>1
<1> QED BY <1>2, <1>3, <1>4, <1>6, <1>8, <1>9, <1>10, RecordSwitched

LEMMA ScheduleKeeps ==
  ASSUME ScanAssumption, ScanInv, ScheduleRetry
  PROVE  ScanInv'
<1>1. /\ manager.pc = "schedule"
      /\ UNCHANGED <<package, chosen, verifier, autostart, owed, stale>>
  BY DEF ScheduleRetry, disk, rest
<1>2. /\ PackageTyped /\ ManagerTyped /\ chosen \in Choices /\ owed \in BOOLEAN
      /\ manager.op # "none" /\ manager.seen.epoch <= package.epoch
  BY <1>1, ScanTypes DEF ScanInv, Managed
<1>3. CASE /\ record.retry.kept /\ ~record.retry.running /\ scheduled < Verifiers
           /\ scheduled' = scheduled + 1
           /\ record' = [record EXCEPT !.retry.running = TRUE, !.retry.worker = scheduled + 1]
           /\ manager' = ManagerAt("spawn")
  <2>1. /\ scheduled \in Nat /\ Verifiers \in Nat /\ scheduled' \in Nat /\ scheduled' > 0
        /\ scheduled' \in 0 .. Verifiers /\ scheduled' \in 1 .. Verifiers
    BY <1>3, Numbers DEF ScanInv
  <2>2. /\ ManagerTyped' /\ manager'.pc = "spawn" /\ manager'.op = manager.op
        /\ manager'.seen = manager.seen
    BY <1>2, <1>3, ManagerGoes DEF ManagerSteps
  <2>3. /\ record' \in Records
        /\ Turns(record', record.at, record.enabled, record.retrying, record.read, record.retry.kept,
                 scheduled', TRUE)
    <3> DEFINE y == [record.retry EXCEPT !.running = TRUE, !.worker = scheduled']
    <3>1. record' = [record EXCEPT !.retry = y]
      BY <1>3 DEF ScanInv, ScanTyped, RecordTyped, Records
    <3>2. y \in Retries /\ y.kept = record.retry.kept /\ y.worker = scheduled' /\ y.running = TRUE
      BY <2>1, Numbers DEF ScanInv, Retries
    <3> HIDE DEF y
    <3> QED BY <3>1, <3>2 DEF ScanInv, ScanTyped, RecordTyped, Records, Turns
  <2>4. ScanTyped'
    BY <1>1, <1>2, <2>1, <2>2, <2>3
       DEF ScanInv, ScanTyped, PackageTyped, RecordTyped, VerifierTyped, RestTyped
  <2>5. verifier[scheduled'].pc = "off" BY <1>3, <2>1 DEF ScanInv, Awaited
  <2>6. ASSUME NEW w \in 1 .. Verifiers PROVE Awaited(w)'
    <3>1. CASE w = scheduled' BY <1>1, <2>5, <3>1, Numbers DEF ScanInv, Awaited
    <3>2. CASE w # scheduled'
      <4>1. ~Assigned(w)' BY <2>3, <3>2 DEF Assigned, Turns
      <4>2. verifier'[w] = verifier[w] /\ (w <= scheduled => w <= scheduled') BY <1>1, <1>3, <2>1
      <4> QED BY <1>1, <4>1, <4>2 DEF ScanInv, Awaited
    <3> QED BY <3>1, <3>2
  <2>7. Managed' BY <1>1, <1>2, <2>1, <2>2, <2>3, <2>5 DEF Managed, Turns
  <2>8. Retried'
    <3>1. record'.retry.worker = scheduled' /\ record'.read = record.read /\ record'.retry.kept
      BY <1>3, <2>3 DEF Turns
    <3>2. record.read <= package.epoch BY DEF ScanInv, Retried
    <3> QED BY <1>1, <2>1, <3>1, <3>2 DEF Retried
  <2>9. RetryOwned' BY <2>2, <2>3 DEF RetryOwned, Turns
  <2>10. RestoreKept' BY <1>1, <2>3, RestoredUnmoved DEF ScanInv, Restorable, Turns
  <2> QED BY <1>1, <2>4, <2>6, <2>7, <2>8, <2>9, <2>10 DEF ScanInv, VerdictIsFresh
<1>4. CASE /\ ~(record.retry.kept /\ ~record.retry.running)
           /\ manager' = ManagerAt("scanned") /\ UNCHANGED <<record, scheduled>>
  <2>1. /\ ManagerTyped' /\ manager'.pc = "scanned" /\ manager'.op = manager.op
        /\ manager'.seen = manager.seen
    BY <1>2, <1>4, ManagerGoes DEF ManagerSteps
  <2>2. ScanTyped'
    BY <1>1, <1>4, <2>1
       DEF ScanInv, ScanTyped, PackageTyped, RecordTyped, VerifierTyped, RestTyped
  <2>3. ASSUME NEW w \in 1 .. Verifiers PROVE Awaited(w)'
    BY <1>1, <1>4 DEF ScanInv, Awaited, Assigned
  <2>4. Managed' BY <1>1, <1>2, <2>1 DEF Managed
  <2>5. Retried' BY <1>1, <1>4 DEF ScanInv, Retried
  <2>6. RetryOwned' BY <1>1, <1>4, <2>1 DEF ScanInv, RetryOwned, Retried
  <2>7. RestoreKept' BY <1>1, <1>4, RestoredUnmoved DEF ScanInv, Restorable
  <2> QED BY <1>1, <2>2, <2>3, <2>4, <2>5, <2>6, <2>7 DEF ScanInv, VerdictIsFresh
<1> QED BY <1>3, <1>4 DEF ScheduleRetry

LEMMA SpawnKeeps ==
  ASSUME ScanAssumption, ScanInv, Spawn
  PROVE  ScanInv'
<1>1. /\ manager.pc = "spawn" /\ manager' = ManagerAt("scanned")
      /\ UNCHANGED <<package, chosen, scheduled, autostart, owed, stale>>
  BY DEF Spawn, rest
<1>2. /\ PackageTyped /\ ManagerTyped /\ manager.op # "none" /\ manager.seen.epoch <= package.epoch
      /\ scheduled \in 1 .. Verifiers /\ verifier[scheduled].pc = "off"
      /\ record.retry.worker \in {0, scheduled} /\ package.epoch \in Nat
  BY <1>1, ScanTypes, Numbers DEF ScanInv, Managed
<1>3. /\ ManagerTyped' /\ manager'.pc = "scanned" /\ manager'.op = manager.op
      /\ manager'.seen = manager.seen
  BY <1>1, <1>2, ManagerGoes DEF ManagerSteps
<1>4. Managed' BY <1>1, <1>2, <1>3 DEF Managed
<1>5. CASE /\ verifier' = [verifier EXCEPT ![scheduled] = [Asleep EXCEPT !.pc = "decide"]]
           /\ record' = record
  <2>1. /\ VerifierTyped' /\ Others(scheduled) /\ verifier'[scheduled].pc = "decide"
        /\ verifier'[scheduled].seen = Unread
    BY <1>2, <1>5, SpawnMoves DEF ScanInv, ScanTyped
  <2>2. ScanTyped'
    BY <1>1, <1>3, <1>5, <2>1
       DEF ScanInv, ScanTyped, PackageTyped, RecordTyped, RestTyped
  <2>3. ASSUME NEW w \in 1 .. Verifiers PROVE Awaited(w)'
    <3>1. CASE w = scheduled
      <4>1. verifier'[w].seen.epoch = 0 /\ verifier'[w].pc = "decide" BY <2>1, <3>1, BlankValues
      <4> QED BY <1>1, <1>2, <3>1, <4>1 DEF Awaited
    <3>2. CASE w # scheduled
      <4>1. verifier'[w] = verifier[w] BY <2>1, <3>2 DEF Others
      <4> QED BY <1>1, <1>5, <4>1 DEF ScanInv, Awaited, Assigned
    <3> QED BY <3>1, <3>2
  <2>4. Retried' BY <1>1, <1>5 DEF ScanInv, Retried
  <2>5. RetryOwned' BY <1>1, <1>2, <1>5, <2>1 DEF ScanInv, RetryOwned
  <2>6. RestoreKept'
    BY <1>1, <1>2, <1>5, <2>1, StillRestored DEF ScanInv, Restorable
  <2> QED BY <1>1, <1>4, <2>2, <2>3, <2>4, <2>5, <2>6 DEF ScanInv, VerdictIsFresh
<1>6. CASE record' = Unstarted(record, scheduled) /\ verifier' = verifier
  <2>1. /\ record' \in Records /\ record'.skipped = record.skipped
        /\ Mine(record, scheduled) =>
              Turns(record', "checking", record.enabled, FALSE, record.read, record.retry.kept,
                    record.retry.worker, FALSE)
        /\ ~Mine(record, scheduled) => record' = record
    BY <1>6, UnstartedTurns DEF ScanInv, ScanTyped, RecordTyped
  <2>2. /\ record'.retry.worker = record.retry.worker /\ record'.read = record.read
        /\ record'.retry.kept = record.retry.kept
        /\ (record'.retrying => record.retrying) /\ ~record'.retry.running
        /\ (Restorable(record)' => Restorable(record))
    <3>1. CASE Mine(record, scheduled) BY <2>1, <3>1 DEF Turns, Restorable
    <3>2. CASE ~Mine(record, scheduled)
      <4>1. record' = record BY <2>1, <3>2
      <4>2. ~record.retry.running
        BY <1>1, <1>2, <3>2 DEF ScanInv, RetryOwned, Retried, Mine
      <4> QED BY <4>1, <4>2 DEF Restorable
    <3> QED BY <3>1, <3>2
  <2>3. ScanTyped'
    BY <1>1, <1>3, <1>6, <2>1
       DEF ScanInv, ScanTyped, PackageTyped, RecordTyped, VerifierTyped, RestTyped
  <2>4. ASSUME NEW w \in 1 .. Verifiers PROVE Awaited(w)'
    <3>1. ~Assigned(w)' BY <2>2 DEF Assigned
    <3> QED BY <1>1, <1>6, <3>1 DEF ScanInv, Awaited
  <2>5. Retried' BY <1>1, <2>2 DEF ScanInv, Retried
  <2>6. RetryOwned'
    <3>1. record.retrying /\ ~record.retry.running => record.skipped BY <1>1 DEF ScanInv, RetryOwned
    <3>2. CASE Mine(record, scheduled) BY <2>1, <3>2 DEF RetryOwned, Turns
    <3>3. CASE ~Mine(record, scheduled) BY <2>1, <2>2, <3>1, <3>3 DEF RetryOwned
    <3> QED BY <3>2, <3>3
  <2>7. RestoreKept' BY <1>1, <1>6, <2>2, RestoredUnmoved DEF ScanInv
  <2> QED BY <1>1, <1>4, <2>3, <2>4, <2>5, <2>6, <2>7 DEF ScanInv, VerdictIsFresh
<1> QED BY <1>5, <1>6 DEF Spawn

LEMMA ScanStutters == ASSUME ScanInv, UNCHANGED allScanVars PROVE ScanInv'
<1>1. UNCHANGED <<package, chosen, record, verifier, scheduled, manager, stale, owed, autostart>>
  BY DEF allScanVars
<1>2. owed' \in BOOLEAN BY <1>1 DEF ScanInv, ScanTyped, RestTyped
<1>3. RestoreKept' BY <1>1 DEF ScanInv, RestoreKept, Restoring, Restorable
<1> QED BY <1>1, <1>2, <1>3, ScanUnmoved

LEMMA ScanStep == ASSUME ScanAssumption, ScanInv, [ScanNext]_allScanVars PROVE ScanInv'
<1>1. CASE ManagerStep
  BY <1>1, ReadsKeep, SwapsKeep, ScheduleKeeps, SpawnKeeps, SaveKeeps, UndoKeeps, FinishKeeps,
     FilesKeep, ForgetKeeps
     DEF ManagerStep
<1>2. CASE UserStep \/ ListRestores
  BY <1>2, RetryKeeps, OtherKeeps, SwitchKeeps, PlaceKeeps, RemoveKeeps, FlagsMove DEF UserStep
<1>3. CASE \E v \in 1 .. scheduled : WorkerStep(v)
  BY <1>3, ConsiderKeeps, AdmitKeeps, PauseKeeps, AttemptKeeps, ScanKeeps, AcceptKeeps, FailureKeeps,
     ExhaustKeeps, RestoreKeeps
     DEF WorkerStep
<1>4. CASE FreezeScans \/ UnfreezeScans \/ StopScans BY <1>4, FlagsMove
<1>5. CASE HaltRetries \/ RetriesGetLate \/ PackageChanges
  BY <1>5, HaltKeeps, LateKeeps, ChangesKeep
<1>6. CASE UNCHANGED allScanVars BY <1>6, ScanStutters
<1> QED BY <1>1, <1>2, <1>3, <1>4, <1>5, <1>6 DEF ScanNext

LEMMA WaitersAreScheduled ==
  ASSUME ScanAssumption, ScanInv PROVE RestoreNotForgotten
<1>1. \A v \in 1 .. Verifiers : verifier[v].pc = "restore" => v \in 1 .. scheduled
  BY Numbers DEF ScanInv, Awaited
<1> QED BY <1>1 DEF ScanInv, RestoreKept, Restoring, RestoreNotForgotten

(* However refreshes, retries, installations, removals and the end of Core overlap, *)
(* a record that is being verified has a worker, or is about to get one, and no      *)
(* worker replaces what was found after it had read (plugin_manager.rs).            *)
THEOREM RetriesSound == ScanSpec => []RetriesAreSound
<1>1. ScanInit => ScanInv BY ScanAssumption, ScanInitially
<1>2. ScanInv /\ [ScanNext]_allScanVars => ScanInv' BY ScanAssumption, ScanStep
<1>3. ScanInv => RetriesAreSound BY DEF ScanInv, RetriesAreSound
<1> QED BY <1>1, <1>2, <1>3, PTL DEF ScanSpec

(* A background plugin that a retry made usable is restored or about to be, once    *)
(* Core has restored its background plugins (accept_scanned_plugin, start_enabled). *)
THEOREM RestoresRemembered == ScanSpec => []RestoreNotForgotten
<1>1. ScanInit => ScanInv BY ScanAssumption, ScanInitially
<1>2. ScanInv /\ [ScanNext]_allScanVars => ScanInv' BY ScanAssumption, ScanStep
<1>3. ScanInv => RestoreNotForgotten BY ScanAssumption, WaitersAreScheduled
<1> QED BY <1>1, <1>2, <1>3, PTL DEF ScanSpec

(* ------------------------------------------------------------- LocalInstaller  *)
Origins == Sources \cup Uploads
Bytes == Packages \cup {NoPackage}
Labels == {LabelOf[s] : s \in Origins} \cup {Other, NoPackage}
PluginStates == [package : Bytes, origin : Labels, enabled : BOOLEAN]
Plugged == [Plugins -> PluginStates]
ReviewItems == [source : Origins, print : Bytes, copy : Bytes, valid : BOOLEAN]
Printed == [source : Origins, before : Bytes]
Copied == [source : Origins, before : Bytes, copy : Bytes]
Begun == [item : ReviewItems, late : BOOLEAN]
BatchSteps == {Unused, Gone, "inspect", "copied", "preview", "admit", "run", "start", "commit"}
GeneratedFiles == {UploadFile(u) : u \in Uploads} \cup {ReviewFile(b, s) : b \in Batches, s \in Origins}
BatchRecords ==
    [at : BatchSteps, shown : Plugged, left : SUBSET (Origins \cup ReviewItems),
     current : SUBSET (Printed \cup Copied \cup Begun), items : SUBSET ReviewItems,
     selected : SUBSET ReviewItems, cancel : BOOLEAN, files : SUBSET GeneratedFiles]
UploadsTyped == uploads \in [Uploads -> [at : {Unused, "open", Gone}, chunks : Nat]]
BatchesTyped == batches \in [Batches -> BatchRecords]
ImportTyped ==
    /\ UploadsTyped /\ BatchesTyped
    /\ author \in [Origins -> Bytes] /\ installed \in Plugged
    /\ imports \subseteq GeneratedFiles /\ running \in BOOLEAN

(* What a batch works on at each of its steps.                                      *)
Over(b) == batches[b].at \in {Unused, Gone}
Installing(b) == batches[b].at \in {"run", "start", "commit"}
Staged(b) ==
    /\ batches[b].at = "inspect" => batches[b].current \subseteq Printed
    /\ batches[b].at = "copied" => batches[b].current \subseteq Copied
    /\ Installing(b) => batches[b].left \subseteq ReviewItems
    /\ batches[b].at \in {"start", "commit"} =>
          batches[b].current \subseteq Begun /\ \A c, d \in batches[b].current : c = d

(* Its files are its own: imports it has taken, and snapshots made for it.          *)
Owns(b) ==
    /\ Over(b) => batches[b].files = {}
    /\ \A u \in Uploads : UploadFile(u) \in batches[b].files => uploads[u].at = Gone
    /\ \A d \in Batches, s \in Origins : ReviewFile(d, s) \in batches[b].files => d = b
    /\ \A d \in Batches : d # b => batches[b].files \cap batches[d].files = {}

(* A batch installs under the lock, what it has compared since it took it.          *)
Compared(b) ==
    /\ Installing(b) => management = b
    /\ batches[b].at \in {"start", "commit"} => \A c \in batches[b].current : ~c.late
    /\ batches[b].at = "commit" =>
          \A c \in batches[b].current :
             /\ c.item.copy = c.item.print
             /\ Seen(installed[PluginOf[c.item.copy]]) = Seen(batches[b].shown[PluginOf[c.item.copy]])

(* Nothing is open while the program does not run.                                  *)
Stopped == ~running => (\A b \in Batches : Over(b)) /\ (\A u \in Uploads : ~Waiting(u))

ImportInv ==
    /\ ImportTyped
    /\ \A b \in Batches : Staged(b) /\ Owns(b) /\ Compared(b)
    /\ Stopped
    /\ InstalledAsReviewed /\ ImportsOwned
-----------------------------------------------------------------------------------

(* Generated files have names of their own.                                         *)
LEMMA FilesDiffer ==
  /\ \A u, v : UploadFile(u) = UploadFile(v) => u = v
  /\ \A b, d, r, s : ReviewFile(b, r) = ReviewFile(d, s) => b = d
  /\ \A u, b, s : UploadFile(u) # ReviewFile(b, s)
BY DEF UploadFile, ReviewFile

(* What is in use, file by file.                                                    *)
InUse(f) == \/ \E u \in Uploads : Waiting(u) /\ f = UploadFile(u)
            \/ \E d \in Batches : f \in batches[d].files
FilesKept == /\ \A f : InUse(f) => f \in imports
             /\ \A f : f \in imports => InUse(f) \/ f \in leftovers

LEMMA OwnedIs ==
  /\ ImportsOwned <=> (running => FilesKept)
  /\ ImportsOwned' <=> (running' => FilesKept')
<1>1. \A f : f \in Needed <=> InUse(f) BY DEF InUse, Needed
<1>2. \A f : f \in Needed' <=> InUse(f)' BY DEF InUse, Needed
<1> QED BY <1>1, <1>2 DEF ImportsOwned, FilesKept

(* A removal may leave a file behind, and takes no other.                           *)
LEMMA RemovesIs ==
  ASSUME NEW files, Removes(files)
  PROVE  /\ \A f : f \in imports' => f \in imports /\ (f \in files => f \in leftovers')
         /\ \A f : f \in imports /\ f \notin files => f \in imports'
         /\ \A f : f \in leftovers => f \in leftovers'
<1>1. PICK stuck \in SUBSET files :
         leftovers' = leftovers \cup stuck /\ imports' = imports \ (files \ stuck)
  BY DEF Removes
<1> QED BY <1>1

(* The files that are still in use after it are others: it keeps the rest in order.  *)
LEMMA RemovalKeeps ==
  ASSUME NEW files, Removes(files), FilesKept,
         \A f : InUse(f)' <=> InUse(f) /\ f \notin files
  PROVE  FilesKept'
BY RemovesIs DEF FilesKept

(* A file that is made is in use.                                                   *)
LEMMA FileAdded ==
  ASSUME NEW new, FilesKept, imports' = imports \cup {new}, leftovers' = leftovers,
         \A f : InUse(f)' <=> InUse(f) \/ f = new
  PROVE  FilesKept'
<1>1. \A f : InUse(f)' => f \in imports' BY DEF FilesKept
<1>2. ASSUME NEW f \in imports' PROVE InUse(f)' \/ f \in leftovers'
  <2>1. CASE f = new BY <2>1
  <2>2. CASE f \in imports BY <2>2 DEF FilesKept
  <2> QED BY <2>1, <2>2
<1> QED BY <1>1, <1>2 DEF FilesKept

LEMMA StatesTyped == \A p \in Plugins : InstallStates(p) \subseteq PluginStates
<1> SUFFICES ASSUME NEW p \in Plugins, NEW state \in InstallStates(p) PROVE state \in PluginStates
  OBVIOUS
<1>1. CASE state = Nothing BY <1>1 DEF PluginStates, Nothing, Labels, Bytes
<1>2. CASE state # Nothing
  <2>1. state \in [package : {k \in Packages \ Broken : PluginOf[k] = p},
                   origin : {LabelOf[s] : s \in Sources \cup Uploads} \cup {Other}, enabled : BOOLEAN]
    BY <1>2 DEF InstallStates
  <2>2. state.package \in Bytes /\ state.origin \in Labels /\ state.enabled \in BOOLEAN
    BY <2>1 DEF Bytes, Labels, Origins
  <2> QED BY <2>1, <2>2 DEF PluginStates
<1> QED BY <1>1, <1>2

(* What one action does to one batch, or to one import.                             *)
Elsewhere(b) == \A d \in Batches : d # b => batches'[d] = batches[d]
Keeps(b) ==
    /\ batches'[b].shown = batches[b].shown /\ batches'[b].items = batches[b].items
    /\ batches'[b].files = batches[b].files
Imported(u, at) ==
    /\ \A v \in Uploads : v # u => uploads'[v] = uploads[v]
    /\ uploads'[u].at = at

LEMMA BatchTypes ==
  ASSUME BatchesTyped, NEW b \in Batches
  PROVE  /\ batches[b].at \in BatchSteps /\ batches[b].shown \in Plugged
         /\ batches[b].left \subseteq Origins \cup ReviewItems
         /\ batches[b].current \subseteq Printed \cup Copied \cup Begun
         /\ batches[b].items \subseteq ReviewItems /\ batches[b].selected \subseteq ReviewItems
         /\ batches[b].cancel \in BOOLEAN /\ batches[b].files \subseteq GeneratedFiles
BY DEF BatchesTyped, BatchRecords

LEMMA ClosedIs ==
  ASSUME NEW at \in BatchSteps, installed \in Plugged
  PROVE  /\ Closed(at) \in BatchRecords /\ Closed(at).at = at /\ Closed(at).files = {}
         /\ Closed(at).current = {} /\ Closed(at).left = {} /\ Closed(at).shown = installed
         /\ Closed(at).items = {} /\ Closed(at).selected = {} /\ Closed(at).cancel = FALSE
BY DEF Closed, BatchRecords

LEMMA DropEnds ==
  ASSUME BatchesTyped, installed \in Plugged, NEW b \in Batches, Drop(b)
  PROVE  /\ BatchesTyped' /\ Elsewhere(b) /\ batches'[b].at = Gone /\ batches'[b].files = {}
         /\ Removes(batches[b].files)
<1>1. Closed(Gone) \in BatchRecords /\ Closed(Gone).at = Gone /\ Closed(Gone).files = {}
  BY ClosedIs DEF BatchSteps
<1> QED BY <1>1 DEF Drop, BatchesTyped, Elsewhere

LEMMA BeginIs ==
  ASSUME BatchesTyped, installed \in Plugged, NEW b \in Batches, NEW x \in SUBSET Origins,
         NEW y \in SUBSET GeneratedFiles, Begin(b, x, y)
  PROVE  /\ BatchesTyped' /\ Elsewhere(b) /\ batches'[b].at = "inspect" /\ batches'[b].files = y
         /\ batches'[b].current = {}
<1> DEFINE z == [Closed("inspect") EXCEPT !.left = x, !.files = y]
<1>1. /\ Closed("inspect") \in BatchRecords /\ Closed("inspect").at = "inspect"
      /\ Closed("inspect").current = {}
  BY ClosedIs DEF BatchSteps
<1>2. z \in BatchRecords /\ z.at = "inspect" /\ z.files = y /\ z.current = {}
  BY <1>1 DEF BatchRecords
<1> HIDE DEF z
<1>3. batches' = [batches EXCEPT ![b] = z] BY DEF Begin, z
<1> QED BY <1>2, <1>3 DEF BatchesTyped, Elsewhere

LEMMA UploadIs ==
  ASSUME UploadsTyped, NEW u \in Uploads, NEW x \in [at : {Unused, "open", Gone}, chunks : Nat],
         uploads' = [uploads EXCEPT ![u] = x]
  PROVE  UploadsTyped' /\ Imported(u, x.at)
BY DEF UploadsTyped, Imported

(* A batch goes on with the files it has.                                           *)
LEMMA BatchGoesOn ==
  ASSUME ImportInv, NEW b \in Batches, BatchesTyped', Elsewhere(b),
         ~Over(b), ~Over(b)', batches'[b].files = batches[b].files, Staged(b)', Compared(b)',
         \/ management' = management
         \/ (management = Unused /\ management' = b),
         UNCHANGED <<running, author, imports, uploads, installed, installs, leftovers>>
  PROVE  ImportInv'
<1>1. ImportTyped' BY DEF ImportInv, ImportTyped, UploadsTyped
<1>2. ASSUME NEW d \in Batches PROVE Staged(d)'
  BY <1>2 DEF ImportInv, Staged, Installing, Elsewhere
<1>3. ASSUME NEW d \in Batches PROVE Owns(d)'
  BY <1>3 DEF ImportInv, Owns, Over, Elsewhere
<1>4. ASSUME NEW d \in Batches PROVE Compared(d)'
  <2>1. CASE d = b BY <2>1
  <2>2. CASE d # b
    <3>1. batches'[d] = batches[d] BY <2>2 DEF Elsewhere
    <3>2. Compared(d) /\ (Installing(d) => management # Unused)
      BY ImportAssumption DEF ImportInv, Compared
    <3> QED BY <3>1, <3>2 DEF Compared, Installing
  <2> QED BY <2>1, <2>2
<1>5. Stopped' BY DEF ImportInv, Stopped, Over, Waiting, Elsewhere
<1>6. InstalledAsReviewed' BY DEF ImportInv, InstalledAsReviewed
<1>7. ImportsOwned'
  <2>1. \A d \in Batches : batches'[d].files = batches[d].files BY DEF Elsewhere
  <2>2. \A f : InUse(f)' <=> InUse(f) BY <2>1 DEF InUse, Waiting
  <2> QED BY <2>2, OwnedIs DEF ImportInv, FilesKept
<1> QED BY <1>1, <1>2, <1>3, <1>4, <1>5, <1>6, <1>7 DEF ImportInv

(* A batch ends and takes its files with it.                                        *)
LEMMA BatchEnds ==
  ASSUME ImportInv, NEW b \in Batches, ~Over(b), Drop(b),
         \/ management' = management
         \/ (management = b /\ management' = Unused),
         UNCHANGED <<running, author, uploads, installed, installs>>
  PROVE  ImportInv'
<1>0. /\ BatchesTyped' /\ Elsewhere(b) /\ batches'[b].at = Gone /\ batches'[b].files = {}
      /\ Removes(batches[b].files)
  BY DropEnds DEF ImportInv, ImportTyped
<1>1. ImportTyped' BY <1>0, RemovesIs DEF ImportInv, ImportTyped, UploadsTyped
<1>2. ASSUME NEW d \in Batches PROVE Staged(d)' /\ Owns(d)' /\ Compared(d)'
  <2>1. CASE d = b BY <1>0, <2>1 DEF Staged, Owns, Compared, Installing, Over, Gone
  <2>2. CASE d # b
    <3>1. batches'[d] = batches[d] BY <1>0, <2>2 DEF Elsewhere
    <3>2. Staged(d) /\ Owns(d) /\ Compared(d) BY DEF ImportInv
    <3>3. Owns(d)' BY <1>0, <3>1, <3>2 DEF Owns, Over, Elsewhere
    <3> QED BY <2>2, <3>1, <3>2, <3>3 DEF Staged, Compared, Installing
  <2> QED BY <2>1, <2>2
<1>3. Stopped' BY <1>0 DEF ImportInv, Stopped, Over, Waiting, Elsewhere
<1>4. InstalledAsReviewed' BY DEF ImportInv, InstalledAsReviewed
<1>5. ImportsOwned'
  <2>1. \A u \in Uploads : Waiting(u)' <=> Waiting(u) BY DEF Waiting
  <2>2. \A u \in Uploads : Waiting(u) => UploadFile(u) \notin batches[b].files
    BY DEF ImportInv, Owns, Waiting, Gone
  <2>3. \A d \in Batches : d # b => batches[b].files \cap batches[d].files = {}
    BY DEF ImportInv, Owns
  <2>4. \A d \in Batches : d # b => batches'[d].files = batches[d].files BY <1>0 DEF Elsewhere
  <2>5. \A f : InUse(f)' <=> InUse(f) /\ f \notin batches[b].files
    BY <1>0, <2>1, <2>2, <2>3, <2>4 DEF InUse
  <2> QED BY <1>0, <2>5, RemovalKeeps, OwnedIs DEF ImportInv
<1> QED BY <1>1, <1>2, <1>3, <1>4, <1>5 DEF ImportInv


LEMMA FingerprintKeeps ==
  ASSUME ImportInv, NEW b \in Batches, NEW s \in Origins, Fingerprint(b, s)
  PROVE  ImportInv'
<1> DEFINE c == [source |-> s, before |-> author[s]]
<1>1. /\ batches[b].at = "inspect" /\ batches[b].current = {} /\ s \in batches[b].left
      /\ batches' = [batches EXCEPT ![b].left = @ \ {s}, ![b].current = {c}]
      /\ UNCHANGED <<running, author, imports, uploads, installed, management, installs, leftovers>>
  BY DEF Fingerprint
<1>2. c \in Printed BY DEF ImportInv, ImportTyped, Printed
<1> HIDE DEF c
<1>3. /\ BatchesTyped' /\ Elsewhere(b) /\ batches'[b].at = "inspect"
      /\ batches'[b].files = batches[b].files /\ batches'[b].current = {c}
  BY <1>1, <1>2 DEF ImportInv, ImportTyped, BatchesTyped, BatchRecords, Elsewhere
<1>4. ~Over(b) /\ ~Over(b)' BY <1>1, <1>3 DEF Over, Unused, Gone
<1>5. Staged(b)' /\ Compared(b)' BY <1>2, <1>3 DEF Staged, Compared, Installing
<1> QED BY <1>1, <1>3, <1>4, <1>5, BatchGoesOn

LEMMA InspectKeeps ==
  ASSUME ImportInv, NEW b \in Batches, NEW c \in batches[b].current, Inspect(b, c)
  PROVE  ImportInv'
<1> DEFINE sound == Stable(c) /\ c.copy \notin Broken
           again == c.source \in Uploads
                    /\ \E i \in batches[b].items : i.source \in Uploads /\ i.valid /\ i.print = c.before
           item == [source |-> c.source, print |-> c.before, copy |-> c.copy, valid |-> sound]
<1>1. /\ batches[b].at = "copied"
      /\ batches' = [batches EXCEPT ![b].at = "inspect", ![b].current = {},
                                    ![b].items = IF sound /\ again THEN @ ELSE @ \cup {item}]
      /\ UNCHANGED <<running, author, imports, uploads, installed, management, installs, leftovers>>
  BY DEF Inspect
<1>2. c \in Copied BY <1>1 DEF ImportInv, Staged
<1>3. item \in ReviewItems
  <2>1. sound \in BOOLEAN BY DEF Stable
  <2> QED BY <1>2, <2>1 DEF Copied, ReviewItems
<1> DEFINE more == IF sound /\ again THEN batches[b].items ELSE batches[b].items \cup {item}
<1>4. more \subseteq ReviewItems BY <1>3, BatchTypes DEF ImportInv, ImportTyped
<1>5. batches' = [batches EXCEPT ![b].at = "inspect", ![b].current = {}, ![b].items = more]
  BY <1>1 DEF ImportInv, ImportTyped, BatchesTyped, BatchRecords
<1> HIDE DEF item, more, sound, again
<1>6. /\ BatchesTyped' /\ Elsewhere(b) /\ batches'[b].at = "inspect"
      /\ batches'[b].files = batches[b].files /\ batches'[b].current = {}
  BY <1>4, <1>5 DEF ImportInv, ImportTyped, BatchesTyped, BatchRecords, BatchSteps, Elsewhere
<1>7. ~Over(b) /\ ~Over(b)' BY <1>1, <1>6 DEF Over, Unused, Gone
<1>8. Staged(b)' /\ Compared(b)' BY <1>6 DEF Staged, Compared, Installing
<1> QED BY <1>1, <1>6, <1>7, <1>8, BatchGoesOn

LEMMA PresentKeeps ==
  ASSUME ImportInv, NEW b \in Batches, Present(b)
  PROVE  ImportInv'
<1>1. /\ batches[b].at = "inspect" /\ batches' = [batches EXCEPT ![b].at = "preview"]
      /\ UNCHANGED <<running, author, imports, uploads, installed, management, installs, leftovers>>
  BY DEF Present
<1>2. /\ BatchesTyped' /\ Elsewhere(b) /\ batches'[b].at = "preview"
      /\ batches'[b].files = batches[b].files
  BY <1>1 DEF ImportInv, ImportTyped, BatchesTyped, BatchRecords, BatchSteps, Elsewhere
<1>3. ~Over(b) /\ ~Over(b)' BY <1>1, <1>2 DEF Over, Unused, Gone
<1>4. Staged(b)' /\ Compared(b)' BY <1>2 DEF Staged, Compared, Installing
<1> QED BY <1>1, <1>2, <1>3, <1>4, BatchGoesOn

LEMMA DiscardKeeps ==
  ASSUME ImportInv, NEW b \in Batches, Discard(b)
  PROVE  ImportInv'
<1>1. UNCHANGED <<running, author, uploads, installed, management, installs>> BY DEF Discard
<1>2. CASE batches[b].at = "preview" /\ Drop(b)
  BY <1>1, <1>2, BatchEnds DEF Over, Unused, Gone
<1>3. CASE /\ batches[b].at \in {"admit", "run", "start", "commit"}
           /\ batches' = [batches EXCEPT ![b].cancel = TRUE] /\ UNCHANGED <<imports, leftovers>>
  <2>1. /\ BatchesTyped' /\ Elsewhere(b) /\ batches'[b].at = batches[b].at
        /\ batches'[b].files = batches[b].files /\ batches'[b].current = batches[b].current
        /\ batches'[b].left = batches[b].left /\ batches'[b].shown = batches[b].shown
    BY <1>3 DEF ImportInv, ImportTyped, BatchesTyped, BatchRecords, Elsewhere
  <2>2. ~Over(b) /\ ~Over(b)' BY <1>3, <2>1 DEF Over, Unused, Gone
  <2>3. Staged(b)' /\ Compared(b)' BY <1>1, <2>1 DEF ImportInv, Staged, Compared, Installing
  <2> QED BY <1>1, <1>3, <2>1, <2>2, <2>3, BatchGoesOn
<1> QED BY <1>2, <1>3 DEF Discard

LEMMA RunKeeps ==
  ASSUME ImportInv, NEW b \in Batches, NEW selected \in SUBSET batches[b].items, Run(b, selected)
  PROVE  ImportInv'
<1>1. batches[b].at = "preview" /\ UNCHANGED <<running, author, uploads, installed, management, installs>>
  BY DEF Run
<1>2. CASE Drop(b) BY <1>1, <1>2, BatchEnds DEF Over, Unused, Gone
<1>3. CASE /\ batches' = [batches EXCEPT ![b].at = "admit", ![b].selected = selected]
           /\ UNCHANGED <<imports, leftovers>>
  <2>0. selected \subseteq ReviewItems BY BatchTypes DEF ImportInv, ImportTyped
  <2>1. /\ BatchesTyped' /\ Elsewhere(b) /\ batches'[b].at = "admit"
        /\ batches'[b].files = batches[b].files
    BY <1>3, <2>0 DEF ImportInv, ImportTyped, BatchesTyped, BatchRecords, BatchSteps, Elsewhere
  <2>2. ~Over(b) /\ ~Over(b)' BY <1>1, <2>1 DEF Over, Unused, Gone
  <2>3. Staged(b)' /\ Compared(b)' BY <2>1 DEF Staged, Compared, Installing
  <2> QED BY <1>1, <1>3, <2>1, <2>2, <2>3, BatchGoesOn
<1> QED BY <1>2, <1>3 DEF Run

LEMMA AdmitsKeep ==
  ASSUME ImportInv, NEW b \in Batches, Admit(b)
  PROVE  ImportInv'
<1>1. batches[b].at = "admit" /\ UNCHANGED <<running, author, uploads, installed, installs>>
  BY DEF Admit
<1>2. CASE Drop(b) /\ management' = management BY <1>1, <1>2, BatchEnds DEF Over, Unused, Gone
<1>3. CASE /\ management = Unused /\ management' = b /\ UNCHANGED <<imports, leftovers>>
           /\ batches' = [batches EXCEPT ![b].at = "run", ![b].left = batches[b].items]
  <2>0. batches[b].items \subseteq ReviewItems BY BatchTypes DEF ImportInv, ImportTyped
  <2>1. /\ BatchesTyped' /\ Elsewhere(b) /\ batches'[b].at = "run"
        /\ batches'[b].files = batches[b].files /\ batches'[b].left = batches[b].items
    BY <1>3, <2>0 DEF ImportInv, ImportTyped, BatchesTyped, BatchRecords, BatchSteps, Elsewhere
  <2>2. ~Over(b) /\ ~Over(b)' BY <1>1, <2>1 DEF Over, Unused, Gone
  <2>3. Staged(b)' /\ Compared(b)' BY <1>3, <2>0, <2>1 DEF Staged, Compared, Installing
  <2> QED BY <1>1, <1>3, <2>1, <2>2, <2>3, BatchGoesOn
<1> QED BY <1>2, <1>3 DEF Admit

LEMMA NextKeeps ==
  ASSUME ImportInv, NEW b \in Batches, NEW i \in batches[b].left, NextItem(b, i)
  PROVE  ImportInv'
<1>1. /\ batches[b].at = "run"
      /\ UNCHANGED <<running, author, imports, uploads, installed, management, installs, leftovers>>
  BY DEF NextItem
<1>2. batches[b].left \subseteq ReviewItems /\ management = b
  BY <1>1 DEF ImportInv, Staged, Compared, Installing
<1>3. ~Over(b) BY <1>1 DEF Over, Unused, Gone
<1>4. CASE Starts(b, i)
  <2> DEFINE c == [item |-> i, late |-> batches[b].cancel]
  <2>1. c \in Begun /\ c.late = FALSE
    <3>1. batches[b].cancel = FALSE BY <1>4, BatchTypes DEF Starts, ImportInv, ImportTyped
    <3> QED BY <1>2, <3>1 DEF Begun
  <2> DEFINE l == batches[b].left \ {i}
  <2>2. batches' = [batches EXCEPT ![b].left = l, ![b].at = "start", ![b].current = {c}]
    BY <1>4 DEF NextItem, ImportInv, ImportTyped, BatchesTyped, BatchRecords
  <2>6. l \subseteq Origins \cup ReviewItems /\ l \subseteq batches[b].left BY <1>2
  <2> HIDE DEF c, l
  <2>3. /\ BatchesTyped' /\ Elsewhere(b) /\ batches'[b].at = "start"
        /\ batches'[b].files = batches[b].files /\ batches'[b].current = {c}
        /\ batches'[b].left \subseteq batches[b].left
    <3> DEFINE z == [batches[b] EXCEPT !.left = l, !.at = "start", !.current = {c}]
    <3>1. batches' = [batches EXCEPT ![b] = z]
      BY <2>2 DEF ImportInv, ImportTyped, BatchesTyped
    <3>2. batches[b] \in BatchRecords BY DEF ImportInv, ImportTyped, BatchesTyped
    <3>3. {c} \subseteq Printed \cup Copied \cup Begun BY <2>1
    <3>4. z \in BatchRecords BY <2>6, <3>2, <3>3 DEF BatchRecords, BatchSteps
    <3>5. z.at = "start" /\ z.files = batches[b].files /\ z.current = {c} /\ z.left = l
      BY <3>2 DEF BatchRecords
    <3> HIDE DEF z
    <3> QED BY <2>6, <3>1, <3>4, <3>5 DEF ImportInv, ImportTyped, BatchesTyped, Elsewhere
  <2>4. ~Over(b)' BY <2>3 DEF Over, Unused, Gone
  <2>5. Staged(b)' /\ Compared(b)' BY <1>1, <1>2, <2>1, <2>3 DEF Staged, Compared, Installing
  <2> QED BY <1>1, <1>3, <2>3, <2>4, <2>5, BatchGoesOn
<1>5. CASE ~Starts(b, i)
  <2>1. batches' = [batches EXCEPT ![b].left = @ \ {i}] BY <1>5 DEF NextItem
  <2>2. /\ BatchesTyped' /\ Elsewhere(b) /\ batches'[b].at = "run"
        /\ batches'[b].files = batches[b].files /\ batches'[b].left \subseteq batches[b].left
    BY <1>1, <2>1 DEF ImportInv, ImportTyped, BatchesTyped, BatchRecords, Elsewhere
  <2>3. ~Over(b)' BY <2>2 DEF Over, Unused, Gone
  <2>4. Staged(b)' /\ Compared(b)' BY <1>1, <1>2, <2>2 DEF Staged, Compared, Installing
  <2> QED BY <1>1, <1>3, <2>2, <2>3, <2>4, BatchGoesOn
<1> QED BY <1>4, <1>5

LEMMA ReverifyKeeps ==
  ASSUME ImportInv, NEW b \in Batches, NEW c \in batches[b].current, Reverify(b, c)
  PROVE  ImportInv'
<1>1. /\ batches[b].at = "start"
      /\ UNCHANGED <<running, author, imports, uploads, installed, management, installs, leftovers>>
  BY DEF Reverify
<1>2. /\ batches[b].left \subseteq ReviewItems /\ management = b /\ batches[b].current \subseteq Begun
      /\ \A d \in batches[b].current : ~d.late
  BY <1>1 DEF ImportInv, Staged, Compared, Installing
<1>3. ~Over(b) BY <1>1 DEF Over, Unused, Gone
<1>4. CASE AsReviewed(b, c.item)
  <2>1. batches' = [batches EXCEPT ![b].at = "commit"] BY <1>4 DEF Reverify
  <2>2. /\ BatchesTyped' /\ Elsewhere(b) /\ batches'[b].at = "commit"
        /\ batches'[b].files = batches[b].files /\ batches'[b].current = batches[b].current
        /\ batches'[b].left = batches[b].left /\ batches'[b].shown = batches[b].shown
    BY <2>1 DEF ImportInv, ImportTyped, BatchesTyped, BatchRecords, BatchSteps, Elsewhere
  <2>3. ~Over(b)' BY <2>2 DEF Over, Unused, Gone
  <2>4. /\ c.item.copy = c.item.print
        /\ Seen(installed[PluginOf[c.item.copy]]) = Seen(batches[b].shown[PluginOf[c.item.copy]])
    BY <1>4 DEF AsReviewed
  <2>5. \A d \in batches[b].current : d = c BY <1>1 DEF ImportInv, Staged
  <2>6. Staged(b)' /\ Compared(b)'
    BY <1>1, <1>2, <2>2, <2>4, <2>5 DEF Staged, Compared, Installing
  <2> QED BY <1>1, <1>3, <2>2, <2>3, <2>6, BatchGoesOn
<1>5. CASE ~AsReviewed(b, c.item)
  <2>1. batches' = [batches EXCEPT ![b].at = "run", ![b].current = {}] BY <1>5 DEF Reverify
  <2>2. /\ BatchesTyped' /\ Elsewhere(b) /\ batches'[b].at = "run"
        /\ batches'[b].files = batches[b].files /\ batches'[b].left = batches[b].left
    BY <2>1 DEF ImportInv, ImportTyped, BatchesTyped, BatchRecords, BatchSteps, Elsewhere
  <2>3. ~Over(b)' BY <2>2 DEF Over, Unused, Gone
  <2>4. Staged(b)' /\ Compared(b)' BY <1>1, <1>2, <2>2 DEF Staged, Compared, Installing
  <2> QED BY <1>1, <1>3, <2>2, <2>3, <2>4, BatchGoesOn
<1> QED BY <1>4, <1>5


LEMMA FinishKeepsFiles ==
  ASSUME ImportInv, NEW b \in Batches, Finish(b)
  PROVE  ImportInv'
<1>1. batches[b].at = "run" /\ Drop(b) /\ UNCHANGED <<running, author, uploads, installed, installs>>
      /\ management' = Unused
  BY DEF Finish
<1>2. management = b BY <1>1 DEF ImportInv, Compared, Installing
<1> QED BY <1>1, <1>2, BatchEnds DEF Over, Unused, Gone

LEMMA CopyKeeps ==
  ASSUME ImportInv, NEW b \in Batches, NEW c \in batches[b].current, CopySource(b, c)
  PROVE  ImportInv'
<1> DEFINE n == [source |-> c.source, before |-> c.before, copy |-> author[c.source]]
           f == ReviewFile(b, c.source)
<1>1. /\ batches[b].at = "inspect" /\ imports' = imports \cup {f}
      /\ batches' = [batches EXCEPT ![b].at = "copied", ![b].current = {n}, ![b].files = @ \cup {f}]
      /\ UNCHANGED <<running, author, uploads, installed, management, installs, leftovers>>
  BY DEF CopySource
<1>2. c \in Printed BY <1>1 DEF ImportInv, Staged
<1>3. n \in Copied BY <1>2 DEF ImportInv, ImportTyped, Printed, Copied
<1>4. f \in GeneratedFiles BY <1>2 DEF Printed, GeneratedFiles
<1>5. \A d \in Batches : d # b => f \notin batches[d].files
  BY <1>2 DEF ImportInv, Owns, Printed
<1>6. \A u \in Uploads : UploadFile(u) # f BY FilesDiffer
<1>7. \A d \in Batches, s \in Origins : ReviewFile(d, s) = f => d = b BY FilesDiffer
<1> DEFINE z == [batches[b] EXCEPT !.at = "copied", !.current = {n}, !.files = batches[b].files \cup {f}]
<1>8. batches' = [batches EXCEPT ![b] = z]
  BY <1>1 DEF ImportInv, ImportTyped, BatchesTyped
<1>9. batches[b] \in BatchRecords /\ batches[b].files \subseteq GeneratedFiles
  BY BatchTypes DEF ImportInv, ImportTyped, BatchesTyped
<1> HIDE DEF f, n
<1>10. z \in BatchRecords BY <1>3, <1>4, <1>9 DEF BatchRecords, BatchSteps
<1>11. z.at = "copied" /\ z.files = batches[b].files \cup {f} /\ z.current = {n}
  BY <1>9 DEF BatchRecords
<1> HIDE DEF z
<1>12. /\ BatchesTyped' /\ Elsewhere(b) /\ batches'[b].at = "copied" /\ batches'[b].current = {n}
       /\ batches'[b].files = batches[b].files \cup {f}
  BY <1>8, <1>10, <1>11 DEF ImportInv, ImportTyped, BatchesTyped, Elsewhere
<1>13. ImportTyped' BY <1>1, <1>4, <1>12 DEF ImportInv, ImportTyped, UploadsTyped
<1>14. ASSUME NEW d \in Batches PROVE Staged(d)' /\ Compared(d)' /\ Owns(d)'
  <2>1. CASE d = b
    <3>1. Staged(d)' /\ Compared(d)' BY <1>3, <1>12, <2>1 DEF Staged, Compared, Installing
    <3>2. Owns(d)'
      <4>1. Owns(b) BY DEF ImportInv
      <4>2. ~Over(b)' BY <1>12 DEF Over, Unused, Gone
      <4>3. \A u \in Uploads : UploadFile(u) \in batches'[b].files => uploads'[u].at = Gone
        BY <1>1, <1>6, <1>12, <4>1 DEF Owns
      <4>4. \A e \in Batches, s \in Origins : ReviewFile(e, s) \in batches'[b].files => e = b
        BY <1>7, <1>12, <4>1 DEF Owns
      <4>5. \A e \in Batches : e # b => batches'[b].files \cap batches'[e].files = {}
        BY <1>5, <1>12, <4>1 DEF Owns, Elsewhere
      <4> QED BY <2>1, <4>2, <4>3, <4>4, <4>5 DEF Owns
    <3> QED BY <3>1, <3>2
  <2>2. CASE d # b
    <3>1. batches'[d] = batches[d] BY <1>12, <2>2 DEF Elsewhere
    <3>2. Staged(d) /\ Compared(d) /\ Owns(d) BY DEF ImportInv
    <3>3. Staged(d)' /\ Compared(d)' BY <1>1, <3>1, <3>2 DEF Staged, Compared, Installing
    <3>4. \A e \in Batches : e # d => batches[d].files \cap batches'[e].files = {}
      BY <1>5, <1>12, <2>2, <3>2 DEF Owns, Elsewhere
    <3>5. Owns(d)' BY <1>1, <3>1, <3>2, <3>4 DEF Owns, Over
    <3> QED BY <3>3, <3>5
  <2> QED BY <2>1, <2>2
<1>15. Stopped' BY <1>1, <1>12 DEF ImportInv, Stopped, Over, Waiting, Elsewhere, Unused, Gone
<1>16. InstalledAsReviewed' BY <1>1 DEF ImportInv, InstalledAsReviewed
<1>17. ImportsOwned'
  <2>1. \A g : (\E d \in Batches : g \in batches'[d].files)
                  <=> (g = f \/ \E d \in Batches : g \in batches[d].files)
    BY <1>12 DEF Elsewhere
  <2>2. \A g : InUse(g)' <=> (InUse(g) \/ g = f) BY <1>1, <2>1 DEF InUse, Waiting
  <2>3. imports' = imports \cup {f} /\ leftovers' = leftovers BY <1>1
  <2> QED BY <1>1, <2>2, <2>3, FileAdded, OwnedIs DEF ImportInv
<1> QED BY <1>13, <1>14, <1>15, <1>16, <1>17 DEF ImportInv

(* A new batch has the files of the imports that it has taken.                      *)
LEMMA BatchBegins ==
  ASSUME ImportInv, NEW b \in Batches, NEW x \in SUBSET Origins, NEW here \in SUBSET Uploads,
         running, batches[b].at = Unused, \A u \in here : Waiting(u),
         Begin(b, x, {UploadFile(u) : u \in here}),
         uploads' = [u \in Uploads |-> IF u \in here THEN Taken ELSE uploads[u]],
         UNCHANGED <<running, author, imports, installed, management, installs, leftovers>>
  PROVE  ImportInv'
<1> DEFINE y == {UploadFile(u) : u \in here}
<1>1. y \in SUBSET GeneratedFiles BY DEF GeneratedFiles
<1>2. /\ BatchesTyped' /\ Elsewhere(b) /\ batches'[b].at = "inspect" /\ batches'[b].files = y
      /\ batches'[b].current = {}
  BY <1>1, BeginIs DEF ImportInv, ImportTyped
<1>3. \A u \in Uploads : uploads'[u] = IF u \in here THEN Taken ELSE uploads[u] OBVIOUS
<1>4. \A u \in here : uploads'[u].at = Gone BY <1>3 DEF Taken
<1>5. UploadsTyped' BY DEF ImportInv, ImportTyped, UploadsTyped, Taken
<1>6. batches[b].files = {} BY DEF ImportInv, Owns, Over
<1>7. \A u \in Uploads : UploadFile(u) \in y <=> u \in here BY FilesDiffer
<1>8. \A d \in Batches, s \in Origins : ReviewFile(d, s) \notin y BY FilesDiffer
<1>9. \A d \in Batches : y \cap batches[d].files = {}
  BY DEF ImportInv, Owns, Waiting, Gone
<1> HIDE DEF y
<1>10. ImportTyped' BY <1>2, <1>5 DEF ImportInv, ImportTyped
<1>11. ASSUME NEW d \in Batches PROVE Staged(d)' /\ Compared(d)' /\ Owns(d)'
  <2>1. CASE d = b
    <3>1. Staged(d)' /\ Compared(d)' BY <1>2, <2>1 DEF Staged, Compared, Installing
    <3>2. Owns(d)' BY <1>2, <1>4, <1>7, <1>8, <1>9, <2>1 DEF Owns, Over, Elsewhere, Unused, Gone
    <3> QED BY <3>1, <3>2
  <2>2. CASE d # b
    <3>1. batches'[d] = batches[d] BY <1>2, <2>2 DEF Elsewhere
    <3>2. Staged(d) /\ Compared(d) /\ Owns(d) BY DEF ImportInv
    <3>3. Staged(d)' /\ Compared(d)' BY <3>1, <3>2 DEF Staged, Compared, Installing
    <3>4. \A e \in Batches : e # d => batches[d].files \cap batches'[e].files = {}
      BY <1>2, <1>9, <3>2 DEF Owns, Elsewhere
    <3>5. \A u \in Uploads : UploadFile(u) \in batches[d].files => uploads'[u].at = Gone
      BY <1>3, <1>4, <3>2 DEF Owns
    <3>6. Owns(d)' BY <3>1, <3>2, <3>4, <3>5 DEF Owns, Over
    <3> QED BY <3>3, <3>6
  <2> QED BY <2>1, <2>2
<1>12. Stopped' /\ InstalledAsReviewed' BY DEF ImportInv, Stopped, InstalledAsReviewed
<1>13. ImportsOwned'
  <2>1. \A g : (\E d \in Batches : g \in batches'[d].files)
                  <=> (g \in y \/ \E d \in Batches : g \in batches[d].files)
    BY <1>2, <1>6 DEF Elsewhere
  <2>2. \A u \in Uploads : Waiting(u) <=> Waiting(u)' \/ u \in here
    BY <1>3, <1>4 DEF Waiting, Gone
  <2>3. \A g : g \in y <=> \E u \in here : g = UploadFile(u) BY DEF y
  <2>4. \A g : InUse(g)' <=> InUse(g) BY <2>1, <2>2, <2>3 DEF InUse
  <2> QED BY <2>4, OwnedIs DEF ImportInv, FilesKept
<1> QED BY <1>10, <1>11, <1>12, <1>13 DEF ImportInv

(* Imports come and go without a batch.                                             *)
LEMMA ImportsMove ==
  ASSUME ImportInv, UploadsTyped', author' \in [Origins -> Bytes], imports' \subseteq GeneratedFiles,
         \A u \in Uploads : uploads[u].at = Gone => uploads'[u].at = Gone,
         running => ImportsOwned', running \/ UNCHANGED uploads,
         UNCHANGED <<running, batches, installed, management, installs>>
  PROVE  ImportInv'
<1>1. ImportTyped' BY DEF ImportInv, ImportTyped, BatchesTyped
<1>2. ASSUME NEW d \in Batches PROVE Staged(d)' /\ Compared(d)' /\ Owns(d)'
  BY <1>2 DEF ImportInv, Staged, Compared, Installing, Owns, Over
<1>3. Stopped' BY DEF ImportInv, Stopped, Over, Waiting
<1>4. InstalledAsReviewed' BY DEF ImportInv, InstalledAsReviewed
<1>5. ImportsOwned' BY DEF ImportsOwned
<1> QED BY <1>1, <1>2, <1>3, <1>4, <1>5 DEF ImportInv

LEMMA OpenKeeps ==
  ASSUME ImportInv, NEW u \in Uploads, Open(u)
  PROVE  ImportInv'
<1>1. /\ running /\ uploads[u].at = Unused /\ imports' = imports \cup {UploadFile(u)}
      /\ uploads' = [uploads EXCEPT ![u].at = "open"]
      /\ \E p \in Packages : author' = [author EXCEPT ![u] = p]
      /\ UNCHANGED <<running, batches, installed, management, installs, leftovers>>
  BY DEF Open
<1>2. author' \in [Origins -> Bytes]
  <2> PICK p \in Packages : author' = [author EXCEPT ![u] = p] BY <1>1
  <2> QED BY DEF ImportInv, ImportTyped, Origins, Bytes
<1>3. UploadsTyped' /\ Imported(u, "open")
  BY <1>1 DEF ImportInv, ImportTyped, UploadsTyped, Imported
<1>4. imports' \subseteq GeneratedFiles BY <1>1 DEF ImportInv, ImportTyped, GeneratedFiles
<1>5. \A v \in Uploads : uploads[v].at = Gone => uploads'[v].at = Gone
  BY <1>1, <1>3 DEF Imported, Unused, Gone
<1>6. ImportsOwned'
  <2>1. \A v \in Uploads : Waiting(v)' <=> Waiting(v) \/ v = u BY <1>3 DEF Imported, Waiting
  <2>2. \A f : InUse(f)' <=> InUse(f) \/ f = UploadFile(u) BY <1>1, <2>1 DEF InUse
  <2>3. imports' = imports \cup {UploadFile(u)} /\ leftovers' = leftovers BY <1>1
  <2> QED BY <1>1, <2>2, <2>3, FileAdded, OwnedIs DEF ImportInv
<1> QED BY <1>1, <1>2, <1>3, <1>4, <1>5, <1>6, ImportsMove

LEMMA ChunkKeeps ==
  ASSUME ImportInv, NEW u \in Uploads, WriteChunk(u)
  PROVE  ImportInv'
<1>1. /\ running /\ Waiting(u) /\ uploads' = [uploads EXCEPT ![u].chunks = @ + 1]
      /\ UNCHANGED <<running, author, imports, batches, installed, management, installs, leftovers>>
  BY DEF WriteChunk
<1>2. UploadsTyped' /\ \A v \in Uploads : uploads'[v].at = uploads[v].at
  BY <1>1 DEF ImportInv, ImportTyped, UploadsTyped
<1>3. ImportsOwned'
  <2>1. \A f : InUse(f)' <=> InUse(f) BY <1>1, <1>2 DEF InUse, Waiting
  <2> QED BY <1>1, <2>1, OwnedIs DEF ImportInv, FilesKept
<1> QED BY <1>1, <1>2, <1>3, ImportsMove DEF ImportInv, ImportTyped

LEMMA WithdrawKeeps ==
  ASSUME ImportInv, NEW here \in SUBSET Uploads, running, \A u \in here : Waiting(u),
         uploads' = [u \in Uploads |-> IF u \in here THEN Taken ELSE uploads[u]],
         Removes({UploadFile(u) : u \in here}),
         UNCHANGED <<running, author, batches, installed, management, installs>>
  PROVE  ImportInv'
<1>1. \A u \in Uploads : uploads'[u] = IF u \in here THEN Taken ELSE uploads[u] OBVIOUS
<1>2. UploadsTyped' BY DEF ImportInv, ImportTyped, UploadsTyped, Taken
<1>3. \A u \in here : uploads'[u].at = Gone BY <1>1 DEF Taken
<1>4. ImportsOwned'
  <2>1. \A d \in Batches : \A u \in here : UploadFile(u) \notin batches[d].files
    BY DEF ImportInv, Owns, Waiting, Gone
  <2>2. \A u \in Uploads : Waiting(u)' <=> Waiting(u) /\ u \notin here
    BY <1>1, <1>3 DEF Waiting, Gone
  <2>3. \A g : InUse(g)' <=> InUse(g) /\ \A u \in here : g # UploadFile(u)
    BY <2>1, <2>2, FilesDiffer DEF InUse
  <2>4. \A g : InUse(g)' <=> InUse(g) /\ g \notin {UploadFile(u) : u \in here} BY <2>3
  <2> QED BY <2>4, RemovalKeeps, OwnedIs DEF ImportInv
<1>5. \A u \in Uploads : uploads[u].at = Gone => uploads'[u].at = Gone BY <1>1, <1>3
<1>6. imports' \subseteq GeneratedFiles /\ author' \in [Origins -> Bytes]
  BY RemovesIs DEF ImportInv, ImportTyped
<1> QED BY <1>2, <1>4, <1>5, <1>6, ImportsMove


LEMMA PrepareSourcesKeeps ==
  ASSUME ImportInv, NEW b \in Batches, NEW picked \in SUBSET Sources, PrepareSources(b, picked)
  PROVE  ImportInv'
<1>1. /\ running /\ batches[b].at = Unused /\ Begin(b, picked, {})
      /\ UNCHANGED <<running, author, imports, uploads, installed, management, installs, leftovers>>
  BY DEF PrepareSources
<1>2. {UploadFile(u) : u \in {}} = {} OBVIOUS
<1>3. uploads' = [u \in Uploads |-> IF u \in {} THEN Taken ELSE uploads[u]]
  BY <1>1 DEF ImportInv, ImportTyped, UploadsTyped
<1>4. picked \in SUBSET Origins BY DEF Origins
<1>5. {} \in SUBSET Uploads /\ \A u \in {} : Waiting(u) OBVIOUS
<1> QED BY <1>1, <1>2, <1>3, <1>4, <1>5, BatchBegins

LEMMA PrepareUploadsKeeps ==
  ASSUME ImportInv, NEW b \in Batches, NEW ids \in Orders, PrepareUploads(b, ids)
  PROVE  ImportInv'
<1> DEFINE whole(i) == Has(ids[i], Complete)
           taken == {ids[i] : i \in {j \in DOMAIN ids : \A k \in 1 .. j - 1 : whole(k)}}
           here == {u \in taken : Waiting(u)}
<1>1. \A i \in DOMAIN ids : ids[i] \in Uploads BY DEF Orders
<1>2. here \in SUBSET Uploads BY <1>1
<1>3. here \in SUBSET Origins /\ \A u \in here : Waiting(u) BY <1>2 DEF Origins
<1>4. /\ running /\ batches[b].at = Unused
      /\ uploads' = [u \in Uploads |-> IF u \in here THEN Taken ELSE uploads[u]]
      /\ UNCHANGED <<running, author, installed, management, installs>>
  BY DEF PrepareUploads
<1>5. CASE /\ Begin(b, here, {UploadFile(u) : u \in here})
           /\ UNCHANGED <<imports, leftovers>>
  <2> HIDE DEF here
  <2> QED BY <1>2, <1>3, <1>4, <1>5, BatchBegins
<1>6. CASE /\ Removes({UploadFile(u) : u \in here})
           /\ UNCHANGED batches
  <2> HIDE DEF here
  <2> QED BY <1>2, <1>3, <1>4, <1>6, WithdrawKeeps
<1> QED BY <1>5, <1>6 DEF PrepareUploads

LEMMA DiscardUploadKeeps ==
  ASSUME ImportInv, NEW u \in Uploads, DiscardUpload(u)
  PROVE  ImportInv'
<1>1. /\ running /\ Waiting(u) /\ uploads' = [uploads EXCEPT ![u] = Taken]
      /\ Removes({UploadFile(u)})
      /\ UNCHANGED <<running, author, batches, installed, management, installs>>
  BY DEF DiscardUpload
<1>2. {UploadFile(v) : v \in {u}} = {UploadFile(u)} OBVIOUS
<1>3. uploads' = [v \in Uploads |-> IF v \in {u} THEN Taken ELSE uploads[v]]
  BY <1>1 DEF ImportInv, ImportTyped, UploadsTyped
<1>4. {u} \in SUBSET Uploads /\ \A v \in {u} : Waiting(v) BY <1>1
<1> QED BY <1>1, <1>2, <1>3, <1>4, WithdrawKeeps

(* Several batches end at once, without any that installs or with the lock.         *)
LEMMA ResetKeeps ==
  ASSUME ImportInv, Reset
  PROVE  ImportInv'
<1> DEFINE shown == {b \in Batches : batches[b].at = "preview"}
           open == {u \in Uploads : Waiting(u)}
<1>1. /\ running
      /\ batches' = [b \in Batches |-> IF b \in shown THEN Closed(Gone) ELSE batches[b]]
      /\ uploads' = [u \in Uploads |-> IF u \in open THEN Taken ELSE uploads[u]]
      /\ Removes({UploadFile(u) : u \in open} \cup UNION {batches[b].files : b \in shown})
      /\ UNCHANGED <<running, author, installed, management, installs>>
  BY DEF Reset
<1>2. Closed(Gone) \in BatchRecords /\ Closed(Gone).at = Gone /\ Closed(Gone).files = {}
  BY ClosedIs DEF BatchSteps, ImportInv, ImportTyped
<1>3. \A b \in Batches : IF b \in shown THEN batches'[b].at = Gone /\ batches'[b].files = {}
                                        ELSE batches'[b] = batches[b]
  BY <1>1, <1>2
<1>4. \A u \in Uploads : IF Waiting(u) THEN uploads'[u] = Taken ELSE uploads'[u] = uploads[u]
  BY <1>1
<1>5. ImportTyped'
  <2>1. BatchesTyped' BY <1>1, <1>2 DEF ImportInv, ImportTyped, BatchesTyped
  <2>2. UploadsTyped' BY <1>1 DEF ImportInv, ImportTyped, UploadsTyped, Taken
  <2> QED BY <1>1, <2>1, <2>2, RemovesIs DEF ImportInv, ImportTyped
<1>6. \A u \in Uploads : uploads[u].at = Gone => uploads'[u].at = Gone
  BY <1>4 DEF Taken
<1>7. ASSUME NEW d \in Batches PROVE Staged(d)' /\ Compared(d)' /\ Owns(d)'
  <2>1. CASE d \in shown
    BY <1>3, <2>1 DEF Staged, Compared, Installing, Owns, Over, Gone
  <2>2. CASE d \notin shown
    <3>1. batches'[d] = batches[d] BY <1>3, <2>2
    <3>2. Staged(d) /\ Compared(d) /\ Owns(d) BY DEF ImportInv
    <3>3. Staged(d)' /\ Compared(d)' BY <1>1, <3>1, <3>2 DEF Staged, Compared, Installing
    <3>4. \A e \in Batches : e # d => batches[d].files \cap batches'[e].files = {}
      BY <1>3, <3>2 DEF Owns
    <3>5. Owns(d)' BY <1>6, <3>1, <3>2, <3>4 DEF Owns, Over
    <3> QED BY <3>3, <3>5
  <2> QED BY <2>1, <2>2
<1>8. Stopped' /\ InstalledAsReviewed' BY <1>1 DEF ImportInv, Stopped, InstalledAsReviewed
<1>9. ImportsOwned'
  <2>1. \A u \in Uploads : ~Waiting(u)' BY <1>4 DEF Waiting, Taken, Gone
  <2>2. \A g : InUse(g)' <=> \E d \in Batches : d \notin shown /\ g \in batches[d].files
    BY <1>3, <2>1 DEF InUse
  <2> DEFINE theirs == UNION {batches[b].files : b \in shown}
             those == {UploadFile(u) : u \in open}
  <2>3. \A b, d \in Batches : b # d => batches[b].files \cap batches[d].files = {}
    BY DEF ImportInv, Owns
  <2>4. \A u \in open, d \in Batches : UploadFile(u) \notin batches[d].files
    BY DEF ImportInv, Owns, Waiting, Gone
  <2>5. \A g : g \in theirs <=> \E b \in shown : g \in batches[b].files OBVIOUS
  <2>6. \A g : g \in those <=> \E u \in open : g = UploadFile(u) OBVIOUS
  <2>7. \A g : InUse(g)' <=> InUse(g) /\ g \notin those \cup theirs
    <3>1. \A u \in Uploads : u \in open <=> Waiting(u) OBVIOUS
    <3>2. \A d \in shown : d \in Batches OBVIOUS
    <3> HIDE DEF shown, open, theirs, those
    <3> QED BY <2>2, <2>3, <2>4, <2>5, <2>6, <3>1, <3>2 DEF InUse
  <2>8. Removes(those \cup theirs) BY <1>1
  <2> HIDE DEF shown, open, theirs, those
  <2> QED BY <1>1, <2>7, <2>8, RemovalKeeps, OwnedIs DEF ImportInv
<1> QED BY <1>5, <1>7, <1>8, <1>9 DEF ImportInv

LEMMA InstallItemKeeps ==
  ASSUME ImportInv, NEW b \in Batches, NEW c \in batches[b].current, InstallItem(b, c)
  PROVE  ImportInv'
<1> DEFINE plugin == PluginOf[c.item.copy]
           was == installed[plugin]
           now == [package |-> Installed(c), origin |-> LabelOf[c.item.source],
                   enabled |-> was.package = NoPackage \/ was.enabled]
           new == [reviewed |-> c.item.print, package |-> now.package,
                   shown |-> batches[b].shown[plugin], was |-> was, late |-> c.late]
<1>1. /\ batches[b].at = "commit"
      /\ batches' = [batches EXCEPT ![b].at = "run", ![b].current = {}]
      /\ UNCHANGED <<running, author, imports, uploads, management, leftovers>>
  BY DEF InstallItem
<1>2. /\ batches[b].left \subseteq ReviewItems /\ management = b /\ batches[b].current \subseteq Begun
      /\ ~c.late /\ c.item.copy = c.item.print
      /\ Seen(was) = Seen(batches[b].shown[plugin])
  BY <1>1 DEF ImportInv, Staged, Compared, Installing
<1>3. /\ BatchesTyped' /\ Elsewhere(b) /\ batches'[b].at = "run"
      /\ batches'[b].files = batches[b].files /\ batches'[b].left = batches[b].left
  BY <1>1 DEF ImportInv, ImportTyped, BatchesTyped, BatchRecords, BatchSteps, Elsewhere
<1>4. installed' \in Plugged /\ InstalledAsReviewed'
  <2>1. CASE installed' = [installed EXCEPT ![plugin] = now] /\ installs' = installs \cup {new}
    <3>1. now \in PluginStates \/ plugin \notin Plugins
      <4>1. now.package \in Bytes BY <1>2 DEF Installed, Begun, ReviewItems
      <4>2. plugin \in Plugins => was.enabled \in BOOLEAN
        BY DEF ImportInv, ImportTyped, Plugged, PluginStates
      <4>3. LabelOf[c.item.source] \in Labels BY <1>2 DEF Labels, Begun, ReviewItems
      <4> QED BY <4>1, <4>2, <4>3 DEF PluginStates
    <3>2. installed' \in Plugged BY <2>1, <3>1 DEF ImportInv, ImportTyped, Plugged
    <3>3. new.package = new.reviewed /\ Seen(new.was) = Seen(new.shown) /\ ~new.late BY <1>2 DEF Installed
    <3> HIDE DEF new
    <3>4. InstalledAsReviewed' BY <2>1, <3>3 DEF ImportInv, InstalledAsReviewed
    <3> QED BY <3>2, <3>4
  <2>2. CASE UNCHANGED <<installed, installs>>
    BY <2>2 DEF ImportInv, ImportTyped, InstalledAsReviewed
  <2> QED BY <2>1, <2>2 DEF InstallItem
<1>5. ImportTyped' BY <1>1, <1>3, <1>4 DEF ImportInv, ImportTyped, UploadsTyped
<1>6. ASSUME NEW d \in Batches PROVE Staged(d)' /\ Compared(d)' /\ Owns(d)'
  <2>0. \A e \in Batches : batches'[e].files = batches[e].files BY <1>3 DEF Elsewhere
  <2>1. CASE d = b
    <3>1. Staged(d)' /\ Compared(d)' BY <1>1, <1>2, <1>3, <2>1 DEF Staged, Compared, Installing
    <3>2. Owns(d)' BY <1>1, <1>3, <2>0, <2>1 DEF ImportInv, Owns, Over, Unused, Gone
    <3> QED BY <3>1, <3>2
  <2>2. CASE d # b
    <3>1. batches'[d] = batches[d] BY <1>3, <2>2 DEF Elsewhere
    <3>2. Staged(d) /\ Compared(d) /\ Owns(d) BY DEF ImportInv
    <3>3. ~Installing(d) BY <1>2, <2>2, <3>2 DEF Compared
    <3>4. Staged(d)' /\ Compared(d)' BY <3>1, <3>2, <3>3 DEF Staged, Compared, Installing
    <3>5. Owns(d)' BY <1>1, <2>0, <3>1, <3>2 DEF Owns, Over
    <3> QED BY <3>4, <3>5
  <2> QED BY <2>1, <2>2
<1>7. Stopped'
  BY <1>1, <1>3 DEF ImportInv, Stopped, Over, Waiting, Elsewhere, Unused, Gone
<1>8. ImportsOwned'
  <2>1. \A g : InUse(g)' <=> InUse(g) BY <1>1, <1>3 DEF InUse, Waiting, Elsewhere
  <2> QED BY <1>1, <2>1, OwnedIs DEF ImportInv, FilesKept
<1> QED BY <1>4, <1>5, <1>6, <1>7, <1>8 DEF ImportInv


(* Somebody else has the lock, or takes it or gives it back: no batch installs.     *)
LEMMA OthersKeep ==
  ASSUME ImportInv, installed' \in Plugged, author' \in [Origins -> Bytes],
         \/ UNCHANGED <<installed, management>>
         \/ \A d \in Batches : management # d,
         UNCHANGED <<running, imports, uploads, batches, installs, leftovers>>
  PROVE  ImportInv'
<1>1. ImportTyped' BY DEF ImportInv, ImportTyped, UploadsTyped, BatchesTyped
<1>2. ASSUME NEW d \in Batches PROVE Staged(d)' /\ Compared(d)' /\ Owns(d)'
  <2>1. Staged(d) /\ Compared(d) /\ Owns(d) BY DEF ImportInv
  <2>2. CASE UNCHANGED <<installed, management>>
    BY <2>1, <2>2 DEF Staged, Compared, Installing, Owns, Over
  <2>3. CASE management # d
    <3>1. ~Installing(d) BY <2>1, <2>3 DEF Compared
    <3> QED BY <2>1, <3>1 DEF Staged, Compared, Installing, Owns, Over
  <2> QED BY <2>2, <2>3
<1>3. Stopped' /\ InstalledAsReviewed' BY DEF ImportInv, Stopped, Over, Waiting, InstalledAsReviewed
<1>4. ImportsOwned'
  <2>1. \A f : InUse(f)' <=> InUse(f) BY DEF InUse, Waiting
  <2> QED BY <2>1, OwnedIs DEF ImportInv, FilesKept
<1> QED BY <1>1, <1>2, <1>3, <1>4 DEF ImportInv

LEMMA EditKeeps ==
  ASSUME ImportInv, NEW s \in Sources, Edit(s)
  PROVE  ImportInv'
<1>1. author' \in [Origins -> Bytes]
  <2> PICK p \in Packages : author' = [author EXCEPT ![s] = p] BY DEF Edit
  <2> QED BY DEF ImportInv, ImportTyped, Origins, Bytes
<1> QED BY <1>1, OthersKeep DEF Edit, ImportInv, ImportTyped

LEMMA OtherBeginsKeeps ==
  ASSUME ImportInv, OtherBegins
  PROVE  ImportInv'
BY OthersKeep, ImportAssumption DEF OtherBegins, ImportInv, ImportTyped

LEMMA OtherEndsKeeps ==
  ASSUME ImportInv, OtherEnds
  PROVE  ImportInv'
<1>1. \E p \in Plugins, state \in PluginStates : installed' = [installed EXCEPT ![p] = state]
  <2> PICK p \in Plugins : \E state \in InstallStates(p) : installed' = [installed EXCEPT ![p] = state]
    BY DEF OtherEnds
  <2> QED BY StatesTyped
<1>2. installed' \in Plugged BY <1>1 DEF ImportInv, ImportTyped, Plugged
<1> QED BY <1>2, OthersKeep, ImportAssumption DEF OtherEnds, ImportInv, ImportTyped

LEMMA CrashKeeps ==
  ASSUME ImportInv, CrashImporter
  PROVE  ImportInv'
<1>1. /\ running' = FALSE /\ UNCHANGED <<author, imports, installed, installs, leftovers>>
      /\ batches' = [b \in Batches |-> IF batches[b].at = Unused THEN batches[b] ELSE Closed(Gone)]
      /\ uploads' = [u \in Uploads |-> IF Waiting(u) THEN Taken ELSE uploads[u]]
  BY DEF CrashImporter
<1>2. /\ Closed(Gone) \in BatchRecords /\ Closed(Gone).at = Gone /\ Closed(Gone).files = {}
  BY ClosedIs DEF BatchSteps, ImportInv, ImportTyped
<1>3. ImportTyped'
  <2>1. BatchesTyped' BY <1>1, <1>2 DEF ImportInv, ImportTyped, BatchesTyped
  <2>2. UploadsTyped' BY <1>1 DEF ImportInv, ImportTyped, UploadsTyped, Taken
  <2> QED BY <1>1, <2>1, <2>2 DEF ImportInv, ImportTyped
<1>4. \A b \in Batches : Over(b)' /\ batches'[b].files = {}
  BY <1>1, <1>2 DEF ImportInv, Owns, Over
<1>5. \A u \in Uploads : ~Waiting(u)' BY <1>1 DEF Waiting, Taken, Gone
<1>6. ASSUME NEW d \in Batches PROVE Staged(d)' /\ Compared(d)' /\ Owns(d)'
  BY <1>4 DEF Staged, Compared, Installing, Owns, Over, Unused, Gone
<1>7. Stopped' /\ InstalledAsReviewed' /\ ImportsOwned'
  BY <1>1, <1>4, <1>5 DEF ImportInv, Stopped, InstalledAsReviewed, ImportsOwned
<1> QED BY <1>3, <1>6, <1>7 DEF ImportInv

LEMMA StartKeeps ==
  ASSUME ImportInv, StartImporter
  PROVE  ImportInv'
<1>1. /\ ~running /\ running' = TRUE /\ imports' \subseteq imports /\ leftovers' = imports'
      /\ UNCHANGED <<author, uploads, batches, installed, management, installs>>
  BY DEF StartImporter, Swept
<1>2. ImportTyped' BY <1>1 DEF ImportInv, ImportTyped, UploadsTyped, BatchesTyped
<1>3. ASSUME NEW d \in Batches PROVE Staged(d)' /\ Compared(d)' /\ Owns(d)'
  BY <1>1 DEF ImportInv, Staged, Compared, Installing, Owns, Over
<1>4. Stopped' /\ InstalledAsReviewed' BY <1>1 DEF ImportInv, Stopped, InstalledAsReviewed
<1>5. ImportsOwned'
  <2>1. \A d \in Batches : batches'[d].files = {} BY <1>1 DEF ImportInv, Stopped, Owns
  <2>2. \A u \in Uploads : ~Waiting(u)' BY <1>1 DEF ImportInv, Stopped, Waiting
  <2>3. \A g : ~InUse(g)' BY <2>1, <2>2 DEF InUse
  <2> QED BY <1>1, <2>3, OwnedIs DEF FilesKept
<1> QED BY <1>2, <1>3, <1>4, <1>5 DEF ImportInv

(* The inductive invariant of a reviewed installation.                              *)
LEMMA ImportsInductive == ImportSpec => []ImportInv
<1>1. ImportInit => ImportInv
  <2> SUFFICES ASSUME ImportInit PROVE ImportInv OBVIOUS
  <2>1. author \in [Origins -> Bytes] BY DEF ImportInit, Origins, Bytes
  <2>2. installed \in Plugged
    <3>1. installed \in [Plugins -> UNION {InstallStates(p) : p \in Plugins}] BY DEF ImportInit
    <3>2. \A p \in Plugins : installed[p] \in InstallStates(p) BY DEF ImportInit
    <3> QED BY <3>1, <3>2, StatesTyped DEF Plugged
  <2>3. /\ Closed(Unused) \in BatchRecords /\ Closed(Unused).at = Unused /\ Closed(Unused).files = {}
    BY <2>2, ClosedIs DEF BatchSteps
  <2>4. batches \in [Batches -> BatchRecords] /\ \A b \in Batches : batches[b] = Closed(Unused)
    BY <2>3 DEF ImportInit
  <2>5. UploadsTyped /\ \A u \in Uploads : uploads[u].at = Unused BY DEF ImportInit, UploadsTyped
  <2>6. ImportTyped BY <2>1, <2>2, <2>4, <2>5 DEF ImportInit, ImportTyped, BatchesTyped
  <2>7. ASSUME NEW b \in Batches PROVE Staged(b) /\ Owns(b) /\ Compared(b)
    BY <2>3, <2>4 DEF Staged, Owns, Compared, Installing, Over, Unused, Gone
  <2>8. Stopped /\ InstalledAsReviewed BY DEF ImportInit, Stopped, InstalledAsReviewed
  <2>9. ImportsOwned
    <3>1. \A g : ~InUse(g) BY <2>3, <2>4, <2>5 DEF InUse, Waiting, Unused
    <3> QED BY <3>1, OwnedIs DEF ImportInit, FilesKept
  <2> QED BY <2>6, <2>7, <2>8, <2>9 DEF ImportInv
<1>2. ImportInv /\ [ImportNext]_allImportVars => ImportInv'
  <2> SUFFICES ASSUME ImportInv, [ImportNext]_allImportVars PROVE ImportInv' OBVIOUS
  <2>1. CASE \E u \in Uploads : Open(u) \/ WriteChunk(u) \/ DiscardUpload(u)
    BY <2>1, OpenKeeps, ChunkKeeps, DiscardUploadKeeps
  <2>2. ASSUME NEW b \in Batches,
               \/ \E picked \in SUBSET Sources \ {{}} : PrepareSources(b, picked)
               \/ \E ids \in Orders : PrepareUploads(b, ids)
               \/ \E s \in Sources \cup Uploads : Fingerprint(b, s)
               \/ \E c \in batches[b].current :
                     CopySource(b, c) \/ Inspect(b, c) \/ Reverify(b, c) \/ InstallItem(b, c)
               \/ \E selected \in SUBSET batches[b].items : Run(b, selected)
               \/ \E i \in batches[b].left : NextItem(b, i)
               \/ Present(b) \/ Discard(b) \/ Admit(b) \/ Finish(b)
        PROVE  ImportInv'
    <3>1. CASE \E picked \in SUBSET Sources \ {{}} : PrepareSources(b, picked)
      BY <3>1, PrepareSourcesKeeps
    <3>2. CASE \E ids \in Orders : PrepareUploads(b, ids) BY <3>2, PrepareUploadsKeeps
    <3>3. CASE \E s \in Sources \cup Uploads : Fingerprint(b, s) BY <3>3, FingerprintKeeps DEF Origins
    <3>4. CASE \E c \in batches[b].current : CopySource(b, c) \/ Inspect(b, c)
      BY <3>4, CopyKeeps, InspectKeeps
    <3>5. CASE \E c \in batches[b].current : Reverify(b, c) \/ InstallItem(b, c)
      BY <3>5, ReverifyKeeps, InstallItemKeeps
    <3>6. CASE \E selected \in SUBSET batches[b].items : Run(b, selected) BY <3>6, RunKeeps
    <3>7. CASE \E i \in batches[b].left : NextItem(b, i) BY <3>7, NextKeeps
    <3>8. CASE Present(b) \/ Discard(b) \/ Admit(b) \/ Finish(b)
      BY <3>8, PresentKeeps, DiscardKeeps, AdmitsKeep, FinishKeepsFiles
    <3> QED BY <2>2, <3>1, <3>2, <3>3, <3>4, <3>5, <3>6, <3>7, <3>8
  <2>3. CASE \E s \in Sources : Edit(s) BY <2>3, EditKeeps
  <2>4. CASE Reset \/ OtherBegins \/ OtherEnds \/ CrashImporter \/ StartImporter
    BY <2>4, ResetKeeps, OtherBeginsKeeps, OtherEndsKeeps, CrashKeeps, StartKeeps
  <2>5. CASE UNCHANGED allImportVars
    BY <2>5, OthersKeep DEF allImportVars, importVars, ImportInv, ImportTyped
  <2> QED BY <2>1, <2>2, <2>3, <2>4, <2>5 DEF ImportNext
<1> QED BY <1>1, <1>2, PTL DEF ImportSpec

(* What is installed is what was reviewed, for any number of packages, authors,     *)
(* imports and previews, however the builds, the other commands, the user's clicks  *)
(* and crashes come between; and the generated files are those of the imports and   *)
(* previews there are, also where two previews race (plugin_local_install.rs).      *)
THEOREM ImportsAreSound == ImportSpec => []ImportsSound
<1>1. ImportInv => ImportsSound BY DEF ImportInv, ImportsSound
<1> QED BY <1>1, ImportsInductive, PTL

(* ------------------------------------------------------------------- UserData  *)
RootNames == Roots \cup {NoRoot}
Controls == {c \in [active : Roots, pending : RootNames] : c.pending # c.active}
Bootings == {"off", "resolving", "locking"}
Migrating == {"checking", "copying", "undoing", "clearing"}
Writing == {"writing", "swapping", "refused", "written"}
DataStages == Bootings \cup {"booting", "running"} \cup Migrating \cup Writing
RootContents == [there : BOOLEAN, files : [Files -> {"none", "part", "old", "new"}], marker : RootNames]
ProcessRecords ==
    [at : DataStages, selected : RootNames, roots : SUBSET Roots, active : RootNames, target : RootNames,
     todo : SUBSET Files, created : SUBSET Files, write : Controls \cup {NoControl},
     then : {"none", "run", "edit", "switch"}]
ContentTyped == content \in [Roots -> RootContents]
ControlTyped == control \in [path : Controls \cup {NoControl}, backup : Controls \cup {NoControl}]
ProcessTyped == process \in [Processes -> ProcessRecords]
HeldTyped == held \in [Roots -> Processes \cup {NoRoot}]
DataTyped == ContentTyped /\ ControlTyped /\ ProcessTyped /\ HeldTyped

(* What a process has locked. Only one that started on the default root migrates.   *)
Past(p) == process[p].at \notin Bootings
Moving(p) == At(p, "checking") \/ At(p, "copying") \/ At(p, "undoing") \/ At(p, "clearing")
             \/ (process[p].at \in Writing /\ process[p].then = "switch")
LocksKept(p) ==
    /\ ~At(p, "off") => process[p].selected \in Roots /\ held[process[p].selected] = p
    /\ p = Desktop /\ ~At(p, "off") => process[p].selected = Default
    /\ process[p].at \in Bootings \cup {"booting"} =>
          process[p].active = NoRoot /\ process[p].target = NoRoot
    /\ At(p, "booting") => LockRoots(process[p].selected) \subseteq Holds(p)
    /\ Works(p) \subseteq Holds(p)
    /\ process[p].at \in Migrating \cup Writing => process[p].selected = Default

(* What it takes for the active root, and the root it migrates to or from.          *)
Follows(p) ==
    LET active == Snapshot(Default).active
    IN /\ Past(p) /\ ~At(p, "booting") => process[p].active \in Roots
       /\ Past(p) /\ ~At(p, "booting") /\ process[p].selected = Default =>
             active = IF At(p, "written") /\ process[p].then = "switch"
                      THEN process[p].target ELSE process[p].active
       /\ Moving(p) => process[p].target \in Roots /\ process[p].target # process[p].active

(* The copy, and the control file that is written.                                  *)
Copies(p) ==
    /\ At(p, "copying") =>
          /\ content[process[p].target].there
          /\ \A f \in Files \ process[p].todo :
                content[process[p].target].files[f] = content[process[p].active].files[f]
    /\ process[p].at \in {"writing", "swapping"} =>
          /\ process[p].write \in Controls
          /\ process[p].write.active =
                IF process[p].then = "switch" THEN process[p].target ELSE process[p].active
          /\ process[p].then = "switch" =>
                content[process[p].target].there /\ content[process[p].target].files = latest
    /\ At(p, "swapping") => control.path = NoControl
    /\ At(p, "written") => control.path # NoControl

DataInv ==
    /\ DataTyped
    /\ \A p \in Processes : LocksKept(p) /\ Follows(p) /\ Copies(p)
    /\ DataKept

(* What an action does to the record of its process.                                *)
Fields == {"at", "selected", "roots", "active", "target", "todo", "created", "write", "then"}
OthersStay(p) == \A q \in Processes : q # p => process'[q] = process[q]

LEMMA ProcessIs ==
  ASSUME ProcessTyped, NEW p \in Processes
  PROVE  /\ process[p].at \in DataStages /\ process[p].selected \in RootNames
         /\ process[p].roots \in SUBSET Roots /\ process[p].active \in RootNames
         /\ process[p].target \in RootNames /\ process[p].todo \in SUBSET Files
         /\ process[p].created \in SUBSET Files /\ process[p].write \in Controls \cup {NoControl}
         /\ process[p].then \in {"none", "run", "edit", "switch"}
BY DEF ProcessTyped, ProcessRecords

LEMMA GoesIs ==
  ASSUME ProcessTyped, NEW p \in Processes, NEW changes, Goes(p, changes)
  PROVE  /\ OthersStay(p)
         /\ process'[p] = [f \in Fields |-> IF f \in DOMAIN changes THEN changes[f] ELSE process[p][f]]
<1>1. DOMAIN process[p] = Fields BY DEF ProcessTyped, ProcessRecords, Fields
<1> QED BY <1>1 DEF Goes, ProcessTyped, OthersStay

LEMMA GoesOn ==
  ASSUME ProcessTyped, NEW p \in Processes, NEW changes, Goes(p, changes),
         "at" \in DOMAIN changes => changes.at \in DataStages,
         "selected" \in DOMAIN changes => changes.selected \in RootNames,
         "roots" \in DOMAIN changes => changes.roots \in SUBSET Roots,
         "active" \in DOMAIN changes => changes.active \in RootNames,
         "target" \in DOMAIN changes => changes.target \in RootNames,
         "todo" \in DOMAIN changes => changes.todo \in SUBSET Files,
         "created" \in DOMAIN changes => changes.created \in SUBSET Files,
         "write" \in DOMAIN changes => changes.write \in Controls,
         "then" \in DOMAIN changes => changes.then \in {"none", "run", "edit", "switch"}
  PROVE  /\ ProcessTyped' /\ OthersStay(p)
         /\ \A f \in Fields : process'[p][f] = IF f \in DOMAIN changes THEN changes[f] ELSE process[p][f]
<1> DEFINE z == [f \in Fields |-> IF f \in DOMAIN changes THEN changes[f] ELSE process[p][f]]
<1>1. OthersStay(p) /\ process'[p] = z BY GoesIs
<1>2. z \in ProcessRecords BY ProcessIs DEF ProcessRecords, Fields
<1>3. ProcessTyped'
  <2>1. process' = [process EXCEPT ![p] = process'[p]] BY DEF Goes, ProcessTyped
  <2>2. process'[p] \in ProcessRecords BY <1>1, <1>2
  <2> QED BY <2>1, <2>2 DEF ProcessTyped
<1> QED BY <1>1, <1>3

(* What the control files say.                                                      *)
LEMMA SnapshotIs ==
  ASSUME ControlTyped
  PROVE  /\ Snapshot(Default) = IF control.path # NoControl THEN control.path
                                ELSE IF control.backup # NoControl THEN control.backup
                                ELSE [active |-> Default, pending |-> NoRoot]
         /\ Snapshot(Default) \in Controls
         /\ \A r \in Roots : Snapshot(r) \in Controls /\ (r # Default => Snapshot(r) = [active |-> r, pending |-> NoRoot])
<1>1. \A r \in Roots : [active |-> r, pending |-> NoRoot] \in Controls
  BY DataAssumption DEF Controls, RootNames
<1>2. Snapshot(Default) = IF control.path # NoControl THEN control.path
                          ELSE IF control.backup # NoControl THEN control.backup
                          ELSE [active |-> Default, pending |-> NoRoot]
  BY DEF Snapshot, Recovered
<1>3. Snapshot(Default) \in Controls BY <1>1, <1>2, DataAssumption DEF ControlTyped
<1>4. \A r \in Roots : r # Default => Snapshot(r) = [active |-> r, pending |-> NoRoot] BY DEF Snapshot
<1> QED BY <1>1, <1>2, <1>3, <1>4

LEMMA ControlIs ==
  ASSUME NEW c \in Controls
  PROVE  /\ c.active \in Roots /\ c.pending \in RootNames /\ c.pending # c.active /\ c # NoControl
BY DataAssumption DEF Controls, NoControl

LEMMA RecoveredIs ==
  ASSUME ControlTyped, NEW r, control' = RecoveredControl(r)
  PROVE  ControlTyped' /\ Snapshot(Default)' = Snapshot(Default)
<1>1. NoControl \in Controls \cup {NoControl} OBVIOUS
<1> QED BY <1>1 DEF ControlTyped, RecoveredControl, Snapshot, Recovered

LEMMA HoldsIs ==
  /\ \A p : \A r : r \in Holds(p) <=> r \in Roots /\ held[r] = p
  /\ \A p : \A r : r \in Holds(p)' <=> r \in Roots /\ held'[r] = p
BY DEF Holds

(* A root is worked on by one process.                                              *)
LEMMA WorksApart ==
  ASSUME DataInv, NEW p \in Processes, NEW q \in Processes, q # p
  PROVE  Works(q) \subseteq Roots \ Works(p)
BY HoldsIs DEF DataInv, LocksKept

(* What the others have is not touched.                                             *)
Spared(p) ==
    /\ OthersStay(p)
    /\ \A q \in Processes : q # p => \A r \in Roots : held[r] = q => held'[r] = q
    /\ control' = control \/ held[Default] = p
    /\ \A r \in Roots \ Works(p) :
          content'[r].files = content[r].files /\ (content[r].there => content'[r].there)
    /\ latest' = latest \/ Snapshot(Default).active \in Works(p)

LEMMA OthersKept ==
  ASSUME DataInv, NEW p \in Processes, Spared(p), NEW q \in Processes, q # p
  PROVE  LocksKept(q)' /\ Follows(q)' /\ Copies(q)'
<1>1. process'[q] = process[q] BY DEF Spared, OthersStay
<1>2. LocksKept(q) /\ Follows(q) /\ Copies(q) /\ LocksKept(p) BY DEF DataInv
<1>3. \A r \in Roots : held[r] = q => held'[r] = q BY DEF Spared
<1>4. Works(q)' = Works(q) BY <1>1 DEF Works
<1>5. ~At(q, "off") /\ process[q].selected = Default => control' = control
  BY <1>2 DEF LocksKept, Spared
<1>6. ~At(q, "off") => Snapshot(process[q].selected)' = Snapshot(process[q].selected)
  <2>1. CASE process[q].selected = Default BY <1>1, <1>5, <2>1 DEF Snapshot, Recovered
  <2>2. CASE process[q].selected # Default BY <1>1, <2>2 DEF Snapshot
  <2> QED BY <2>1, <2>2
<1>7. LocksKept(q)'
  <2>1. At(q, "booting") => LockRoots(process[q].selected)' = LockRoots(process[q].selected)
    BY <1>1, <1>6 DEF LockRoots, Named, At
  <2> QED BY <1>1, <1>2, <1>3, <1>4, <2>1, HoldsIs DEF LocksKept, At
<1>8. Follows(q)'
  <2>1. Past(q) => ~At(q, "off") BY DEF Past, Bootings, At
  <2> QED BY <1>1, <1>2, <1>6, <2>1 DEF Follows, Past, At, Moving
<1>9. \A r \in Works(q) : content'[r].files = content[r].files /\ (content[r].there => content'[r].there)
  BY WorksApart DEF Spared
<1>10. At(q, "copying") \/ (process[q].at \in {"writing", "swapping"}) \/ At(q, "written") =>
         /\ Past(q) /\ ~At(q, "booting") /\ ~At(q, "off") /\ process[q].selected = Default
         /\ Works(q) = {process[q].selected, process[q].active, process[q].target} \ {NoRoot}
  BY <1>2 DEF Past, At, Bootings, LocksKept, Migrating, Writing, Works
<1>11. At(q, "copying") => process[q].active \in Works(q) /\ process[q].target \in Works(q)
  BY <1>2, <1>10, DataAssumption DEF Follows, Moving
<1>12. process[q].at \in {"writing", "swapping"} /\ process[q].then = "switch" =>
         /\ process[q].target \in Works(q) /\ latest' = latest
  <2> SUFFICES ASSUME process[q].at \in {"writing", "swapping"}, process[q].then = "switch"
               PROVE  process[q].target \in Works(q) /\ latest' = latest
    OBVIOUS
  <2>1. Moving(q) BY DEF Moving, Writing
  <2>2. process[q].target \in Works(q) /\ process[q].active \in Works(q)
    BY <1>2, <1>10, <2>1, DataAssumption DEF Follows
  <2>3. Snapshot(Default).active = process[q].active BY <1>2, <1>10 DEF Follows, At
  <2>4. process[q].active \notin Works(p) BY <2>2, WorksApart
  <2> QED BY <2>2, <2>3, <2>4 DEF Spared
<1>13. Copies(q)'
  <2>1. At(q, "copying") =>
           /\ content'[process[q].target].there
           /\ \A f \in Files \ process[q].todo :
                 content'[process[q].target].files[f] = content'[process[q].active].files[f]
    BY <1>2, <1>9, <1>11 DEF Copies
  <2>2. process[q].at \in {"writing", "swapping"} /\ process[q].then = "switch" =>
                content'[process[q].target].there /\ content'[process[q].target].files = latest'
    BY <1>2, <1>9, <1>12 DEF Copies
  <2>3. At(q, "swapping") \/ At(q, "written") => control' = control BY <1>5, <1>10 DEF At
  <2> QED BY <1>1, <1>2, <2>1, <2>2, <2>3 DEF Copies, At
<1> QED BY <1>7, <1>8, <1>13

LEMMA StepKeeps ==
  ASSUME DataInv, NEW p \in Processes, Spared(p), DataTyped',
         LocksKept(p)', Follows(p)', Copies(p)', DataKept'
  PROVE  DataInv'
BY OthersKept DEF DataInv

LEMMA DataStays ==
  ASSUME DataInv, NEW a, a = Snapshot(Default).active, Snapshot(Default)'.active = a,
         content'[a].files = content[a].files, content[a].there => content'[a].there, latest' = latest
  PROVE  DataKept'
BY DEF DataInv, DataKept

(* The data stays where it is, and at least there.                                  *)
Untouched == \A r \in Roots : content'[r].files = content[r].files /\ (content[r].there => content'[r].there)

LEMMA UntouchedKeeps ==
  ASSUME DataInv, Untouched, Snapshot(Default)' = Snapshot(Default), latest' = latest
  PROVE  DataKept'
<1>1. Snapshot(Default).active \in Roots
  BY SnapshotIs, ControlIs DEF DataInv, DataTyped
<1> QED BY <1>1, DataStays DEF Untouched

LEMMA EndsKeep ==
  ASSUME DataInv, NEW p \in Processes, Ends(p), ContentTyped', Untouched, UNCHANGED <<control, latest>>
  PROVE  DataInv'
<1>1. process' = [process EXCEPT ![p] = Off]
      /\ held' = [r \in Roots |-> IF held[r] = p THEN NoRoot ELSE held[r]]
  BY DEF Ends
<1>2. Off \in ProcessRecords /\ Off.at = "off" /\ Off.active = NoRoot /\ Off.target = NoRoot
  BY DEF Off, ProcessRecords, DataStages, Bootings, RootNames
<1>3. ProcessTyped' /\ OthersStay(p) /\ process'[p] = Off
  BY <1>1, <1>2 DEF DataInv, DataTyped, ProcessTyped, OthersStay
<1>4. HeldTyped' /\ ControlTyped' BY <1>1 DEF DataInv, DataTyped, HeldTyped, ControlTyped
<1>5. DataTyped' BY <1>3, <1>4 DEF DataTyped
<1>6. Spared(p) BY <1>1, <1>3 DEF Spared, Untouched
<1>7. LocksKept(p)' /\ Follows(p)' /\ Copies(p)'
  BY <1>2, <1>3 DEF LocksKept, Follows, Copies, At, Past, Bootings, Moving, Migrating, Writing, Works
<1>8. DataKept'
  <2>1. Snapshot(Default)' = Snapshot(Default) BY DEF Snapshot, Recovered
  <2> QED BY <2>1, UntouchedKeeps
<1> QED BY <1>5, <1>6, <1>7, <1>8, StepKeeps

LEMMA StartKeepsData ==
  ASSUME DataInv, NEW p \in Processes, NEW r \in Roots, Start(p, r)
  PROVE  DataInv'
<1> DEFINE c == [at |-> "resolving", selected |-> r]
<1>1. /\ At(p, "off") /\ (p = Desktop => r = Default) /\ held[r] = NoRoot
      /\ held' = [held EXCEPT ![r] = p] /\ Goes(p, c) /\ UNCHANGED <<content, control, latest>>
  BY DEF Start
<1>2. /\ DOMAIN c = {"at", "selected"} /\ c.at = "resolving" /\ c.selected = r
      /\ c.at \in DataStages /\ c.selected \in RootNames
  BY DEF DataStages, Bootings, RootNames
<1> HIDE DEF c
<1>3. /\ ProcessTyped' /\ OthersStay(p)
      /\ \A f \in Fields : process'[p][f] = IF f \in DOMAIN c THEN c[f] ELSE process[p][f]
  BY <1>1, <1>2, GoesOn DEF DataInv, DataTyped
<1>4. /\ process'[p].at = "resolving" /\ process'[p].selected = r
      /\ process'[p].active = NoRoot /\ process'[p].target = NoRoot
  BY <1>1, <1>2, <1>3 DEF Fields, DataInv, LocksKept, At, Bootings
<1>5. HeldTyped' /\ held'[r] = p /\ \A s \in Roots : s # r => held'[s] = held[s]
  BY <1>1 DEF DataInv, DataTyped, HeldTyped
<1>6. DataTyped' BY <1>1, <1>3, <1>5 DEF DataInv, DataTyped, ContentTyped, ControlTyped
<1>7. Spared(p) BY <1>1, <1>3, <1>5, DataAssumption DEF Spared, Processes
<1>8. LocksKept(p)' /\ Follows(p)' /\ Copies(p)'
  BY <1>1, <1>4, <1>5 DEF LocksKept, Follows, Copies, At, Past, Bootings, Moving, Migrating, Writing, Works
<1>9. DataKept'
  BY <1>1, UntouchedKeeps DEF Untouched, Snapshot, Recovered
<1> QED BY <1>6, <1>7, <1>8, <1>9, StepKeeps

LEMMA RootsToLock ==
  ASSUME ControlTyped, NEW r \in Roots
  PROVE  LockRoots(r) \subseteq Roots
BY SnapshotIs, ControlIs DEF LockRoots, Named, RootNames

LEMMA ResolveKeeps ==
  ASSUME DataInv, NEW p \in Processes, Resolve(p)
  PROVE  DataInv'
<1>0. UNCHANGED <<content, control, latest>> /\ At(p, "resolving") BY DEF Resolve
<1>1. CASE Ends(p)
  BY <1>0, <1>1, EndsKeep DEF DataInv, DataTyped, ContentTyped, Untouched
<1>2. CASE Goes(p, [at |-> "locking", roots |-> LockRoots(process[p].selected)]) /\ UNCHANGED held
  <2> DEFINE c == [at |-> "locking", roots |-> LockRoots(process[p].selected)]
  <2>1. process[p].selected \in Roots BY <1>0 DEF DataInv, LocksKept, At
  <2>2. /\ DOMAIN c = {"at", "roots"} /\ c.at = "locking" /\ c.at \in DataStages /\ c.roots \in SUBSET Roots
    BY <2>1, RootsToLock DEF DataStages, Bootings, DataInv, DataTyped
  <2>3. Goes(p, c) BY <1>2
  <2> HIDE DEF c
  <2>4. /\ ProcessTyped' /\ OthersStay(p)
        /\ \A f \in Fields : process'[p][f] = IF f \in DOMAIN c THEN c[f] ELSE process[p][f]
    BY <2>2, <2>3, GoesOn DEF DataInv, DataTyped
  <2>5. /\ process'[p].at = "locking" /\ process'[p].selected = process[p].selected
        /\ process'[p].active = process[p].active /\ process'[p].target = process[p].target
    BY <2>2, <2>4 DEF Fields
  <2>6. DataTyped' BY <1>0, <1>2, <2>4 DEF DataInv, DataTyped, ContentTyped, ControlTyped, HeldTyped
  <2>7. Spared(p) BY <1>0, <1>2, <2>4 DEF Spared
  <2>8. LocksKept(p) BY DEF DataInv
  <2>9. LocksKept(p)' /\ Follows(p)' /\ Copies(p)'
    BY <1>0, <1>2, <2>5, <2>8
       DEF LocksKept, Follows, Copies, At, Past, Bootings, Moving, Migrating, Writing, Works
  <2>10. DataKept' BY <1>0, UntouchedKeeps DEF Untouched, Snapshot, Recovered
  <2> QED BY <2>6, <2>7, <2>9, <2>10, StepKeeps
<1> QED BY <1>1, <1>2 DEF Resolve

LEMMA LockRootKeeps ==
  ASSUME DataInv, NEW p \in Processes, NEW r \in Roots, LockRoot(p, r)
  PROVE  DataInv'
<1>0. UNCHANGED <<content, control, latest>> /\ At(p, "locking") BY DEF LockRoot
<1>1. CASE Ends(p)
  BY <1>0, <1>1, EndsKeep DEF DataInv, DataTyped, ContentTyped, Untouched
<1>2. CASE held[r] = NoRoot /\ held' = [held EXCEPT ![r] = p] /\ UNCHANGED process
  <2>1. HeldTyped' /\ held'[r] = p /\ \A s \in Roots : s # r => held'[s] = held[s]
    BY <1>2 DEF DataInv, DataTyped, HeldTyped
  <2>2. DataTyped'
    BY <1>0, <1>2, <2>1 DEF DataInv, DataTyped, ContentTyped, ControlTyped, ProcessTyped
  <2>3. Spared(p) BY <1>0, <1>2, <2>1, DataAssumption DEF Spared, Processes, OthersStay
  <2>4. LocksKept(p) BY DEF DataInv
  <2>5. LocksKept(p)' /\ Follows(p)' /\ Copies(p)'
    BY <1>0, <1>2, <2>1, <2>4
       DEF LocksKept, Follows, Copies, At, Past, Bootings, Moving, Migrating, Writing, Works
  <2>6. DataKept' BY <1>0, UntouchedKeeps DEF Untouched, Snapshot, Recovered
  <2> QED BY <2>2, <2>3, <2>5, <2>6, StepKeeps
<1> QED BY <1>1, <1>2 DEF LockRoot

LEMMA LockedKeeps ==
  ASSUME DataInv, NEW p \in Processes, Locked(p)
  PROVE  DataInv'
<1>0. /\ UNCHANGED <<content, control, latest>> /\ At(p, "locking")
      /\ process[p].roots \subseteq Holds(p)
  BY DEF Locked
<1>1. CASE Ends(p)
  BY <1>0, <1>1, EndsKeep DEF DataInv, DataTyped, ContentTyped, Untouched
<1>2. CASE /\ LockRoots(process[p].selected) = process[p].roots
           /\ Goes(p, [at |-> "booting"]) /\ UNCHANGED held
  <2> DEFINE c == [at |-> "booting"]
  <2>1. DOMAIN c = {"at"} /\ c.at = "booting" /\ c.at \in DataStages BY DEF DataStages
  <2>2. Goes(p, c) BY <1>2
  <2> HIDE DEF c
  <2>3. /\ ProcessTyped' /\ OthersStay(p)
        /\ \A f \in Fields : process'[p][f] = IF f \in DOMAIN c THEN c[f] ELSE process[p][f]
    BY <2>1, <2>2, GoesOn DEF DataInv, DataTyped
  <2>4. /\ process'[p].at = "booting" /\ process'[p].selected = process[p].selected
        /\ process'[p].active = process[p].active /\ process'[p].target = process[p].target
    BY <2>1, <2>3 DEF Fields
  <2>5. DataTyped' BY <1>0, <1>2, <2>3 DEF DataInv, DataTyped, ContentTyped, ControlTyped, HeldTyped
  <2>6. Spared(p) BY <1>0, <1>2, <2>3 DEF Spared
  <2>7. LocksKept(p) BY DEF DataInv
  <2>8. process[p].active = NoRoot /\ process[p].target = NoRoot /\ process[p].selected \in Roots
        /\ held[process[p].selected] = p
    BY <1>0, <2>7 DEF LocksKept, At, Bootings
  <2>9. (LockRoots(process[p].selected) \subseteq Holds(p))'
    BY <1>0, <1>2, <2>4 DEF LockRoots, Named, Snapshot, Recovered, Holds
  <2>10. (Works(p) \subseteq Holds(p))' BY <1>2, <2>4, <2>8 DEF Works, Holds
  <2>11. LocksKept(p)' /\ Follows(p)' /\ Copies(p)'
    BY <1>0, <1>2, <2>4, <2>7, <2>8, <2>9, <2>10
       DEF LocksKept, Follows, Copies, At, Past, Bootings, Moving, Migrating, Writing
  <2>12. DataKept' BY <1>0, UntouchedKeeps DEF Untouched, Snapshot, Recovered
  <2> QED BY <2>5, <2>6, <2>11, <2>12, StepKeeps
<1> QED BY <1>1, <1>2 DEF Locked

LEMMA ExitKeeps ==
  ASSUME DataInv, NEW p \in Processes, Exit(p) \/ Crash(p)
  PROVE  DataInv'
BY EndsKeep DEF Exit, Crash, DataInv, DataTyped, ContentTyped, Untouched

LEMMA BootKeeps ==
  ASSUME DataInv, NEW p \in Processes, Boot(p)
  PROVE  DataInv'
<1> DEFINE selected == process[p].selected
           snapshot == Snapshot(selected)
<1>0. At(p, "booting") /\ latest' = latest BY DEF Boot
<1>1. CASE Ends(p) /\ UNCHANGED <<content, control>>
  BY <1>0, <1>1, EndsKeep DEF DataInv, DataTyped, ContentTyped, Untouched
<1>2. CASE /\ control' = RecoveredControl(selected)
           /\ content' = [content EXCEPT ![selected].there = TRUE,
                                         ![snapshot.active].marker = Unmarked(snapshot.active)]
           /\ Goes(p, [at |-> IF snapshot.pending = NoRoot THEN "running" ELSE "checking",
                       active |-> snapshot.active, target |-> snapshot.pending])
           /\ UNCHANGED held
  <2>1. /\ LocksKept(p) /\ selected \in Roots /\ held[selected] = p
        /\ LockRoots(selected) \subseteq Holds(p)
    BY <1>0 DEF DataInv, LocksKept, At
  <2>2. /\ snapshot \in Controls /\ snapshot.active \in Roots /\ snapshot.pending \in RootNames
        /\ snapshot.pending # snapshot.active
        /\ selected # Default => snapshot.active = selected /\ snapshot.pending = NoRoot
    <3>1. snapshot \in Controls /\ (selected # Default => snapshot = [active |-> selected, pending |-> NoRoot])
      BY <2>1, SnapshotIs DEF DataInv, DataTyped
    <3> HIDE DEF snapshot
    <3> QED BY <3>1, ControlIs
  <2>3. {snapshot.active, snapshot.pending} \ {NoRoot} \subseteq Holds(p)
    BY <2>1 DEF LockRoots, Named
  <2>4. ControlTyped' /\ Snapshot(Default)' = Snapshot(Default)
    BY <1>2, RecoveredIs DEF DataInv, DataTyped
  <2>5. control' = control \/ held[Default] = p
    <3>1. CASE selected = Default BY <2>1, <3>1
    <3>2. CASE selected # Default BY <1>2, <3>2 DEF RecoveredControl
    <3> QED BY <3>1, <3>2
  <2>6. selected = Default => snapshot = Snapshot(Default) OBVIOUS
  <2> DEFINE c == [at |-> IF snapshot.pending = NoRoot THEN "running" ELSE "checking",
                   active |-> snapshot.active, target |-> snapshot.pending]
  <2>7. Goes(p, c) BY <1>2
  <2> HIDE DEF snapshot
  <2>8. /\ DOMAIN c = {"at", "active", "target"} /\ c.at \in DataStages /\ c.active = snapshot.active
        /\ c.target = snapshot.pending
        /\ c.at = IF snapshot.pending = NoRoot THEN "running" ELSE "checking"
    BY DEF DataStages, Migrating
  <2> HIDE DEF c
  <2>9. /\ ProcessTyped' /\ OthersStay(p)
        /\ \A f \in Fields : process'[p][f] = IF f \in DOMAIN c THEN c[f] ELSE process[p][f]
    BY <2>2, <2>7, <2>8, GoesOn DEF DataInv, DataTyped, RootNames
  <2>10. /\ process'[p].at = IF snapshot.pending = NoRoot THEN "running" ELSE "checking"
         /\ process'[p].selected = selected
         /\ process'[p].active = snapshot.active /\ process'[p].target = snapshot.pending
    BY <2>8, <2>9 DEF Fields
  <2>11. ContentTyped' /\ Untouched
    <3>1. Unmarked(snapshot.active) \in RootNames
      BY <2>2 DEF Unmarked, DataInv, DataTyped, ContentTyped, RootContents, RootNames
    <3> HIDE DEF selected
    <3>2. content' = [content EXCEPT ![selected].there = TRUE,
                                     ![snapshot.active].marker = Unmarked(snapshot.active)]
      BY <1>2 DEF snapshot
    <3> QED BY <2>1, <2>2, <3>1, <3>2 DEF DataInv, DataTyped, ContentTyped, RootContents, Untouched
  <2>12. DataTyped' BY <1>2, <2>4, <2>9, <2>11 DEF DataInv, DataTyped, HeldTyped
  <2>13. Spared(p) BY <1>0, <1>2, <2>5, <2>9, <2>11 DEF Spared, Untouched
  <2>14. (Works(p) \subseteq Holds(p))'
    BY <1>2, <2>1, <2>3, <2>10, HoldsIs DEF Works
  <2>15. LocksKept(p)'
    BY <1>0, <1>2, <2>1, <2>2, <2>10, <2>14 DEF LocksKept, At, Bootings, Migrating, Writing
  <2>16. Follows(p)'
    BY <2>2, <2>4, <2>6, <2>10 DEF Follows, Past, At, Bootings, Moving, Writing, RootNames
  <2>17. Copies(p)' BY <2>10 DEF Copies, At
  <2>18. DataKept' BY <1>0, <2>4, <2>11, UntouchedKeeps
  <2> QED BY <2>12, <2>13, <2>15, <2>16, <2>17, <2>18, StepKeeps
<1> QED BY <1>1, <1>2 DEF Boot

(* A process that migrates is the only one at the control file and at its roots.    *)
LEMMA MigratesAlone ==
  ASSUME DataInv, NEW p \in Processes, process[p].at \in Migrating \cup Writing
  PROVE  /\ process[p].selected = Default /\ held[Default] = p
         /\ process[p].active \in Roots /\ process[p].active \in Works(p)
         /\ process[p].target \in Roots => process[p].target \in Works(p)
         /\ ~(At(p, "written") /\ process[p].then = "switch") =>
                Snapshot(Default).active = process[p].active
         /\ Works(p) = {process[p].selected, process[p].active, process[p].target} \ {NoRoot}
<1>1. /\ ~At(p, "off") /\ ~At(p, "booting") /\ Past(p)
      /\ Works(p) = {process[p].selected, process[p].active, process[p].target} \ {NoRoot}
  BY DEF At, Past, Bootings, Migrating, Writing, Works
<1>2. LocksKept(p) /\ Follows(p) BY DEF DataInv
<1>3. process[p].selected = Default /\ held[Default] = p BY <1>1, <1>2 DEF LocksKept
<1>4. process[p].active \in Roots BY <1>1, <1>2 DEF Follows
<1>5. ~(At(p, "written") /\ process[p].then = "switch") => Snapshot(Default).active = process[p].active
  BY <1>1, <1>2, <1>3 DEF Follows
<1> QED BY <1>1, <1>3, <1>4, <1>5, DataAssumption

(* What is written when a migration is over without having taken place.             *)
LEMMA AbandonedIs ==
  ASSUME DataInv, NEW p \in Processes, process[p].at \in Migrating, Abandoned(p), UNCHANGED held
  PROVE  /\ ProcessTyped' /\ OthersStay(p)
         /\ LocksKept(p)' /\ (Snapshot(Default)' = Snapshot(Default) => Follows(p)') /\ Copies(p)'
<1> DEFINE w == [active |-> process[p].active, pending |-> NoRoot]
           c == [at |-> "writing", then |-> "run", target |-> NoRoot, todo |-> {}, created |-> {}, write |-> w]
<1>1. Goes(p, c) BY DEF Abandoned
<1>2. process[p].active \in Roots /\ process[p].selected = Default /\ held[Default] = p
  BY MigratesAlone
<1>3. w \in Controls /\ w.active = process[p].active
  BY <1>2, DataAssumption DEF Controls, RootNames
<1> HIDE DEF w
<1>4. /\ DOMAIN c = {"at", "then", "target", "todo", "created", "write"} /\ c.at \in DataStages
      /\ c.at = "writing" /\ c.then = "run" /\ c.target = NoRoot /\ c.todo = {} /\ c.created = {}
      /\ c.write = w
  BY DEF DataStages, Writing
<1> HIDE DEF c
<1>5. /\ ProcessTyped' /\ OthersStay(p)
      /\ \A f \in Fields : process'[p][f] = IF f \in DOMAIN c THEN c[f] ELSE process[p][f]
  BY <1>1, <1>3, <1>4, GoesOn DEF DataInv, DataTyped, RootNames
<1>6. /\ process'[p].at = "writing" /\ process'[p].selected = process[p].selected
      /\ process'[p].active = process[p].active /\ process'[p].target = NoRoot
      /\ process'[p].then = "run" /\ process'[p].write = w
  BY <1>4, <1>5 DEF Fields
<1>7. Works(p)' \subseteq Works(p)
  BY <1>6, MigratesAlone DEF Works, Bootings
<1>8. LocksKept(p) /\ Follows(p) /\ Snapshot(Default).active = process[p].active
  BY MigratesAlone DEF DataInv, At, Migrating
<1>9. LocksKept(p)'
  <2>1. Works(p)' \subseteq Holds(p)' BY <1>7, <1>8, HoldsIs DEF LocksKept
  <2> QED BY <1>2, <1>6, <1>8, <2>1, DataAssumption DEF LocksKept, At, Bootings
<1>10. Snapshot(Default)' = Snapshot(Default) => Follows(p)'
  BY <1>2, <1>6, <1>8 DEF Follows, Past, At, Bootings, Moving
<1>11. Copies(p)' BY <1>3, <1>6 DEF Copies, At
<1> QED BY <1>5, <1>9, <1>10, <1>11

LEMMA CheckKeeps ==
  ASSUME DataInv, NEW p \in Processes, Check(p)
  PROVE  DataInv'
<1> DEFINE target == process[p].target
           fits == content[target].there /\ Free(target) /\ content[process[p].active].marker = NoRoot
<1>0. At(p, "checking") /\ UNCHANGED <<control, held, latest>> BY DEF Check
<1>1. process[p].at \in Migrating BY <1>0 DEF At, Migrating
<1>2. Follows(p) /\ LocksKept(p) BY DEF DataInv
<1>3. target \in Roots /\ target # process[p].active BY <1>0, <1>2 DEF Follows, Moving
<1>4. Snapshot(Default)' = Snapshot(Default) BY <1>0 DEF Snapshot, Recovered
<1>5. CASE /\ fits /\ content' = [content EXCEPT ![target].marker = target]
           /\ Goes(p, [at |-> "copying",
                       todo |-> {f \in Files : content[process[p].active].files[f] # "none"}])
  <2> DEFINE t == {f \in Files : content[process[p].active].files[f] # "none"}
             c == [at |-> "copying", todo |-> t]
  <2>1. Goes(p, c) BY <1>5
  <2>2. t \in SUBSET Files OBVIOUS
  <2>3. \A f \in Files \ t : content[process[p].active].files[f] = "none" OBVIOUS
  <2> HIDE DEF t
  <2>4. DOMAIN c = {"at", "todo"} /\ c.at \in DataStages /\ c.at = "copying" /\ c.todo = t
    BY DEF DataStages, Migrating
  <2> HIDE DEF c
  <2>5. /\ ProcessTyped' /\ OthersStay(p)
        /\ \A f \in Fields : process'[p][f] = IF f \in DOMAIN c THEN c[f] ELSE process[p][f]
    BY <2>1, <2>2, <2>4, GoesOn DEF DataInv, DataTyped
  <2>6. /\ process'[p].at = "copying" /\ process'[p].selected = process[p].selected
        /\ process'[p].active = process[p].active /\ process'[p].target = target
        /\ process'[p].todo = t
    BY <2>4, <2>5 DEF Fields
  <2>7. ContentTyped' /\ Untouched
    BY <1>3, <1>5 DEF DataInv, DataTyped, ContentTyped, RootContents, Untouched, RootNames
  <2>8. DataTyped' BY <1>0, <2>5, <2>7 DEF DataInv, DataTyped, HeldTyped, ControlTyped
  <2>9. Spared(p) BY <1>0, <2>5, <2>7 DEF Spared, Untouched
  <2>10. Works(p)' = Works(p) BY <1>0, <2>6 DEF Works, At
  <2>11. LocksKept(p)'
    BY <1>0, <1>1, <1>2, <2>6, <2>10, HoldsIs DEF LocksKept, At, Bootings, Migrating
  <2>12. Follows(p)'
    BY <1>0, <1>1, <1>2, <1>3, <1>4, <2>6, MigratesAlone DEF Follows, Past, At, Bootings
  <2>13. Copies(p)'
    <3>1. content[target].files = Empty /\ content[target].there BY <1>5 DEF Free
    <3>2. process[p].active \in Roots BY <1>1, MigratesAlone
    <3>3. \A f \in Files \ t : content'[target].files[f] = content'[process[p].active].files[f]
      BY <1>3, <2>3, <2>7, <3>1, <3>2 DEF Untouched, Empty
    <3> QED BY <1>3, <2>6, <2>7, <3>1, <3>3 DEF Copies, At, Untouched
  <2>14. DataKept' BY <1>0, <1>4, <2>7, UntouchedKeeps
  <2> QED BY <2>8, <2>9, <2>11, <2>12, <2>13, <2>14, StepKeeps
<1>6. CASE Abandoned(p) /\ UNCHANGED content
  <2>1. /\ ProcessTyped' /\ OthersStay(p) /\ LocksKept(p)' /\ Follows(p)' /\ Copies(p)'
    BY <1>0, <1>1, <1>4, <1>6, AbandonedIs
  <2>2. DataTyped' BY <1>0, <1>6, <2>1 DEF DataInv, DataTyped, HeldTyped, ControlTyped, ContentTyped
  <2>3. Spared(p) BY <1>0, <1>6, <2>1 DEF Spared
  <2>4. DataKept' BY <1>0, <1>4, <1>6, UntouchedKeeps DEF Untouched
  <2> QED BY <2>1, <2>2, <2>3, <2>4, StepKeeps
<1> QED BY <1>5, <1>6 DEF Check

(* A step that changes nothing but how far the process is.                          *)
LEMMA GoesKeeps ==
  ASSUME DataInv, NEW p \in Processes, process[p].at \in Migrating \cup Writing,
         ProcessTyped', OthersStay(p), UNCHANGED <<control, held, latest>>, ContentTyped',
         \A r \in Roots : r # process[p].target => content'[r] = content[r],
         process[p].target \in Roots, process[p].target # process[p].active,
         ~(At(p, "written") /\ process[p].then = "switch"),
         process'[p].selected = process[p].selected, process'[p].active = process[p].active,
         process'[p].target = process[p].target,
         process'[p].at \in Migrating \cup Writing, process'[p].at # "written",
         Copies(p)'
  PROVE  DataInv'
<1>1. LocksKept(p) /\ Follows(p) BY DEF DataInv
<1>2. /\ process[p].selected = Default /\ held[Default] = p /\ process[p].active \in Roots
      /\ process[p].target \in Works(p) /\ Snapshot(Default).active = process[p].active
      /\ Works(p) = {process[p].selected, process[p].active, process[p].target} \ {NoRoot}
  BY MigratesAlone
<1>3. DataTyped' BY DEF DataInv, DataTyped, HeldTyped, ControlTyped
<1>4. Spared(p) BY <1>2 DEF Spared
<1>5. Works(p)' = Works(p) BY <1>2 DEF Works, Migrating, Writing
<1>6. LocksKept(p)'
  BY <1>1, <1>2, <1>5, HoldsIs, DataAssumption DEF LocksKept, At, Bootings, Migrating, Writing
<1>7. Snapshot(Default)' = Snapshot(Default) BY DEF Snapshot, Recovered
<1>8. Follows(p)' BY <1>2, <1>7 DEF Follows, Past, At
<1>9. DataKept' BY <1>2, <1>7, DataStays
<1> QED BY <1>3, <1>4, <1>6, <1>8, <1>9, StepKeeps

(* The copy has failed.                                                             *)
LEMMA UndoBegins ==
  ASSUME DataInv, NEW p \in Processes, At(p, "copying"), UNCHANGED <<content, control, held, latest>>,
         Goes(p, [at |-> "undoing", then |-> "run"])
  PROVE  DataInv'
<1> DEFINE c == [at |-> "undoing", then |-> "run"]
<1>1. DOMAIN c = {"at", "then"} /\ c.at \in DataStages /\ c.then = "run" /\ c.at = "undoing"
  BY DEF DataStages, Migrating
<1> HIDE DEF c
<1>2. Goes(p, c) BY DEF c
<1>3. /\ ProcessTyped' /\ OthersStay(p)
      /\ \A g \in Fields : process'[p][g] = IF g \in DOMAIN c THEN c[g] ELSE process[p][g]
  BY <1>1, <1>2, GoesOn DEF DataInv, DataTyped
<1>4. /\ process'[p].at = "undoing" /\ process'[p].selected = process[p].selected
      /\ process'[p].active = process[p].active /\ process'[p].target = process[p].target
  BY <1>1, <1>3 DEF Fields
<1>5. Copies(p)' BY <1>4 DEF Copies, At
<1>6. process[p].target \in Roots /\ process[p].target # process[p].active
  BY DEF DataInv, Follows, Moving
<1> QED BY <1>3, <1>4, <1>5, <1>6, GoesKeeps DEF DataInv, DataTyped, ContentTyped, At, Migrating

LEMMA CopyingKeeps ==
  ASSUME DataInv, NEW p \in Processes, NEW f \in Files, Copy(p, f)
  PROVE  DataInv'
<1> DEFINE target == process[p].target
<1>0. At(p, "copying") /\ f \in process[p].todo /\ UNCHANGED <<control, held, latest>> BY DEF Copy
<1>1. /\ process[p].at \in Migrating \cup Writing /\ process[p].at \in Migrating
      /\ ~(At(p, "written") /\ process[p].then = "switch")
  BY <1>0 DEF At, Migrating
<1>2. Follows(p) /\ Copies(p) BY DEF DataInv
<1>3. target \in Roots /\ target # process[p].active /\ process[p].active \in Roots
  BY <1>0, <1>1, <1>2, MigratesAlone DEF Follows, Moving
<1>4. content \in [Roots -> RootContents] BY DEF DataInv, DataTyped, ContentTyped
<1>5. CASE /\ content' = [content EXCEPT ![target].files[f] = "part"]
           /\ Goes(p, [created |-> process[p].created \cup {f}])
  <2> DEFINE c == [created |-> process[p].created \cup {f}]
  <2>1. DOMAIN c = {"created"} /\ c.created \in SUBSET Files BY ProcessIs DEF DataInv, DataTyped
  <2>2. Goes(p, c) BY <1>5
  <2> HIDE DEF c
  <2>3. /\ ProcessTyped' /\ OthersStay(p)
        /\ \A g \in Fields : process'[p][g] = IF g \in DOMAIN c THEN c[g] ELSE process[p][g]
    BY <2>1, <2>2, GoesOn DEF DataInv, DataTyped
  <2>4. /\ process'[p].at = "copying" /\ process'[p].selected = process[p].selected
        /\ process'[p].active = process[p].active /\ process'[p].target = target
        /\ process'[p].todo = process[p].todo
    BY <1>0, <2>1, <2>3 DEF Fields, At
  <2>5. /\ ContentTyped' /\ \A r \in Roots : r # target => content'[r] = content[r]
        /\ content'[target].there = content[target].there
        /\ \A g \in Files : g # f => content'[target].files[g] = content[target].files[g]
    BY <1>3, <1>4, <1>5 DEF ContentTyped, RootContents
  <2>6. Copies(p)' BY <1>0, <1>2, <1>3, <2>4, <2>5 DEF Copies, At
  <2> QED BY <1>0, <1>1, <1>3, <2>3, <2>4, <2>5, <2>6, GoesKeeps DEF Migrating
<1>6. CASE /\ content' = [content EXCEPT ![target].files[f] = content[process[p].active].files[f]]
           /\ Goes(p, [todo |-> process[p].todo \ {f}])
  <2> DEFINE c == [todo |-> process[p].todo \ {f}]
  <2>1. DOMAIN c = {"todo"} /\ c.todo \in SUBSET Files /\ c.todo = process[p].todo \ {f}
    BY ProcessIs DEF DataInv, DataTyped
  <2>2. Goes(p, c) BY <1>6
  <2> HIDE DEF c
  <2>3. /\ ProcessTyped' /\ OthersStay(p)
        /\ \A g \in Fields : process'[p][g] = IF g \in DOMAIN c THEN c[g] ELSE process[p][g]
    BY <2>1, <2>2, GoesOn DEF DataInv, DataTyped
  <2>4. /\ process'[p].at = "copying" /\ process'[p].selected = process[p].selected
        /\ process'[p].active = process[p].active /\ process'[p].target = target
        /\ process'[p].todo = process[p].todo \ {f}
    BY <1>0, <2>1, <2>3 DEF Fields, At
  <2>5. /\ ContentTyped' /\ \A r \in Roots : r # target => content'[r] = content[r]
        /\ content'[target].there = content[target].there
        /\ content'[target].files[f] = content[process[p].active].files[f]
        /\ \A g \in Files : g # f => content'[target].files[g] = content[target].files[g]
    BY <1>3, <1>4, <1>6 DEF ContentTyped, RootContents
  <2>6. Copies(p)' BY <1>0, <1>2, <1>3, <2>4, <2>5 DEF Copies, At
  <2> QED BY <1>0, <1>1, <1>3, <2>3, <2>4, <2>5, <2>6, GoesKeeps DEF Migrating
<1>7. CASE Goes(p, [at |-> "undoing", then |-> "run"]) /\ UNCHANGED content
  BY <1>0, <1>1, <1>3, <1>7, UndoBegins
<1> QED BY <1>5, <1>6, <1>7 DEF Copy

LEMMA VerifyKeeps ==
  ASSUME DataInv, NEW p \in Processes, Verify(p)
  PROVE  DataInv'
<1> DEFINE target == process[p].target
           w == [active |-> target, pending |-> NoRoot]
<1>0. At(p, "copying") /\ process[p].todo = {} /\ UNCHANGED <<content, control, held, latest>>
  BY DEF Verify
<1>1. /\ process[p].at \in Migrating \cup Writing /\ process[p].at \in Migrating
      /\ ~(At(p, "written") /\ process[p].then = "switch")
  BY <1>0 DEF At, Migrating
<1>2. Follows(p) /\ Copies(p) BY DEF DataInv
<1>3. /\ target \in Roots /\ target # process[p].active /\ process[p].active \in Roots
      /\ Snapshot(Default).active = process[p].active
  BY <1>0, <1>1, <1>2, MigratesAlone DEF Follows, Moving
<1>4. CASE Goes(p, [at |-> "writing", then |-> "switch", write |-> w])
  <2> DEFINE c == [at |-> "writing", then |-> "switch", write |-> w]
  <2>1. w \in Controls /\ w.active = target BY <1>3, DataAssumption DEF Controls, RootNames
  <2> HIDE DEF w
  <2>2. /\ DOMAIN c = {"at", "then", "write"} /\ c.at \in DataStages /\ c.at = "writing"
        /\ c.then = "switch" /\ c.write = w
    BY DEF DataStages, Writing
  <2>3. Goes(p, c) BY <1>4
  <2> HIDE DEF c
  <2>4. /\ ProcessTyped' /\ OthersStay(p)
        /\ \A g \in Fields : process'[p][g] = IF g \in DOMAIN c THEN c[g] ELSE process[p][g]
    BY <2>1, <2>2, <2>3, GoesOn DEF DataInv, DataTyped
  <2>5. /\ process'[p].at = "writing" /\ process'[p].selected = process[p].selected
        /\ process'[p].active = process[p].active /\ process'[p].target = target
        /\ process'[p].then = "switch" /\ process'[p].write = w
    BY <2>2, <2>4 DEF Fields
  <2>6. content[target].there /\ content[target].files = latest
    <3>1. /\ content[target].there
          /\ \A f \in Files : content[target].files[f] = content[process[p].active].files[f]
      BY <1>0, <1>2 DEF Copies
    <3>2. /\ content[target].files \in [Files -> {"none", "part", "old", "new"}]
          /\ content[process[p].active].files \in [Files -> {"none", "part", "old", "new"}]
      BY <1>3 DEF DataInv, DataTyped, ContentTyped, RootContents
    <3>3. content[target].files = content[process[p].active].files BY <3>1, <3>2
    <3> QED BY <1>3, <3>1, <3>3 DEF DataInv, DataKept
  <2>7. Copies(p)' BY <1>0, <2>1, <2>5, <2>6 DEF Copies, At
  <2> QED BY <1>0, <1>1, <1>3, <2>4, <2>5, <2>7, GoesKeeps
          DEF Writing, DataInv, DataTyped, ContentTyped
<1>5. CASE Goes(p, [at |-> "undoing", then |-> "run"]) BY <1>0, <1>5, UndoBegins
<1> QED BY <1>4, <1>5 DEF Verify

LEMMA UndoneKeeps ==
  ASSUME DataInv, NEW p \in Processes, Undo(p)
  PROVE  DataInv'
<1> DEFINE target == process[p].target
           left == process[p].created
<1>0. At(p, "undoing") /\ UNCHANGED <<control, latest>> BY DEF Undo
<1>1. /\ process[p].at \in Migrating \cup Writing /\ process[p].at \in Migrating
      /\ ~(At(p, "written") /\ process[p].then = "switch")
  BY <1>0 DEF At, Migrating
<1>2. target \in Roots /\ target # process[p].active
  BY <1>0 DEF DataInv, Follows, Moving
<1>3. Snapshot(Default)' = Snapshot(Default) BY <1>0 DEF Snapshot, Recovered
<1>4. content \in [Roots -> RootContents] BY DEF DataInv, DataTyped, ContentTyped
<1>5. ASSUME NEW f \in left, content' = [content EXCEPT ![target].files[f] = "none"],
             Goes(p, [created |-> left \ {f}]), UNCHANGED held
      PROVE  DataInv'
  <2> DEFINE c == [created |-> left \ {f}]
  <2>1. DOMAIN c = {"created"} /\ c.created \in SUBSET Files BY ProcessIs DEF DataInv, DataTyped
  <2>2. Goes(p, c) BY <1>5
  <2> HIDE DEF c
  <2>3. /\ ProcessTyped' /\ OthersStay(p)
        /\ \A g \in Fields : process'[p][g] = IF g \in DOMAIN c THEN c[g] ELSE process[p][g]
    BY <2>1, <2>2, GoesOn DEF DataInv, DataTyped
  <2>4. /\ process'[p].at = "undoing" /\ process'[p].selected = process[p].selected
        /\ process'[p].active = process[p].active /\ process'[p].target = target
    BY <1>0, <2>1, <2>3 DEF Fields, At
  <2>5. ContentTyped' /\ \A r \in Roots : r # target => content'[r] = content[r]
    BY <1>2, <1>4, <1>5 DEF ContentTyped, RootContents
  <2>6. Copies(p)' BY <2>4 DEF Copies, At
  <2> QED BY <1>0, <1>1, <1>2, <1>5, <2>3, <2>4, <2>5, <2>6, GoesKeeps DEF Migrating
<1>6. ASSUME content' = [content EXCEPT ![target].marker = IF left = {} THEN NoRoot ELSE @],
             \/ Abandoned(p) /\ UNCHANGED held
             \/ Ends(p)
      PROVE  DataInv'
  <2>1. ContentTyped' /\ Untouched
    BY <1>2, <1>4, <1>6 DEF ContentTyped, RootContents, Untouched, RootNames
  <2>2. CASE Abandoned(p) /\ UNCHANGED held
    <3>1. /\ ProcessTyped' /\ OthersStay(p) /\ LocksKept(p)' /\ Follows(p)' /\ Copies(p)'
      BY <1>1, <1>3, <2>2, AbandonedIs
    <3>2. DataTyped' BY <1>0, <2>1, <2>2, <3>1 DEF DataInv, DataTyped, HeldTyped, ControlTyped
    <3>3. Spared(p) BY <1>0, <2>1, <2>2, <3>1 DEF Spared, Untouched
    <3>4. DataKept' BY <1>0, <1>3, <2>1, UntouchedKeeps
    <3> QED BY <3>1, <3>2, <3>3, <3>4, StepKeeps
  <2>3. CASE Ends(p) BY <1>0, <2>1, <2>3, EndsKeep
  <2> QED BY <1>6, <2>2, <2>3
<1> QED BY <1>5, <1>6 DEF Undo

(* A step of a process that migrates or writes the control file.                    *)
LEMMA MovesOn ==
  ASSUME DataInv, NEW p \in Processes, process[p].at \in Migrating \cup Writing,
         ProcessTyped', ContentTyped', ControlTyped', OthersStay(p), UNCHANGED <<held, latest>>,
         \A r \in Roots \ Works(p) : content'[r] = content[r],
         process'[p].at \in Migrating \cup Writing \cup {"running"},
         process'[p].selected = process[p].selected, Works(p)' \subseteq Works(p),
         Follows(p)', Copies(p)', DataKept'
  PROVE  DataInv'
<1>1. DataTyped' BY DEF DataInv, DataTyped, HeldTyped
<1>2. LocksKept(p) /\ process[p].selected = Default /\ held[Default] = p
  BY MigratesAlone DEF DataInv
<1>3. Spared(p) BY <1>2 DEF Spared
<1>4. LocksKept(p)'
  <2>1. Works(p)' \subseteq Holds(p)' BY <1>2, HoldsIs DEF LocksKept
  <2> QED BY <1>2, <2>1, DataAssumption DEF LocksKept, At, Bootings, Migrating, Writing
<1> QED BY <1>1, <1>3, <1>4, StepKeeps

(* A step of the writing that leaves the control file saying the same.              *)
LEMMA WritesOn ==
  ASSUME DataInv, NEW p \in Processes, NEW s, process[p].at \in Writing, ~At(p, "written"),
         s \in {"swapping", "refused"}, Goes(p, [at |-> s]), ControlTyped',
         Snapshot(Default)' = Snapshot(Default), UNCHANGED <<content, held, latest>>,
         s = "swapping" => At(p, "writing") /\ control'.path = NoControl
  PROVE  DataInv'
<1> DEFINE c == [at |-> s]
<1>1. DOMAIN c = {"at"} /\ c.at \in DataStages /\ c.at = s BY DEF DataStages, Writing
<1> HIDE DEF c
<1>2. Goes(p, c) BY DEF c
<1>3. /\ ProcessTyped' /\ OthersStay(p)
      /\ \A g \in Fields : process'[p][g] = IF g \in DOMAIN c THEN c[g] ELSE process[p][g]
  BY <1>1, <1>2, GoesOn DEF DataInv, DataTyped
<1>4. /\ process'[p].at = s /\ process'[p].selected = process[p].selected
      /\ process'[p].active = process[p].active /\ process'[p].target = process[p].target
      /\ process'[p].then = process[p].then /\ process'[p].write = process[p].write
  BY <1>1, <1>3 DEF Fields
<1>5. Follows(p) /\ Copies(p) BY DEF DataInv
<1>6. Works(p)' = Works(p) BY <1>4, MigratesAlone DEF Works, Bootings
<1>7. Follows(p)'
  <2>1. Moving(p)' => Moving(p) BY <1>4 DEF Moving, At
  <2>2. Past(p) /\ ~At(p, "booting") /\ ~At(p, "written") /\ (~At(p, "written"))'
    BY <1>4 DEF Past, At, Bootings, Writing
  <2> QED BY <1>4, <1>5, <2>1, <2>2 DEF Follows
<1>8. Copies(p)' BY <1>4, <1>5 DEF Copies, At
<1>9. DataKept' BY UntouchedKeeps DEF Untouched
<1> QED BY <1>3, <1>4, <1>6, <1>7, <1>8, <1>9, MovesOn DEF Writing, DataInv, DataTyped, ContentTyped

LEMMA KeepControlKeeps ==
  ASSUME DataInv, NEW p \in Processes, KeepControl(p)
  PROVE  DataInv'
<1>1. At(p, "writing") /\ UNCHANGED <<content, held, latest>> BY DEF KeepControl
<1>2. process[p].at \in Writing /\ ~At(p, "written") BY <1>1 DEF At, Writing
<1>3. CASE /\ control' = IF control.path = NoControl THEN control ELSE SetAside(p)
           /\ Goes(p, [at |-> "swapping"])
  <2>1. /\ ControlTyped' /\ control'.path = NoControl
        /\ Snapshot(Default)' = Snapshot(Default)
    BY <1>3 DEF SetAside, DataInv, DataTyped, ControlTyped, Snapshot, Recovered
  <2> QED BY <1>1, <1>2, <1>3, <2>1, WritesOn
<1>4. CASE Goes(p, [at |-> "refused"]) /\ UNCHANGED control
  BY <1>1, <1>2, <1>4, WritesOn DEF DataInv, DataTyped, ControlTyped, Snapshot, Recovered
<1> QED BY <1>3, <1>4 DEF KeepControl

LEMMA SwapControlKeeps ==
  ASSUME DataInv, NEW p \in Processes, SwapControl(p)
  PROVE  DataInv'
<1>1. At(p, "swapping") /\ UNCHANGED <<content, held, latest>> BY DEF SwapControl
<1>2. /\ process[p].at \in Writing /\ process[p].at \in Migrating \cup Writing
      /\ ~At(p, "written")
  BY <1>1 DEF At, Writing
<1>3. Follows(p) /\ Copies(p) BY DEF DataInv
<1>4. /\ process[p].selected = Default /\ process[p].active \in Roots
      /\ Snapshot(Default).active = process[p].active
  BY <1>2, MigratesAlone
<1>5. /\ process[p].write \in Controls /\ control.path = NoControl /\ process[p].write # NoControl
      /\ process[p].write.active = IF process[p].then = "switch" THEN process[p].target ELSE process[p].active
      /\ process[p].then = "switch" =>
            content[process[p].target].there /\ content[process[p].target].files = latest
  BY <1>1, <1>3, ControlIs DEF Copies, At
<1>6. CASE control' = [control EXCEPT !.path = process[p].write] /\ Goes(p, [at |-> "written"])
  <2> DEFINE c == [at |-> "written"]
  <2>1. DOMAIN c = {"at"} /\ c.at \in DataStages /\ c.at = "written" BY DEF DataStages, Writing
  <2>2. Goes(p, c) BY <1>6
  <2> HIDE DEF c
  <2>3. /\ ProcessTyped' /\ OthersStay(p)
        /\ \A g \in Fields : process'[p][g] = IF g \in DOMAIN c THEN c[g] ELSE process[p][g]
    BY <2>1, <2>2, GoesOn DEF DataInv, DataTyped
  <2>4. /\ process'[p].at = "written" /\ process'[p].selected = process[p].selected
        /\ process'[p].active = process[p].active /\ process'[p].target = process[p].target
        /\ process'[p].then = process[p].then
    BY <2>1, <2>3 DEF Fields
  <2>5. ControlTyped' /\ control'.path = process[p].write /\ Snapshot(Default)' = process[p].write
    <3>1. ControlTyped' /\ control'.path = process[p].write
      BY <1>5, <1>6 DEF DataInv, DataTyped, ControlTyped
    <3>2. Snapshot(Default)' = control'.path BY <1>5, <3>1 DEF Snapshot, Recovered
    <3> QED BY <3>1, <3>2
  <2>6. Works(p)' = Works(p) BY <1>2, <2>4, MigratesAlone DEF Works, Bootings
  <2>7. Follows(p)'
    <3>1. Moving(p)' => Moving(p) BY <1>2, <2>4 DEF Moving, At
    <3> QED BY <1>3, <1>4, <1>5, <2>4, <2>5, <3>1 DEF Follows, Past, At
  <2>8. Copies(p)' BY <1>5, <2>4, <2>5 DEF Copies, At
  <2>9. DataKept'
    <3>1. content[process[p].active].there /\ content[process[p].active].files = latest
      BY <1>4 DEF DataInv, DataKept
    <3> QED BY <1>1, <1>5, <2>5, <3>1 DEF DataKept
  <2> QED BY <1>1, <1>2, <2>3, <2>4, <2>5, <2>6, <2>7, <2>8, <2>9, MovesOn
          DEF Writing, DataInv, DataTyped, ContentTyped
<1>7. CASE Goes(p, [at |-> "refused"])
           /\ control' \in {control, [path |-> control.backup, backup |-> NoControl]}
  <2>1. ControlTyped' /\ Snapshot(Default)' = Snapshot(Default)
    BY <1>5, <1>7 DEF DataInv, DataTyped, ControlTyped, Snapshot, Recovered
  <2> QED BY <1>1, <1>2, <1>7, <2>1, WritesOn
<1> QED BY <1>6, <1>7 DEF SwapControl

(* The process runs on with what it has.                                            *)
LEMMA RunsOn ==
  ASSUME DataInv, NEW p \in Processes, process[p].at \in Writing,
         Goes(p, [at |-> "running", then |-> "none"]), UNCHANGED <<content, held, latest>>,
         ControlTyped', Snapshot(Default)' = Snapshot(Default),
         Snapshot(Default).active = process[p].active
  PROVE  DataInv'
<1> DEFINE c == [at |-> "running", then |-> "none"]
<1>1. DOMAIN c = {"at", "then"} /\ c.at \in DataStages /\ c.at = "running" /\ c.then = "none"
  BY DEF DataStages
<1> HIDE DEF c
<1>2. Goes(p, c) BY DEF c
<1>3. /\ ProcessTyped' /\ OthersStay(p)
      /\ \A g \in Fields : process'[p][g] = IF g \in DOMAIN c THEN c[g] ELSE process[p][g]
  BY <1>1, <1>2, GoesOn DEF DataInv, DataTyped
<1>4. /\ process'[p].at = "running" /\ process'[p].selected = process[p].selected
      /\ process'[p].active = process[p].active /\ process'[p].target = process[p].target
  BY <1>1, <1>3 DEF Fields
<1>5. Works(p)' = Works(p) /\ process[p].active \in Roots
  BY <1>4, MigratesAlone DEF Works
<1>6. Follows(p)' BY <1>4, <1>5 DEF Follows, Past, At, Moving, Writing
<1>7. Copies(p)' BY <1>4 DEF Copies, At
<1>8. DataKept' BY UntouchedKeeps DEF Untouched
<1> QED BY <1>3, <1>4, <1>5, <1>6, <1>7, <1>8, MovesOn DEF DataInv, DataTyped, ContentTyped

LEMMA WrittenKeeps ==
  ASSUME DataInv, NEW p \in Processes, Written(p)
  PROVE  DataInv'
<1> DEFINE target == process[p].target
<1>1. /\ At(p, "written") /\ UNCHANGED <<held, latest>>
      /\ control' \in {control, [control EXCEPT !.backup = NoControl]}
  BY DEF Written
<1>2. process[p].at \in Migrating \cup Writing /\ process[p].at \in Writing
  BY <1>1 DEF At, Writing
<1>3. Follows(p) /\ Copies(p) BY DEF DataInv
<1>4. /\ process[p].selected = Default /\ process[p].active \in Roots
      /\ Past(p) /\ ~At(p, "booting")
      /\ Works(p) = {process[p].selected, process[p].active, target} \ {NoRoot}
  BY <1>1, <1>2, MigratesAlone DEF Past, At, Bootings
<1>5. control.path # NoControl BY <1>1, <1>3 DEF Copies
<1>6. ControlTyped' /\ Snapshot(Default)' = Snapshot(Default)
  BY <1>1, <1>5 DEF DataInv, DataTyped, ControlTyped, Snapshot, Recovered
<1>7. CASE /\ process[p].then = "switch"
           /\ \E marker \in {target, NoRoot} : content' = [content EXCEPT ![target].marker = marker]
           /\ Goes(p, [at |-> "clearing", active |-> target, target |-> process[p].active, created |-> {}])
  <2> DEFINE c == [at |-> "clearing", active |-> target, target |-> process[p].active, created |-> {}]
  <2>1. /\ DOMAIN c = {"at", "active", "target", "created"} /\ c.at \in DataStages /\ c.at = "clearing"
        /\ c.active = target /\ c.target = process[p].active /\ c.created = {}
    BY DEF DataStages, Migrating
  <2>2. Goes(p, c) BY <1>7
  <2> HIDE DEF c
  <2>3. target \in Roots /\ target # process[p].active /\ Snapshot(Default).active = target
    BY <1>1, <1>2, <1>3, <1>4, <1>7 DEF Follows, Moving
  <2>4. /\ ProcessTyped' /\ OthersStay(p)
        /\ \A g \in Fields : process'[p][g] = IF g \in DOMAIN c THEN c[g] ELSE process[p][g]
    BY <1>4, <2>1, <2>2, <2>3, GoesOn DEF DataInv, DataTyped, RootNames
  <2>5. /\ process'[p].at = "clearing" /\ process'[p].selected = process[p].selected
        /\ process'[p].active = target /\ process'[p].target = process[p].active
    BY <2>1, <2>4 DEF Fields
  <2>6. /\ ContentTyped' /\ Untouched /\ \A r \in Roots : r # target => content'[r] = content[r]
    BY <1>7, <2>3 DEF DataInv, DataTyped, ContentTyped, RootContents, Untouched, RootNames
  <2>7. Works(p)' \subseteq Works(p) BY <1>4, <2>5 DEF Works
  <2>8. Follows(p)' BY <1>4, <1>6, <2>3, <2>5 DEF Follows, Past, At
  <2>9. Copies(p)' BY <2>5 DEF Copies, At
  <2>10. DataKept' BY <1>1, <1>6, <2>6, UntouchedKeeps
  <2>11. target \in Works(p) BY <1>2, <2>3, MigratesAlone
  <2> QED BY <1>1, <1>2, <1>6, <2>4, <2>5, <2>6, <2>7, <2>8, <2>9, <2>10, <2>11, MovesOn DEF Migrating
<1>8. CASE /\ process[p].then # "switch"
           /\ UNCHANGED content /\ Goes(p, [at |-> "running", then |-> "none"])
  <2>1. Snapshot(Default).active = process[p].active BY <1>2, <1>8, MigratesAlone
  <2> QED BY <1>1, <1>2, <1>6, <1>8, <2>1, RunsOn
<1> QED BY <1>7, <1>8 DEF Written

LEMMA RefusedKeeps ==
  ASSUME DataInv, NEW p \in Processes, Refused(p)
  PROVE  DataInv'
<1>1. At(p, "refused") /\ UNCHANGED <<content, control, held, latest>> BY DEF Refused
<1>2. /\ process[p].at \in Migrating \cup Writing /\ process[p].at \in Writing /\ ~At(p, "written")
  BY <1>1 DEF At, Writing
<1>3. ControlTyped' /\ Snapshot(Default)' = Snapshot(Default)
  BY <1>1 DEF DataInv, DataTyped, ControlTyped, Snapshot, Recovered
<1>4. CASE process[p].then = "switch" /\ Goes(p, [at |-> "undoing"])
  <2> DEFINE c == [at |-> "undoing"]
  <2>1. DOMAIN c = {"at"} /\ c.at \in DataStages /\ c.at = "undoing" BY DEF DataStages, Migrating
  <2>2. Goes(p, c) BY <1>4
  <2> HIDE DEF c
  <2>3. /\ ProcessTyped' /\ OthersStay(p)
        /\ \A g \in Fields : process'[p][g] = IF g \in DOMAIN c THEN c[g] ELSE process[p][g]
    BY <2>1, <2>2, GoesOn DEF DataInv, DataTyped
  <2>4. /\ process'[p].at = "undoing" /\ process'[p].selected = process[p].selected
        /\ process'[p].active = process[p].active /\ process'[p].target = process[p].target
    BY <2>1, <2>3 DEF Fields
  <2>5. process[p].target \in Roots /\ process[p].target # process[p].active
    BY <1>2, <1>4 DEF DataInv, Follows, Moving
  <2>6. Copies(p)' BY <2>4 DEF Copies, At
  <2> QED BY <1>1, <1>2, <2>3, <2>4, <2>5, <2>6, GoesKeeps
          DEF Migrating, DataInv, DataTyped, ContentTyped
<1>5. CASE Goes(p, [at |-> "running", then |-> "none"])
  <2>1. Snapshot(Default).active = process[p].active BY <1>2, MigratesAlone
  <2> QED BY <1>1, <1>2, <1>3, <1>5, <2>1, RunsOn
<1> QED BY <1>4, <1>5 DEF Refused

LEMMA ClearKeeps ==
  ASSUME DataInv, NEW p \in Processes, Clear(p)
  PROVE  DataInv'
<1> DEFINE old == process[p].target
<1>0. At(p, "clearing") /\ UNCHANGED <<control, held, latest>> BY DEF Clear
<1>1. /\ process[p].at \in Migrating \cup Writing /\ process[p].at \in Migrating
      /\ ~(At(p, "written") /\ process[p].then = "switch")
  BY <1>0 DEF At, Migrating
<1>2. /\ old \in Roots /\ old # process[p].active /\ process[p].active \in Roots
      /\ Snapshot(Default).active = process[p].active /\ old \in Works(p)
      /\ process[p].selected = Default
      /\ Works(p) = {process[p].selected, process[p].active, old} \ {NoRoot}
  BY <1>0, <1>1, MigratesAlone DEF DataInv, Follows, Moving
<1>3. ControlTyped' /\ Snapshot(Default)' = Snapshot(Default)
  BY <1>0 DEF DataInv, DataTyped, ControlTyped, Snapshot, Recovered
<1>4. content \in [Roots -> RootContents] BY DEF DataInv, DataTyped, ContentTyped
<1>5. ASSUME NEW f \in Files, content' = [content EXCEPT ![old].files[f] = "none"], UNCHANGED process
      PROVE  DataInv'
  <2>1. ContentTyped' /\ \A r \in Roots : r # old => content'[r] = content[r]
    BY <1>2, <1>4, <1>5 DEF ContentTyped, RootContents
  <2>2. Copies(p)' BY <1>0, <1>5 DEF Copies, At
  <2> QED BY <1>0, <1>1, <1>2, <1>5, <2>1, <2>2, GoesKeeps
          DEF At, OthersStay, ProcessTyped, DataInv, DataTyped
<1>6. CASE /\ content' = [content EXCEPT ![old].there = (old = Default), ![old].marker = NoRoot]
           /\ Goes(p, [at |-> "running", target |-> NoRoot, then |-> "none"])
  <2> DEFINE c == [at |-> "running", target |-> NoRoot, then |-> "none"]
  <2>1. /\ DOMAIN c = {"at", "target", "then"} /\ c.at \in DataStages /\ c.at = "running"
        /\ c.target = NoRoot /\ c.then = "none"
    BY DEF DataStages
  <2>2. Goes(p, c) BY <1>6
  <2> HIDE DEF c
  <2>3. /\ ProcessTyped' /\ OthersStay(p)
        /\ \A g \in Fields : process'[p][g] = IF g \in DOMAIN c THEN c[g] ELSE process[p][g]
    BY <2>1, <2>2, GoesOn DEF DataInv, DataTyped, RootNames
  <2>4. /\ process'[p].at = "running" /\ process'[p].selected = process[p].selected
        /\ process'[p].active = process[p].active /\ process'[p].target = NoRoot
    BY <2>1, <2>3 DEF Fields
  <2>5. ContentTyped' /\ \A r \in Roots : r # old => content'[r] = content[r]
    <3> DEFINE d == (old = Default)
               z == [content[old] EXCEPT !.there = d, !.marker = NoRoot]
    <3>1. d \in BOOLEAN OBVIOUS
    <3>2. content[old] \in RootContents BY <1>2, <1>4
    <3>3. content' = [content EXCEPT ![old] = z] BY <1>2, <1>4, <1>6
    <3> HIDE DEF d
    <3>4. z \in RootContents BY <3>1, <3>2 DEF RootContents, RootNames
    <3> HIDE DEF z
    <3> QED BY <1>2, <1>4, <3>3, <3>4 DEF ContentTyped
  <2>6. Works(p)' \subseteq Works(p) BY <1>2, <2>4 DEF Works
  <2>7. Follows(p)' BY <1>2, <1>3, <2>4 DEF Follows, Past, At, Moving, Writing
  <2>8. Copies(p)' BY <2>4 DEF Copies, At
  <2>9. DataKept' BY <1>0, <1>2, <1>3, <2>5, DataStays
  <2> QED BY <1>0, <1>1, <1>2, <1>3, <2>3, <2>4, <2>5, <2>6, <2>7, <2>8, <2>9, MovesOn
<1>7. CASE Abandoned(p) /\ UNCHANGED content
  <2>1. /\ ProcessTyped' /\ OthersStay(p) /\ LocksKept(p)' /\ Follows(p)' /\ Copies(p)'
    BY <1>0, <1>1, <1>3, <1>7, AbandonedIs
  <2>2. DataTyped' BY <1>0, <1>7, <2>1 DEF DataInv, DataTyped, HeldTyped, ControlTyped, ContentTyped
  <2>3. Spared(p) BY <1>0, <1>7, <2>1 DEF Spared
  <2>4. DataKept' BY <1>0, <1>3, <1>7, UntouchedKeeps DEF Untouched
  <2> QED BY <2>1, <2>2, <2>3, <2>4, StepKeeps
<1> QED BY <1>5, <1>6, <1>7 DEF Clear

(* Of two that run, the one whose active root is the profile's writes its data.     *)
LEMMA RunningIs ==
  ASSUME DataInv, NEW p \in Processes, At(p, "running")
  PROVE  /\ process[p].selected \in Roots /\ held[process[p].selected] = p
         /\ process[p].active \in Roots /\ process[p].active \in Works(p)
         /\ process[p].selected = Default => Snapshot(Default).active = process[p].active
         /\ p = Desktop => process[p].selected = Default
         /\ Works(p) = {process[p].selected, process[p].active, process[p].target} \ {NoRoot}
BY DataAssumption DEF DataInv, LocksKept, Follows, Past, At, Works, Bootings

LEMMA SavesKeep ==
  ASSUME DataInv, NEW p \in Processes, NEW f \in Files, Save(p, f)
  PROVE  DataInv'
<1> DEFINE active == process[p].active
           a == Snapshot(Default).active
           written == [content[active].files EXCEPT ![f] = "new"]
<1>1. /\ At(p, "running") /\ UNCHANGED <<control, held, process>>
      /\ content' = [content EXCEPT ![active].files[f] = "new"]
      /\ latest' = IF a = active THEN [latest EXCEPT ![f] = "new"] ELSE latest
  BY DEF Save
<1>2. active \in Roots /\ active \in Works(p) BY <1>1, RunningIs
<1>3. content \in [Roots -> RootContents] BY DEF DataInv, DataTyped, ContentTyped
<1>4. ContentTyped' BY <1>1, <1>2, <1>3 DEF ContentTyped, RootContents
<1>5. /\ content'[active].files = written /\ content'[active].there = content[active].there
      /\ \A r \in Roots : r # active => content'[r] = content[r]
  BY <1>1, <1>2, <1>3 DEF RootContents
<1>6. Snapshot(Default)' = Snapshot(Default) BY <1>1 DEF Snapshot, Recovered
<1>7. DataTyped' BY <1>1, <1>4 DEF DataInv, DataTyped, ControlTyped, ProcessTyped, HeldTyped
<1>8. Spared(p) BY <1>1, <1>2, <1>5 DEF Spared, OthersStay
<1>9. LocksKept(p)' /\ Follows(p)' /\ Copies(p)'
  <2>1. LocksKept(p) /\ Follows(p) BY DEF DataInv
  <2>2. Works(p)' = Works(p) /\ Holds(p)' = Holds(p) BY <1>1 DEF Works, Holds
  <2>3. LocksKept(p)' BY <1>1, <2>1, <2>2 DEF LocksKept, At, Migrating, Writing, Bootings
  <2>4. Follows(p)' BY <1>1, <1>6, <2>1 DEF Follows, At, Past, Moving
  <2>5. Copies(p)' BY <1>1 DEF Copies, At
  <2> QED BY <2>3, <2>4, <2>5
<1>10. DataKept'
  <2>1. a \in Roots BY SnapshotIs, ControlIs DEF DataInv, DataTyped
  <2>2. content[a].there /\ content[a].files = latest BY DEF DataInv, DataKept
  <2>3. content'[a].there /\ content'[a].files = latest'
    <3>1. CASE a = active BY <1>1, <1>5, <2>2, <3>1
    <3>2. CASE a # active BY <1>1, <1>5, <2>1, <2>2, <3>2
    <3> QED BY <3>1, <3>2
  <2> QED BY <1>6, <2>3 DEF DataKept
<1> QED BY <1>7, <1>8, <1>9, <1>10, StepKeeps

LEMMA SchedulesKeep ==
  ASSUME DataInv, NEW p \in Processes, NEW r \in Roots, Schedule(p, r)
  PROVE  DataInv'
<1> DEFINE active == process[p].active
           s == Snapshot(Default).active
           w == [active |-> s, pending |-> IF r = active THEN NoRoot ELSE r]
           c == [at |-> "writing", then |-> "edit", write |-> w]
<1>1. /\ At(p, "running") /\ p = Desktop /\ UNCHANGED <<held, latest>>
      /\ content' = [content EXCEPT ![r].there = TRUE]
      /\ \/ control' = RecoveredControl(Default) /\ Goes(p, c)
         \/ UNCHANGED <<control, process>>
  BY DEF Schedule
<1>2. /\ process[p].selected = Default /\ active \in Roots /\ s = active /\ held[Default] = p
      /\ Works(p) = {process[p].selected, active, process[p].target} \ {NoRoot}
  BY <1>1, RunningIs
<1>3. ContentTyped' /\ Untouched
  BY <1>1 DEF DataInv, DataTyped, ContentTyped, RootContents, Untouched
<1>4. ControlTyped' /\ Snapshot(Default)' = Snapshot(Default)
  <2>1. CASE control' = RecoveredControl(Default) BY <2>1, RecoveredIs DEF DataInv, DataTyped
  <2>2. CASE UNCHANGED control
    BY <2>2 DEF DataInv, DataTyped, ControlTyped, Snapshot, Recovered
  <2> QED BY <1>1, <2>1, <2>2
<1>5. DataKept' BY <1>1, <1>3, <1>4, UntouchedKeeps
<1>6. LocksKept(p) /\ Follows(p) BY DEF DataInv
<1>7. CASE Goes(p, c)
  <2>1. w \in Controls
    <3>1. w.active = s /\ w.pending = (IF r = active THEN NoRoot ELSE r) OBVIOUS
    <3> QED BY <1>2, DataAssumption DEF Controls, RootNames
  <2> HIDE DEF w
  <2>2. /\ DOMAIN c = {"at", "then", "write"} /\ c.at \in DataStages /\ c.at = "writing"
        /\ c.then = "edit" /\ c.write = w
    BY DEF DataStages, Writing
  <2>3. w.active = active BY <1>2 DEF w
  <2> HIDE DEF c
  <2>4. /\ ProcessTyped' /\ OthersStay(p)
        /\ \A g \in Fields : process'[p][g] = IF g \in DOMAIN c THEN c[g] ELSE process[p][g]
    BY <1>7, <2>1, <2>2, GoesOn DEF DataInv, DataTyped
  <2>5. /\ process'[p].at = "writing" /\ process'[p].selected = process[p].selected
        /\ process'[p].active = active /\ process'[p].target = process[p].target
        /\ process'[p].then = "edit" /\ process'[p].write = w
    BY <2>2, <2>4 DEF Fields
  <2>6. Works(p)' = Works(p) /\ Holds(p)' = Holds(p) BY <1>1, <1>2, <2>5 DEF Works, Holds
  <2>7. LocksKept(p)' BY <1>1, <1>2, <1>6, <2>5, <2>6 DEF LocksKept, At, Bootings
  <2>8. Follows(p)' BY <1>2, <1>4, <2>5 DEF Follows, Past, At, Moving
  <2>9. Copies(p)' BY <2>1, <2>3, <2>5 DEF Copies, At
  <2>10. Spared(p) BY <1>1, <1>2, <1>3, <2>4 DEF Spared, Untouched
  <2>11. DataTyped' BY <1>1, <1>3, <1>4, <2>4 DEF DataInv, DataTyped, HeldTyped
  <2> QED BY <1>5, <2>7, <2>8, <2>9, <2>10, <2>11, StepKeeps
<1>8. CASE UNCHANGED <<control, process>>
  <2>1. Works(p)' = Works(p) /\ Holds(p)' = Holds(p) BY <1>1, <1>8 DEF Works, Holds
  <2>2. LocksKept(p)' BY <1>1, <1>6, <1>8, <2>1 DEF LocksKept, At, Bootings, Migrating, Writing
  <2>3. Follows(p)' BY <1>4, <1>6, <1>8 DEF Follows, Past, At, Moving
  <2>4. Copies(p)' BY <1>1, <1>8 DEF Copies, At
  <2>5. Spared(p) BY <1>1, <1>3, <1>8 DEF Spared, Untouched, OthersStay
  <2>6. DataTyped' BY <1>1, <1>3, <1>4, <1>8 DEF DataInv, DataTyped, HeldTyped, ProcessTyped
  <2> QED BY <1>5, <2>2, <2>3, <2>4, <2>5, <2>6, StepKeeps
<1> QED BY <1>1, <1>7, <1>8

LEMMA DataStarts == DataInit => DataInv
<1> SUFFICES ASSUME DataInit PROVE DataInv OBVIOUS
<1>1. ControlTyped /\ Snapshot(Default) = [active |-> Default, pending |-> NoRoot]
  <2>1. control = [path |-> NoControl, backup |-> NoControl] BY DEF DataInit
  <2>2. NoControl \in Controls \cup {NoControl} OBVIOUS
  <2>3. control.path = NoControl /\ control.backup = NoControl /\ ControlTyped
    BY <2>1, <2>2 DEF ControlTyped
  <2> QED BY <2>3 DEF Snapshot, Recovered
<1>2. ContentTyped
  <2> DEFINE z(r) == [there |-> (r = Default), marker |-> NoRoot,
                      files |-> IF r = Default THEN [f \in Files |-> "old"] ELSE Empty]
  <2>1. ASSUME NEW r \in Roots PROVE z(r) \in RootContents
    <3> DEFINE d == (r = Default)
               h == IF r = Default THEN [f \in Files |-> "old"] ELSE Empty
    <3>1. d \in BOOLEAN OBVIOUS
    <3>2. h \in [Files -> {"none", "part", "old", "new"}] BY DEF Empty
    <3> HIDE DEF d, h
    <3>3. [there |-> d, marker |-> NoRoot, files |-> h] \in RootContents
      BY <3>1, <3>2 DEF RootContents, RootNames
    <3> QED BY <3>3 DEF d, h
  <2>2. content = [r \in Roots |-> z(r)] BY DEF DataInit
  <2> HIDE DEF z
  <2> QED BY <2>1, <2>2 DEF ContentTyped
<1>3. HeldTyped /\ ProcessTyped
  BY DEF DataInit, HeldTyped, ProcessTyped, ProcessRecords, Off, DataStages, Bootings, RootNames
<1>4. DataKept
  <2>1. content[Default].there = (Default = Default) /\ content[Default].files = [f \in Files |-> "old"]
    BY DataAssumption DEF DataInit
  <2>2. content[Default].there /\ content[Default].files = latest BY <2>1 DEF DataInit
  <2>3. Snapshot(Default).active = Default BY <1>1
  <2> QED BY <2>2, <2>3 DEF DataKept
<1>5. ASSUME NEW p \in Processes PROVE LocksKept(p) /\ Follows(p) /\ Copies(p)
  <2>1. /\ process[p].at = "off" /\ process[p].active = NoRoot /\ process[p].target = NoRoot
        /\ Works(p) = {}
    BY DEF DataInit, Off, Works
  <2> QED BY <2>1 DEF LocksKept, Follows, Copies, Past, Moving, At, Bootings, Migrating, Writing
<1> QED BY <1>1, <1>2, <1>3, <1>4, <1>5 DEF DataInv, DataTyped

LEMMA DataStepKeeps == DataInv /\ [DataNext]_allDataVars => DataInv'
<1> SUFFICES ASSUME DataInv, [DataNext]_allDataVars PROVE DataInv'
  OBVIOUS
<1>1. CASE UNCHANGED allDataVars
  BY <1>1 DEF DataInv, DataTyped, ContentTyped, ControlTyped, ProcessTyped, HeldTyped, LocksKept,
     Follows, Copies, DataKept, allDataVars, dataVars, At, Past, Moving, Works, Holds, LockRoots,
     Named, Snapshot, Recovered
<1>2. ASSUME NEW p \in Processes, Step(p) PROVE DataInv'
  <2>1. CASE Resolve(p) BY <2>1, ResolveKeeps
  <2>2. CASE Locked(p) BY <2>2, LockedKeeps
  <2>3. CASE Boot(p) BY <2>3, BootKeeps
  <2>4. CASE Check(p) BY <2>4, CheckKeeps
  <2>5. CASE Verify(p) BY <2>5, VerifyKeeps
  <2>6. CASE Undo(p) BY <2>6, UndoneKeeps
  <2>7. CASE KeepControl(p) BY <2>7, KeepControlKeeps
  <2>8. CASE SwapControl(p) BY <2>8, SwapControlKeeps
  <2>9. CASE Written(p) BY <2>9, WrittenKeeps
  <2>10. CASE Refused(p) BY <2>10, RefusedKeeps
  <2>11. CASE Clear(p) BY <2>11, ClearKeeps
  <2>12. CASE Exit(p) \/ Crash(p) BY <2>12, ExitKeeps
  <2>13. CASE \E r \in Roots : Start(p, r) BY <2>13, StartKeepsData
  <2>14. CASE \E r \in Roots : LockRoot(p, r) BY <2>14, LockRootKeeps
  <2>15. CASE \E r \in Roots : Schedule(p, r) BY <2>15, SchedulesKeep
  <2>16. CASE \E f \in Files : Copy(p, f) BY <2>16, CopyingKeeps
  <2>17. CASE \E f \in Files : Save(p, f) BY <2>17, SavesKeep
  <2> QED BY <1>2, <2>1, <2>2, <2>3, <2>4, <2>5, <2>6, <2>7, <2>8, <2>9, <2>10, <2>11, <2>12,
             <2>13, <2>14, <2>15, <2>16, <2>17 DEF Step
<1> QED BY <1>1, <1>2 DEF DataNext

(* The root that a start would choose holds all of the data as it was last written, *)
(* whatever failed and wherever a process was stopped, and no two processes work in *)
(* one root: locks, control file and migration of crates/user-data/src/lib.rs.      *)
THEOREM DataIsSafe == DataSpec => []UserDataSafe
<1>1. DataInv => UserDataSafe
  <2> SUFFICES ASSUME DataInv PROVE UserDataSafe OBVIOUS
  <2>1. Works(Headless) \subseteq Roots \ Works(Desktop)
    BY WorksApart, DataAssumption DEF Processes
  <2> QED BY <2>1 DEF UserDataSafe, RootsExclusive, DataInv
<1> QED BY <1>1, DataStarts, DataStepKeeps, PTL DEF DataSpec

(* ---------------------------------------------------------------- CliArguments  *)
(* Induction for sets: what holds 0 and the successor of each of its numbers holds   *)
(* every number.                                                                    *)
LEMMA Induction ==
  ASSUME NEW T, 0 \in T, \A n \in Nat : n \in T => n + 1 \in T
  PROVE  Nat \subseteq T
<1> SUFFICES ASSUME Nat \ T # {} PROVE FALSE
  OBVIOUS
<1> DEFINE R == OpToRel(<, Nat)
           U == Nat \ T
<1>1. PICK x \in U : \A y \in U : <<y, x>> \notin R
  <2>1. IsWellFoundedOn(R, Nat)
    BY NatLessThanWellFounded
  <2>2. U \subseteq Nat /\ U # {}
    OBVIOUS
  <2> HIDE DEF R, U
  <2> QED
    BY <2>1, <2>2, WFMin
<1>2. x \in Nat /\ x # 0 /\ x - 1 \in Nat /\ x - 1 + 1 = x
  OBVIOUS
<1>3. x - 1 \in U
  BY <1>2
<1>4. <<x - 1, x>> \in R
  BY <1>2 DEF OpToRel
<1> QED
  BY <1>1, <1>3, <1>4

(* A recursive definition over the numbers defines the function it looks like.      *)
LEMMA Iteration ==
  ASSUME NEW S, NEW s \in S, NEW step \in [S -> S]
  PROVE  \E f \in [Nat -> S] : f = [n \in Nat |-> IF n = 0 THEN s ELSE step[f[n - 1]]]
<1> DEFINE Fits(g, m) == g[m] = IF m = 0 THEN s ELSE step[g[m - 1]]
           Upto(n) == {g \in [Nat -> S] : \A m \in 0..n : Fits(g, m)}
<1>1. \A n \in Nat : Upto(n) # {}
  <2> DEFINE T == {n \in Nat : Upto(n) # {}}
  <2>1. 0 \in T
    <3>1. [n \in Nat |-> s] \in Upto(0)
      OBVIOUS
    <3> QED
      BY <3>1
  <2>2. ASSUME NEW n \in Nat, n \in T
        PROVE  n + 1 \in T
    <3>1. PICK g : g \in Upto(n)
      BY <2>2
    <3> DEFINE h == [g EXCEPT ![n + 1] = step[g[n]]]
    <3>2. h \in [Nat -> S] /\ h[n + 1] = step[g[n]] /\ \A m \in 0..n : h[m] = g[m]
      <4>1. g \in [Nat -> S] /\ n + 1 \in Nat /\ \A m \in 0..n : m \in Nat /\ m # n + 1
        BY <3>1
      <4>2. step[g[n]] \in S
        BY <4>1
      <4> HIDE DEF Upto
      <4> QED
        BY <4>1, <4>2
    <3>3. ASSUME NEW m \in 0..n + 1
          PROVE  Fits(h, m)
      <4> HIDE DEF h
      <4>1. CASE m = n + 1
        BY <3>2, <4>1
      <4>2. CASE m # n + 1
        <5>1. m \in 0..n /\ (m # 0 => m - 1 \in 0..n)
          BY <4>2
        <5>2. Fits(g, m)
          BY <3>1, <5>1
        <5> QED
          BY <3>2, <5>1, <5>2
      <4> QED
        BY <4>1, <4>2
    <3>4. h \in Upto(n + 1)
      BY <3>2, <3>3
    <3>5. n + 1 \in Nat
      OBVIOUS
    <3> HIDE DEF h, Upto
    <3> QED
      BY <3>4, <3>5
  <2> HIDE DEF T
  <2>3. Nat \subseteq T
    BY <2>1, <2>2, Induction
  <2> QED
    BY <2>3 DEF T
<1>2. ASSUME NEW n \in Nat, NEW k \in Nat, NEW g \in Upto(n), NEW h \in Upto(k), NEW m \in Nat,
             m <= n, m <= k
      PROVE  g[m] = h[m]
  <2> DEFINE T == {i \in Nat : i <= n /\ i <= k => g[i] = h[i]}
  <2>1. 0 \in T
    BY <1>2
  <2>2. ASSUME NEW i \in Nat, i \in T
        PROVE  i + 1 \in T
    <3> SUFFICES ASSUME i + 1 <= n, i + 1 <= k
                 PROVE  g[i + 1] = h[i + 1]
      OBVIOUS
    <3>1. g[i] = h[i] /\ i + 1 \in 0..n /\ i + 1 \in 0..k /\ i + 1 # 0 /\ i + 1 - 1 = i
      BY <2>2
    <3>2. Fits(g, i + 1) /\ Fits(h, i + 1)
      BY <3>1
    <3> QED
      BY <3>1, <3>2
  <2> HIDE DEF T
  <2>3. Nat \subseteq T
    BY <2>1, <2>2, Induction
  <2> QED
    BY <1>2, <2>3 DEF T
<1> DEFINE a == [n \in Nat |-> CHOOSE g : g \in Upto(n)]
           f == [n \in Nat |-> a[n][n]]
<1>3. \A n \in Nat : a[n] \in Upto(n)
  BY <1>1
<1> HIDE DEF a
<1>4. f \in [Nat -> S]
  BY <1>3
<1>5. ASSUME NEW n \in Nat
      PROVE  f[n] = IF n = 0 THEN s ELSE step[f[n - 1]]
  <2>1. Fits(a[n], n) /\ a[n] \in Upto(n)
    BY <1>3
  <2>2. CASE n # 0
    <3>1. n - 1 \in Nat /\ n - 1 <= n /\ n - 1 <= n - 1
      BY <2>2
    <3>2. a[n][n - 1] = a[n - 1][n - 1]
      <4>1. a[n - 1] \in Upto(n - 1)
        BY <1>3, <3>1
      <4> HIDE DEF Upto
      <4> QED
        BY <1>2, <2>1, <3>1, <4>1
    <3> QED
      BY <2>1, <2>2, <3>1, <3>2
  <2> QED
    BY <2>1, <2>2
<1> HIDE DEF f
<1> QED
  BY <1>4, <1>5

LEMMA LoopSteps ==
  ASSUME NEW options
  PROVE  /\ Loop(options) \in [Nat -> Nat] /\ Loop(options)[0] = 1
         /\ \A n \in Nat : Loop(options)[n + 1] = FollowedBy(options, Loop(options)[n])
<1> DEFINE step == [i \in Nat |-> FollowedBy(options, i)]
<1>1. step \in [Nat -> Nat]
  BY DEF FollowedBy
<1>2. PICK f \in [Nat -> Nat] : f = [n \in Nat |-> IF n = 0 THEN 1 ELSE step[f[n - 1]]]
  <2>1. \A s \in Nat, g \in [Nat -> Nat] :
          \E f \in [Nat -> Nat] : f = [n \in Nat |-> IF n = 0 THEN s ELSE g[f[n - 1]]]
    BY Iteration
  <2>2. 1 \in Nat
    OBVIOUS
  <2> HIDE DEF step
  <2> QED
    BY <1>1, <2>1, <2>2, Zenon
<1>3. f = [n \in Nat |-> IF n = 0 THEN 1 ELSE FollowedBy(options, f[n - 1])]
  <2>1. ASSUME NEW n \in Nat, n # 0
        PROVE  step[f[n - 1]] = FollowedBy(options, f[n - 1])
    <3>1. f[n - 1] \in Nat
      BY <2>1
    <3> QED
      BY <3>1
  <2> HIDE DEF step
  <2>2. \A n \in Nat : f[n] = IF n = 0 THEN 1 ELSE FollowedBy(options, f[n - 1])
    BY <1>2, <2>1
  <2> QED
    BY <2>2
<1> DEFINE g == Loop(options)
<1>4. g = [n \in Nat |-> IF n = 0 THEN 1 ELSE FollowedBy(options, g[n - 1])]
  BY <1>3 DEF Loop
<1> HIDE DEF g
<1>5. g[0] = 1 /\ \A n \in Nat : g[n + 1] = FollowedBy(options, g[n])
  BY <1>4
<1>6. g \in [Nat -> Nat]
  <2> DEFINE T == {n \in Nat : g[n] \in Nat}
  <2>1. \A n \in Nat : n \in T => n + 1 \in T
    BY <1>5 DEF FollowedBy
  <2>2. 0 \in T
    BY <1>5
  <2> HIDE DEF T
  <2>3. Nat \subseteq T
    BY <2>1, <2>2, Induction
  <2> QED
    BY <1>4, <2>3 DEF T
<1> QED
  BY <1>5, <1>6 DEF g

CliWords == {"--yes", "--input-json", "--timeout-ms", "json", "number", "zero", "--overwrite",
             "--approve-source-change", "--remove-data", "--stdin", "--repair", "--rollback",
             "--config-json"}

LEMMA GroupsTyped ==
  ASSUME NEW kind \in Kinds
  PROVE  Groups[kind] \subseteq Seq(CliWords)
<1>1. ASSUME NEW x \in CliWords, NEW y \in CliWords
      PROVE  <<x>> \in Seq(CliWords) /\ <<x, y>> \in Seq(CliWords)
  OBVIOUS
<1>2. ASSUME NEW g \in Groups[kind]
      PROVE  (\E x \in CliWords : g = <<x>>) \/ (\E x, y \in CliWords : g = <<x, y>>)
  <2>1. \/ g \in {<<"--yes">>, <<"--overwrite">>, <<"--approve-source-change">>,
                  <<"--remove-data">>, <<"--stdin">>, <<"--repair">>, <<"--rollback">>}
        \/ g = <<"--timeout-ms", "number">> \/ g = <<"--config-json", "json">>
        \/ g \in Inputs
    BY <1>2 DEF Groups, Kinds
  <2>2. g \in Inputs => \E y \in CliWords : g = <<"--input-json", y>>
    BY DEF Inputs, CliWords
  <2>3. {"--yes", "--input-json", "--timeout-ms", "json", "number", "--overwrite",
         "--approve-source-change", "--remove-data", "--stdin", "--repair", "--rollback",
         "--config-json"} \subseteq CliWords
    BY DEF CliWords
  <2> QED
    BY <2>1, <2>2, <2>3
<1> QED
  BY <1>1, <1>2

LEMMA LongerLines ==
  ASSUME NEW kind \in Kinds, NEW lines, NEW x
  PROVE  x \in Longer(kind, lines) <=>
           \/ x \in lines
           \/ \E l \in lines, g \in Groups[kind] : x = [words |-> l.words \o g, of |-> l.of \cup {g}]
<1>1. x \in Longer(kind, lines) <=> x \in lines \/ \E l \in lines : x \in Extended(kind, l)
  BY DEF Longer
<1>2. ASSUME NEW l \in lines
      PROVE  x \in Extended(kind, l) <=>
               \E g \in Groups[kind] : x = [words |-> l.words \o g, of |-> l.of \cup {g}]
  BY Zenon DEF Extended
<1> QED
  BY <1>1, <1>2

LEMMA LinesGrow ==
  ASSUME NEW kind \in Kinds
  PROVE  /\ LinesOf(kind)[0] = {[words |-> <<>>, of |-> {}]}
         /\ \A n \in Nat : LinesOf(kind)[n + 1] = Longer(kind, LinesOf(kind)[n])
<1> DEFINE L == [words : Seq(CliWords), of : SUBSET Groups[kind]]
           S == SUBSET L
           first == {[words |-> <<>>, of |-> {}]}
           step == [lines \in S |-> Longer(kind, lines)]
<1>1. step \in [S -> S]
  <2>1. ASSUME NEW lines \in S, NEW l \in lines, NEW g \in Groups[kind]
        PROVE  [words |-> l.words \o g, of |-> l.of \cup {g}] \in L
    <3>1. l \in L /\ g \in Seq(CliWords)
      BY <2>1, GroupsTyped
    <3>2. l.words \in Seq(CliWords) /\ l.of \in SUBSET Groups[kind]
      BY <3>1
    <3>3. l.words \o g \in Seq(CliWords)
      BY <3>1, <3>2
    <3> QED
      BY <3>2, <3>3
  <2>2. ASSUME NEW lines \in S
        PROVE  Longer(kind, lines) \in S
    <3>1. ASSUME NEW x \in Longer(kind, lines)
          PROVE  x \in L
      <4> HIDE DEF L
      <4> QED
        BY <2>1, <3>1, LongerLines
    <3> HIDE DEF L
    <3> QED
      BY <3>1
  <2> HIDE DEF S
  <2> QED
    BY <2>2
<1>2. first \in S
  <2>1. <<>> \in Seq(CliWords) /\ {} \in SUBSET Groups[kind]
    OBVIOUS
  <2> QED
    BY <2>1
<1>3. PICK f \in [Nat -> S] : f = [n \in Nat |-> IF n = 0 THEN first ELSE step[f[n - 1]]]
  <2>1. \A s \in S, g \in [S -> S] :
          \E f \in [Nat -> S] : f = [n \in Nat |-> IF n = 0 THEN s ELSE g[f[n - 1]]]
    <3> HIDE DEF S
    <3> QED
      BY Iteration
  <2> HIDE DEF step, S, first
  <2> QED
    BY <1>1, <1>2, <2>1, Zenon
<1>4. f = [n \in Nat |-> IF n = 0 THEN first ELSE Longer(kind, f[n - 1])]
  <2>1. ASSUME NEW n \in Nat, n # 0
        PROVE  step[f[n - 1]] = Longer(kind, f[n - 1])
    <3>1. f[n - 1] \in S
      <4> HIDE DEF S
      <4> QED
        BY <2>1
    <3> HIDE DEF S
    <3> QED
      BY <3>1
  <2> HIDE DEF step, first
  <2>2. \A n \in Nat : f[n] = IF n = 0 THEN first ELSE Longer(kind, f[n - 1])
    BY <1>3, <2>1
  <2> QED
    BY <1>3, <2>2
<1> DEFINE g == LinesOf(kind)
<1>5. g = [n \in Nat |-> IF n = 0 THEN first ELSE Longer(kind, g[n - 1])]
  BY <1>4 DEF LinesOf
<1> HIDE DEF g, first
<1>6. g[0] = first /\ \A n \in Nat : g[n + 1] = Longer(kind, g[n])
  BY <1>5
<1> QED
  BY <1>6 DEF g, first

LEMMA LinesStay ==
  ASSUME NEW kind \in Kinds, NEW n \in Nat, NEW k \in Nat, n <= k
  PROVE  LinesOf(kind)[n] \subseteq LinesOf(kind)[k]
<1> DEFINE f == LinesOf(kind)
           T == {d \in Nat : f[n] \subseteq f[n + d]}
<1>1. ASSUME NEW d \in Nat, d \in T
      PROVE  d + 1 \in T
  <2>1. f[n + d + 1] = Longer(kind, f[n + d])
    BY LinesGrow
  <2>2. f[n + d] \subseteq f[n + d + 1]
    BY <2>1 DEF Longer
  <2>3. n + (d + 1) = n + d + 1
    OBVIOUS
  <2> HIDE DEF f
  <2> QED
    BY <1>1, <2>2, <2>3
<1>2. 0 \in T
  OBVIOUS
<1> HIDE DEF T
<1>3. k - n \in T
  BY <1>1, <1>2, Induction
<1>4. n + (k - n) = k
  OBVIOUS
<1> QED
  BY <1>3, <1>4 DEF T

(* A line that falls into n groups, the jth from start[j] up to start[j + 1], is read  *)
(* as these groups.                                                                  *)
Part(options, start, j) == SubSeq(options, start[j], start[j + 1] - 1)
Falls(kind, options, start, n) ==
  /\ start \in [0..n -> 1..Len(options) + 1]
  /\ start[0] = 1 /\ start[n] = Len(options) + 1
  /\ \A j \in 0..n - 1 : start[j] <= start[j + 1] /\ Part(options, start, j) \in Groups[kind]
Parts(options, start, n) == {Part(options, start, j) : j \in 0..n - 1}

LEMMA LineRead ==
  ASSUME NEW kind \in Kinds, NEW W, NEW options \in Seq(W), Len(options) <= MaxWords,
         NEW n \in 0..MaxWords, NEW start, Falls(kind, options, start, n)
  PROVE  \E l \in Documented[kind] : l.words = options /\ l.of = Parts(options, start, n)
<1> DEFINE Upto(k) == [words |-> SubSeq(options, 1, start[k] - 1), of |-> {Part(options, start, j) : j \in 0..k - 1}]
           T == {k \in Nat : k <= n => Upto(k) \in LinesOf(kind)[k]}
<1>1. 0 \in T
  <2>1. SubSeq(options, 1, start[0] - 1) = <<>>
    BY SubSeqEmpty DEF Falls
  <2>2. {Part(options, start, j) : j \in 0..0 - 1} = {}
    OBVIOUS
  <2>3. Upto(0) = [words |-> <<>>, of |-> {}]
    BY <2>1, <2>2
  <2> HIDE DEF Upto
  <2>4. Upto(0) \in LinesOf(kind)[0]
    BY <2>3, LinesGrow
  <2> QED
    BY <2>4
<1>2. ASSUME NEW k \in Nat, k \in T
      PROVE  k + 1 \in T
  <2> SUFFICES ASSUME k + 1 <= n
               PROVE  Upto(k + 1) \in LinesOf(kind)[k + 1]
    OBVIOUS
  <2>0. /\ k \in 0..n - 1 /\ k \in 0..n /\ k + 1 \in 0..n
        /\ start[k] \in 1..Len(options) + 1 /\ start[k + 1] \in 1..Len(options) + 1
        /\ start[k] <= start[k + 1] /\ Part(options, start, k) \in Groups[kind]
    <3>1. k \in 0..n - 1 /\ k \in 0..n /\ k + 1 \in 0..n
      BY WordsAssumption
    <3> QED
      BY <3>1 DEF Falls
  <2>1. SubSeq(options, 1, start[k] - 1) \o Part(options, start, k) = SubSeq(options, 1, start[k + 1] - 1)
    <3>1. \A i \in 0..Len(options) : \A m \in i..Len(options) :
            SubSeq(options, 1, i) \o SubSeq(options, i + 1, m) = SubSeq(options, 1, m)
      BY ConcatAdjacentSubSeq
    <3>2. start[k] - 1 \in 0..Len(options) /\ start[k + 1] - 1 \in (start[k] - 1)..Len(options)
          /\ start[k] - 1 + 1 = start[k]
      BY <2>0
    <3> QED
      BY <3>1, <3>2 DEF Part
  <2>2. {Part(options, start, j) : j \in 0..(k + 1) - 1} = {Part(options, start, j) : j \in 0..k - 1} \cup {Part(options, start, k)}
    <3>1. 0..(k + 1) - 1 = (0..k - 1) \cup {k}
      OBVIOUS
    <3> QED
      BY <3>1
  <2> DEFINE l == Upto(k)
  <2>3. Upto(k + 1) = [words |-> l.words \o Part(options, start, k), of |-> l.of \cup {Part(options, start, k)}]
    <3> QED
      BY <2>1, <2>2
  <2>4. l \in LinesOf(kind)[k]
    BY <1>2
  <2>5. LinesOf(kind)[k + 1] = Longer(kind, LinesOf(kind)[k])
    BY LinesGrow
  <2>6. \E t \in LinesOf(kind)[k], g \in Groups[kind] :
          Upto(k + 1) = [words |-> t.words \o g, of |-> t.of \cup {g}]
    <3> HIDE DEF l, Upto
    <3> QED
      BY <2>0, <2>3, <2>4
  <2> HIDE DEF l, Upto
  <2>7. Upto(k + 1) \in Longer(kind, LinesOf(kind)[k])
    BY <2>6, LongerLines
  <2> QED
    BY <2>5, <2>7
<1> HIDE DEF T
<1>3. n \in T
  <2>1. Nat \subseteq T
    BY <1>1, <1>2, Induction
  <2> QED
    BY <2>1, WordsAssumption
<1>4. Upto(n) \in LinesOf(kind)[n]
  BY <1>3 DEF T
<1>5. LinesOf(kind)[n] \subseteq LinesOf(kind)[MaxWords]
  BY WordsAssumption, LinesStay
<1>6. Upto(n).words = options
  <2>1. start[n] - 1 = Len(options)
    BY DEF Falls
  <2>2. SubSeq(options, 1, Len(options)) = options
    BY SubSeqFull
  <2> QED
    BY <2>1, <2>2
<1>7. Upto(n).of = Parts(options, start, n)
  BY DEF Parts
<1>8. Upto(n) \in Documented[kind]
  <2> HIDE DEF Upto
  <2> QED
    BY <1>4, <1>5, <1>6 DEF Documented
<1> HIDE DEF Upto
<1> QED
  BY <1>6, <1>7, <1>8

LEMMA OneWord ==
  ASSUME NEW W, NEW options \in Seq(W), NEW i \in 1..Len(options)
  PROVE  SubSeq(options, i, i) = <<options[i]>>
<1>1. SubSeq(options, i, i) = <<options[i]>> \o SubSeq(options, i + 1, i)
  BY SubSeqRecursiveFirst
<1>2. SubSeq(options, i + 1, i) = <<>>
  BY SubSeqEmpty
<1>3. <<options[i]>> \o <<>> = <<options[i]>>
  OBVIOUS
<1> QED
  BY <1>1, <1>2, <1>3

LEMMA TwoWords ==
  ASSUME NEW W, NEW options \in Seq(W), NEW i \in 1..Len(options), i + 1 <= Len(options)
  PROVE  SubSeq(options, i, i + 1) = <<options[i], options[i + 1]>>
<1>1. SubSeq(options, i, i + 1) = <<options[i]>> \o SubSeq(options, i + 1, i + 1)
  BY SubSeqRecursiveFirst
<1>2. SubSeq(options, i + 1, i + 1) = <<options[i + 1]>>
  BY OneWord
<1>3. <<options[i]>> \o <<options[i + 1]>> = <<options[i], options[i + 1]>>
  <2>1. options[i] \in W /\ options[i + 1] \in W
    BY ElementOfSeq
  <2> DEFINE u == <<options[i]>> \o <<options[i + 1]>>
             v == <<options[i], options[i + 1]>>
  <2>2. u \in Seq(W) /\ Len(u) = 2 /\ u[1] = options[i] /\ u[2] = options[i + 1]
    BY <2>1, ConcatProperties
  <2>3. v \in Seq(W) /\ Len(v) = 2 /\ v[1] = options[i] /\ v[2] = options[i + 1]
    BY <2>1
  <2> HIDE DEF u, v
  <2>4. \A j \in 1..Len(u) : u[j] = v[j]
    BY <2>2, <2>3
  <2> QED
    BY <2>2, <2>3, <2>4, SeqEqual DEF u, v
<1> QED
  BY <1>1, <1>2, <1>3

(* Words that are groups by themselves.                                              *)
LEMMA WordsRead ==
  ASSUME NEW kind \in Kinds, NEW W, NEW options \in Seq(W), Len(options) <= MaxWords,
         \A i \in 1..Len(options) : <<options[i]>> \in Groups[kind]
  PROVE  \E l \in Documented[kind] :
           l.words = options /\ \A i \in 1..Len(options) : <<options[i]>> \in l.of
<1> DEFINE n == Len(options)
           start == [j \in 0..n |-> j + 1]
<1>0. n \in Nat
  OBVIOUS
<1>1. /\ n \in 0..MaxWords /\ start \in [0..n -> 1..n + 1] /\ start[0] = 1 /\ start[n] = n + 1
      /\ \A j \in 0..n - 1 : start[j] = j + 1 /\ start[j + 1] = j + 2
  BY <1>0, WordsAssumption
<1> HIDE DEF start
<1>2. ASSUME NEW j \in 0..n - 1
      PROVE  j + 1 \in 1..n /\ Part(options, start, j) = <<options[j + 1]>>
  <2>1. start[j + 1] - 1 = j + 1 /\ j + 1 \in 1..n
    BY <1>0, <1>1
  <2> QED
    BY <1>1, <2>1, OneWord DEF Part
<1>3. Falls(kind, options, start, n)
  <2>1. \A j \in 0..n - 1 : start[j] <= start[j + 1]
    BY <1>0, <1>1
  <2> QED
    BY <1>1, <1>2, <2>1 DEF Falls
<1>4. PICK l \in Documented[kind] : l.words = options /\ l.of = Parts(options, start, n)
  BY <1>1, <1>3, LineRead
<1>5. ASSUME NEW i \in 1..n
      PROVE  <<options[i]>> \in l.of
  <2>1. i - 1 \in 0..n - 1 /\ i - 1 + 1 = i
    BY <1>0
  <2> QED
    BY <1>2, <1>4, <2>1 DEF Parts
<1> QED
  BY <1>4, <1>5

LEMMA Passes ==
  ASSUME NEW e \in Nat, NEW a \in [Nat -> Nat], a[0] = 1, \A n \in Nat : a[n] < a[n + 1]
  PROVE  \E n \in 0..e : /\ a[n] > e
                         /\ \A k \in 0..n - 1 : a[k] \in 1..e
                         /\ \A k \in Nat : a[k] <= e => k \in 0..n - 1
<1>1. \A k \in Nat : a[k] > k
  <2> DEFINE T == {k \in Nat : a[k] > k}
  <2>1. 0 \in T
    OBVIOUS
  <2>2. ASSUME NEW k \in Nat, k \in T
        PROVE  k + 1 \in T
    BY <2>2
  <2> HIDE DEF T
  <2>3. Nat \subseteq T
    BY <2>1, <2>2, Induction
  <2> QED
    BY <2>3 DEF T
<1>2. \A k, d \in Nat : a[k] <= a[k + d]
  <2> SUFFICES ASSUME NEW k \in Nat
               PROVE  \A d \in Nat : a[k] <= a[k + d]
    OBVIOUS
  <2> DEFINE T == {d \in Nat : a[k] <= a[k + d]}
  <2>1. 0 \in T
    OBVIOUS
  <2>2. ASSUME NEW d \in Nat, d \in T
        PROVE  d + 1 \in T
    <3>1. k + d \in Nat /\ k + (d + 1) = k + d + 1
      OBVIOUS
    <3> QED
      BY <2>2, <3>1
  <2> HIDE DEF T
  <2>3. Nat \subseteq T
    BY <2>1, <2>2, Induction
  <2> QED
    BY <2>3 DEF T
<1>3. PICK n \in Nat : a[n] > e /\ (n # 0 => a[n - 1] <= e)
  <2> SUFFICES ASSUME \A n \in Nat : a[n] <= e \/ (n # 0 /\ a[n - 1] > e)
               PROVE  FALSE
    <3>1. \A n \in Nat : n # 0 => n - 1 \in Nat
      OBVIOUS
    <3> QED
      BY <3>1
  <2> DEFINE T == {n \in Nat : a[n] <= e}
  <2>1. 0 \in T
    OBVIOUS
  <2>2. ASSUME NEW n \in Nat, n \in T
        PROVE  n + 1 \in T
    <3>1. n + 1 \in Nat /\ n + 1 - 1 = n /\ ~(a[n] > e)
      BY <2>2
    <3> QED
      BY <3>1
  <2> HIDE DEF T
  <2>3. Nat \subseteq T
    BY <2>1, <2>2, Induction
  <2>4. a[e] <= e
    BY <2>3 DEF T
  <2> QED
    BY <1>1, <2>4
<1>4. ASSUME NEW k \in Nat, k < n
      PROVE  a[k] \in 1..e
  <2>1. n - 1 \in Nat /\ n - 1 - k \in Nat /\ k + (n - 1 - k) = n - 1 /\ n # 0
    BY <1>4
  <2>2. a[k] <= a[n - 1]
    BY <1>2, <2>1
  <2>3. a[k] \in Nat /\ a[n - 1] \in Nat /\ a[k] > k
    BY <1>1, <2>1
  <2> QED
    BY <1>3, <2>1, <2>2, <2>3
<1>5. ASSUME NEW k \in Nat, a[k] <= e
      PROVE  k < n
  <2> SUFFICES ASSUME n <= k
               PROVE  FALSE
    OBVIOUS
  <2>1. k - n \in Nat /\ n + (k - n) = k
    OBVIOUS
  <2>2. a[n] <= a[k]
    BY <1>2, <2>1
  <2> QED
    BY <1>3, <1>5, <2>2
<1>6. n <= e
  <2>1. CASE n = 0
    BY <2>1
  <2>2. CASE n # 0
    <3>1. n - 1 \in Nat /\ a[n - 1] > n - 1 /\ a[n - 1] <= e /\ a[n - 1] \in Nat
      BY <1>1, <1>3, <2>2
    <3> QED
      BY <3>1
  <2> QED
    BY <2>1, <2>2
<1>7. n \in 0..e /\ \A k : k \in 0..n - 1 <=> k \in Nat /\ k < n
  BY <1>6
<1> QED
  BY <1>3, <1>4, <1>5, <1>7

(* The loop over call options: it comes to the end of the line after n words at which *)
(* it stood.                                                                          *)
LEMMA LoopEnds ==
  ASSUME NEW W, NEW options \in Seq(W)
  PROVE  \E n \in 0..Len(options) :
           /\ Loop(options)[n] > Len(options)
           /\ \A k \in 0..n - 1 : Loop(options)[k] \in 1..Len(options)
           /\ \A i : i \in Stands(options) <=> \E k \in 0..n - 1 : i = Loop(options)[k]
<1> DEFINE a == Loop(options)
           e == Len(options)
<1>1. e \in Nat /\ DOMAIN options = 1..e
  OBVIOUS
<1>2. a \in [Nat -> Nat] /\ a[0] = 1 /\ \A n \in Nat : a[n + 1] = FollowedBy(options, a[n])
  BY LoopSteps
<1>3. \A i \in Nat : i < FollowedBy(options, i)
  BY DEF FollowedBy
<1>4. \A i : i \in Stands(options) <=> i \in 1..e /\ \E k \in 0..e : i = a[k]
  BY <1>1 DEF Stands
<1> HIDE DEF a, e
<1>5. \A n \in Nat : a[n] < a[n + 1]
  BY <1>2, <1>3
<1>6. PICK n \in 0..e : /\ a[n] > e
                        /\ \A k \in 0..n - 1 : a[k] \in 1..e
                        /\ \A k \in Nat : a[k] <= e => k \in 0..n - 1
  BY <1>1, <1>2, <1>5, Passes
<1>7. \A k \in 0..n - 1 : k \in 0..e
  BY <1>1
<1>8. \A i \in 1..e : i <= e
  BY <1>1
<1>9. \A k \in 0..e : k \in Nat
  BY <1>1
<1>10. \A i : i \in Stands(options) <=> \E k \in 0..n - 1 : i = a[k]
  BY <1>4, <1>6, <1>7, <1>8, <1>9
<1> QED
  BY <1>6, <1>10 DEF a, e

LEMMA GivenOnce ==
  ASSUME NEW W, NEW options \in Seq(W), NEW flag, Cardinality(Given(options, flag)) <= 1,
         NEW i \in Given(options, flag), NEW j \in Given(options, flag)
  PROVE  i = j
<1> SUFFICES ASSUME i # j PROVE FALSE
  OBVIOUS
<1>1. Given(options, flag) \subseteq 1..Len(options) /\ Len(options) \in Nat
  BY DEF Given, Stands
<1>2. IsFiniteSet(Given(options, flag))
  <2>1. IsFiniteSet(1..Len(options))
    BY <1>1, FS_Interval
  <2> QED
    BY <1>1, <2>1, FS_Subset
<1>3. Cardinality({i, j}) <= Cardinality(Given(options, flag))
  BY <1>2, FS_Subset
<1>4. Cardinality({i}) = 1 /\ IsFiniteSet({i})
  BY FS_Singleton
<1>5. {i, j} = {i} \cup {j}
  OBVIOUS
<1>6. Cardinality({i} \cup {j}) = Cardinality({i}) + 1
  BY <1>4, FS_AddElement
<1>7. Cardinality(Given(options, flag)) \in Nat
  BY <1>2, FS_CardinalityType
<1> QED
  BY <1>3, <1>4, <1>5, <1>6, <1>7

Calls == {"call", "ui run", "ui read"}

(* The groups of a call, at the words at which the loop stands.                       *)
LEMMA CallGroups ==
  ASSUME NEW kind \in Calls, NEW W, NEW options \in Seq(W), CallOptions(options),
         NEW i \in Stands(options)
  PROVE  /\ i \in 1..Len(options)
         /\ \/ /\ options[i] = "--yes" /\ FollowedBy(options, i) = i + 1
               /\ <<options[i]>> \in Groups[kind]
            \/ /\ options[i] \in Valued /\ FollowedBy(options, i) = i + 2
               /\ i + 1 <= Len(options) /\ <<options[i], options[i + 1]>> \in Groups[kind]
               /\ options[i] = "--timeout-ms" => options[i + 1] = "number"
<1>1. i \in 1..Len(options) /\ DOMAIN options = 1..Len(options)
  BY DEF Stands
<1>2. Groups[kind] = {<<"--yes">>} \cup Inputs \cup {<<"--timeout-ms", "number">>}
  BY DEF Groups, Calls
<1>3. options[i] \in Valued \cup {"--yes"}
  BY DEF CallOptions
<1>4. CASE options[i] = "--yes"
  BY <1>1, <1>2, <1>4 DEF FollowedBy, Valued
<1>5. CASE options[i] = "--timeout-ms"
  <2>1. After(options, i) = "number"
    BY <1>5 DEF CallOptions, Given
  <2>2. i + 1 <= Len(options) /\ options[i + 1] = "number"
    BY <1>1, <2>1 DEF After
  <2> QED
    BY <1>1, <1>2, <1>5, <2>2 DEF FollowedBy, Valued
<1>6. CASE options[i] = "--input-json"
  <2>1. PICK j \in Given(options, "--input-json") : IsJson(After(options, j))
    BY DEF CallOptions
  <2>2. i = j
    <3>1. Cardinality(Given(options, "--input-json")) <= 1 /\ i \in Given(options, "--input-json")
      BY <1>6 DEF CallOptions, Given, Valued
    <3> QED
      BY <2>1, <3>1, GivenOnce
  <2>3. i + 1 <= Len(options) /\ options[i + 1] \in {"json", "number", "zero"}
    BY <1>1, <2>1, <2>2 DEF After, IsJson
  <2>4. <<options[i], options[i + 1]>> \in Inputs
    BY <1>6, <2>3 DEF Inputs
  <2> QED
    BY <1>1, <1>2, <1>6, <2>3, <2>4 DEF FollowedBy, Valued
<1> QED
  BY <1>1, <1>3, <1>4, <1>5, <1>6 DEF Valued

LEMMA CallPart ==
  ASSUME NEW kind \in Calls, NEW W, NEW options \in Seq(W), CallOptions(options),
         NEW i \in Stands(options), NEW k, k = FollowedBy(options, i)
  PROVE  /\ i \in 1..Len(options) /\ k \in 1..Len(options) + 1 /\ i <= k
         /\ options[i] \in Valued \cup {"--yes"}
         /\ SubSeq(options, i, k - 1) \in Groups[kind]
         /\ options[i] = "--yes" => SubSeq(options, i, k - 1) = <<"--yes">>
         /\ options[i] # "--yes" => SubSeq(options, i, k - 1) = <<options[i], options[i + 1]>>
         /\ options[i] = "--timeout-ms" => options[i + 1] = "number"
<1>1. /\ i \in 1..Len(options)
      /\ \/ /\ options[i] = "--yes" /\ k = i + 1 /\ <<options[i]>> \in Groups[kind]
         \/ /\ options[i] \in Valued /\ k = i + 2
            /\ i + 1 <= Len(options) /\ <<options[i], options[i + 1]>> \in Groups[kind]
            /\ options[i] = "--timeout-ms" => options[i + 1] = "number"
  BY CallGroups
<1>2. CASE options[i] = "--yes"
  <2>1. k = i + 1 /\ <<options[i]>> \in Groups[kind]
    BY <1>1, <1>2 DEF Valued
  <2>2. k - 1 = i /\ i <= k /\ k \in 1..Len(options) + 1
    BY <1>1, <2>1
  <2>3. SubSeq(options, i, k - 1) = <<options[i]>>
    BY <1>1, <2>2, OneWord
  <2> QED
    BY <1>1, <1>2, <2>1, <2>2, <2>3
<1>3. CASE options[i] # "--yes"
  <2>1. /\ options[i] \in Valued /\ k = i + 2 /\ i + 1 <= Len(options)
        /\ <<options[i], options[i + 1]>> \in Groups[kind]
        /\ options[i] = "--timeout-ms" => options[i + 1] = "number"
    BY <1>1, <1>3
  <2>2. k - 1 = i + 1 /\ i <= k /\ k \in 1..Len(options) + 1
    BY <1>1, <2>1
  <2>3. SubSeq(options, i, k - 1) = <<options[i], options[i + 1]>>
    BY <1>1, <2>1, <2>2, TwoWords
  <2> QED
    BY <1>1, <1>3, <2>1, <2>2, <2>3
<1> QED
  BY <1>2, <1>3

LEMMA CallFalls ==
  ASSUME NEW kind \in Calls, NEW W, NEW options \in Seq(W), CallOptions(options),
         NEW n \in 0..Len(options), NEW a \in [Nat -> Nat], a[0] = 1, a[n] > Len(options),
         \A k \in 0..n - 1 : a[k] \in Stands(options) /\ a[k + 1] = FollowedBy(options, a[k]),
         NEW start, start = [j \in 0..n |-> a[j]]
  PROVE  /\ Falls(kind, options, start, n)
         /\ \A k \in 0..n - 1 : Part(options, start, k) = SubSeq(options, a[k], a[k + 1] - 1)
<1>0. Len(options) \in Nat /\ n \in Nat
  OBVIOUS
<1>1. \A k \in 0..n - 1 : a[k] \in 1..Len(options) /\ a[k + 1] \in 1..Len(options) + 1
                          /\ a[k] <= a[k + 1]
                          /\ SubSeq(options, a[k], a[k + 1] - 1) \in Groups[kind]
  <2> SUFFICES ASSUME NEW k \in 0..n - 1
               PROVE  /\ a[k] \in 1..Len(options) /\ a[k + 1] \in 1..Len(options) + 1
                      /\ a[k] <= a[k + 1]
                      /\ SubSeq(options, a[k], a[k + 1] - 1) \in Groups[kind]
    OBVIOUS
  <2>1. a[k] \in Stands(options) /\ a[k + 1] = FollowedBy(options, a[k])
    OBVIOUS
  <2> QED
    BY <2>1, CallPart
<1>2. \A k \in 0..n - 1 : start[k] = a[k] /\ start[k + 1] = a[k + 1]
  <2>1. \A k \in 0..n - 1 : k \in 0..n /\ k + 1 \in 0..n
    BY <1>0
  <2> QED
    BY <2>1
<1>3. start[0] = 1 /\ start[n] = a[n]
  <2>1. 0 \in 0..n /\ n \in 0..n
    BY <1>0
  <2> QED
    BY <2>1
<1>4. a[n] = Len(options) + 1
  <2>1. a[n] \in 1..Len(options) + 1
    <3>1. CASE n = 0
      BY <1>0, <3>1
    <3>2. CASE n # 0
      <4>1. n - 1 \in 0..n - 1 /\ n - 1 + 1 = n
        BY <1>0, <3>2
      <4> QED
        BY <1>1, <4>1
    <3> QED
      BY <3>1, <3>2
  <2> QED
    BY <1>0, <2>1
<1>5. start \in [0..n -> 1..Len(options) + 1]
  <2>1. ASSUME NEW j \in 0..n
        PROVE  a[j] \in 1..Len(options) + 1
    <3>1. CASE j = n
      BY <1>0, <1>4, <3>1
    <3>2. CASE j # n
      <4>1. j \in 0..n - 1
        BY <1>0, <3>2
      <4>2. a[j] \in 1..Len(options)
        BY <1>1, <4>1
      <4> QED
        BY <1>0, <4>2
    <3> QED
      BY <3>1, <3>2
  <2> QED
    BY <2>1
<1> QED
  BY <1>1, <1>2, <1>3, <1>4, <1>5 DEF Falls, Part

LEMMA CallsRead ==
  ASSUME NEW kind \in Calls, NEW W, NEW options \in Seq(W), Len(options) <= MaxWords,
         CallOptions(options)
  PROVE  \E l \in Documented[kind] :
           /\ l.words = options
           /\ <<"--yes">> \in l.of <=> Given(options, "--yes") # {}
           /\ <<"--timeout-ms", "number">> \in l.of <=> Given(options, "--timeout-ms") # {}
<1> DEFINE a == Loop(options)
           e == Len(options)
<1>1. PICK n \in 0..e : /\ a[n] > e
                        /\ \A k \in 0..n - 1 : a[k] \in 1..e
                        /\ \A i : i \in Stands(options) <=> \E k \in 0..n - 1 : i = a[k]
  BY LoopEnds
<1>2. /\ a \in [Nat -> Nat] /\ a[0] = 1 /\ e \in Nat
      /\ \A k \in Nat : a[k + 1] = FollowedBy(options, a[k])
  BY LoopSteps
<1> DEFINE start == [j \in 0..n |-> a[j]]
<1>3. \A k \in 0..n - 1 : a[k] \in Stands(options) /\ a[k + 1] = FollowedBy(options, a[k])
  <2>1. \A k \in 0..n - 1 : k \in Nat
    BY <1>2
  <2> HIDE DEF a
  <2> QED
    BY <1>1, <1>2, <2>1
<1> HIDE DEF a
<1>4. /\ Falls(kind, options, start, n)
      /\ \A k \in 0..n - 1 : Part(options, start, k) = SubSeq(options, a[k], a[k + 1] - 1)
  <2>1. start = [j \in 0..n |-> a[j]]
    OBVIOUS
  <2>2. ASSUME NEW f \in [Nat -> Nat], f[0] = 1, f[n] > e,
               \A k \in 0..n - 1 : f[k] \in Stands(options) /\ f[k + 1] = FollowedBy(options, f[k]),
               NEW s, s = [j \in 0..n |-> f[j]]
        PROVE  /\ Falls(kind, options, s, n)
               /\ \A k \in 0..n - 1 : Part(options, s, k) = SubSeq(options, f[k], f[k + 1] - 1)
    BY <2>2, CallFalls
  <2> HIDE DEF start, e
  <2> QED
    BY <1>1, <1>2, <1>3, <2>1, <2>2
<1> HIDE DEF start
<1>5. n \in 0..MaxWords /\ kind \in Kinds
  <2>1. n \in 0..MaxWords
    BY <1>2, WordsAssumption
  <2>2. kind \in Kinds
    BY DEF Calls, Kinds, Groups
  <2> QED
    BY <2>1, <2>2
<1>6. PICK l \in Documented[kind] : l.words = options /\ l.of = Parts(options, start, n)
  BY <1>4, <1>5, LineRead
<1>7. \A g : g \in l.of <=> \E k \in 0..n - 1 : g = Part(options, start, k)
  BY <1>6 DEF Parts
<1>8. \A flag : Given(options, flag) # {} <=> \E k \in 0..n - 1 : options[a[k]] = flag
  BY <1>1 DEF Given, a
<1>9. ASSUME NEW k \in 0..n - 1
      PROVE  /\ Part(options, start, k) = <<"--yes">> <=> options[a[k]] = "--yes"
             /\ Part(options, start, k) = <<"--timeout-ms", "number">>
                  <=> options[a[k]] = "--timeout-ms"
  <2>1. ASSUME NEW x, NEW y
        PROVE  <<x, y>> # <<"--yes">> /\ <<"--yes">> # <<"--timeout-ms", "number">>
               /\ (<<x, y>> = <<"--timeout-ms", "number">> <=> x = "--timeout-ms" /\ y = "number")
    <3>1. Len(<<x, y>>) = 2 /\ Len(<<"--yes">>) = 1 /\ Len(<<"--timeout-ms", "number">>) = 2
      OBVIOUS
    <3> QED
      BY <3>1
  <2> DEFINE i == a[k]
  <2>2. i \in Stands(options) /\ a[k + 1] = FollowedBy(options, i)
    BY <1>3
  <2>3. Part(options, start, k) = SubSeq(options, i, a[k + 1] - 1)
    BY <1>4
  <2> HIDE DEF i
  <2>4. /\ options[i] \in Valued \cup {"--yes"}
        /\ options[i] = "--yes" => Part(options, start, k) = <<"--yes">>
        /\ options[i] # "--yes" => Part(options, start, k) = <<options[i], options[i + 1]>>
        /\ options[i] = "--timeout-ms" => options[i + 1] = "number"
    BY <2>2, <2>3, CallPart
  <2>5. /\ Part(options, start, k) = <<"--yes">> <=> options[i] = "--yes"
        /\ Part(options, start, k) = <<"--timeout-ms", "number">> <=> options[i] = "--timeout-ms"
    BY <2>1, <2>4 DEF Valued
  <2> QED
    BY <2>5 DEF i
<1> QED
  BY <1>6, <1>7, <1>8, <1>9

LEMMA WordsAreFinite ==
  ASSUME NEW W, NEW options \in Seq(W)
  PROVE  IsFiniteSet(1..Len(options))
<1>1. 1 \in Int /\ Len(options) \in Int
  OBVIOUS
<1>2. \A a, b \in Int : IsFiniteSet(a..b)
  BY FS_Interval
<1> QED
  BY <1>1, <1>2

LEMMA CallsAgree ==
  ASSUME NEW kind \in Calls, NEW W, NEW options \in Seq(W), Len(options) <= MaxWords
  PROVE  ArgumentsAgree(kind, options)
<1> SUFFICES ASSUME Dispatched(kind, options)
             PROVE  \E l \in Documented[kind] :
                      /\ l.words = options
                      /\ <<"--yes">> \in l.of \/ kind = "ui read"
                      /\ CommandTimeout(kind, options) =
                           IF <<"--timeout-ms", "number">> \in l.of THEN "number" ELSE "none"
  BY DEF ArgumentsAgree, Calls
<1>1. CallOptions(options) /\ (kind # "ui read" => Given(options, "--yes") # {})
  BY DEF Dispatched, Calls, Called, UiRun
<1>2. PICK l \in Documented[kind] :
        /\ l.words = options
        /\ <<"--yes">> \in l.of <=> Given(options, "--yes") # {}
        /\ <<"--timeout-ms", "number">> \in l.of <=> Given(options, "--timeout-ms") # {}
  BY <1>1, CallsRead
<1> DEFINE found == Given(options, "--timeout-ms")
<1>3. CommandTimeout(kind, options) = IF found = {} THEN "none" ELSE "number"
  <2>1. Cardinality(found) <= 1 /\ \A i \in found : After(options, i) = "number"
    BY <1>1 DEF CallOptions, Valued
  <2>2. ~(Cardinality(found) > 1)
    <3>1. IsFiniteSet(found)
      <4>1. found \subseteq 1..Len(options)
        BY DEF Given, Stands
      <4> QED
        BY <4>1, WordsAreFinite, FS_Subset
    <3>2. Cardinality(found) \in Nat
      BY <3>1, FS_CardinalityType
    <3> QED
      BY <2>1, <3>2
  <2>3. found # {} => After(options, CHOOSE i \in found : TRUE) = "number"
    BY <2>1
  <2>4. CommandTimeout(kind, options) = OptionTimeout(options)
    BY DEF CommandTimeout, Calls
  <2> QED
    BY <2>2, <2>3, <2>4 DEF OptionTimeout
<1> QED
  BY <1>1, <1>2, <1>3

LEMMA WordsOf ==
  ASSUME NEW W, NEW options \in Seq(W), NEW w
  PROVE  w \in Words(options) <=> \E i \in 1..Len(options) : options[i] = w
<1>1. DOMAIN options = 1..Len(options)
  OBVIOUS
<1> QED
  BY <1>1, Zenon DEF Words

(* Commands other than the calls: their limit is their own.                           *)
LEMMA FixedTimeout ==
  ASSUME NEW kind \in Kinds \ Calls, NEW options,
         Dispatched(kind, options) =>
           \E l \in Documented[kind] : l.words = options /\ <<"--yes">> \in l.of
  PROVE  ArgumentsAgree(kind, options)
<1>1. kind \notin {"call", "ui run", "ui read"}
  BY DEF Calls
<1>2. CommandTimeout(kind, options) = "fixed"
  BY <1>1 DEF CommandTimeout
<1> QED
  BY <1>1, <1>2 DEF ArgumentsAgree

LEMMA OnlyWord ==
  ASSUME NEW o, o = <<"--yes">>
  PROVE  Len(o) = 1 /\ o[1] = "--yes" /\ 1 \in 1..1 /\ \A i \in 1..1 : i = 1
OBVIOUS

LEMMA SomeLineRead ==
  ASSUME NEW kind \in Kinds, NEW W, NEW options \in Seq(W), Len(options) <= MaxWords,
         NEW n \in 0..MaxWords, NEW start, Falls(kind, options, start, n),
         <<"--yes">> \in Parts(options, start, n)
  PROVE  \E l \in Documented[kind] : l.words = options /\ <<"--yes">> \in l.of
<1>1. PICK l \in Documented[kind] : l.words = options /\ l.of = Parts(options, start, n)
  BY LineRead
<1> QED
  BY <1>1

LEMMA WebStartAgrees ==
  ASSUME NEW W, NEW options \in Seq(W), Len(options) <= MaxWords
  PROVE  ArgumentsAgree("web start", options)
<1>0. Dispatched("web start", options) <=> WebStart(options)
  BY DEF Dispatched
<1>a. "web start" \in Kinds \ Calls
  BY DEF Kinds, Groups, Calls
<1> SUFFICES ASSUME WebStart(options)
             PROVE  \E l \in Documented["web start"] : l.words = options /\ <<"--yes">> \in l.of
  BY <1>0, <1>a, FixedTimeout
<1>1. Len(options) = 3 /\ 2 \in 0..MaxWords /\ 2 - 1 = 1 /\ 1 \in 0..2 - 1
      /\ (\A j \in 0..2 - 1 : (j = 0 /\ j + 1 = 1) \/ (j = 1 /\ j + 1 = 2))
      /\ 1 \in 1..Len(options) /\ 1 + 1 <= Len(options) /\ 3 \in 1..Len(options)
      /\ Len(options) + 1 = 4
  BY WordsAssumption DEF WebStart
<1>2. PICK start : start = [j \in 0..2 |-> IF j = 0 THEN 1 ELSE IF j = 1 THEN 3 ELSE 4]
  OBVIOUS
<1>3. start[0] = 1 /\ start[1] = 3 /\ start[2] = 4 /\ start \in [0..2 -> 1..4]
      /\ start[1] - 1 = 2 /\ start[2] - 1 = 3
  BY <1>2
<1>4. Part(options, start, 0) = <<"--config-json", "json">>
  <2>1. SubSeq(options, 1, 1 + 1) = <<options[1], options[1 + 1]>>
    BY <1>1, TwoWords
  <2>2. 1 + 1 = 2 /\ 0 + 1 = 1
    OBVIOUS
  <2> QED
    BY <1>3, <2>1, <2>2 DEF Part, WebStart
<1>5. Part(options, start, 1) = <<"--yes">>
  <2>1. SubSeq(options, 3, 3) = <<options[3]>>
    BY <1>1, OneWord
  <2>2. 1 + 1 = 2
    OBVIOUS
  <2> QED
    BY <1>3, <2>1, <2>2 DEF Part, WebStart
<1>6. "web start" \in Kinds
      /\ {<<"--config-json", "json">>, <<"--yes">>} \subseteq Groups["web start"]
  BY DEF Kinds, Groups
<1>7. Falls("web start", options, start, 2)
  <2>1. Part(options, start, 0) \in Groups["web start"]
        /\ Part(options, start, 1) \in Groups["web start"]
    BY <1>4, <1>5, <1>6
  <2>2. start[0] <= start[0 + 1] /\ start[1] <= start[1 + 1]
    BY <1>3
  <2>3. \A j \in 0..2 - 1 : start[j] <= start[j + 1]
                            /\ Part(options, start, j) \in Groups["web start"]
    BY <1>1, <2>1, <2>2
  <2> QED
    BY <1>1, <1>3, <2>3 DEF Falls
<1>8. <<"--yes">> \in Parts(options, start, 2)
  BY <1>1, <1>5 DEF Parts
<1> QED
  BY <1>1, <1>6, <1>7, <1>8, SomeLineRead

(* The commands whose options are words by themselves.                                *)
LEMMA WordsAgree ==
  ASSUME NEW kind \in Kinds \ (Calls \cup {"web start"}),
         NEW W, NEW options \in Seq(W), Len(options) <= MaxWords
  PROVE  ArgumentsAgree(kind, options)
<1>1. kind \in {"install", "enable", "uninstall", "source", "set-code", "install-online",
                "update", "web stop"}
  BY DEF Kinds, Groups, Calls
<1>2. ASSUME kind = "web stop", Dispatched(kind, options)
      PROVE  "--yes" \in Words(options) /\ \A w \in Words(options) : w = "--yes"
  <2>1. options = <<"--yes">>
    BY <1>2 DEF Dispatched, WebConfirmed
  <2>2. Len(options) = 1 /\ options[1] = "--yes" /\ 1 \in 1..Len(options)
        /\ \A i \in 1..1 : i = 1
    BY <2>1, OnlyWord
  <2>3. "--yes" \in Words(options)
    <3>1. \E i \in 1..Len(options) : options[i] = "--yes"
      BY <2>2
    <3> QED
      BY <3>1, WordsOf
  <2>4. ASSUME NEW w \in Words(options)
        PROVE  w = "--yes"
    <3>1. PICK i \in 1..Len(options) : options[i] = w
      BY <2>4, WordsOf
    <3> QED
      BY <2>2, <3>1
  <2> QED
    BY <2>3, <2>4
<1>3. ASSUME Dispatched(kind, options)
      PROVE  \A w \in Words(options) : <<w>> \in Groups[kind]
  <2>1. CASE kind \in {"install", "enable", "uninstall", "source"}
    BY <1>3, <2>1 DEF Dispatched, LocalInstall, OnlyConfirmed, Uninstall, Flags, Groups
  <2>2. CASE kind \in {"set-code", "install-online"}
    BY <1>3, <2>2 DEF Dispatched, SetCode, Online, Flags, Groups
  <2>3. CASE kind = "update"
    BY <1>3, <2>3 DEF Dispatched, Online, Flags, Groups
  <2>4. CASE kind = "web stop"
    BY <1>2, <1>3, <2>4 DEF Groups
  <2> QED
    BY <1>1, <2>1, <2>2, <2>3, <2>4
<1>4. ASSUME Dispatched(kind, options)
      PROVE  "--yes" \in Words(options)
  <2>1. CASE kind = "web stop"
    BY <1>2, <1>4, <2>1
  <2>2. CASE kind # "web stop"
    BY <1>1, <1>4, <2>2 DEF Dispatched, LocalInstall, OnlyConfirmed, Uninstall, Flags, SetCode, Online
  <2> QED
    BY <2>1, <2>2
<1>5. ASSUME Dispatched(kind, options)
      PROVE  \E l \in Documented[kind] : l.words = options /\ <<"--yes">> \in l.of
  <2>1. \A i \in 1..Len(options) : <<options[i]>> \in Groups[kind]
    BY <1>3, <1>5, WordsOf
  <2>2. \E i \in 1..Len(options) : options[i] = "--yes"
    BY <1>4, <1>5, WordsOf
  <2>3. \E l \in Documented[kind] :
          l.words = options /\ \A i \in 1..Len(options) : <<options[i]>> \in l.of
    BY <2>1, WordsRead
  <2>4. PICK l \in Documented[kind] :
          l.words = options /\ \A i \in 1..Len(options) : <<options[i]>> \in l.of
    BY <2>3
  <2>5. <<"--yes">> \in l.of
    BY <2>2, <2>4
  <2> QED
    BY <2>4, <2>5
<1>6. kind \in Kinds \ Calls
  OBVIOUS
<1> QED
  BY <1>5, <1>6, FixedTimeout

(* The parsers of plugin_cli.rs, plugin_distribution_cli.rs, web_access.rs and        *)
(* cli_ipc.rs, for any words and lines of any length: what is executed reads as the   *)
(* documented groups of words, with the confirmation, and the time limit is its own.  *)
THEOREM AnyLineAgrees ==
  ASSUME NEW kind \in Kinds, NEW W, NEW options \in Seq(W), Len(options) <= MaxWords
  PROVE  ArgumentsAgree(kind, options)
BY CallsAgree, WebStartAgrees, WordsAgree

(* The lines of the run among them.                                                   *)
THEOREM LinesAreRead == LineSpec => []LinesAgree
<1>1. ASSUME line \in Lines
      PROVE  LinesAgree
  <2>1. PICK k \in Kinds : \E n \in 0..MaxWords :
          line \in [kind : {k}, options : UNION {[1..m -> Vocabulary(k)] : m \in 0..MaxWords}]
    BY <1>1, WordsAssumption DEF Lines
  <2>2. PICK n \in 0..MaxWords : line.kind = k /\ line.options \in [1..n -> Vocabulary(k)]
    BY <2>1
  <2>3. n \in Nat /\ line.options \in Seq(Vocabulary(k)) /\ Len(line.options) = n
    BY <2>2, WordsAssumption
  <2> QED
    BY <2>2, <2>3, WordsAssumption, AnyLineAgrees DEF LinesAgree
<1>2. line \in Lines /\ UNCHANGED line => (line \in Lines)'
  BY DEF Lines
<1> QED
  BY <1>1, <1>2, PTL DEF LineSpec
=================================================================================
