---------------------------- MODULE HostServicesProofs ----------------------------
(* Theorems about the services the host gives a plugin process (HostServices): what *)
(* goes through a stream arrives as it was sent, and what a request opened without  *)
(* the plugin being told is not kept. For any number of requests, calls, devices,   *)
(* chunks and failures, and any limits.                                             *)
EXTENDS HostServices, SequenceTheorems, TLAPS

Ways == {"idle", "begin", "entry", "run", "insert", "use", "writing", "reading", "body", "fetch",
         "copy", "deliver", "sync", "commit", "forget", "register", "load", "opened", "settle",
         "clean", "over"}
Kinds == {"none", "file", "http", "writer", "spool", "closed"}
Destinations == {"spool", "download", "path"}
Files == [of : Streams, data : Nat, acked : Nat, torn : BOOLEAN]

RequestRecords ==
    [at : Ways, ctx : Owners, method : Methods \cup {None}, of : Requests \cup {None},
     res : Nat \cup {None}, ok : BOOLEAN]
EntryRecords ==
    [content : Kinds, target : Destinations \cup {None}, closed : BOOLEAN,
     pos : Nat, fetched : Nat, data : Nat, acked : Nat, torn : BOOLEAN]

RequestsTyped == req \in [Requests -> RequestRecords]
EntriesTyped == entry \in [Streams -> EntryRecords]
LocksTyped == lock \in [Streams -> Requests \cup {None}] /\ body \in [Streams -> Requests \cup {None}]
SavedTyped == saved \in Seq(Files)
SetsTyped == table \subseteq Streams /\ picked \subseteq Requests /\ late \subseteq Requests
EndsTyped ==
    /\ phase \in [Owners -> {"open", "cancelled", "left", "swept"}]
    /\ window \in [Requests -> {"none", "open", "known"}]
    /\ budget \in Budgets
TypeOK == RequestsTyped /\ EntriesTyped /\ LocksTyped /\ SavedTyped /\ SetsTyped /\ EndsTyped

(* The places of a request where it uses a stream, and what it holds of it there.   *)
Using == {"entry", "use", "writing", "reading", "body", "fetch", "copy", "deliver", "sync",
          "commit", "forget"}
Locking == {"writing", "reading", "sync", "commit"}
Committing == {"sync", "commit"}
Ending == {"settle", "clean", "over"}

Placed(r) ==
    /\ req[r].at \in Using => req[r].method \in Users
    /\ req[r].method \in Users => req[r].of \in Streams /\ Told(req[r].of)
    /\ req[r].at = "insert" => req[r].method \in Openers \cup {"http", "upload"}
    /\ req[r].at \in {"reading", "body", "fetch", "copy", "deliver"} => req[r].method = "read"
    /\ req[r].at = "register" => req[r].method = "pick"
    /\ req[r].res # None => req[r].at \in Ending \cup {"deliver", "forget"}

Holds(r) ==
    LET s == req[r].of IN
    /\ req[r].at \in Locking => lock[s] = r
    /\ req[r].at \in {"fetch", "copy"} => body[s] = r
    /\ req[r].at = "writing" => entry[s].content = "writer"
    /\ req[r].at \in Committing =>
          /\ entry[s].content = "closed" /\ ~entry[s].torn /\ entry[s].target \in Destinations
          /\ \A i \in DOMAIN saved : saved[i].of # s
    /\ req[r].at = "reading" => entry[s].content = "file"
    /\ req[r].at \in {"body", "fetch", "copy"} => entry[s].content = "http"
    /\ req[r].at = "copy" => entry[s].pos < entry[s].fetched \/ entry[s].fetched = Chunks

(* A stream is what its opener made it.                                             *)
Whole(s) ==
    /\ entry[s].content = "none" => ~entry[s].torn
    /\ entry[s].content # "none" => req[s].at \in Ending /\ (req[s].at = "settle" => req[s].ok)
    /\ entry[s].content = "writer" => ~entry[s].torn /\ entry[s].target \in Destinations
    /\ entry[s].acked <= entry[s].data
    /\ entry[s].fetched <= Chunks /\ entry[s].pos <= Chunks
    /\ entry[s].content \in {"none", "http"} => entry[s].pos <= entry[s].fetched
    /\ lock[s] # None => req[lock[s]].at \in Locking /\ req[lock[s]].of = s

SavedOnce ==
    /\ \A i \in DOMAIN saved :
          ~saved[i].torn /\ saved[i].acked <= saved[i].data /\ entry[saved[i].of].content = "closed"
    /\ \A i, j \in DOMAIN saved : saved[i].of = saved[j].of => i = j

ReadOnce(s) ==
    /\ \A r \in Reads(s) : req[r].res <= entry[s].pos /\ (req[r].res = 0 => entry[s].pos = Chunks)
    /\ \A r, q \in Reads(s) : req[r].res = req[q].res /\ req[r].res # 0 => r = q
    /\ \A n \in 1 .. entry[s].pos : \E r \in Reads(s) : req[r].res = n

Accounted(r) ==
    /\ r \in table => entry[r].content # "none" /\ (req[r].at \in {"clean", "over"} => req[r].ok)
    /\ r \in picked => req[r].method = "pick" /\ req[r].at \in Ending /\ req[r].ok

HostInv ==
    /\ TypeOK
    /\ \A r \in Requests : Placed(r) /\ Holds(r) /\ Accounted(r)
    /\ \A s \in Streams : Whole(s) /\ ReadOnce(s)
    /\ SavedOnce
-----------------------------------------------------------------------------------
USE HostAssumption DEF Streams

(* What a step of one request leaves as it was.                                     *)
Else(r) == \A q \in Requests : q # r => req'[q] = req[q]
Advance(r, p, k) ==
    /\ Else(r)
    /\ req'[r].at = p /\ req'[r].ok = k
    /\ req'[r].ctx = req[r].ctx /\ req'[r].method = req[r].method
    /\ req'[r].of = req[r].of /\ req'[r].res = req[r].res
Alike(s) ==
    /\ entry'[s].content = entry[s].content /\ entry'[s].target = entry[s].target
    /\ entry'[s].pos = entry[s].pos /\ entry'[s].fetched = entry[s].fetched
    /\ entry'[s].data = entry[s].data /\ entry'[s].acked = entry[s].acked
    /\ entry'[s].torn = entry[s].torn

LEMMA NobodyIsNone == None \notin Requests /\ 0 \notin Requests /\ Requests \subseteq Nat
BY DEF Requests

LEMMA GoAdvances ==
  ASSUME RequestsTyped, NEW r \in Requests, NEW p \in Ways, Go(r, p)
  PROVE  RequestsTyped' /\ Advance(r, p, req[r].ok)
BY DEF RequestsTyped, RequestRecords, Go, Advance, Else

LEMMA AnswerAdvances ==
  ASSUME RequestsTyped, NEW r \in Requests, NEW p \in Ways, NEW k \in BOOLEAN,
         req' = [req EXCEPT ![r].at = p, ![r].ok = k]
  PROVE  RequestsTyped' /\ Advance(r, p, k)
BY DEF RequestsTyped, RequestRecords, Advance, Else

LEMMA SettleAdvances ==
  ASSUME RequestsTyped, NEW r \in Requests,
         req' = [req EXCEPT ![r].at = "clean", ![r].ok = @ /\ ~Over(r)]
  PROVE  RequestsTyped' /\ Advance(r, "clean", req[r].ok /\ ~Over(r))
BY DEF RequestsTyped, RequestRecords, Advance, Else, Ways

LEMMA FailAdvances ==
  ASSUME RequestsTyped, NEW r \in Requests, Fail(r)
  PROVE  RequestsTyped' /\ Advance(r, "settle", req[r].ok)
BY GoAdvances DEF Fail, Ways

LEMMA SucceedAdvances ==
  ASSUME RequestsTyped, NEW r \in Requests, Succeed(r)
  PROVE  RequestsTyped' /\ Advance(r, "settle", TRUE)
BY AnswerAdvances DEF Succeed, Ways

LEMMA PruneKeeps ==
  ASSUME EntriesTyped, SetsTyped, Prune
  PROVE  /\ EntriesTyped' /\ UNCHANGED <<lock, body>> /\ table' \subseteq table
         /\ \A s \in Streams : Alike(s)
         /\ \A s \in table' : ~Stale(s)
<1>1. entry' = [s \in Streams |-> IF s \in table /\ Stale(s) THEN [entry[s] EXCEPT !.closed = TRUE]
                                  ELSE entry[s]]
  BY DEF Prune
<1>2. ASSUME NEW s \in Streams PROVE entry'[s] \in EntryRecords /\ Alike(s)
  <2>1. entry[s] \in EntryRecords BY DEF EntriesTyped
  <2>2. entry'[s] = entry[s] \/ entry'[s] = [entry[s] EXCEPT !.closed = TRUE] BY <1>1
  <2> QED BY <2>1, <2>2 DEF EntryRecords, Alike
<1>3. EntriesTyped' BY <1>1, <1>2 DEF EntriesTyped
<1> QED BY <1>2, <1>3 DEF Prune, SetsTyped

LEMMA PlacedKept ==
  ASSUME HostInv, NEW r \in Requests, Else(r), req[r].at # "over", Placed(r)'
  PROVE  \A q \in Requests : Placed(q)'
<1> SUFFICES ASSUME NEW q \in Requests, q # r PROVE Placed(q)'
  OBVIOUS
<1>1. Placed(q) /\ req'[q] = req[q] BY DEF HostInv, Else
<1>2. CASE req[q].method \in Users
  <2>1. req[q].of # r /\ req[q].of \in Requests BY <1>1, <1>2 DEF Placed, Told
  <2>2. Told(req[q].of)' BY <1>1, <1>2, <2>1 DEF Placed, Told, Else
  <2> QED BY <1>1, <2>2 DEF Placed
<1>3. CASE req[q].method \notin Users BY <1>1, <1>3 DEF Placed
<1> QED BY <1>2, <1>3

LEMMA AccountedKept ==
  ASSUME HostInv, NEW r \in Requests, Else(r), table' \subseteq table \cup {r},
         picked' \subseteq picked \cup {r},
         \A s \in Streams : entry'[s].content = "none" => entry[s].content = "none",
         Accounted(r)'
  PROVE  \A q \in Requests : Accounted(q)'
BY DEF HostInv, Accounted, Else

LEMMA OthersHold ==
  ASSUME HostInv, NEW r \in Requests, Else(r),
         \A s \in Streams :
            /\ \/ /\ entry'[s].content = entry[s].content /\ entry'[s].torn = entry[s].torn
                  /\ entry'[s].target = entry[s].target
               \/ lock[s] \in {None, r} /\ entry[s].content \notin {"file", "http"}
            /\ \/ entry'[s].pos = entry[s].pos /\ entry'[s].fetched = entry[s].fetched
               \/ body[s] \in {None, r} \/ entry[s].content = "file"
            /\ lock'[s] = lock[s] \/ lock[s] \in {None, r}
            /\ body'[s] = body[s] \/ body[s] \in {None, r},
         \A i \in DOMAIN saved' :
            \/ i \in DOMAIN saved /\ saved'[i] = saved[i]
            \/ saved'[i].of \in Streams /\ lock[saved'[i].of] = r,
         Holds(r)'
  PROVE  \A q \in Requests : Holds(q)'
<1> SUFFICES ASSUME NEW q \in Requests, q # r PROVE Holds(q)'
  OBVIOUS
<1> DEFINE s == req[q].of
<1>1. Holds(q) /\ Placed(q) /\ req'[q] = req[q] BY DEF HostInv, Else
<1>2. q # None BY NobodyIsNone
<1>3. req[q].at \in Using => s \in Streams BY <1>1 DEF Placed
<1>4. CASE req[q].at \in Locking
  <2>1. s \in Streams /\ lock[s] = q BY <1>1, <1>3, <1>4 DEF Holds, Using, Locking
  <2>2. /\ entry'[s].content = entry[s].content /\ entry'[s].torn = entry[s].torn
        /\ entry'[s].target = entry[s].target /\ lock'[s] = q
    BY <1>2, <2>1
  <2>3. ASSUME req[q].at \in Committing PROVE \A i \in DOMAIN saved' : saved'[i].of # s
    BY <1>1, <2>1, <2>3 DEF Holds
  <2> QED BY <1>1, <1>4, <2>1, <2>2, <2>3 DEF Holds, Locking, Committing
<1>5. CASE req[q].at \in {"body", "fetch", "copy"}
  <2>1. s \in Streams /\ entry[s].content = "http" BY <1>1, <1>3, <1>5 DEF Holds, Using
  <2>2. entry'[s].content = "http" BY <2>1
  <2>3. ASSUME req[q].at # "body" PROVE body[s] = q BY <1>1, <1>5, <2>3 DEF Holds
  <2>4. ASSUME req[q].at # "body"
        PROVE  body'[s] = q /\ entry'[s].pos = entry[s].pos /\ entry'[s].fetched = entry[s].fetched
    <3>1. body[s] \notin {None, r} BY <1>2, <2>3, <2>4
    <3> QED BY <2>1, <2>3, <2>4, <3>1
  <2> QED BY <1>1, <1>5, <2>2, <2>4 DEF Holds, Locking, Committing
<1>6. CASE req[q].at \notin Locking /\ req[q].at \notin {"body", "fetch", "copy"}
  BY <1>1, <1>6 DEF Holds, Locking, Committing
<1> QED BY <1>4, <1>5, <1>6

LEMMA ReadsKept ==
  ASSUME HostInv, NEW r \in Requests, Else(r), req'[r].method = req[r].method,
         req'[r].of = req[r].of, req'[r].res = req[r].res, NEW s \in Streams,
         entry'[s].pos = entry[s].pos
  PROVE  ReadOnce(s)'
<1>1. Reads(s)' = Reads(s) BY DEF Reads, Else
<1>2. \A q \in Reads(s) : req'[q].res = req[q].res BY DEF Reads, Else
<1> QED BY <1>1, <1>2 DEF HostInv, ReadOnce

LEMMA WholeKept ==
  ASSUME HostInv, NEW r \in Requests, Else(r), NEW s \in Streams,
         Alike(s), lock'[s] = lock[s], lock[s] # r,
         req[r].at \in Ending => req'[r].at \in Ending \ {"settle"}
  PROVE  Whole(s)'
<1>1. Whole(s) BY DEF HostInv
<1>2. ASSUME entry[s].content # "none"
      PROVE  req'[s].at \in Ending /\ (req'[s].at = "settle" => req'[s].ok)
  BY <1>1, <1>2 DEF Whole, Else
<1>3. ASSUME lock[s] # None PROVE req'[lock[s]].at \in Locking /\ req'[lock[s]].of = s
  <2>1. lock[s] \in Requests BY <1>3 DEF HostInv, TypeOK, LocksTyped
  <2> QED BY <1>1, <1>3, <2>1 DEF Whole, Else
<1> QED BY <1>1, <1>2, <1>3 DEF Whole, Alike

LEMMA SavedKept ==
  ASSUME HostInv, saved' = saved,
         \A s \in Streams : entry[s].content = "closed" => entry'[s].content = "closed"
  PROVE  SavedOnce'
<1>1. \A i \in DOMAIN saved : saved[i] \in Files BY DEF HostInv, TypeOK, SavedTyped
<1>2. \A i \in DOMAIN saved : saved[i].of \in Streams BY <1>1 DEF Files
<1> QED BY <1>2 DEF HostInv, SavedOnce

(* A step that leaves what the streams hold and who holds them.                     *)
LEMMA QuietStep ==
  ASSUME HostInv, NEW r \in Requests, NEW p, NEW k, Advance(r, p, k), TypeOK',
         UNCHANGED <<lock, body, saved>>, \A s \in Streams : Alike(s),
         table' \subseteq table, picked' \subseteq picked \cup {r},
         req[r].at \notin Locking, req[r].at # "over",
         req[r].at \in Ending => p \in Ending \ {"settle"},
         Placed(r)', Holds(r)', Accounted(r)'
  PROVE  HostInv'
<1>1. Else(r) BY DEF Advance
<1>2. \A q \in Requests : Placed(q)' BY <1>1, PlacedKept
<1>3. \A q \in Requests : Holds(q)' BY <1>1, OthersHold DEF Alike
<1>4. \A q \in Requests : Accounted(q)' BY <1>1, AccountedKept DEF Alike
<1>5. ASSUME NEW s \in Streams PROVE Whole(s)'
  <2>1. lock[s] # r BY NobodyIsNone DEF HostInv, Whole
  <2> QED BY <1>1, <2>1, WholeKept DEF Advance
<1>6. \A s \in Streams : ReadOnce(s)' BY <1>1, ReadsKept DEF Alike, Advance
<1>7. SavedOnce' BY SavedKept DEF Alike
<1> QED BY <1>2, <1>3, <1>4, <1>5, <1>6, <1>7 DEF HostInv

(* A step that lets a request go on, or end, without holding anything.              *)
LEMMA QuietMove ==
  ASSUME HostInv, NEW r \in Requests, NEW p, NEW k, Advance(r, p, k),
         RequestsTyped', EntriesTyped', SetsTyped', EndsTyped',
         UNCHANGED <<lock, body, saved>>, \A s \in Streams : Alike(s),
         table' \subseteq table, picked' \subseteq picked,
         req[r].at \notin Locking, req[r].at \notin Ending, p \notin Locking,
         p \notin {"fetch", "copy"},
         p \in Using => req[r].method \in Users,
         p = "insert" => req[r].method \in Openers \cup {"http", "upload"},
         p \in {"body", "deliver"} => req[r].method = "read",
         p = "body" => entry[req[r].of].content = "http",
         p = "register" => req[r].method = "pick",
         req[r].at \in {"deliver", "forget"} => p \in Ending \cup {"forget"}
  PROVE  HostInv'
<1>1. TypeOK' BY DEF HostInv, TypeOK, LocksTyped, SavedTyped
<1>2. Placed(r) /\ Accounted(r) /\ Whole(r) BY DEF HostInv
<1>3. req[r].at # "over" BY DEF Ending
<1>4. Placed(r)'
  <2>1. req[r].method \in Users => req[r].of # r /\ req[r].of \in Requests
    BY <1>2, <1>3 DEF Placed, Told
  <2>2. req[r].method \in Users => Told(req[r].of)'
    BY <1>2, <2>1 DEF Placed, Told, Advance, Else
  <2>3. req[r].res # None => p \in Ending \cup {"deliver", "forget"} BY <1>2 DEF Placed
  <2>4. p \notin {"reading", "fetch", "copy"} BY DEF Locking
  <2> QED BY <1>2, <2>2, <2>3, <2>4 DEF Placed, Advance
<1>5. Holds(r)'
  <2>1. req'[r].at \notin Locking /\ req'[r].at \notin {"fetch", "copy"} BY DEF Advance
  <2>2. ASSUME req'[r].at = "body" PROVE entry'[req'[r].of].content = "http"
    <3>1. req[r].of \in Streams /\ req[r].method = "read" BY <1>2, <2>2 DEF Placed, Advance, Users
    <3> QED BY <2>2, <3>1 DEF Alike, Advance
  <2> QED BY <2>1, <2>2 DEF Holds, Locking, Committing
<1>6. Accounted(r)'
  <2>1. r \notin table /\ r \notin picked BY <1>2 DEF Accounted, Whole
  <2> QED BY <2>1 DEF Accounted
<1> QED BY <1>1, <1>3, <1>4, <1>5, <1>6, QuietStep

(* The steps that touch no stream.                                                  *)
LEMMA StreamsAlike ==
  ASSUME HostInv, UNCHANGED streams
  PROVE  /\ EntriesTyped' /\ table' = table /\ UNCHANGED <<lock, body>>
         /\ \A s \in Streams : Alike(s)
BY DEF HostInv, TypeOK, EntriesTyped, streams, Alike

LEMMA OpeningSteps ==
  ASSUME HostInv, NEW r \in Requests,
         Open(r) \/ Respond(r) \/ SendEnds(r) \/ Refused(r) \/ ReadBody(r) \/ Upload(r)
         \/ Answer(r) \/ Navigate(r)
  PROVE  HostInv'
<1>1. RequestsTyped /\ Placed(r) BY DEF HostInv, TypeOK
<1>2. UNCHANGED streams /\ UNCHANGED others
  BY DEF Open, Respond, SendEnds, Refused, ReadBody, Upload, Answer, Navigate
<1>3. SetsTyped' /\ EndsTyped'
  BY <1>2 DEF HostInv, TypeOK, SetsTyped, EndsTyped, streams, others
<1>4. picked' = picked /\ saved' = saved BY <1>2 DEF others
<1>5. PICK p \in Ways, k \in BOOLEAN :
         /\ Advance(r, p, k) /\ RequestsTyped'
         /\ \/ req[r].at = "run" /\ p = "settle"
            \/ req[r].at = "run" /\ p = "insert" /\ req[r].method \in Openers \cup {"http", "upload"}
            \/ req[r].at = "run" /\ p = "register" /\ req[r].method = "pick"
            \/ req[r].at = "use" /\ p \in {"settle", "run"}
            \/ /\ req[r].at = "use" /\ p = "body" /\ req[r].method = "read"
               /\ entry[req[r].of].content = "http"
  <2>0. req[r].ok \in BOOLEAN BY <1>1 DEF RequestsTyped, RequestRecords
  <2>1. CASE Open(r)
    <3>1. PICK p \in {"insert", "settle"} : Go(r, p) BY <2>1 DEF Open
    <3> QED BY <1>1, <2>0, <2>1, <3>1, GoAdvances DEF Open, At, Ways
  <2>2. CASE Respond(r)
    <3>1. PICK p \in {"insert", "settle"} : Go(r, p) BY <2>2 DEF Respond, Fail
    <3> QED BY <1>1, <2>0, <2>2, <3>1, GoAdvances DEF Respond, At, Ways
  <2>3. CASE SendEnds(r) BY <1>1, <2>0, <2>3, FailAdvances DEF SendEnds, At, Ways
  <2>4. CASE Refused(r) BY <1>1, <2>0, <2>4, FailAdvances DEF Refused, At, Ways
  <2>5. CASE ReadBody(r)
    <3>1. Go(r, "body") /\ At(r, "use") /\ req[r].method = "read" /\ entry[req[r].of].content = "http"
      BY <2>5 DEF ReadBody, Holding
    <3> QED BY <1>1, <2>0, <3>1, GoAdvances DEF At, Ways
  <2>6. CASE Upload(r) BY <1>1, <2>0, <2>6, GoAdvances DEF Upload, Holding, At, Ways
  <2>7. CASE Answer(r)
    <3>1. PICK p \in {"register", "settle"} : Go(r, p) BY <2>7 DEF Answer, Fail
    <3> QED BY <1>1, <2>0, <2>7, <3>1, GoAdvances DEF Answer, At, Ways
  <2>8. CASE Navigate(r) BY <1>1, <2>0, <2>8, FailAdvances, SucceedAdvances DEF Navigate, At, Ways
  <2> QED BY <2>1, <2>2, <2>3, <2>4, <2>5, <2>6, <2>7, <2>8
<1>6. /\ req[r].at \notin Locking \cup Ending \cup {"deliver", "forget"}
      /\ p \notin Locking \cup {"fetch", "copy", "deliver"}
  BY <1>5 DEF Locking, Ending
<1>7. /\ p \in Using \cup {"body"} => req[r].method = "read" /\ entry[req[r].of].content = "http"
      /\ p = "insert" => req[r].method \in Openers \cup {"http", "upload"}
      /\ p = "register" => req[r].method = "pick"
  BY <1>5 DEF Using
<1>8. EntriesTyped' /\ table' = table /\ UNCHANGED <<lock, body>> /\ \A s \in Streams : Alike(s)
  BY <1>2, StreamsAlike
<1> QED BY <1>3, <1>4, <1>5, <1>6, <1>7, <1>8, QuietMove DEF Users

(* The steps that end, or go on, with the table of streams or the picked files.     *)
LEMMA TableSteps ==
  ASSUME HostInv, NEW r \in Requests,
         Find(r) \/ Forget(r) \/ Take(r) \/ Load(r) \/ OpenWindow(r) \/ KeepWindow(r) \/ Shut(r)
  PROVE  HostInv'
<1>1. RequestsTyped /\ Placed(r) BY DEF HostInv, TypeOK
<1>2. table' \subseteq table /\ picked' \subseteq picked /\ UNCHANGED <<entry, lock, body, saved>>
  BY DEF Find, Forget, Take, Load, OpenWindow, KeepWindow, Shut, streams, others
<1>3. UNCHANGED <<phase, late, budget>>
  BY DEF Find, Forget, Take, Load, OpenWindow, KeepWindow, Shut, others
<1>4. SetsTyped' BY <1>2, <1>3 DEF HostInv, TypeOK, SetsTyped
<1>5. EndsTyped'
  <2>1. CASE window' = window BY <1>3, <2>1 DEF HostInv, TypeOK, EndsTyped
  <2>2. CASE \E w, x : window' = [window EXCEPT ![w] = x] /\ x \in {"none", "open", "known"}
    BY <1>3, <2>2 DEF HostInv, TypeOK, EndsTyped
  <2> QED BY <2>1, <2>2
       DEF Find, Forget, Take, Load, OpenWindow, KeepWindow, Shut, others
<1>6. EntriesTyped' /\ \A s \in Streams : Alike(s)
  BY <1>2 DEF HostInv, TypeOK, EntriesTyped, Alike
<1>7. PICK p \in Ways, k \in BOOLEAN :
         /\ Advance(r, p, k) /\ RequestsTyped'
         /\ \/ req[r].at \in {"entry", "forget", "run", "load", "opened"} /\ p = "settle"
            \/ req[r].at = "entry" /\ p = "use"
            \/ req[r].at = "run" /\ p \in {"load", "opened"}
  <2>0. req[r].ok \in BOOLEAN BY <1>1 DEF RequestsTyped, RequestRecords
  <2>1. CASE Find(r)
    <3>1. PICK p \in {"use", "settle"} : Go(r, p) BY <2>1 DEF Find, Fail
    <3> QED BY <1>1, <2>0, <2>1, <3>1, GoAdvances DEF Find, At, Ways
  <2>2. CASE Forget(r) BY <1>1, <2>0, <2>2, GoAdvances DEF Forget, At, Ways
  <2>3. CASE Take(r)
    <3>1. PICK p \in {"load", "settle"} : Go(r, p) BY <2>3 DEF Take, Fail
    <3> QED BY <1>1, <2>0, <2>3, <3>1, GoAdvances DEF Take, At, Ways
  <2>4. CASE Load(r) BY <1>1, <2>0, <2>4, FailAdvances, SucceedAdvances DEF Load, At, Ways
  <2>5. CASE OpenWindow(r)
    <3>1. PICK p \in {"opened", "settle"} : Go(r, p) BY <2>5 DEF OpenWindow, Fail
    <3> QED BY <1>1, <2>0, <2>5, <3>1, GoAdvances DEF OpenWindow, At, Ways
  <2>6. CASE KeepWindow(r)
    BY <1>1, <2>0, <2>6, FailAdvances, SucceedAdvances DEF KeepWindow, At, Ways
  <2>7. CASE Shut(r) BY <1>1, <2>0, <2>7, FailAdvances, SucceedAdvances DEF Shut, At, Ways
  <2> QED BY <2>1, <2>2, <2>3, <2>4, <2>5, <2>6, <2>7
<1>8. p \in Using => req[r].method \in Users BY <1>1, <1>7 DEF Placed, Using
<1> QED BY <1>2, <1>4, <1>5, <1>6, <1>7, <1>8, QuietMove DEF Locking, Ending

LEMMA Begins ==
  ASSUME HostInv, NEW r \in Requests, Begin(r)
  PROVE  HostInv'
<1>1. RequestsTyped /\ EntriesTyped /\ SetsTyped BY DEF HostInv, TypeOK
<1>2. Prune /\ UNCHANGED others /\ req[r].at = "begin" BY DEF Begin, At
<1>3. PICK p \in {"clean", "entry", "run"} :
         Go(r, p) /\ (p = "entry" => req[r].method \in Users)
  BY DEF Begin
<1>4. Advance(r, p, req[r].ok) /\ RequestsTyped' BY <1>1, <1>3, GoAdvances DEF Ways
<1>5. /\ EntriesTyped' /\ UNCHANGED <<lock, body>> /\ table' \subseteq table
      /\ \A s \in Streams : Alike(s)
  BY <1>1, <1>2, PruneKeeps
<1>6. SetsTyped' /\ EndsTyped' /\ picked' = picked /\ saved' = saved
  BY <1>2, <1>5 DEF HostInv, TypeOK, SetsTyped, EndsTyped, others
<1>7. req[r].at \notin Locking \cup Ending \cup {"deliver", "forget"} BY <1>2 DEF Locking, Ending
<1>8. p \notin Locking \cup {"fetch", "copy", "body", "deliver", "insert", "register"}
  BY DEF Locking
<1>9. p \in Using => req[r].method \in Users BY <1>3 DEF Using
<1> QED BY <1>4, <1>5, <1>6, <1>7, <1>8, <1>9, QuietMove

(* The last look at the invocation: what the request opened and cannot be told of   *)
(* is taken away, because nobody can hold a stream or a handle that was not told.   *)
LEMMA Settles ==
  ASSUME HostInv, NEW r \in Requests, Settle(r)
  PROVE  HostInv'
<1> DEFINE k == req[r].ok /\ ~Over(r)
<1>1. RequestsTyped /\ EntriesTyped /\ SetsTyped BY DEF HostInv, TypeOK
<1>2. Prune /\ req[r].at = "settle" /\ UNCHANGED <<phase, late, window, saved, budget>>
  BY DEF Settle, At
<1>3. Advance(r, "clean", k) /\ RequestsTyped' BY <1>1, SettleAdvances DEF Settle
<1>4. /\ EntriesTyped' /\ UNCHANGED <<lock, body>> /\ table' \subseteq table
      /\ \A s \in Streams : Alike(s)
  BY <1>1, <1>2, PruneKeeps
<1>5. picked' \subseteq picked /\ (Over(r) => picked' = picked \ Orphans(r)) BY DEF Settle
<1>6. TypeOK'
  BY <1>2, <1>3, <1>4, <1>5
     DEF HostInv, TypeOK, LocksTyped, SavedTyped, SetsTyped, EndsTyped
<1>7. Placed(r) /\ Accounted(r) /\ Whole(r) BY DEF HostInv
<1>8. Placed(r)'
  <2>1. req[r].method \in Users => req[r].of # r /\ req[r].of \in Requests
    BY <1>2, <1>7 DEF Placed, Told
  <2>2. req[r].method \in Users => Told(req[r].of)'
    BY <1>3, <1>7, <2>1 DEF Placed, Told, Advance, Else
  <2> QED BY <1>3, <1>7, <2>2 DEF Placed, Advance, Using, Ending
<1>9. Holds(r)' BY <1>3 DEF Holds, Advance, Locking, Committing
<1>10. lock[r] = None
  <2>1. ASSUME lock[r] # None PROVE FALSE
    <3>1. lock[r] \in Requests BY <2>1 DEF HostInv, TypeOK, LocksTyped
    <3>2. req[lock[r]].at \in Locking /\ req[lock[r]].of = r BY <1>7, <2>1 DEF Whole
    <3>3. Placed(lock[r]) BY <3>1 DEF HostInv
    <3>4. req[lock[r]].method \in Users BY <3>2, <3>3 DEF Placed, Using, Locking
    <3> QED BY <1>2, <3>2, <3>3, <3>4 DEF Placed, Told
  <2> QED BY <2>1
<1>11. r \in table' => ~Over(r)
  BY <1>1, <1>2, <1>10, PruneKeeps DEF Prune, Stale, Sound
<1>12. Accounted(r)'
  <2>1. r \in table' => entry'[r].content # "none" /\ req'[r].ok
    BY <1>2, <1>3, <1>4, <1>7, <1>11 DEF Accounted, Whole, Alike, Advance
  <2>2. r \in picked' => req[r].method = "pick" /\ req[r].ok /\ ~Over(r)
    BY <1>5, <1>7 DEF Accounted, Orphans
  <2>3. r \in picked' => req'[r].method = "pick" /\ req'[r].at \in Ending /\ req'[r].ok
    BY <1>3, <2>2 DEF Advance, Ending
  <2> QED BY <2>1, <2>3 DEF Accounted
<1>13. req[r].at \notin Locking /\ "clean" \in Ending \ {"settle"} BY <1>2 DEF Locking, Ending
<1> QED BY <1>2, <1>3, <1>4, <1>5, <1>6, <1>8, <1>9, <1>12, <1>13, QuietStep

LEMMA Cleans ==
  ASSUME HostInv, NEW r \in Requests, Clean(r)
  PROVE  HostInv'
<1>1. RequestsTyped /\ EntriesTyped /\ SetsTyped BY DEF HostInv, TypeOK
<1>2. Prune /\ req[r].at = "clean" /\ UNCHANGED others BY DEF Clean, At
<1>3. Advance(r, "over", req[r].ok) /\ RequestsTyped' BY <1>1, GoAdvances DEF Clean, Ways
<1>4. /\ EntriesTyped' /\ UNCHANGED <<lock, body>> /\ table' \subseteq table
      /\ \A s \in Streams : Alike(s)
  BY <1>1, <1>2, PruneKeeps
<1>5. picked' = picked /\ saved' = saved BY <1>2 DEF others
<1>6. TypeOK'
  BY <1>2, <1>3, <1>4
     DEF HostInv, TypeOK, LocksTyped, SavedTyped, SetsTyped, EndsTyped, others
<1>7. Placed(r) /\ Accounted(r) /\ Whole(r) BY DEF HostInv
<1>8. Placed(r)'
  <2>1. req[r].method \in Users => req[r].of # r /\ req[r].of \in Requests
    BY <1>2, <1>7 DEF Placed, Told
  <2>2. req[r].method \in Users => Told(req[r].of)'
    BY <1>3, <1>7, <2>1 DEF Placed, Told, Advance, Else
  <2> QED BY <1>3, <1>7, <2>2 DEF Placed, Advance, Using, Ending
<1>9. Holds(r)' BY <1>3 DEF Holds, Advance, Locking, Committing
<1>10. Accounted(r)' BY <1>2, <1>3, <1>4, <1>5, <1>7 DEF Accounted, Alike, Advance, Ending
<1>11. req[r].at \notin Locking /\ "over" \in Ending \ {"settle"} BY <1>2 DEF Locking, Ending
<1>12. req[r].at # "over" BY <1>2
<1> QED BY <1>3, <1>4, <1>5, <1>6, <1>8, <1>9, <1>10, <1>11, <1>12, QuietStep

LEMMA Picks ==
  ASSUME HostInv, NEW r \in Requests, Pick(r)
  PROVE  HostInv'
<1>1. RequestsTyped BY DEF HostInv, TypeOK
<1>2. /\ req[r].at = "register" /\ UNCHANGED streams
      /\ UNCHANGED <<phase, late, window, saved, budget>>
  BY DEF Pick, At
<1>3. /\ EntriesTyped' /\ table' = table /\ UNCHANGED <<lock, body>> /\ \A s \in Streams : Alike(s)
  BY <1>2, StreamsAlike
<1>4. req[r].ok \in BOOLEAN BY <1>1 DEF RequestsTyped, RequestRecords
<1>5. PICK k \in BOOLEAN :
         /\ Advance(r, "settle", k) /\ RequestsTyped'
         /\ picked' = picked \/ (k = TRUE /\ picked' = picked \cup {r})
  BY <1>1, <1>4, FailAdvances, SucceedAdvances DEF Pick
<1>6. TypeOK'
  BY <1>2, <1>3, <1>5 DEF HostInv, TypeOK, LocksTyped, SavedTyped, SetsTyped, EndsTyped
<1>7. Placed(r) /\ Accounted(r) /\ Whole(r) BY DEF HostInv
<1>8. req[r].method = "pick" BY <1>2, <1>7 DEF Placed
<1>9. Placed(r)' BY <1>2, <1>5, <1>7, <1>8 DEF Placed, Advance, Using, Ending, Users
<1>10. Holds(r)' BY <1>5 DEF Holds, Advance, Locking, Committing
<1>11. Accounted(r)'
  <2>1. r \notin table /\ r \notin picked BY <1>2, <1>7 DEF Accounted, Whole, Ending
  <2>2. r \in picked' => k = TRUE BY <1>5, <2>1
  <2> QED BY <1>3, <1>5, <1>8, <2>1, <2>2 DEF Accounted, Advance, Ending
<1>12. req[r].at \notin Locking \cup Ending BY <1>2 DEF Locking, Ending
<1> QED BY <1>2, <1>3, <1>5, <1>6, <1>9, <1>10, <1>11, <1>12, QuietStep

(* The steps that close a stream.                                                   *)
LEMMA Closes ==
  ASSUME HostInv, NEW r \in Requests, Deliver(r) \/ Close(r)
  PROVE  HostInv'
<1> DEFINE s == req[r].of
<1>1. RequestsTyped /\ EntriesTyped /\ Placed(r) BY DEF HostInv, TypeOK
<1>2. UNCHANGED <<table, lock, body>> /\ UNCHANGED others BY DEF Deliver, Close
<1>3. SetsTyped' /\ EndsTyped' /\ picked' = picked /\ saved' = saved
  BY <1>2 DEF HostInv, TypeOK, SetsTyped, EndsTyped, others
<1>4. req[r].ok \in BOOLEAN BY <1>1 DEF RequestsTyped, RequestRecords
<1>5. entry' = entry \/ entry' = [entry EXCEPT ![s].closed = TRUE] BY DEF Deliver, Close
<1>6. EntriesTyped' /\ \A t \in Streams : Alike(t)
  <2>1. CASE entry' = entry BY <1>1, <2>1 DEF EntriesTyped, Alike
  <2>2. CASE entry' = [entry EXCEPT ![s].closed = TRUE]
    <3>1. ASSUME NEW t \in Streams PROVE entry'[t] \in EntryRecords /\ Alike(t)
      <4>1. entry[t] \in EntryRecords BY <1>1 DEF EntriesTyped
      <4>2. entry'[t] = entry[t] \/ entry'[t] = [entry[t] EXCEPT !.closed = TRUE]
        BY <1>1, <2>2 DEF EntriesTyped
      <4> QED BY <4>1, <4>2 DEF EntryRecords, Alike
    <3> QED BY <1>1, <2>2, <3>1 DEF EntriesTyped
  <2> QED BY <1>5, <2>1, <2>2
<1>7. PICK p \in {"settle", "forget"}, k \in BOOLEAN : Advance(r, p, k) /\ RequestsTyped'
  <2>1. "settle" \in Ways /\ "forget" \in Ways BY DEF Ways
  <2>2. \/ Fail(r) \/ Succeed(r)
        \/ req' = [req EXCEPT ![r].at = "forget", ![r].ok = TRUE]
    BY DEF Deliver, Close
  <2> QED BY <1>1, <1>4, <2>1, <2>2, FailAdvances, SucceedAdvances, AnswerAdvances
<1>8. req[r].at \in {"deliver", "use"} BY DEF Deliver, Close, At
<1>9. req[r].method \in Users BY <1>1, <1>8 DEF Placed, Using
<1>10. /\ req[r].at \notin Locking \cup Ending /\ p \notin Locking
       /\ p \notin {"fetch", "copy", "insert", "body", "deliver", "register"}
       /\ p \in Ending \cup {"forget"}
  BY <1>8 DEF Locking, Ending
<1> QED BY <1>2, <1>3, <1>6, <1>7, <1>9, <1>10, QuietMove

(* The steps that move no request.                                                  *)
LEMMA Elsewhere ==
  ASSUME HostInv, req' = req, EntriesTyped', SetsTyped', EndsTyped',
         UNCHANGED <<lock, body, saved>>, \A s \in Streams : Alike(s),
         table' \subseteq table, picked' = picked
  PROVE  HostInv'
<1>1. TypeOK' BY DEF HostInv, TypeOK, RequestsTyped, LocksTyped, SavedTyped
<1>2. ASSUME NEW q \in Requests PROVE Placed(q)' /\ Accounted(q)'
  BY DEF HostInv, Placed, Told, Accounted, Alike
<1>3. ASSUME NEW q \in Requests PROVE Holds(q)'
  <2>1. Holds(q) /\ Placed(q) BY DEF HostInv
  <2>2. CASE req[q].at \in Using
    <3>1. req[q].of \in Streams BY <2>1, <2>2 DEF Placed
    <3>2. Alike(req[q].of) BY <3>1
    <3> QED BY <2>1, <3>2 DEF Holds, Alike
  <2>3. CASE req[q].at \notin Using BY <2>3 DEF Holds, Using, Locking, Committing
  <2> QED BY <2>2, <2>3
<1>4. ASSUME NEW s \in Streams PROVE Whole(s)' /\ ReadOnce(s)'
  <2>1. Reads(s)' = Reads(s) BY DEF Reads
  <2> QED BY <2>1 DEF HostInv, Whole, ReadOnce, Alike
<1>5. SavedOnce' BY SavedKept DEF Alike
<1> QED BY <1>1, <1>2, <1>3, <1>4, <1>5 DEF HostInv

LEMMA Endings ==
  ASSUME HostInv,
         \/ \E r \in Requests : Monitor(r) \/ DeadlinePasses(r)
         \/ \E c \in Owners : Cancel(c) \/ Leave(c) \/ Sweep(c)
  PROVE  HostInv'
<1>1. RequestsTyped /\ EntriesTyped /\ SetsTyped /\ EndsTyped BY DEF HostInv, TypeOK
<1>2. req' = req /\ UNCHANGED <<picked, saved, budget>>
  BY DEF Monitor, DeadlinePasses, Cancel, Leave, Sweep, Rest
<1>3. UNCHANGED streams \/ Prune
  BY DEF Monitor, DeadlinePasses, Cancel, Leave, Sweep
<1>4. /\ EntriesTyped' /\ UNCHANGED <<lock, body>> /\ table' \subseteq table
      /\ \A s \in Streams : Alike(s)
  BY <1>1, <1>3, PruneKeeps, StreamsAlike
<1>5. late' \subseteq Requests
  <2>1. \/ late' = late
        \/ \E r \in Requests : late' = late \cup {r}
    BY DEF Monitor, DeadlinePasses, Cancel, Leave, Sweep
  <2> QED BY <1>1, <2>1 DEF SetsTyped
<1>6. SetsTyped' BY <1>1, <1>2, <1>4, <1>5 DEF SetsTyped
<1>7. EndsTyped'
  <2>1. window' = window \/ \E w : window' = [window EXCEPT ![w] = "none"]
    BY DEF Monitor, DeadlinePasses, Cancel, Leave, Sweep, Rest
  <2>2. phase' = phase \/ \E c, x : /\ phase' = [phase EXCEPT ![c] = x]
                                    /\ x \in {"open", "cancelled", "left", "swept"}
    BY DEF Monitor, DeadlinePasses, Cancel, Leave, Sweep
  <2>3. window' \in [Requests -> {"none", "open", "known"}] BY <1>1, <2>1 DEF EndsTyped
  <2>4. phase' \in [Owners -> {"open", "cancelled", "left", "swept"}] BY <1>1, <2>2 DEF EndsTyped
  <2> QED BY <1>1, <1>2, <2>3, <2>4 DEF EndsTyped
<1> QED BY <1>2, <1>4, <1>6, <1>7, Elsewhere

(* A step of a request that uses a stream, and touches no other.                    *)
LEMMA UseStep ==
  ASSUME HostInv, NEW r \in Requests, Else(r), TypeOK', NEW s \in Streams, s = req[r].of,
         req'[r].method = req[r].method, req'[r].of = s,
         req[r].at \in Using, req'[r].at \in Using \cup {"settle"},
         req'[r].at \in {"reading", "body", "fetch", "copy", "deliver"} => req[r].method = "read",
         req'[r].res # None => req'[r].at \in {"settle", "deliver", "forget"},
         table' = table, picked' = picked,
         \A t \in Streams \ {s} : entry'[t] = entry[t] /\ lock'[t] = lock[t] /\ body'[t] = body[t],
         \/ /\ entry'[s].content = entry[s].content /\ entry'[s].torn = entry[s].torn
            /\ entry'[s].target = entry[s].target
         \/ lock[s] \in {None, r} /\ entry[s].content \notin {"file", "http"},
         \/ entry'[s].pos = entry[s].pos /\ entry'[s].fetched = entry[s].fetched
         \/ body[s] \in {None, r} \/ entry[s].content = "file",
         lock'[s] = lock[s] \/ lock[s] \in {None, r},
         body'[s] = body[s] \/ body[s] \in {None, r},
         entry'[s].content # "none",
         saved' = saved \/ (\A i \in DOMAIN saved' :
                               \/ i \in DOMAIN saved /\ saved'[i] = saved[i]
                               \/ saved'[i].of = s /\ lock[s] = r),
         Holds(r)', Whole(s)', SavedOnce', \A t \in Streams : ReadOnce(t)'
  PROVE  HostInv'
<1>1. Placed(r) /\ Accounted(r) /\ Whole(r) BY DEF HostInv
<1>2. req[r].method \in Users /\ Told(s) BY <1>1 DEF Placed
<1>3. req[r].at \notin Ending BY DEF Using, Ending
<1>4. entry[r].content = "none" /\ s # r BY <1>1, <1>2, <1>3 DEF Whole, Told, Ending
<1>5. Placed(r)'
  <2>1. Told(s)' BY <1>2, <1>4 DEF Told, Else
  <2>2. req'[r].at # "insert" /\ req'[r].at # "register" BY DEF Using
  <2> QED BY <1>2, <2>1, <2>2 DEF Placed, Ending
<1>6. \A q \in Requests : Placed(q)' BY <1>3, <1>5, PlacedKept DEF Ending
<1>7. Accounted(r)' BY <1>1, <1>3, <1>4 DEF Accounted
<1>8. \A q \in Requests : Accounted(q)' BY <1>7, AccountedKept
<1>9. \A q \in Requests : Holds(q)'
  <2>1. \A t \in Streams :
            /\ \/ /\ entry'[t].content = entry[t].content /\ entry'[t].torn = entry[t].torn
                  /\ entry'[t].target = entry[t].target
               \/ lock[t] \in {None, r} /\ entry[t].content \notin {"file", "http"}
            /\ \/ entry'[t].pos = entry[t].pos /\ entry'[t].fetched = entry[t].fetched
               \/ body[t] \in {None, r} \/ entry[t].content = "file"
            /\ lock'[t] = lock[t] \/ lock[t] \in {None, r}
            /\ body'[t] = body[t] \/ body[t] \in {None, r}
    OBVIOUS
  <2>2. \A i \in DOMAIN saved' :
            \/ i \in DOMAIN saved /\ saved'[i] = saved[i]
            \/ saved'[i].of \in Streams /\ lock[saved'[i].of] = r
    OBVIOUS
  <2> QED BY <2>1, <2>2, OthersHold
<1>10. ASSUME NEW t \in Streams, t # s PROVE Whole(t)'
  <2>1. lock[t] # r BY <1>10, NobodyIsNone DEF HostInv, Whole
  <2>2. Alike(t) BY <1>10 DEF Alike
  <2> QED BY <1>3, <1>10, <2>1, <2>2, WholeKept
<1> QED BY <1>6, <1>8, <1>9, <1>10 DEF HostInv

(* A step that takes or releases what a request holds of a stream, and leaves what  *)
(* the stream holds.                                                                *)
LEMMA HeldStep ==
  ASSUME HostInv, NEW r \in Requests, NEW p \in Ways, NEW k, Advance(r, p, k), RequestsTyped',
         req[r].at \in Using, NEW s \in Streams, s = req[r].of,
         UNCHANGED <<table, entry>>, UNCHANGED others,
         \/ /\ req[r].at = "use" /\ p \in {"writing", "reading"} /\ lock[s] = None
            /\ p = "writing" => entry[s].content = "writer"
            /\ p = "reading" => entry[s].content = "file" /\ req[r].method = "read"
            /\ lock' = [lock EXCEPT ![s] = r] /\ body' = body
         \/ /\ req[r].at = "body" /\ p \in {"fetch", "copy"} /\ body[s] = None
            /\ p = "copy" => entry[s].pos < entry[s].fetched
            /\ lock' = lock /\ body' = [body EXCEPT ![s] = r]
         \/ /\ req[r].at = "body" /\ p = "settle" /\ lock' = lock /\ body' = body
         \/ /\ req[r].at \in {"fetch", "copy"} /\ p = "settle"
            /\ lock' = lock /\ body' = [body EXCEPT ![s] = None]
         \/ /\ req[r].at = "sync" /\ p = "commit" /\ lock' = lock /\ body' = body
         \/ /\ req[r].at \in Locking /\ p \in {"settle", "forget"}
            /\ lock' = [lock EXCEPT ![s] = None] /\ body' = body
  PROVE  HostInv'
<1>1. RequestsTyped /\ LocksTyped /\ Placed(r) /\ Holds(r) BY DEF HostInv, TypeOK
<1>2. UNCHANGED <<table, entry>> /\ UNCHANGED others OBVIOUS
<1>3. req[r].at \in {"use", "body", "fetch", "copy"} \cup Locking BY DEF Locking
<1>4. s = req[r].of /\ Told(s) BY <1>1 DEF Placed
<1>7. /\ req[r].at \in Locking => lock[s] = r
      /\ req[r].at \in {"fetch", "copy"} => body[s] = r
  BY <1>1, <1>4 DEF Holds
<1>8. /\ \A t \in Streams \ {s} : lock'[t] = lock[t] /\ body'[t] = body[t]
      /\ LocksTyped'
  BY <1>1 DEF LocksTyped
<1>9. /\ lock'[s] = lock[s] \/ lock[s] \in {None, r}
      /\ body'[s] = body[s] \/ body[s] \in {None, r}
      /\ p \in Locking => lock'[s] = r
      /\ p \in {"fetch", "copy"} => body'[s] = r
      /\ lock'[s] = None \/ (lock'[s] = r /\ p \in Locking)
         \/ (lock'[s] = lock[s] /\ req[r].at \notin Locking)
  <2>1. lock[s] \in Requests \cup {None} /\ body[s] \in Requests \cup {None}
    BY <1>1, <1>4 DEF LocksTyped
  <2> QED BY <1>1, <1>4, <1>7, <2>1 DEF Locking, LocksTyped
<1>10. TypeOK'
  BY <1>2, <1>8
     DEF HostInv, TypeOK, EntriesTyped, SavedTyped, SetsTyped, EndsTyped, others
<1>11. Holds(r)'
  <2>1. req'[r].at = p /\ req'[r].of = s BY <1>4 DEF Advance
  <2>2. p = "commit" => req[r].at = "sync" OBVIOUS
  <2>3. p \in {"fetch", "copy"} => req[r].at = "body" OBVIOUS
  <2>4. p \notin {"sync", "body"} OBVIOUS
  <2>5. /\ p \in Committing => /\ entry[s].content = "closed" /\ ~entry[s].torn
                               /\ entry[s].target \in Destinations
                               /\ \A i \in DOMAIN saved : saved[i].of # s
        /\ p \in {"fetch", "copy"} => entry[s].content = "http"
    BY <1>1, <1>4, <2>2, <2>3, <2>4 DEF Holds, Committing
  <2>6. /\ p = "writing" => entry[s].content = "writer"
        /\ p = "reading" => entry[s].content = "file"
        /\ p = "copy" => entry[s].pos < entry[s].fetched
    OBVIOUS
  <2> QED BY <1>2, <1>9, <2>1, <2>4, <2>5, <2>6 DEF Holds, others
<1>12. Whole(s)'
  <2>1. Whole(s) /\ s # r BY <1>3, <1>4 DEF HostInv, Told, Locking
  <2>2. req'[s] = req[s] BY <1>4, <2>1 DEF Advance, Else
  <2>3. ASSUME lock'[s] # None PROVE req'[lock'[s]].at \in Locking /\ req'[lock'[s]].of = s
    <3>1. CASE lock'[s] = r /\ p \in Locking BY <1>4, <3>1 DEF Advance
    <3>2. CASE lock'[s] = lock[s] /\ req[r].at \notin Locking
      <4>1. lock[s] \in Requests /\ lock[s] # r
        BY <1>1, <1>4, <2>1, <2>3, <3>2 DEF LocksTyped, Whole
      <4> QED BY <2>1, <2>3, <3>2, <4>1 DEF Advance, Else, Whole
    <3> QED BY <1>9, <2>3, <3>1, <3>2
  <2> QED BY <1>2, <2>1, <2>2, <2>3 DEF Whole
<1>13. SavedOnce' BY <1>2, SavedKept DEF others
<1>14. \A t \in Streams : ReadOnce(t)' BY <1>2, ReadsKept DEF Advance
<1>15. /\ req[r].at \in Using /\ p \in Using \cup {"settle"}
       /\ req[r].at \notin {"deliver", "forget"} \cup Ending
  BY <1>3 DEF Using, Ending, Locking
<1>16. req[r].res = None BY <1>1, <1>15 DEF Placed
<1>17. p \in {"reading", "body", "fetch", "copy", "deliver"} => req[r].method = "read"
  BY <1>1 DEF Placed
<1>18. entry'[s].content # "none"
  BY <1>1, <1>2, <1>3, <1>4 DEF Holds, Committing, Locking
<1> QED
  BY <1>2, <1>4, <1>8, <1>9, <1>10, <1>11, <1>12, <1>13, <1>14, <1>15, <1>16, <1>17, <1>18, UseStep
     DEF Advance, others


LEMMA Holdings ==
  ASSUME HostInv, NEW r \in Requests,
         Write(r) \/ ReadFile(r) \/ TakeBody(r) \/ BodyEnds(r) \/ Sync(r)
  PROVE  HostInv'
<1>1. RequestsTyped /\ Placed(r) BY DEF HostInv, TypeOK
<1>2. UNCHANGED <<table, entry>> /\ UNCHANGED others
  BY DEF Write, ReadFile, TakeBody, BodyEnds, Sync
<1>3. req[r].at \in {"use", "body", "fetch", "sync"}
  BY DEF Write, ReadFile, TakeBody, BodyEnds, Sync, Holding, At
<1>4. PICK s \in Streams : s = req[r].of BY <1>1, <1>3 DEF Placed, Using
<1>5. req[r].ok \in BOOLEAN BY <1>1 DEF RequestsTyped, RequestRecords
<1>6. PICK p \in Ways, k \in BOOLEAN :
         /\ Advance(r, p, k) /\ RequestsTyped'
         /\ \/ /\ req[r].at = "use" /\ p \in {"writing", "reading"} /\ lock[s] = None
               /\ p = "writing" => entry[s].content = "writer"
               /\ p = "reading" => entry[s].content = "file" /\ req[r].method = "read"
               /\ lock' = [lock EXCEPT ![s] = r] /\ body' = body
            \/ /\ req[r].at = "body" /\ p \in {"fetch", "copy"} /\ body[s] = None
               /\ p = "copy" => entry[s].pos < entry[s].fetched
               /\ lock' = lock /\ body' = [body EXCEPT ![s] = r]
            \/ /\ req[r].at = "body" /\ p = "settle" /\ lock' = lock /\ body' = body
            \/ /\ req[r].at \in {"fetch", "copy"} /\ p = "settle"
               /\ lock' = lock /\ body' = [body EXCEPT ![s] = None]
            \/ /\ req[r].at = "sync" /\ p = "commit" /\ lock' = lock /\ body' = body
            \/ /\ req[r].at \in Locking /\ p \in {"settle", "forget"}
               /\ lock' = [lock EXCEPT ![s] = None] /\ body' = body
  <2>1. CASE Write(r)
    <3>1. Go(r, "writing") /\ lock[s] = None /\ lock' = [lock EXCEPT ![s] = r] /\ body' = body
          /\ req[r].at = "use" /\ entry[s].content = "writer"
      BY <1>4, <2>1 DEF Write, Holding, At
    <3> QED BY <1>1, <1>5, <3>1, GoAdvances DEF Ways, Locking
  <2>2. CASE ReadFile(r)
    <3>1. Go(r, "reading") /\ lock[s] = None /\ lock' = [lock EXCEPT ![s] = r] /\ body' = body
          /\ req[r].at = "use" /\ entry[s].content = "file" /\ req[r].method = "read"
      BY <1>4, <2>2 DEF ReadFile, Holding, At
    <3> QED BY <1>1, <1>5, <3>1, GoAdvances DEF Ways, Locking
  <2>3. CASE TakeBody(r)
    <3>1. PICK p \in {"fetch", "copy"} : Go(r, p) /\ (p = "copy" => entry[s].pos < entry[s].fetched)
      BY <1>4, <2>3 DEF TakeBody
    <3>2. req[r].at = "body" /\ body[s] = None /\ lock' = lock /\ body' = [body EXCEPT ![s] = r]
      BY <1>4, <2>3 DEF TakeBody, At
    <3> QED BY <1>1, <1>5, <3>1, <3>2, GoAdvances DEF Ways, Locking
  <2>4. CASE BodyEnds(r)
    <3>1. Fail(r) /\ lock' = lock BY <2>4 DEF BodyEnds
    <3>2. \/ req[r].at = "body" /\ body' = body
          \/ req[r].at = "fetch" /\ body' = [body EXCEPT ![s] = None]
      BY <1>4, <2>4 DEF BodyEnds, At
    <3> QED BY <1>1, <1>5, <3>1, <3>2, FailAdvances DEF Ways, Locking
  <2>5. CASE Sync(r)
    <3>1. PICK p \in {"commit", "forget"} :
            /\ Go(r, p)
            /\ p = "commit" => lock' = lock
            /\ p = "forget" => lock' = [lock EXCEPT ![s] = None]
      BY <1>4, <2>5 DEF Sync
    <3>2. req[r].at = "sync" /\ body' = body BY <2>5 DEF Sync, At
    <3> QED BY <1>1, <1>5, <3>1, <3>2, GoAdvances DEF Ways, Locking
  <2> QED BY <2>1, <2>2, <2>3, <2>4, <2>5
<1>7. req[r].at \in Using BY <1>3 DEF Using
<1> QED BY <1>2, <1>4, <1>6, <1>7, HeldStep

(* A chunk is handed to one read, and the end is told when all of them were.        *)
LEMMA ChunkHanded ==
  ASSUME HostInv, NEW r \in Requests, Else(r), NEW s \in Streams, s = req[r].of, req'[r].of = s,
         req[r].method = "read", req'[r].method = "read", req[r].res = None,
         NEW n \in Nat, req'[r].res = n,
         \/ n = entry[s].pos + 1 /\ entry'[s].pos = n /\ n <= Chunks
         \/ n = 0 /\ entry'[s].pos = entry[s].pos /\ entry[s].pos = Chunks,
         \A t \in Streams \ {s} : entry'[t].pos = entry[t].pos
  PROVE  \A t \in Streams : ReadOnce(t)'
<1>1. ASSUME NEW t \in Streams, t # s PROVE ReadOnce(t)'
  <2>1. Reads(t)' = Reads(t) BY <1>1 DEF Reads, Else
  <2>2. \A q \in Reads(t) : req'[q].res = req[q].res BY <1>1 DEF Reads, Else
  <2> QED BY <1>1, <2>1, <2>2 DEF HostInv, ReadOnce
<1>2. ReadOnce(s)'
  <2>1. n # None /\ entry[s].pos \in Nat
    BY DEF HostInv, TypeOK, EntriesTyped, EntryRecords
  <2>2. Reads(s)' = Reads(s) \cup {r} /\ r \notin Reads(s) BY <2>1 DEF Reads, Else
  <2>3. \A q \in Reads(s) : req'[q].res = req[q].res /\ req[q].res \in Nat
    <3>1. \A q \in Requests : req[q].res \in Nat \cup {None}
      BY DEF HostInv, TypeOK, RequestsTyped, RequestRecords
    <3> QED BY <2>2, <3>1 DEF Reads, Else
  <2>4. /\ \A q \in Reads(s) :
             req[q].res <= entry[s].pos /\ (req[q].res = 0 => entry[s].pos = Chunks)
        /\ \A q1, q2 \in Reads(s) : req[q1].res = req[q2].res /\ req[q1].res # 0 => q1 = q2
        /\ \A m \in 1 .. entry[s].pos : \E q \in Reads(s) : req[q].res = m
    BY DEF HostInv, ReadOnce
  <2>5. CASE n = entry[s].pos + 1 /\ entry'[s].pos = n /\ n <= Chunks
    <3>1. \A q \in Reads(s) : req[q].res # 0 /\ req[q].res < n BY <2>1, <2>3, <2>4, <2>5
    <3>2. \A q \in Reads(s)' : req'[q].res <= n /\ req'[q].res # 0 BY <2>1, <2>2, <2>3, <2>5, <3>1
    <3>3. \A q1, q2 \in Reads(s)' : req'[q1].res = req'[q2].res => q1 = q2
      BY <2>2, <2>3, <2>4, <3>1
    <3>4. ASSUME NEW m \in 1 .. n PROVE \E q \in Reads(s)' : req'[q].res = m
      <4>1. CASE m = n BY <2>2, <4>1
      <4>2. CASE m # n BY <2>1, <2>2, <2>3, <2>4, <2>5, <4>2
      <4> QED BY <4>1, <4>2
    <3> QED BY <2>5, <3>2, <3>3, <3>4 DEF ReadOnce
  <2>6. CASE n = 0 /\ entry'[s].pos = entry[s].pos /\ entry[s].pos = Chunks
    BY <2>1, <2>2, <2>3, <2>4, <2>6 DEF ReadOnce
  <2> QED BY <2>5, <2>6
<1> QED BY <1>1, <1>2

LEMMA FileChunks ==
  ASSUME HostInv, NEW r \in Requests, FileChunk(r)
  PROVE  HostInv'
<1>1. RequestsTyped /\ EntriesTyped /\ LocksTyped /\ Placed(r) /\ Holds(r) BY DEF HostInv, TypeOK
<1>2. req[r].at = "reading" BY DEF FileChunk, At
<1>3. PICK s \in Streams : s = req[r].of /\ Told(s) BY <1>1, <1>2 DEF Placed, Using
<1>4. /\ req[r].method = "read" /\ req[r].res = None /\ lock[s] = r
      /\ entry[s].content = "file" /\ s # r
  BY <1>1, <1>2, <1>3 DEF Placed, Holds, Locking, Told, Ending
<1>5. /\ lock' = [lock EXCEPT ![s] = None] /\ UNCHANGED <<table, body>> /\ UNCHANGED others
      /\ LocksTyped'
  BY <1>1, <1>3 DEF FileChunk, LocksTyped
<1>6. Whole(s) /\ entry[s] \in EntryRecords BY <1>1 DEF HostInv, EntriesTyped
<1>7. CASE Fail(r) /\ UNCHANGED entry
  <2>1. Advance(r, "settle", req[r].ok) /\ RequestsTyped' BY <1>1, <1>7, FailAdvances
  <2>2. "settle" \in Ways /\ req[r].at \in Using /\ req[r].at \in Locking
    BY <1>2 DEF Ways, Using, Locking
  <2> QED BY <1>3, <1>5, <1>7, <2>1, <2>2, HeldStep
<1>8. CASE /\ req' = [req EXCEPT ![r].at = "deliver", ![r].res = Next_(entry[s], Chunks)]
           /\ entry' = [entry EXCEPT ![s] = Advanced(@, Chunks)]
  <2> DEFINE n == IF entry[s].pos < Chunks THEN entry[s].pos + 1 ELSE 0
  <2>1. Next_(entry[s], Chunks) = n /\ n \in Nat BY <1>6 DEF Next_, EntryRecords
  <2>2. Else(r) /\ RequestsTyped' /\ req'[r].at = "deliver" /\ req'[r].res = n
        /\ req'[r].method = "read" /\ req'[r].of = s
    BY <1>1, <1>3, <1>4, <1>8, <2>1 DEF RequestsTyped, RequestRecords, Else, Ways
  <2>3. \A t \in Streams \ {s} : entry'[t] = entry[t] BY <1>1, <1>8 DEF EntriesTyped
  <2>4. entry'[s] = Advanced(entry[s], Chunks) BY <1>1, <1>8 DEF EntriesTyped
  <2>5. entry'[s] = IF entry[s].pos < Chunks THEN [entry[s] EXCEPT !.pos = entry[s].pos + 1]
                    ELSE entry[s]
    BY <2>4 DEF Advanced
  <2>6. /\ entry'[s] \in EntryRecords
        /\ entry'[s].content = "file" /\ entry'[s].torn = entry[s].torn
        /\ entry'[s].target = entry[s].target /\ entry'[s].data = entry[s].data
        /\ entry'[s].acked = entry[s].acked /\ entry'[s].fetched = entry[s].fetched
        /\ entry'[s].pos = IF entry[s].pos < Chunks THEN entry[s].pos + 1 ELSE entry[s].pos
    BY <1>4, <1>6, <2>5 DEF EntryRecords
  <2>7. EntriesTyped' BY <1>1, <1>8, <2>3, <2>6 DEF EntriesTyped
  <2>8. TypeOK'
    BY <1>5, <2>2, <2>7 DEF HostInv, TypeOK, SavedTyped, SetsTyped, EndsTyped, others
  <2>9. Holds(r)' BY <2>2 DEF Holds, Locking, Committing
  <2>10. entry[s].pos <= Chunks /\ entry[s].pos \in Nat BY <1>6 DEF Whole, EntryRecords
  <2>11. Whole(s)'
    <3>1. req'[s] = req[s] BY <1>4, <2>2 DEF Else
    <3>2. lock'[s] = None BY <1>1, <1>5 DEF LocksTyped
    <3>3. entry'[s].pos <= Chunks BY <2>6, <2>10
    <3> QED BY <1>4, <1>6, <2>6, <3>1, <3>2, <3>3 DEF Whole
  <2>12. SavedOnce' BY <1>4, <1>5, <2>3, SavedKept DEF others
  <2>13. \A t \in Streams : ReadOnce(t)'
    <3>1. \A t \in Streams \ {s} : entry'[t].pos = entry[t].pos BY <2>3
    <3>2. \/ n = entry[s].pos + 1 /\ entry'[s].pos = n /\ n <= Chunks
          \/ n = 0 /\ entry'[s].pos = entry[s].pos /\ entry[s].pos = Chunks
      BY <2>6, <2>10
    <3> HIDE DEF n
    <3> QED BY <1>3, <1>4, <2>1, <2>2, <3>1, <3>2, ChunkHanded
  <2>14. \A t \in Streams \ {s} : lock'[t] = lock[t] /\ body'[t] = body[t] BY <1>1, <1>5 DEF LocksTyped
  <2>15. lock[s] \in {None, r} /\ body'[s] = body[s] BY <1>4, <1>5
  <2>16. entry'[s].content # "none" /\ req[r].at \in Using /\ req'[r].at \in Using
    BY <1>2, <2>2, <2>6 DEF Using
  <2>17. picked' = picked /\ saved' = saved /\ table' = table BY <1>5 DEF others
  <2> HIDE DEF n
  <2> QED BY <1>3, <1>4, <2>2, <2>3, <2>6, <2>8, <2>9, <2>11, <2>12, <2>13, <2>14, <2>15, <2>16,
             <2>17, UseStep
<1> QED BY <1>3, <1>7, <1>8 DEF FileChunk

LEMMA Copies ==
  ASSUME HostInv, NEW r \in Requests, Copy(r)
  PROVE  HostInv'
<1>1. RequestsTyped /\ EntriesTyped /\ LocksTyped /\ Placed(r) /\ Holds(r) BY DEF HostInv, TypeOK
<1>2. req[r].at = "copy" BY DEF Copy, At
<1>3. PICK s \in Streams : s = req[r].of /\ Told(s) BY <1>1, <1>2 DEF Placed, Using
<1>4. /\ req[r].method = "read" /\ req[r].res = None /\ body[s] = r
      /\ entry[s].content = "http" /\ s # r
      /\ entry[s].pos < entry[s].fetched \/ entry[s].fetched = Chunks
  BY <1>1, <1>2, <1>3 DEF Placed, Holds, Told, Ending
<1>5. /\ body' = [body EXCEPT ![s] = None] /\ UNCHANGED <<table, lock>> /\ UNCHANGED others
      /\ LocksTyped'
  BY <1>1, <1>3 DEF Copy, LocksTyped
<1>6. Whole(s) /\ entry[s] \in EntryRecords BY <1>1 DEF HostInv, EntriesTyped
<1>7. CASE Fail(r) /\ UNCHANGED entry
  <2>1. Advance(r, "settle", req[r].ok) /\ RequestsTyped' BY <1>1, <1>7, FailAdvances
  <2>2. "settle" \in Ways /\ req[r].at \in Using BY <1>2 DEF Ways, Using
  <2> QED BY <1>2, <1>3, <1>5, <1>7, <2>1, <2>2, HeldStep
<1>8. CASE /\ req' = [req EXCEPT ![r].at = "deliver", ![r].res = Next_(entry[s], entry[s].fetched)]
           /\ entry' = [entry EXCEPT ![s] = Advanced(@, entry[s].fetched)]
  <2> DEFINE n == IF entry[s].pos < entry[s].fetched THEN entry[s].pos + 1 ELSE 0
  <2>1. Next_(entry[s], entry[s].fetched) = n /\ n \in Nat BY <1>6 DEF Next_, EntryRecords
  <2>2. Else(r) /\ RequestsTyped' /\ req'[r].at = "deliver" /\ req'[r].res = n
        /\ req'[r].method = "read" /\ req'[r].of = s
    BY <1>1, <1>3, <1>4, <1>8, <2>1 DEF RequestsTyped, RequestRecords, Else, Ways
  <2>3. \A t \in Streams \ {s} : entry'[t] = entry[t] BY <1>1, <1>8 DEF EntriesTyped
  <2>4. entry'[s] = Advanced(entry[s], entry[s].fetched) BY <1>1, <1>8 DEF EntriesTyped
  <2>5. entry'[s] = IF entry[s].pos < entry[s].fetched
                    THEN [entry[s] EXCEPT !.pos = entry[s].pos + 1] ELSE entry[s]
    BY <2>4 DEF Advanced
  <2>6. /\ entry'[s] \in EntryRecords
        /\ entry'[s].content = "http" /\ entry'[s].torn = entry[s].torn
        /\ entry'[s].target = entry[s].target /\ entry'[s].data = entry[s].data
        /\ entry'[s].acked = entry[s].acked /\ entry'[s].fetched = entry[s].fetched
        /\ entry'[s].pos = IF entry[s].pos < entry[s].fetched THEN entry[s].pos + 1 ELSE entry[s].pos
    BY <1>4, <1>6, <2>5 DEF EntryRecords
  <2>7. EntriesTyped' BY <1>1, <1>8, <2>3, <2>6 DEF EntriesTyped
  <2>8. TypeOK'
    BY <1>5, <2>2, <2>7 DEF HostInv, TypeOK, SavedTyped, SetsTyped, EndsTyped, others
  <2>9. Holds(r)' BY <2>2 DEF Holds, Locking, Committing
  <2>10. /\ entry[s].pos <= entry[s].fetched /\ entry[s].pos \in Nat /\ entry[s].fetched \in Nat
         /\ entry[s].fetched <= Chunks
    BY <1>4, <1>6 DEF Whole, EntryRecords
  <2>11. Whole(s)'
    <3>1. req'[s] = req[s] BY <1>4, <2>2 DEF Else
    <3>2. lock[s] # r
      BY <1>2, <1>6, NobodyIsNone DEF Whole, Locking
    <3>3. entry'[s].pos <= Chunks /\ entry'[s].pos <= entry'[s].fetched BY <2>6, <2>10
    <3>4. lock[s] # None => req'[lock[s]].at \in Locking /\ req'[lock[s]].of = s
      BY <1>1, <1>6, <2>2, <3>2 DEF Whole, Else, LocksTyped
    <3> QED BY <1>4, <1>5, <1>6, <2>6, <3>1, <3>3, <3>4 DEF Whole
  <2>12. SavedOnce' BY <1>4, <1>5, <2>3, SavedKept DEF others
  <2>13. \A t \in Streams : ReadOnce(t)'
    <3>1. \A t \in Streams \ {s} : entry'[t].pos = entry[t].pos BY <2>3
    <3>2. \/ n = entry[s].pos + 1 /\ entry'[s].pos = n /\ n <= Chunks
          \/ n = 0 /\ entry'[s].pos = entry[s].pos /\ entry[s].pos = Chunks
      BY <1>4, <2>6, <2>10
    <3> HIDE DEF n
    <3> QED BY <1>3, <1>4, <2>1, <2>2, <3>1, <3>2, ChunkHanded
  <2>14. \A t \in Streams \ {s} : lock'[t] = lock[t] /\ body'[t] = body[t] BY <1>1, <1>5 DEF LocksTyped
  <2>15. body[s] \in {None, r} /\ lock'[s] = lock[s] BY <1>4, <1>5
  <2>16. entry'[s].content # "none" /\ req[r].at \in Using /\ req'[r].at \in Using
    BY <1>2, <2>2, <2>6 DEF Using
  <2>17. picked' = picked /\ saved' = saved /\ table' = table BY <1>5 DEF others
  <2> HIDE DEF n
  <2> QED BY <1>3, <1>4, <2>2, <2>3, <2>6, <2>8, <2>9, <2>11, <2>12, <2>13, <2>14, <2>15, <2>16,
             <2>17, UseStep
<1> QED BY <1>3, <1>7, <1>8 DEF Copy

LEMMA Fetches ==
  ASSUME HostInv, NEW r \in Requests, Fetch(r)
  PROVE  HostInv'
<1>1. RequestsTyped /\ EntriesTyped /\ LocksTyped /\ Placed(r) /\ Holds(r) BY DEF HostInv, TypeOK
<1>2. req[r].at = "fetch" BY DEF Fetch, At
<1>3. PICK s \in Streams : s = req[r].of /\ Told(s) BY <1>1, <1>2 DEF Placed, Using
<1>4. /\ req[r].method = "read" /\ req[r].res = None /\ body[s] = r
      /\ entry[s].content = "http" /\ s # r
  BY <1>1, <1>2, <1>3 DEF Placed, Holds, Told, Ending
<1>5. UNCHANGED <<table, lock>> /\ UNCHANGED others BY DEF Fetch
<1>6. Whole(s) /\ entry[s] \in EntryRecords BY <1>1 DEF HostInv, EntriesTyped
<1>7. CASE body' = [body EXCEPT ![s] = None] /\ Fail(r) /\ UNCHANGED entry
  <2>1. Advance(r, "settle", req[r].ok) /\ RequestsTyped' BY <1>1, <1>7, FailAdvances
  <2>2. "settle" \in Ways /\ req[r].at \in Using BY <1>2 DEF Ways, Using
  <2> QED BY <1>2, <1>3, <1>5, <1>7, <2>1, <2>2, HeldStep DEF others
<1>8. CASE /\ entry' = [entry EXCEPT ![s].fetched = IF @ < Chunks THEN @ + 1 ELSE @]
           /\ Go(r, "copy") /\ UNCHANGED body
  <2>1. Advance(r, "copy", req[r].ok) /\ RequestsTyped' BY <1>1, <1>8, GoAdvances DEF Ways
  <2>2. \A t \in Streams \ {s} : entry'[t] = entry[t] BY <1>1, <1>8 DEF EntriesTyped
  <2> DEFINE f == IF entry[s].fetched < Chunks THEN entry[s].fetched + 1 ELSE entry[s].fetched
  <2>3. f \in Nat /\ (f <= Chunks) /\ entry[s].fetched <= f /\ (f = Chunks \/ entry[s].fetched < f)
    BY <1>6 DEF EntryRecords, Whole
  <2>4. entry'[s] = [entry[s] EXCEPT !.fetched = f] BY <1>1, <1>8 DEF EntriesTyped
  <2> HIDE DEF f
  <2>5. /\ entry'[s] \in EntryRecords
        /\ entry'[s].content = "http" /\ entry'[s].torn = entry[s].torn
        /\ entry'[s].target = entry[s].target /\ entry'[s].data = entry[s].data
        /\ entry'[s].acked = entry[s].acked /\ entry'[s].fetched = f
        /\ entry'[s].pos = entry[s].pos
    BY <1>4, <1>6, <2>3, <2>4 DEF EntryRecords
  <2>6. EntriesTyped' BY <1>1, <1>8, <2>2, <2>5 DEF EntriesTyped
  <2>7. TypeOK'
    BY <1>5, <1>8, <2>1, <2>6
       DEF HostInv, TypeOK, LocksTyped, SavedTyped, SetsTyped, EndsTyped, others
  <2>8. /\ entry[s].pos <= entry[s].fetched /\ entry[s].pos \in Nat /\ entry[s].fetched \in Nat
        /\ entry[s].pos <= Chunks
    BY <1>4, <1>6 DEF Whole, EntryRecords
  <2>9. entry'[s].pos <= entry'[s].fetched /\ (entry'[s].pos < entry'[s].fetched \/ f = Chunks)
    BY <2>3, <2>5, <2>8
  <2>10. Holds(r)'
    BY <1>3, <1>4, <1>8, <2>1, <2>5, <2>9 DEF Holds, Advance, Locking, Committing
  <2>11. Whole(s)'
    <3>1. req'[s] = req[s] BY <1>4, <2>1 DEF Advance, Else
    <3>2. lock[s] # r BY <1>2, <1>6, NobodyIsNone DEF Whole, Locking
    <3>3. lock[s] # None => req'[lock[s]].at \in Locking /\ req'[lock[s]].of = s
      BY <1>1, <1>6, <2>1, <3>2 DEF Whole, Advance, Else, LocksTyped
    <3> QED BY <1>4, <1>5, <1>6, <2>3, <2>5, <2>8, <2>9, <3>1, <3>3 DEF Whole
  <2>12. SavedOnce' BY <1>4, <1>5, <2>2, SavedKept DEF others
  <2>13. \A t \in Streams : ReadOnce(t)'
    BY <2>1, <2>2, <2>5, ReadsKept DEF Advance
  <2>14. picked' = picked /\ saved' = saved /\ table' = table /\ lock' = lock /\ body' = body
    BY <1>5, <1>8 DEF others
  <2>15. entry'[s].content # "none" /\ req[r].at \in Using /\ req'[r].at \in Using
    BY <1>2, <2>1, <2>5 DEF Using, Advance
  <2>16. Else(r) /\ req'[r].method = "read" /\ req'[r].of = s /\ req'[r].res = None
    BY <1>3, <1>4, <2>1 DEF Advance
  <2> QED BY <1>3, <1>4, <2>2, <2>5, <2>7, <2>10, <2>11, <2>12, <2>13, <2>14, <2>15, <2>16, UseStep
<1> QED BY <1>3, <1>7, <1>8 DEF Fetch

(* What a finish commits is what was written, and a write that failed ends the      *)
(* stream before a finish can find it.                                              *)
LEMMA Writes ==
  ASSUME HostInv, NEW r \in Requests, Written(r)
  PROVE  HostInv'
<1>1. RequestsTyped /\ EntriesTyped /\ LocksTyped /\ Placed(r) /\ Holds(r) BY DEF HostInv, TypeOK
<1>2. req[r].at = "writing" BY DEF Written, At
<1>3. PICK s \in Streams : s = req[r].of /\ Told(s) BY <1>1, <1>2 DEF Placed, Using
<1>4. /\ req[r].method \in Users /\ req[r].res = None /\ lock[s] = r
      /\ entry[s].content = "writer" /\ s # r
  BY <1>1, <1>2, <1>3 DEF Placed, Holds, Locking, Told, Ending, Using
<1>5. /\ lock' = [lock EXCEPT ![s] = None] /\ UNCHANGED <<table, body>> /\ UNCHANGED others
      /\ LocksTyped' /\ lock'[s] = None
  BY <1>1, <1>3 DEF Written, LocksTyped
<1>6. Whole(s) /\ entry[s] \in EntryRecords BY <1>1 DEF HostInv, EntriesTyped
<1>7. PICK p \in {"settle", "forget"}, k \in BOOLEAN : Advance(r, p, k) /\ RequestsTyped'
  <2>1. req[r].ok \in BOOLEAN BY <1>1 DEF RequestsTyped, RequestRecords
  <2>2. \/ Fail(r) \/ Succeed(r) \/ Go(r, "forget") BY DEF Written
  <2> QED BY <1>1, <2>1, <2>2, FailAdvances, SucceedAdvances, GoAdvances DEF Ways
<1>8. /\ \A t \in Streams \ {s} : entry'[t] = entry[t]
      /\ \/ entry'[s] = Poisoned(entry[s])
         \/ \E a \in {entry[s].acked, entry[s].acked + 1} :
               entry'[s] = [entry[s] EXCEPT !.data = entry[s].data + 1, !.acked = a]
      /\ DOMAIN entry' = Streams /\ entry' = [t \in Streams |-> entry'[t]]
  <2>1. \/ entry' = [entry EXCEPT ![s].data = @ + 1, ![s].acked = IF Over(r) THEN @ ELSE @ + 1]
        \/ entry' = [entry EXCEPT ![s] = Poisoned(@)]
    BY <1>3 DEF Written
  <2> QED BY <1>1, <2>1 DEF EntriesTyped
<1>9. /\ entry'[s] \in EntryRecords /\ entry'[s].content \in {"writer", "closed"}
      /\ entry'[s].content = "writer" => ~entry'[s].torn
      /\ entry'[s].target = entry[s].target
      /\ entry'[s].acked <= entry'[s].data
      /\ entry'[s].pos = entry[s].pos /\ entry'[s].fetched = entry[s].fetched
  <2>1. ~entry[s].torn /\ entry[s].acked <= entry[s].data BY <1>4, <1>6 DEF Whole
  <2>2. CASE entry'[s] = Poisoned(entry[s])
    BY <1>6, <2>1, <2>2 DEF Poisoned, EntryRecords, Kinds
  <2>3. ASSUME NEW a \in {entry[s].acked, entry[s].acked + 1},
               entry'[s] = [entry[s] EXCEPT !.data = entry[s].data + 1, !.acked = a]
        PROVE  <1>9!:
    <3>1. a \in Nat /\ a <= entry[s].data + 1 BY <1>6, <2>1 DEF EntryRecords
    <3>2. entry[s].data + 1 \in Nat BY <1>6 DEF EntryRecords
    <3> QED BY <1>4, <1>6, <2>1, <2>3, <3>1, <3>2 DEF EntryRecords
  <2> QED BY <1>8, <2>2, <2>3
<1>10. EntriesTyped' BY <1>1, <1>8, <1>9 DEF EntriesTyped
<1>11. TypeOK'
  BY <1>5, <1>7, <1>10 DEF HostInv, TypeOK, SavedTyped, SetsTyped, EndsTyped, others
<1>12. Holds(r)' BY <1>7 DEF Holds, Advance, Locking, Committing
<1>13. Whole(s)'
  <2>1. req'[s] = req[s] BY <1>4, <1>7 DEF Advance, Else
  <2> QED BY <1>4, <1>5, <1>6, <1>9, <2>1 DEF Whole
<1>14. SavedOnce' BY <1>4, <1>5, <1>8, SavedKept DEF others
<1>15. \A t \in Streams : ReadOnce(t)' BY <1>7, <1>8, <1>9, ReadsKept DEF Advance
<1>16. \A t \in Streams \ {s} : lock'[t] = lock[t] /\ body'[t] = body[t] BY <1>1, <1>5 DEF LocksTyped
<1>17. entry'[s].content # "none" /\ req[r].at \in Using /\ p \in Using \cup {"settle"}
  BY <1>2, <1>9 DEF Using
<1>18. picked' = picked /\ saved' = saved /\ table' = table /\ body'[s] = body[s] BY <1>5 DEF others
<1> QED BY <1>3, <1>4, <1>7, <1>8, <1>9, <1>11, <1>12, <1>13, <1>14, <1>15, <1>16, <1>17, <1>18,
           UseStep DEF Advance

LEMMA Finishes ==
  ASSUME HostInv, NEW r \in Requests, Finish(r)
  PROVE  HostInv'
<1>1. RequestsTyped /\ EntriesTyped /\ LocksTyped /\ Placed(r) BY DEF HostInv, TypeOK
<1>2. req[r].at = "use" BY DEF Finish, Holding, At
<1>3. PICK s \in Streams : s = req[r].of /\ Told(s) BY <1>1, <1>2 DEF Placed, Using
<1>4. /\ req[r].method \in Users /\ req[r].res = None /\ lock[s] = None
      /\ entry[s].content = "writer" /\ s # r
  BY <1>1, <1>2, <1>3 DEF Placed, Finish, Holding, Told, Ending, Using
<1>5. /\ lock' = [lock EXCEPT ![s] = r] /\ UNCHANGED <<table, body>> /\ UNCHANGED others
      /\ entry' = [entry EXCEPT ![s].content = "closed"] /\ LocksTyped' /\ lock'[s] = r
  BY <1>1, <1>3 DEF Finish, LocksTyped
<1>6. Whole(s) /\ entry[s] \in EntryRecords BY <1>1 DEF HostInv, EntriesTyped
<1>7. Advance(r, "sync", req[r].ok) /\ RequestsTyped' BY <1>1, GoAdvances DEF Finish, Ways
<1>8. \A t \in Streams \ {s} : entry'[t] = entry[t] BY <1>1, <1>5 DEF EntriesTyped
<1>9. /\ entry'[s] \in EntryRecords /\ entry'[s].content = "closed"
      /\ entry'[s].torn = entry[s].torn /\ entry'[s].target = entry[s].target
      /\ entry'[s].data = entry[s].data /\ entry'[s].acked = entry[s].acked
      /\ entry'[s].pos = entry[s].pos /\ entry'[s].fetched = entry[s].fetched
  <2>1. entry'[s] = [entry[s] EXCEPT !.content = "closed"] BY <1>1, <1>5 DEF EntriesTyped
  <2> QED BY <1>6, <2>1 DEF EntryRecords, Kinds
<1>10. EntriesTyped' BY <1>1, <1>5, <1>8, <1>9 DEF EntriesTyped
<1>11. TypeOK'
  BY <1>5, <1>7, <1>10 DEF HostInv, TypeOK, SavedTyped, SetsTyped, EndsTyped, others
<1>12. Holds(r)'
  <2>1. ~entry[s].torn /\ entry[s].target \in Destinations BY <1>4, <1>6 DEF Whole
  <2>2. \A i \in DOMAIN saved : saved[i].of # s BY <1>4 DEF HostInv, SavedOnce
  <2> QED BY <1>3, <1>5, <1>7, <1>9, <2>1, <2>2 DEF Holds, Advance, Locking, Committing, others
<1>13. Whole(s)'
  <2>1. req'[s] = req[s] BY <1>4, <1>7 DEF Advance, Else
  <2>2. req'[r].at \in Locking /\ req'[r].of = s BY <1>3, <1>7 DEF Advance, Locking
  <2> QED BY <1>4, <1>5, <1>6, <1>9, <2>1, <2>2 DEF Whole
<1>14. SavedOnce' BY <1>5, <1>8, <1>9, SavedKept DEF others
<1>15. \A t \in Streams : ReadOnce(t)' BY <1>7, <1>8, <1>9, ReadsKept DEF Advance
<1>16. \A t \in Streams \ {s} : lock'[t] = lock[t] /\ body'[t] = body[t] BY <1>1, <1>5 DEF LocksTyped
<1>17. req[r].at \in Using /\ "sync" \in Using BY <1>2 DEF Using
<1>18. picked' = picked /\ saved' = saved /\ table' = table /\ body'[s] = body[s] BY <1>5 DEF others
<1> QED BY <1>3, <1>4, <1>7, <1>8, <1>9, <1>11, <1>12, <1>13, <1>14, <1>15, <1>16, <1>17, <1>18,
           UseStep DEF Advance

LEMMA Commits ==
  ASSUME HostInv, NEW r \in Requests, Commit(r)
  PROVE  HostInv'
<1>1. RequestsTyped /\ EntriesTyped /\ LocksTyped /\ Placed(r) /\ Holds(r) BY DEF HostInv, TypeOK
<1>2. req[r].at = "commit" BY DEF Commit, At
<1>3. PICK s \in Streams : s = req[r].of /\ Told(s) BY <1>1, <1>2 DEF Placed, Using
<1>4. /\ req[r].method \in Users /\ req[r].res = None /\ lock[s] = r
      /\ entry[s].content = "closed" /\ ~entry[s].torn /\ entry[s].target \in Destinations
      /\ \A i \in DOMAIN saved : saved[i].of # s
      /\ s # r
  BY <1>1, <1>2, <1>3 DEF Placed, Holds, Locking, Committing, Told, Ending, Using
<1>5. /\ lock' = [lock EXCEPT ![s] = None] /\ UNCHANGED <<table, body>>
      /\ UNCHANGED <<phase, late, picked, window, budget>> /\ LocksTyped' /\ lock'[s] = None
  BY <1>1, <1>3 DEF Commit, LocksTyped
<1>6. Whole(s) /\ entry[s] \in EntryRecords BY <1>1 DEF HostInv, EntriesTyped
<1>7. \A t \in Streams \ {s} : lock'[t] = lock[t] /\ body'[t] = body[t] BY <1>1, <1>5 DEF LocksTyped
<1>8. req[r].at \in Using /\ req[r].at \in Locking /\ "settle" \in Ways /\ "forget" \in Ways
      /\ "forget" \in Using
  BY <1>2 DEF Using, Locking, Ways
<1>9. CASE Go(r, "forget") /\ UNCHANGED <<entry, saved>>
  <2>1. Advance(r, "forget", req[r].ok) /\ RequestsTyped' BY <1>1, <1>8, <1>9, GoAdvances
  <2>2. UNCHANGED <<table, entry>> /\ UNCHANGED others /\ body' = body BY <1>5, <1>9 DEF others
  <2> QED BY <1>3, <1>5, <1>8, <2>1, <2>2, HeldStep
<1>10. CASE /\ entry' = [entry EXCEPT ![s].content = "spool"] /\ UNCHANGED saved
            /\ Succeed(r)
  <2>1. Advance(r, "settle", TRUE) /\ RequestsTyped' BY <1>1, <1>10, SucceedAdvances
  <2>2. \A t \in Streams \ {s} : entry'[t] = entry[t] BY <1>1, <1>10 DEF EntriesTyped
  <2>3. /\ entry'[s] \in EntryRecords /\ entry'[s].content = "spool"
        /\ entry'[s].torn = entry[s].torn /\ entry'[s].target = entry[s].target
        /\ entry'[s].data = entry[s].data /\ entry'[s].acked = entry[s].acked
        /\ entry'[s].pos = entry[s].pos /\ entry'[s].fetched = entry[s].fetched
    <3>1. entry'[s] = [entry[s] EXCEPT !.content = "spool"] BY <1>1, <1>10 DEF EntriesTyped
    <3> QED BY <1>6, <3>1 DEF EntryRecords, Kinds
  <2>4. EntriesTyped' BY <1>1, <1>10, <2>2, <2>3 DEF EntriesTyped
  <2>5. TypeOK'
    BY <1>5, <1>10, <2>1, <2>4 DEF HostInv, TypeOK, SavedTyped, SetsTyped, EndsTyped
  <2>6. Holds(r)' BY <2>1 DEF Holds, Advance, Locking, Committing
  <2>7. Whole(s)'
    <3>1. req'[s] = req[s] BY <1>4, <2>1 DEF Advance, Else
    <3> QED BY <1>4, <1>5, <1>6, <2>3, <3>1 DEF Whole
  <2>8. SavedOnce'
    <3>1. \A i \in DOMAIN saved : saved[i] \in Files BY DEF HostInv, TypeOK, SavedTyped
    <3>2. \A i \in DOMAIN saved : saved[i].of \in Streams \ {s} BY <1>4, <3>1 DEF Files
    <3> QED BY <1>10, <2>2, <3>2 DEF HostInv, SavedOnce
  <2>9. \A t \in Streams : ReadOnce(t)' BY <2>1, <2>2, <2>3, ReadsKept DEF Advance
  <2>10. Else(r) /\ req'[r].method = req[r].method /\ req'[r].of = s /\ req'[r].at = "settle"
         /\ req'[r].res = None
    BY <1>3, <1>4, <2>1 DEF Advance
  <2> QED BY <1>3, <1>4, <1>5, <1>7, <1>8, <1>10, <2>2, <2>3, <2>5, <2>6, <2>7, <2>8, <2>9, <2>10,
             UseStep
<1>11. CASE /\ saved' = Append(saved, Committed(s)) /\ UNCHANGED entry
            /\ req' = [req EXCEPT ![r].at = "forget", ![r].ok = TRUE]
  <2>1. Advance(r, "forget", TRUE) /\ RequestsTyped' BY <1>1, <1>8, <1>11, AnswerAdvances
  <2>2. /\ Committed(s) \in Files /\ Committed(s).of = s /\ ~Committed(s).torn
        /\ Committed(s).acked <= Committed(s).data
    BY <1>4, <1>6 DEF Committed, Files, Whole, EntryRecords
  <2>3. saved \in Seq(Files) BY DEF HostInv, TypeOK, SavedTyped
  <2>4. /\ saved' \in Seq(Files) /\ DOMAIN saved' = DOMAIN saved \cup {Len(saved) + 1}
        /\ Len(saved) + 1 \notin DOMAIN saved
        /\ saved'[Len(saved) + 1] = Committed(s)
        /\ \A i \in DOMAIN saved : saved'[i] = saved[i]
    <3> DEFINE c == Committed(s)
    <3>1. c \in Files /\ saved' = Append(saved, c) BY <1>11, <2>2
    <3> HIDE DEF c
    <3>2. /\ saved' \in Seq(Files) /\ Len(saved') = Len(saved) + 1
          /\ saved'[Len(saved) + 1] = c /\ \A i \in 1 .. Len(saved) : saved'[i] = saved[i]
      BY <2>3, <3>1, AppendProperties
    <3>3. DOMAIN saved = 1 .. Len(saved) /\ DOMAIN saved' = 1 .. Len(saved') /\ Len(saved) \in Nat
      BY <2>3, <3>2
    <3> QED BY <3>2, <3>3 DEF c
  <2>5. TypeOK'
    BY <1>5, <1>11, <2>1, <2>4 DEF HostInv, TypeOK, EntriesTyped, SavedTyped, SetsTyped, EndsTyped
  <2>6. Holds(r)' BY <2>1 DEF Holds, Advance, Locking, Committing
  <2>7. Whole(s)'
    <3>1. req'[s] = req[s] BY <1>4, <2>1 DEF Advance, Else
    <3> QED BY <1>4, <1>5, <1>6, <1>11, <3>1 DEF Whole
  <2>8. SavedOnce'
    <3>1. SavedOnce BY DEF HostInv
    <3>2. \A i \in DOMAIN saved' : i \in DOMAIN saved \/ i = Len(saved) + 1 BY <2>4
    <3>3. \A i \in DOMAIN saved' :
            ~saved'[i].torn /\ saved'[i].acked <= saved'[i].data
            /\ entry[saved'[i].of].content = "closed"
      BY <1>4, <2>2, <2>4, <3>1, <3>2 DEF SavedOnce
    <3>4. \A i, j \in DOMAIN saved' : saved'[i].of = saved'[j].of => i = j
      BY <1>4, <2>2, <2>4, <3>1, <3>2 DEF SavedOnce
    <3> QED BY <1>11, <3>3, <3>4 DEF SavedOnce
  <2>9. \A t \in Streams : ReadOnce(t)' BY <1>11, <2>1, ReadsKept DEF Advance
  <2>10. Else(r) /\ req'[r].method = req[r].method /\ req'[r].of = s /\ req'[r].at = "forget"
         /\ req'[r].res = None
    BY <1>3, <1>4, <2>1 DEF Advance
  <2>11. \A i \in DOMAIN saved' : \/ i \in DOMAIN saved /\ saved'[i] = saved[i]
                                  \/ saved'[i].of = s /\ lock[s] = r
    BY <1>4, <2>2, <2>4
  <2>12. entry'[s].content # "none" /\ entry' = entry BY <1>4, <1>11
  <2> QED BY <1>3, <1>4, <1>5, <1>7, <1>8, <2>5, <2>6, <2>7, <2>8, <2>9, <2>10, <2>11, <2>12, UseStep
<1> QED BY <1>3, <1>4, <1>9, <1>10, <1>11 DEF Commit, Destinations

(* A stream is registered once, by the request it is named after.                   *)
LEMMA Inserts ==
  ASSUME HostInv, NEW r \in Requests, Insert(r)
  PROVE  HostInv'
<1>1. RequestsTyped /\ EntriesTyped /\ LocksTyped /\ Placed(r) /\ Whole(r) /\ Accounted(r)
  BY DEF HostInv, TypeOK
<1>2. req[r].at = "insert" /\ req[r].method \in Openers \cup {"http", "upload"}
  BY <1>1 DEF Insert, At, Placed
<1>3. UNCHANGED others /\ req[r].at \notin Ending /\ req[r].at \notin Locking /\ req[r].at # "over"
      /\ entry[r].content = "none"
  BY <1>1, <1>2 DEF Insert, Whole, Ending, Locking
<1>4. CASE Fail(r) /\ UNCHANGED streams
  <2>1. Advance(r, "settle", req[r].ok) /\ RequestsTyped' BY <1>1, <1>4, FailAdvances
  <2>2. /\ EntriesTyped' /\ table' = table /\ UNCHANGED <<lock, body>> /\ \A s \in Streams : Alike(s)
    BY <1>4, StreamsAlike
  <2>3. SetsTyped' /\ EndsTyped' /\ picked' = picked /\ saved' = saved
    BY <1>3, <2>2 DEF HostInv, TypeOK, SetsTyped, EndsTyped, others
  <2> QED BY <1>2, <1>3, <2>1, <2>2, <2>3, QuietMove DEF Using, Locking, Ending
<1>5. CASE /\ table' = table \cup {r}
           /\ entry' = [entry EXCEPT ![r].content = Content(req[r].method), ![r].target = Target(r)]
           /\ Succeed(r)
           /\ UNCHANGED <<lock, body>>
  <2>1. Advance(r, "settle", TRUE) /\ RequestsTyped' BY <1>1, <1>5, SucceedAdvances
  <2>2. \A t \in Streams \ {r} : entry'[t] = entry[t] BY <1>1, <1>5 DEF EntriesTyped
  <2>3. /\ Content(req[r].method) \in {"file", "http", "writer"}
        /\ Target(r) \in Destinations \cup {None}
        /\ Content(req[r].method) = "writer" => Target(r) \in Destinations
    BY <1>2 DEF Content, Target, Openers, Destinations
  <2>4. /\ entry'[r] \in EntryRecords /\ entry'[r].content = Content(req[r].method)
        /\ entry'[r].target = Target(r) /\ entry'[r].torn = entry[r].torn
        /\ entry'[r].data = entry[r].data /\ entry'[r].acked = entry[r].acked
        /\ entry'[r].pos = entry[r].pos /\ entry'[r].fetched = entry[r].fetched
    <3>1. entry[r] \in EntryRecords BY <1>1 DEF EntriesTyped
    <3>2. entry'[r] = [entry[r] EXCEPT !.content = Content(req[r].method), !.target = Target(r)]
      BY <1>1, <1>5 DEF EntriesTyped
    <3> QED BY <2>3, <3>1, <3>2 DEF EntryRecords, Kinds
  <2>5. EntriesTyped' BY <1>1, <1>5, <2>2, <2>4 DEF EntriesTyped
  <2>6. TypeOK'
    BY <1>3, <1>5, <2>1, <2>5
       DEF HostInv, TypeOK, LocksTyped, SavedTyped, SetsTyped, EndsTyped, others
  <2>7. Placed(r)'
    <3>1. req[r].method \in Users => req[r].of # r /\ req[r].of \in Requests
      BY <1>1, <1>2 DEF Placed, Told
    <3>2. req[r].method \in Users => Told(req[r].of)'
      BY <1>1, <2>1, <3>1 DEF Placed, Told, Advance, Else
    <3> QED BY <1>1, <2>1, <3>2 DEF Placed, Advance, Using, Ending
  <2>8. \A q \in Requests : Placed(q)' BY <1>3, <2>1, <2>7, PlacedKept DEF Advance
  <2>9. Holds(r)' BY <2>1 DEF Holds, Advance, Locking, Committing
  <2>10. lock[r] = None
    <3>1. ASSUME lock[r] # None PROVE FALSE
      <4>1. lock[r] \in Requests BY <1>1, <3>1 DEF LocksTyped
      <4>2. req[lock[r]].at \in Locking /\ req[lock[r]].of = r BY <1>1, <3>1 DEF Whole
      <4>3. Placed(lock[r]) BY <4>1 DEF HostInv
      <4>4. req[lock[r]].method \in Users BY <4>2, <4>3 DEF Placed, Using, Locking
      <4> QED BY <1>3, <4>2, <4>3, <4>4 DEF Placed, Told
    <3> QED BY <3>1
  <2>11. \A q \in Requests : Holds(q)'
    <3>1. Else(r) BY <2>1 DEF Advance
    <3>2. \A t \in Streams :
            /\ \/ /\ entry'[t].content = entry[t].content /\ entry'[t].torn = entry[t].torn
                  /\ entry'[t].target = entry[t].target
               \/ lock[t] \in {None, r} /\ entry[t].content \notin {"file", "http"}
            /\ \/ entry'[t].pos = entry[t].pos /\ entry'[t].fetched = entry[t].fetched
               \/ body[t] \in {None, r} \/ entry[t].content = "file"
            /\ lock'[t] = lock[t] \/ lock[t] \in {None, r}
            /\ body'[t] = body[t] \/ body[t] \in {None, r}
      BY <1>3, <1>5, <2>2, <2>4, <2>10
    <3>3. \A i \in DOMAIN saved' :
            \/ i \in DOMAIN saved /\ saved'[i] = saved[i]
            \/ saved'[i].of \in Streams /\ lock[saved'[i].of] = r
      BY <1>3 DEF others
    <3> QED BY <2>9, <3>1, <3>2, <3>3, OthersHold
  <2>12. Accounted(r)'
    BY <1>1, <1>3, <2>1, <2>3, <2>4 DEF Accounted, Advance, others
  <2>13. \A q \in Requests : Accounted(q)'
    BY <1>3, <1>5, <2>1, <2>2, <2>3, <2>4, <2>12, AccountedKept DEF Advance, others
  <2>14. ASSUME NEW t \in Streams, t # r PROVE Whole(t)'
    <3>1. Alike(t) /\ lock'[t] = lock[t] BY <1>5, <2>2, <2>14 DEF Alike
    <3>2. lock[t] # r BY <1>3, NobodyIsNone DEF HostInv, Whole
    <3> QED BY <1>3, <2>1, <3>1, <3>2, WholeKept DEF Advance
  <2>15. Whole(r)' BY <1>1, <1>3, <1>5, <2>1, <2>3, <2>4, <2>10 DEF Whole, Advance, Ending
  <2>16. \A t \in Streams : ReadOnce(t)' BY <2>1, <2>2, <2>4, ReadsKept DEF Advance
  <2>17. SavedOnce' BY <1>3, <2>2, SavedKept DEF others
  <2> QED BY <2>6, <2>8, <2>11, <2>13, <2>14, <2>15, <2>16, <2>17 DEF HostInv
<1> QED BY <1>4, <1>5 DEF Insert

LEMMA Arrives ==
  ASSUME HostInv, NEW r \in Requests, Arrive(r)
  PROVE  HostInv'
<1>1. RequestsTyped /\ EntriesTyped /\ LocksTyped /\ Placed(r) /\ Whole(r) /\ Accounted(r)
      /\ budget \in Budgets
  BY DEF HostInv, TypeOK, EndsTyped
<1>2. req[r].at = "idle" /\ UNCHANGED streams /\ UNCHANGED others BY DEF Arrive, At
<1>3. PICK c \in budget.ctxs, m \in budget.methods : \E x \in Subjects(m) :
        req' = [req EXCEPT ![r] = [Idle EXCEPT !.at = "begin", !.ctx = c, !.method = m, !.of = x]]
  BY DEF Arrive
<1>4. PICK x \in Subjects(m) :
        req' = [req EXCEPT ![r] = [Idle EXCEPT !.at = "begin", !.ctx = c, !.method = m, !.of = x]]
  BY <1>3
<1>5. c \in Owners /\ m \in Methods BY <1>1
<1>6. /\ x \in Requests \cup {None}
      /\ m \in Users => x \in Streams /\ Told(x)
  <2>1. CASE m \in Users BY <2>1 DEF Subjects
  <2>2. CASE m \in OfHandles BY <2>2 DEF Subjects, OfHandles, Users
  <2>3. CASE m \in OfWindows BY <2>3 DEF Subjects, OfHandles, OfWindows, Users
  <2>4. CASE m \notin Users \cup OfHandles \cup OfWindows BY <2>4 DEF Subjects
  <2> QED BY <2>1, <2>2, <2>3, <2>4
<1>7. Else(r) /\ req'[r] = [Idle EXCEPT !.at = "begin", !.ctx = c, !.method = m, !.of = x]
  BY <1>1, <1>4 DEF Else, RequestsTyped
<1>8. /\ req'[r].at = "begin" /\ req'[r].method = m /\ req'[r].of = x /\ req'[r].res = None
      /\ req'[r] \in RequestRecords
  BY <1>5, <1>6, <1>7 DEF Idle, RequestRecords, Ways
<1>9. RequestsTyped' BY <1>1, <1>4, <1>7, <1>8 DEF RequestsTyped, Else
<1>10. /\ EntriesTyped' /\ table' = table /\ UNCHANGED <<lock, body>> /\ \A s \in Streams : Alike(s)
  BY <1>2, StreamsAlike
<1>11. TypeOK'
  BY <1>2, <1>9, <1>10
     DEF HostInv, TypeOK, LocksTyped, SavedTyped, SetsTyped, EndsTyped, others
<1>12. Placed(r)'
  <2>1. m \in Users => x # r /\ Told(x)' BY <1>2, <1>6, <1>7 DEF Told, Else
  <2> QED BY <1>6, <1>8, <2>1 DEF Placed, Using
<1>13. \A q \in Requests : Placed(q)' BY <1>2, <1>7, <1>12, PlacedKept
<1>14. Holds(r)' BY <1>8 DEF Holds, Locking, Committing
<1>15. \A q \in Requests : Holds(q)'
  BY <1>2, <1>7, <1>10, <1>14, OthersHold DEF Alike, others
<1>16. r \notin table /\ r \notin picked BY <1>1, <1>2 DEF Accounted, Whole, Ending
<1>17. Accounted(r)' BY <1>2, <1>10, <1>16 DEF Accounted, others
<1>18. \A q \in Requests : Accounted(q)'
  BY <1>2, <1>7, <1>10, <1>17, AccountedKept DEF Alike, others
<1>19. ASSUME NEW s \in Streams PROVE Whole(s)'
  <2>1. lock[s] # r BY <1>2, NobodyIsNone DEF HostInv, Whole, Locking
  <2>2. req[r].at \notin Ending BY <1>2 DEF Ending
  <2> QED BY <1>7, <1>10, <2>1, <2>2, WholeKept
<1>20. ASSUME NEW s \in Streams PROVE ReadOnce(s)'
  <2>1. req[r].res = None BY <1>1, <1>2 DEF Placed, Ending
  <2>2. Reads(s)' = Reads(s) BY <1>7, <1>8, <2>1 DEF Reads, Else
  <2>3. \A q \in Reads(s) : req'[q].res = req[q].res BY <1>7, <2>1 DEF Reads, Else
  <2> QED BY <1>10, <2>2, <2>3 DEF HostInv, ReadOnce, Alike
<1>21. SavedOnce' BY <1>2, <1>10, SavedKept DEF Alike, others
<1> QED BY <1>11, <1>13, <1>15, <1>18, <1>19, <1>20, <1>21 DEF HostInv

-----------------------------------------------------------------------------------
LEMMA HostStarts == Init => HostInv
<1> SUFFICES ASSUME Init PROVE HostInv OBVIOUS
<1>1. RequestsTyped
  BY DEF Init, RequestsTyped, RequestRecords, Idle, Ways, Owners
<1>2. EntriesTyped BY DEF Init, EntriesTyped, EntryRecords, Unused, Kinds
<1>3. LocksTyped /\ SavedTyped /\ SetsTyped /\ EndsTyped
  BY DEF Init, LocksTyped, SavedTyped, SetsTyped, EndsTyped
<1>4. ASSUME NEW r \in Requests PROVE Placed(r) /\ Holds(r) /\ Accounted(r)
  <2>1. req[r].at = "idle" /\ req[r].method = None /\ req[r].res = None /\ table = {} /\ picked = {}
    BY DEF Init, Idle
  <2>2. None \notin Users BY DEF Methods
  <2> QED BY <2>1, <2>2 DEF Placed, Holds, Accounted, Using, Locking, Committing
<1>5. ASSUME NEW s \in Streams PROVE Whole(s) /\ ReadOnce(s)
  <2>1. entry[s] = Unused /\ lock[s] = None BY DEF Init
  <2>2. Reads(s) = {} BY DEF Init, Idle, Reads
  <2> QED BY <2>1, <2>2 DEF Whole, ReadOnce, Unused
<1>6. SavedOnce BY DEF Init, SavedOnce
<1> QED BY <1>1, <1>2, <1>3, <1>4, <1>5, <1>6 DEF HostInv, TypeOK

LEMMA HostSteps == HostInv /\ [Next]_vars => HostInv'
<1> SUFFICES ASSUME HostInv, [Next]_vars PROVE HostInv' OBVIOUS
<1>1. ASSUME NEW r \in Requests, Work(r) PROVE HostInv'
  BY <1>1, Begins, Settles, Cleans, OpeningSteps, Inserts, TableSteps, Holdings, Writes, FileChunks,
     Copies, Closes, Finishes, Commits, Picks
     DEF Work
<1>2. ASSUME NEW r \in Requests, Outside(r) PROVE HostInv'
  BY <1>2, Arrives, OpeningSteps, Fetches, Endings DEF Outside
<1>3. CASE UNCHANGED vars
  <2>1. UNCHANGED streams /\ UNCHANGED others /\ req' = req BY <1>3 DEF vars, streams, others
  <2>2. SetsTyped' /\ EndsTyped'
    BY <2>1 DEF HostInv, TypeOK, SetsTyped, EndsTyped, streams, others
  <2> QED BY <2>1, <2>2, StreamsAlike, Elsewhere DEF others
<1>4. CASE Next BY <1>1, <1>2, <1>4, Endings DEF Next
<1> QED BY <1>3, <1>4

LEMMA HostHolds == Spec => []HostInv
BY HostStarts, HostSteps, PTL DEF Spec

(* What goes through a stream arrives as it was sent (byte_streams.rs): a file that *)
(* reaches its destination holds every chunk the plugin was told is written and no  *)
(* part of a write that failed, a writer commits once, and readers side by side     *)
(* never get a chunk twice nor the end before every chunk was handed out.           *)
THEOREM WholeStreams == Spec => []StreamsAreWhole
<1>1. HostInv => StreamsAreWhole
  <2> SUFFICES ASSUME HostInv PROVE CommitsAreWhole /\ ChunksOnce BY DEF StreamsAreWhole
  <2>1. CommitsAreWhole BY DEF HostInv, SavedOnce, CommitsAreWhole
  <2>2. ASSUME NEW s \in Streams, NEW e \in Reads(s), Told(e), req[e].res = 0
        PROVE  1 .. Chunks \subseteq {req[r].res : r \in Reads(s)}
    <3>1. ReadOnce(s) BY DEF HostInv
    <3> QED BY <2>2, <3>1 DEF ReadOnce
  <2>3. \A s \in Streams : \A r, q \in Reads(s) :
          req[r].res = req[q].res /\ req[r].res # 0 => r = q
    BY DEF HostInv, ReadOnce
  <2> QED BY <2>1, <2>2, <2>3 DEF ChunksOnce
<1> QED BY <1>1, HostHolds, PTL

(* What a request opened and the plugin was not told of is not kept (the worker's   *)
(* last look at its invocation, host_services.rs): when an error is on its way, the *)
(* stream and the handle of the request are gone.                                   *)
THEOREM UntoldIsDropped == Spec => []NothingUntold
<1>1. HostInv => NothingUntold BY DEF HostInv, Accounted, NothingUntold, At
<1> QED BY <1>1, HostHolds, PTL

===================================================================================
