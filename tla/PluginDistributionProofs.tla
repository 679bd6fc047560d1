-------------------------- MODULE PluginDistributionProofs --------------------------
(***************************************************************************)
(* What the distribution service shows, proved of PluginDistribution for   *)
(* any number of sources, plugins, catalog requests and installations.     *)
(*                                                                         *)
(* Of a request in flight little can be said while the configuration moves *)
(* below it.  All that is said is said under a condition: as long as its   *)
(* generation is the current one, source, code and denials are the ones    *)
(* its answers belong to (Fits).  Every step that would break this raises  *)
(* the generation (Follows), after which the condition is false for good:  *)
(* no request is ahead of the state (Ordered).                             *)
(*                                                                         *)
(* On the disk, a code that is known to be rejected is barred: its cache   *)
(* is gone, or the settings name the rejection, or the service has warned  *)
(* (Survives); and what the files could show of the code in use was not    *)
(* denied (Lasts), but for the two cases that the property names.          *)
(***************************************************************************)
EXTENDS PluginDistribution, TLAPS

(***************************************************************************)
(* The shapes                                                              *)
(***************************************************************************)
Origins == Sources \cup {Nothing}
Codings == Nat \cup {Nothing}
Expiries == {Nothing, 1}
Standings == {"none", "unchecked", "valid", "unavailable"} \cup Rejected
Snapshots == [gen : Nat, ids : SUBSET Restricted, for : SUBSET Catalogs]
States ==
    [source : Origins, identity : Codings, code : BOOLEAN, cred : Standings, ends : Expiries,
     bad : BOOLEAN, warn : BOOLEAN, gen : Nat, seq : Nat,
     pub : Origins, res : Copies \cup {Nothing}, recent : Snapshots \cup {Nothing}]
SavedSettings ==
    [at : {"saved"}, source : Origins, identity : Codings, cred : Standings, ends : Expiries]
Disks ==
    [settings : SavedSettings \cup [at : {"missing", "damaged"}], pub : Origins,
     res : Copies \cup {Nothing}, pub1 : Origins, res1 : Copies \cup {Nothing},
     kept : BOOLEAN, spared : BOOLEAN, hushed : BOOLEAN]
Replies ==
    [kind : {"ok", "gone", "down"} \cup Rejected, id : Restricted \cup {Nothing},
     epoch : Nat, ends : Expiries, ids : Indexes]
Stages == {"access", "catalog", "updates", "update", "package", "prepared", "committing"}
Jobs ==
    [at : {"idle", "gate", "done"} \cup Stages, source : Origins, coded : BOOLEAN,
     identity : Codings, gen : Nat, seq : Nat, reply : Replies \cup {Nothing},
     todo : Indexes, items : Indexes, problem : BOOLEAN,
     plugin : Restricted \cup {Nothing}, version : Nat, mode : Modes \cup {"none"},
     had : Nat, cancelled : BOOLEAN]
Services == [code : {"valid", "revoked"}, scope : SUBSET Restricted, ends : Expiries, epoch : Nat]
Denials == [Restricted -> Nat]
Limits ==
    [faults : SUBSET AllFaults, upgraded : BOOLEAN, may : SUBSET Requests,
     identities : Nat, configures : Nat, epochs : Nat]

(***************************************************************************)
(* The state of the service, with its files                                *)
(***************************************************************************)
\* NothingForeignShown, of any state
Honest(s) ==
    /\ s.pub # Nothing => s.pub = s.source
    /\ s.res # Nothing =>
          /\ s.res.source = s.source
          /\ s.res.identity = s.identity
          /\ s.cred \notin Rejected
    /\ s.recent # Nothing /\ s.recent.gen = s.gen => s.recent.ids = Shown(s)
\* an access code that can be used has an identity, and settings that are
\* damaged are reported
Sane(s) == (s.code => s.identity # Nothing) /\ (s.bad => s.warn)
\* a start would show nothing, or the cache of an older version that outlived its removal
Gone1(d) == d.res1 = Nothing \/ d.spared
Barred(d) ==
    \/ d.res = Nothing /\ Gone1(d)
    \/ d.settings.at = "saved" /\ d.settings.cred \in Rejected
Survives(s, d) == s.cred \in Rejected /\ ~s.warn => Barred(d)
Sticks(s, den) == \A p \in Shown(s) : s.res.ids[p] >= den[p]

Later(ids, den) == \A p \in DOMAIN ids : ids[p] >= den[p]

\* what a start could show of the code in use was not denied
Lasts(s, d, den) ==
    ~s.warn /\ ~d.hushed =>
        /\ d.res # Nothing /\ d.res.identity = s.identity => Later(d.res.ids, den)
        /\ d.res = Nothing /\ ~Gone1(d) /\ d.res1.identity = s.identity => Later(d.res1.ids, den)

\* the codes that are yet to be set, 1 to n, are on no file, and the settings
\* are of the code in use
Young(d, n) ==
    /\ d.settings.at = "saved" => d.settings.identity \notin 1..n
    /\ d.res # Nothing => d.res.identity \notin 1..n
    /\ d.res1 # Nothing => d.res1.identity \notin 1..n
Held(s, d, n) ==
    /\ Young(d, n) /\ s.identity \notin 1..n
    /\ d.settings.at = "saved" => d.settings.identity = s.identity

Good(s, d, den, n) ==
    /\ s \in States /\ d \in Disks /\ den \in Denials
    /\ Honest(s) /\ Sane(s) /\ Survives(s, d) /\ Sticks(s, den)
    /\ Lasts(s, d, den) /\ Held(s, d, n)

(***************************************************************************)
(* A request                                                               *)
(***************************************************************************)
\* whatever has happened since the request was made
Ordered(j, s, epoch) ==
    /\ j.at \in Stages => j.gen <= s.gen
    /\ j.at \notin {"updates", "update", "package", "prepared", "committing"} =>
          DOMAIN j.todo = {} /\ DOMAIN j.items = {}
    /\ ~j.coded => DOMAIN j.todo = {} /\ DOMAIN j.items = {}
    /\ DOMAIN j.todo \cap DOMAIN j.items = {}
    /\ j.at = "updates" /\ j.reply # Nothing => j.reply.id \in DOMAIN j.todo
    /\ j.reply # Nothing =>
          /\ j.reply.epoch <= epoch
          /\ ~j.coded => DOMAIN j.reply.ids = {}
    /\ j.at = "committing" => ~j.cancelled

\* while its generation is the current one
Fits(j, s, den) ==
    /\ j.source = s.source /\ j.identity = s.identity /\ j.source # Nothing
    /\ j.coded => j.identity # Nothing
    /\ j.coded /\ j.at # "access" => s.cred \notin Rejected
    /\ Later(j.todo, den) /\ Later(j.items, den)
    /\ j.reply # Nothing => Later(j.reply.ids, den)

Sound(j, s, den, epoch) ==
    /\ j \in Jobs
    /\ Ordered(j, s, epoch)
    /\ j.at \in Stages /\ j.gen = s.gen => Fits(j, s, den)

(***************************************************************************)
(* The inductive invariant                                                 *)
(***************************************************************************)
CatalogInv ==
    /\ Good(st, onDisk, denied, budget.identities)
    /\ srv \in Services
    /\ \A p \in Restricted : denied[p] <= srv.epoch
    /\ DOMAIN req = Requests
    /\ \A r \in Requests : Sound(req[r], st, denied, srv.epoch)
    /\ installed \in Nat /\ now \in {0, 1}
    /\ budget \in Limits
-----------------------------------------------------------------------------
USE DistributionAssumption

(***************************************************************************)
(* Indexes and the records                                                 *)
(***************************************************************************)

\* An index is a function from some of the plugins to epochs.
LEMMA IndexMade ==
    ASSUME NEW S \in SUBSET Restricted, NEW f \in [S -> Nat]
    PROVE  f \in Indexes
  BY DEF Indexes

LEMMA IndexRead ==
    ASSUME NEW f \in Indexes
    PROVE  /\ DOMAIN f \in SUBSET Restricted
           /\ f \in [DOMAIN f -> Nat]
           /\ \A p \in DOMAIN f : p \in Restricted /\ f[p] \in Nat
  BY DEF Indexes

\* What is left of an index is an index with the same epochs.
LEMMA IndexRestricted ==
    ASSUME NEW f \in Indexes, NEW S \in SUBSET DOMAIN f
    PROVE  /\ Restrict(f, S) \in Indexes
           /\ DOMAIN Restrict(f, S) = S
           /\ \A p \in S : Restrict(f, S)[p] = f[p]
  <1>1. S \in SUBSET Restricted /\ Restrict(f, S) \in [S -> Nat]
    BY IndexRead, Zenon DEF Restrict
  <1>2. DOMAIN Restrict(f, S) = S /\ \A p \in S : Restrict(f, S)[p] = f[p]
    BY DEF Restrict
  <1> QED BY <1>1, <1>2, IndexMade

LEMMA NobodyIndexed == NoPlugins \in Indexes /\ DOMAIN NoPlugins = {}
  <1>1. {} \in SUBSET Restricted
    OBVIOUS
  <1>2. NoPlugins \in [{} -> Nat] /\ DOMAIN NoPlugins = {}
    BY DEF NoPlugins
  <1> QED BY <1>1, <1>2, IndexMade, Zenon

LEMMA NoRequestFacts ==
    /\ NoRequest \in Jobs /\ NoRequest.at = "idle"
    /\ ~NoRequest.coded /\ NoRequest.reply = Nothing /\ ~NoRequest.cancelled
    /\ DOMAIN NoRequest.todo = {} /\ DOMAIN NoRequest.items = {}
  BY NobodyIndexed DEF NoRequest, Jobs, Origins, Codings

\* A request that has not begun, or has ended, holds nothing.
LEMMA AtRest ==
    ASSUME NEW place \in {"idle", "gate", "done"}
    PROVE  /\ At(place) \in Jobs /\ At(place).at = place
           /\ ~At(place).coded /\ At(place).reply = Nothing /\ ~At(place).cancelled
           /\ DOMAIN At(place).todo = {} /\ DOMAIN At(place).items = {}
  BY NobodyIndexed DEF At, NoRequest, Jobs, Origins, Codings, Stages

LEMMA AtRestIsSound ==
    ASSUME NEW place \in {"idle", "gate", "done"}, NEW s, NEW den, NEW epoch
    PROVE  Sound(At(place), s, den, epoch)
  <1>1. place \notin Stages
    BY DEF Stages
  <1>2. Ordered(At(place), s, epoch)
    BY <1>1, AtRest DEF Ordered
  <1> QED BY <1>1, <1>2, AtRest DEF Sound

(***************************************************************************)
(* The state under the lock                                                *)
(***************************************************************************)

\* a state without its files
Fine(s, den) ==
    /\ s \in States /\ den \in Denials
    /\ Honest(s) /\ Sane(s) /\ Sticks(s, den)

\* who is asked, with which code, does not change
SameCode(s, t) ==
    t.source = s.source /\ t.identity = s.identity /\ t.code = s.code

LEMMA ShownIsKnown ==
    ASSUME NEW s \in States
    PROVE  /\ Shown(s) \in SUBSET Restricted
           /\ s.res = Nothing => Shown(s) = {}
           /\ s.res # Nothing => /\ s.res \in Copies /\ s.res.ids \in Indexes
                                 /\ Shown(s) = DOMAIN s.res.ids
  <1>1. s.res \in Copies \cup {Nothing}
    BY DEF States
  <1>2. CASE s.res = Nothing
    BY <1>2 DEF Shown
  <1>3. CASE s.res # Nothing
    <2>1. s.res \in Copies /\ s.res.ids \in Indexes
      BY <1>1, <1>3 DEF Copies
    <2> QED BY <1>3, <2>1, IndexRead DEF Shown
  <1> QED BY <1>2, <1>3

LEMMA BumpFacts ==
    ASSUME NEW s \in States
    PROVE  /\ Bump(s) \in States
           /\ Bump(s).gen = s.gen + 1 /\ Bump(s).seq = s.seq /\ Bump(s).recent = Nothing
           /\ SameCode(s, Bump(s))
           /\ Bump(s).cred = s.cred /\ Bump(s).ends = s.ends
           /\ Bump(s).bad = s.bad /\ Bump(s).warn = s.warn
           /\ Bump(s).pub = s.pub /\ Bump(s).res = s.res
  <1>1. s.gen \in Nat /\ s.gen + 1 \in Nat
    BY DEF States
  <1>2. Bump(s) = [s EXCEPT !.gen = s.gen + 1, !.recent = Nothing]
    BY DEF Bump
  <1>3. Bump(s) \in States
    BY <1>1, <1>2 DEF States
  <1> QED BY <1>1, <1>2, <1>3 DEF States, SameCode

\* the cache of a state loses plugins, and what is in flight is outdated
Loses(s, t, gone) ==
    /\ t \in States
    /\ t.gen = s.gen + 1 /\ t.seq = s.seq /\ t.recent = Nothing
    /\ SameCode(s, t) /\ t.cred = s.cred /\ t.bad = s.bad /\ t.warn = s.warn /\ t.pub = s.pub
    /\ s.res = Nothing => t.res = Nothing
    /\ s.res # Nothing =>
          /\ t.res # Nothing /\ t.res \in Copies
          /\ t.res.source = s.res.source /\ t.res.identity = s.res.identity
          /\ DOMAIN t.res.ids = DOMAIN s.res.ids \ gone
          /\ \A p \in DOMAIN t.res.ids : t.res.ids[p] = s.res.ids[p]

LEMMA LosesKeeps ==
    ASSUME NEW s, NEW t, NEW gone, NEW den, NEW den2 \in Denials,
           Fine(s, den), Loses(s, t, gone),
           \A q \in Restricted \ gone : den2[q] = den[q]
    PROVE  /\ Fine(t, den2)
           /\ Shown(t) = Shown(s) \ gone
           /\ t.gen = s.gen + 1 /\ t.seq = s.seq /\ SameCode(s, t) /\ t.cred = s.cred
  <1>1. s \in States /\ t \in States
    BY DEF Fine, Loses
  <1>2. Shown(t) = Shown(s) \ gone
    BY <1>1, ShownIsKnown DEF Loses
  <1>3. Honest(t)
    BY <1>1 DEF Fine, Honest, Loses, SameCode
  <1>4. Sane(t)
    BY DEF Fine, Sane, Loses, SameCode
  <1>5. Sticks(t, den2)
    <2> SUFFICES ASSUME NEW p \in Shown(t) PROVE t.res.ids[p] >= den2[p]
      BY DEF Sticks
    <2>1. p \in Shown(s) /\ p \notin gone /\ p \in Restricted
      BY <1>1, <1>2, ShownIsKnown
    <2>2. t.res # Nothing /\ s.res # Nothing
      BY <1>1, <2>1, ShownIsKnown DEF Loses
    <2>3. t.res.ids[p] = s.res.ids[p]
      BY <1>1, <2>2, ShownIsKnown DEF Loses
    <2> QED BY <2>1, <2>3 DEF Fine, Sticks
  <1> QED BY <1>1, <1>2, <1>3, <1>4, <1>5 DEF Fine, Loses

\* A cached copy without some of its plugins.
LEMMA LackingFacts ==
    ASSUME NEW copy \in Copies, NEW gone
    PROVE  /\ Lacking(copy, gone) \in Copies /\ Lacking(copy, gone) # Nothing
           /\ Lacking(copy, gone).source = copy.source
           /\ Lacking(copy, gone).identity = copy.identity
           /\ DOMAIN Lacking(copy, gone).ids = DOMAIN copy.ids \ gone
           /\ \A p \in DOMAIN Lacking(copy, gone).ids :
                 Lacking(copy, gone).ids[p] = copy.ids[p]
  <1> DEFINE left == Restrict(copy.ids, DOMAIN copy.ids \ gone)
  <1>1. copy.ids \in Indexes
    BY DEF Copies
  <1>2. /\ left \in Indexes /\ DOMAIN left = DOMAIN copy.ids \ gone
        /\ \A p \in DOMAIN left : left[p] = copy.ids[p]
    BY <1>1, IndexRestricted
  <1>3. Lacking(copy, gone) = [copy EXCEPT !.ids = left]
    BY DEF Lacking
  <1>4. Lacking(copy, gone) \in Copies
    <2> HIDE DEF left
    <2> QED BY <1>2, <1>3 DEF Copies
  <1> HIDE DEF left
  <1> QED BY <1>2, <1>3, <1>4 DEF Copies

\* invalidate for one plugin
LEMMA DenyLoses ==
    ASSUME NEW s \in States, NEW p
    PROVE  Loses(s, Deny(s, p), {p})
  <1>1. Bump(s) \in States /\ Bump(s).res = s.res
    BY BumpFacts
  <1>2. CASE s.res = Nothing
    BY <1>1, <1>2, BumpFacts DEF Loses, Deny, States, SameCode
  <1>3. CASE s.res # Nothing
    <2>1. s.res \in Copies
      BY <1>3, ShownIsKnown
    <2>2. Deny(s, p) = [Bump(s) EXCEPT !.res = Lacking(s.res, {p})]
      BY <1>1, <1>3 DEF Deny, States
    <2> QED BY <1>1, <1>3, <2>1, <2>2, BumpFacts, LackingFacts DEF Loses, States, SameCode
  <1> QED BY <1>2, <1>3

\* accept_live_scope: what is no longer shown goes
LEMMA NarrowLoses ==
    ASSUME NEW s \in States, s.res # Nothing, NEW ids
    PROVE  Loses(s, Narrow(s, ids), Shown(s) \ DOMAIN ids)
  <1>1. Bump(s) \in States /\ Bump(s).res = s.res
    BY BumpFacts
  <1>2. s.res \in Copies
    BY ShownIsKnown
  <1>3. Narrow(s, ids) = [Bump(s) EXCEPT !.res = Lacking(s.res, Shown(s) \ DOMAIN ids)]
    BY <1>1 DEF Narrow, States
  <1> QED BY <1>1, <1>2, <1>3, BumpFacts, LackingFacts DEF Loses, States, SameCode

-----------------------------------------------------------------------------
(***************************************************************************)
(* The files                                                               *)
(***************************************************************************)

LEMMA SavesAreBoolean == ASSUME NEW saved \in Saves PROVE saved \in BOOLEAN
  BY DEF Saves

LEMMA KeptCopyFacts ==
    ASSUME NEW s \in States
    PROVE  /\ KeptCopy(s) \in Copies \cup {Nothing}
           /\ s.res = Nothing => KeptCopy(s) = Nothing
           /\ KeptCopy(s) # Nothing => KeptCopy(s) = s.res /\ s.res # Nothing
  BY ShownIsKnown DEF KeptCopy, States

LEMMA TriesAreBoolean ==
    ASSUME NEW try \in Tries PROVE try.file \in BOOLEAN /\ try.older \in BOOLEAN
  BY DEF Tries, Saves

LEMMA WriteFacts ==
    ASSUME NEW s \in States, NEW d \in Disks, NEW try \in Tries
    PROVE  LET w == WriteRestricted(d, s, try) IN
           /\ w \in Disks /\ w.settings = d.settings
           /\ try.file => w.res = KeptCopy(s) /\ ~w.hushed
           /\ ~try.file => w.res = d.res /\ (w.hushed <=> d.hushed)
           /\ KeptCopy(s) = Nothing => Gone1(w)
           /\ KeptCopy(s) # Nothing => w.res1 = d.res1 /\ (w.spared <=> d.spared)
           /\ w.res1 = Nothing \/ w.res1 = d.res1
  <1> DEFINE copy == KeptCopy(s)
             file == IF try.file THEN copy ELSE d.res
             hushed == d.hushed /\ ~try.file
             older == IF copy = Nothing /\ try.older THEN Nothing ELSE d.res1
             spared == IF copy = Nothing THEN older # Nothing ELSE d.spared
             w == WriteRestricted(d, s, try)
  <1>1. copy \in Copies \cup {Nothing} /\ try.file \in BOOLEAN /\ try.older \in BOOLEAN
    BY KeptCopyFacts, TriesAreBoolean
  <1>2. w = [d EXCEPT !.res = file, !.hushed = hushed, !.res1 = older, !.spared = spared]
    BY DEF WriteRestricted
  <1>3. /\ file \in Copies \cup {Nothing} /\ older \in Copies \cup {Nothing}
        /\ hushed \in BOOLEAN /\ spared \in BOOLEAN
    BY <1>1 DEF Disks
  <1>4. /\ copy = Nothing => older = Nothing \/ spared
        /\ copy # Nothing => older = d.res1 /\ (spared <=> d.spared)
        /\ older = Nothing \/ older = d.res1
        /\ try.file => file = copy /\ ~hushed
        /\ ~try.file => file = d.res /\ (hushed <=> d.hushed)
    BY <1>1
  <1> HIDE DEF copy, file, hushed, older, spared, w
  <1>5. /\ w \in Disks /\ w.settings = d.settings /\ w.res = file /\ w.res1 = older
        /\ w.hushed <=> hushed
        /\ w.spared <=> spared
    BY <1>2, <1>3 DEF Disks
  <1> QED BY <1>4, <1>5 DEF Gone1, copy, w

LEMMA PersistFacts ==
    ASSUME NEW s \in States, NEW d \in Disks, NEW ok \in BOOLEAN
    PROVE  LET w == Persist(d, s, ok) IN
           /\ w \in Disks
           /\ w.res = d.res /\ w.res1 = d.res1
           /\ w.spared <=> d.spared
           /\ w.hushed <=> d.hushed
           /\ ok /\ ~s.bad => w.settings = Settings(s)
           /\ ~(ok /\ ~s.bad) => w = d
           /\ Settings(s) \in SavedSettings /\ Settings(s).identity = s.identity
           /\ Settings(s).at = "saved" /\ Settings(s).cred = s.cred
  <1>1. /\ Settings(s) \in SavedSettings /\ Settings(s).identity = s.identity
        /\ Settings(s).at = "saved" /\ Settings(s).cred = s.cred
    BY DEF Settings, SavedSettings, States
  <1>2. CASE ok /\ ~s.bad
    <2> HIDE DEF Settings
    <2> QED BY <1>1, <1>2 DEF Persist, Disks
  <1>3. CASE ~(ok /\ ~s.bad)
    BY <1>1, <1>3 DEF Persist
  <1> QED BY <1>2, <1>3

\* What the state and its files agree on.
LEMMA HeldMoves ==
    ASSUME NEW s, NEW t, NEW d, NEW n, Held(s, d, n), SameCode(s, t)
    PROVE  Held(t, d, n)
  BY DEF Held, SameCode

LEMMA HeldPersists ==
    ASSUME NEW s \in States, NEW d \in Disks, NEW n, NEW ok \in BOOLEAN, Held(s, d, n)
    PROVE  Held(s, Persist(d, s, ok), n)
  <1>1. CASE ok /\ ~s.bad
    BY <1>1, PersistFacts DEF Held, Young
  <1>2. CASE ~(ok /\ ~s.bad)
    BY <1>2, PersistFacts
  <1> QED BY <1>1, <1>2

\* A cache that is written, or that is removed and was not there, holds what the
\* state holds; one that is not holds what it held.
LEMMA WriteLasts ==
    ASSUME NEW s, NEW d \in Disks, NEW den, NEW n, Fine(s, den), Held(s, d, n),
           NEW try \in Tries
    PROVE  LET w == WriteRestricted(d, s, try) IN
           /\ w \in Disks /\ w.settings = d.settings /\ Held(s, w, n)
           /\ Written(d, s, try) \/ Lasts(s, d, den) => Lasts(s, w, den)
           /\ Written(d, s, try) /\ s.res = Nothing => w.res = Nothing /\ Gone1(w)
  <1> DEFINE w == WriteRestricted(d, s, try)
             copy == KeptCopy(s)
  <1>1. s \in States
    BY DEF Fine
  <1>2. /\ w \in Disks /\ w.settings = d.settings
        /\ try.file => w.res = copy /\ ~w.hushed
        /\ ~try.file => w.res = d.res /\ (w.hushed <=> d.hushed)
        /\ copy = Nothing => Gone1(w)
        /\ copy # Nothing => w.res1 = d.res1 /\ (w.spared <=> d.spared)
        /\ w.res1 = Nothing \/ w.res1 = d.res1
    BY <1>1, WriteFacts
  <1>3. /\ copy = Nothing \/ copy = s.res
        /\ s.res = Nothing => copy = Nothing
    BY <1>1, KeptCopyFacts
  <1>4. copy # Nothing => copy.identity = s.identity /\ Later(copy.ids, den)
    <2> SUFFICES ASSUME copy # Nothing PROVE copy.identity = s.identity /\ Later(copy.ids, den)
      OBVIOUS
    <2>1. copy = s.res /\ s.res # Nothing
      BY <1>1, KeptCopyFacts
    <2>2. Shown(s) = DOMAIN s.res.ids
      BY <1>1, <2>1, ShownIsKnown
    <2> HIDE DEF copy
    <2> QED BY <2>1, <2>2 DEF Fine, Honest, Sticks, Later
  <1>5. Written(d, s, try) <=> try.file \/ (copy = Nothing /\ d.res = Nothing)
    BY DEF Written
  <1> HIDE DEF w, copy
  <1>6. Held(s, w, n)
    <2>1. w.res = Nothing \/ w.res = d.res \/ (copy # Nothing /\ w.res = copy)
      BY <1>2
    <2>2. w.res # Nothing => w.res.identity \notin 1..n
      BY <1>4, <2>1 DEF Held, Young
    <2>3. w.res1 # Nothing => w.res1.identity \notin 1..n
      BY <1>2 DEF Held, Young
    <2> QED BY <1>2, <2>2, <2>3 DEF Held, Young
  <1>7. ASSUME Written(d, s, try) PROVE Lasts(s, w, den)
    <2>1. CASE try.file
      <3>1. w.res = copy
        BY <1>2, <2>1
      <3> QED BY <1>2, <1>4, <3>1 DEF Lasts
    <2>2. CASE ~try.file
      <3>1. copy = Nothing /\ w.res = Nothing
        BY <1>2, <1>5, <1>7, <2>2
      <3> QED BY <1>2, <3>1 DEF Lasts
    <2> QED BY <2>1, <2>2
  <1>8. ASSUME ~Written(d, s, try), Lasts(s, d, den) PROVE Lasts(s, w, den)
    <2>1. ~try.file /\ w.res = d.res /\ (w.hushed <=> d.hushed)
      BY <1>2, <1>5, <1>8
    <2>2. CASE d.res # Nothing
      BY <1>8, <2>1, <2>2 DEF Lasts
    <2>3. CASE d.res = Nothing
      <3>1. w.res1 = d.res1 /\ (w.spared <=> d.spared)
        BY <1>2, <1>5, <1>8, <2>3
      <3>2. Gone1(w) <=> Gone1(d)
        BY <3>1 DEF Gone1
      <3> QED BY <1>8, <2>1, <2>3, <3>1, <3>2 DEF Lasts
    <2> QED BY <2>2, <2>3
  <1>9. Written(d, s, try) /\ s.res = Nothing => w.res = Nothing /\ Gone1(w)
    BY <1>2, <1>3, <1>5
  <1> QED BY <1>2, <1>6, <1>7, <1>8, <1>9 DEF w

\* A state with another warning shows and knows what it did.
Warned(s, t) == \E w \in BOOLEAN : t = [s EXCEPT !.warn = w] /\ (s.warn => w)

LEMMA WarnedIsFine ==
    ASSUME NEW s, NEW t, NEW den, Fine(s, den), Warned(s, t)
    PROVE  /\ Fine(t, den) /\ SameCode(s, t) /\ Shown(t) = Shown(s)
           /\ t.gen = s.gen /\ t.seq = s.seq /\ t.cred = s.cred /\ t.res = s.res
           /\ t.bad = s.bad /\ (s.warn => t.warn)
  <1> PICK w \in BOOLEAN : t = [s EXCEPT !.warn = w] /\ (s.warn => w)
    BY DEF Warned
  <1>1. s \in States
    BY DEF Fine
  <1>2. /\ t \in States
        /\ t.source = s.source /\ t.identity = s.identity /\ t.code = s.code
        /\ t.gen = s.gen /\ t.seq = s.seq /\ t.cred = s.cred /\ t.res = s.res
        /\ t.bad = s.bad /\ t.warn = w /\ t.pub = s.pub /\ t.recent = s.recent
    BY <1>1 DEF States
  <1>3. Shown(t) = Shown(s)
    BY <1>2 DEF Shown
  <1> QED BY <1>2, <1>3 DEF Fine, Honest, Sane, Sticks, SameCode

\* The cache is written, or the service has warned: what a rejected code had
\* shown is not on the disk, because the state shows nothing.
LEMMA SyncedKeeps ==
    ASSUME NEW s, NEW d \in Disks, NEW den, Fine(s, den), Held(s, d, budget.identities),
           NEW o \in Synced(s, d)
    PROVE  /\ Good(o.st, o.disk, den, budget.identities) /\ Warned(s, o.st)
           /\ Fine(o.st, den) /\ o.disk \in Disks
  <1> DEFINE n == budget.identities
  <1> PICK saved \in Tries :
          /\ o.st = [s EXCEPT !.warn = s.warn \/ ~Written(d, s, saved)]
          /\ o.disk = WriteRestricted(d, s, saved)
    BY DEF Synced
  <1>1. s \in States /\ saved.file \in BOOLEAN
    BY TriesAreBoolean DEF Fine
  <1>2. Written(d, s, saved) \in BOOLEAN /\ s.warn \in BOOLEAN
    BY <1>1 DEF Written, States
  <1>3. Warned(s, o.st) /\ o.st.identity = s.identity
        /\ (o.st.warn <=> s.warn \/ ~Written(d, s, saved))
    <2> DEFINE w == s.warn \/ ~Written(d, s, saved)
    <2>1. w \in BOOLEAN /\ (s.warn => w) /\ o.st = [s EXCEPT !.warn = w]
      BY <1>2
    <2>2. w <=> s.warn \/ ~Written(d, s, saved)
      OBVIOUS
    <2> HIDE DEF w
    <2> QED BY <1>1, <2>1, <2>2 DEF Warned, States
  <1>4. Fine(o.st, den) /\ o.st.cred = s.cred /\ o.st.res = s.res /\ SameCode(s, o.st)
    BY <1>3, WarnedIsFine
  <1> HIDE DEF n
  <1>5. /\ o.disk \in Disks /\ Held(s, o.disk, n)
        /\ Written(d, s, saved) => Lasts(s, o.disk, den)
        /\ Written(d, s, saved) /\ s.res = Nothing => o.disk.res = Nothing /\ Gone1(o.disk)
    BY WriteLasts DEF n
  <1>6. Survives(o.st, o.disk)
    <2> SUFFICES ASSUME o.st.cred \in Rejected, ~o.st.warn PROVE o.disk.res = Nothing /\ Gone1(o.disk)
      BY DEF Survives, Barred
    <2>1. s.res = Nothing
      BY <1>4 DEF Fine, Honest
    <2> QED BY <1>3, <1>5, <2>1
  <1>7. Lasts(o.st, o.disk, den)
    <2>1. CASE o.st.warn
      BY <2>1 DEF Lasts
    <2>2. CASE ~o.st.warn
      <3>1. Lasts(s, o.disk, den) /\ ~s.warn
        BY <1>3, <1>5, <2>2
      <3> QED BY <1>3, <2>2, <3>1 DEF Lasts
    <2> QED BY <2>1, <2>2
  <1>8. Held(o.st, o.disk, n)
    BY <1>4, <1>5, HeldMoves
  <1> QED BY <1>3, <1>4, <1>5, <1>6, <1>7, <1>8 DEF Good, Fine, n

\* The code is rejected: nothing of it is shown, and unless the service warns a
\* start shows nothing of it either.
LEMMA RejectionsKeep ==
    ASSUME Good(st, onDisk, denied, budget.identities), NEW what \in Rejected,
           NEW o \in Rejections(what)
    PROVE  /\ Good(o.st, o.disk, denied, budget.identities)
           /\ SameCode(st, o.st)
           /\ o.st.gen = st.gen + 1 /\ o.st.seq = st.seq /\ o.st.cred = what
  <1> DEFINE s == Reject(st, what)
             n == budget.identities
  <1> PICK saved \in Saves, removed \in Tries :
          /\ o.st = [s EXCEPT !.warn = s.warn \/ ~(saved \/ Written(onDisk, s, removed))]
          /\ o.disk = WriteRestricted(Persist(onDisk, s, saved), s, removed)
    BY DEF Rejections
  <1>1. /\ st \in States /\ onDisk \in Disks /\ denied \in Denials
        /\ saved \in BOOLEAN /\ removed.file \in BOOLEAN
    BY SavesAreBoolean, TriesAreBoolean DEF Good
  <1>2. /\ s \in States
        /\ s.gen = st.gen + 1 /\ s.seq = st.seq /\ SameCode(st, s) /\ s.cred = what
        /\ s.res = Nothing /\ s.recent = Nothing /\ s.bad = st.bad /\ s.warn = st.warn
        /\ s.pub = st.pub
    <2>1. what \in Standings
      BY DEF Standings
    <2>2. Bump(st) \in States
      BY <1>1, BumpFacts
    <2> QED BY <1>1, <2>1, <2>2, BumpFacts DEF Reject, States, SameCode
  <1>3. Fine(s, denied)
    <2>1. Shown(s) = {}
      BY <1>2, ShownIsKnown
    <2> QED BY <1>1, <1>2, <2>1 DEF Fine, Good, Honest, Sane, Sticks, SameCode
  <1>3a. Held(s, onDisk, n) /\ Lasts(s, onDisk, denied)
    <2>1. Held(st, onDisk, n) /\ Lasts(st, onDisk, denied)
      BY DEF Good
    <2> HIDE DEF s, n
    <2>2. Held(s, onDisk, n)
      BY <1>2, <2>1, HeldMoves
    <2> QED BY <1>2, <2>1, <2>2 DEF Lasts, SameCode
  <1> HIDE DEF s, n
  <1>4. Written(onDisk, s, removed) \in BOOLEAN /\ s.warn \in BOOLEAN
    BY <1>1, <1>2 DEF Written, States
  <1>5. Warned(s, o.st) /\ (o.st.warn <=> s.warn \/ ~(saved \/ Written(onDisk, s, removed)))
    <2> DEFINE w == s.warn \/ ~(saved \/ Written(onDisk, s, removed))
    <2>1. w \in BOOLEAN /\ (s.warn => w) /\ o.st = [s EXCEPT !.warn = w]
      BY <1>4
    <2>2. w <=> s.warn \/ ~(saved \/ Written(onDisk, s, removed))
      OBVIOUS
    <2> HIDE DEF w
    <2> QED BY <1>2, <2>1, <2>2 DEF Warned, States
  <1>6. Fine(o.st, denied) /\ SameCode(s, o.st)
        /\ o.st.gen = s.gen /\ o.st.seq = s.seq /\ o.st.cred = s.cred
    BY <1>3, <1>5, WarnedIsFine
  <1> DEFINE kept == Persist(onDisk, s, saved)
  <1>7. /\ kept \in Disks /\ kept.res = onDisk.res /\ kept.res1 = onDisk.res1
        /\ kept.spared <=> onDisk.spared
        /\ kept.hushed <=> onDisk.hushed
        /\ Held(s, kept, n)
    BY <1>1, <1>2, <1>3a, PersistFacts, HeldPersists
  <1>8. kept = Persist(onDisk, s, saved) /\ o.disk = WriteRestricted(kept, s, removed)
    OBVIOUS
  <1> HIDE DEF kept
  <1>9. Lasts(s, kept, denied)
    <2>1. Gone1(kept) <=> Gone1(onDisk)
      BY <1>7 DEF Gone1
    <2> QED BY <1>3a, <1>7, <2>1 DEF Lasts
  <1>10. Written(kept, s, removed) <=> Written(onDisk, s, removed)
    BY <1>7 DEF Written
  <1>11. /\ o.disk \in Disks /\ o.disk.settings = kept.settings /\ Held(s, o.disk, n)
         /\ Lasts(s, o.disk, denied)
         /\ Written(kept, s, removed) => o.disk.res = Nothing /\ Gone1(o.disk)
    BY <1>2, <1>3, <1>7, <1>8, <1>9, WriteLasts
  <1>12. Survives(o.st, o.disk)
    <2> SUFFICES ASSUME ~o.st.warn PROVE Barred(o.disk)
      BY DEF Survives
    <2>1. ~s.warn /\ (saved \/ Written(onDisk, s, removed))
      BY <1>5
    <2>2. ~s.bad
      BY <2>1, <1>3 DEF Fine, Sane
    <2>3. CASE saved
      <3>1. /\ kept.settings = Settings(s)
            /\ Settings(s).at = "saved" /\ Settings(s).cred = s.cred
        BY <1>1, <1>2, <1>8, <2>2, <2>3, PersistFacts
      <3>2. Barred(o.disk)
        BY <1>2, <1>11, <3>1 DEF Barred
      <3> QED BY <3>2
    <2>4. CASE Written(onDisk, s, removed)
      BY <1>10, <1>11, <2>4 DEF Barred
    <2> QED BY <2>1, <2>3, <2>4
  <1>13. Lasts(o.st, o.disk, denied) /\ Held(o.st, o.disk, n)
    <2>1. Lasts(o.st, o.disk, denied)
      BY <1>5, <1>6, <1>11 DEF Lasts, SameCode
    <2> QED BY <1>6, <1>11, <2>1, HeldMoves
  <1> QED BY <1>2, <1>6, <1>11, <1>12, <1>13 DEF Good, Fine, SameCode, n

(***************************************************************************)
(* A start shows nothing it should not                                     *)
(***************************************************************************)
LEMMA FreshFacts == Fresh \in States /\ Fresh.res = Nothing /\ Fresh.pub = Nothing
                    /\ Fresh.recent = Nothing
  BY DEF Fresh, States, Origins, Codings, Expiries, Standings, Rejected

LEMMA SettingsLoad ==
    ASSUME NEW d \in Disks, NEW readable \in BOOLEAN
    PROVE  LET s == LoadSettings(d, readable) IN
           /\ s \in States /\ Sane(s)
           /\ s.res = Nothing /\ s.pub = Nothing /\ s.recent = Nothing
           /\ s.cred \in Rejected => d.settings.at = "saved" /\ d.settings.cred \in Rejected
           /\ d.settings.at = "saved" /\ d.settings.cred \in Rejected => ~MayLoad(s)
           /\ s.identity = IF d.settings.at = "saved" THEN d.settings.identity ELSE Nothing
           /\ MayLoad(s) => d.settings.at = "saved"
  <1> USE FreshFacts
  <1>1. CASE d.settings.at = "missing"
    <2>1. LoadSettings(d, readable) = [Fresh EXCEPT !.source = Official]
      BY <1>1 DEF LoadSettings
    <2>2. LoadSettings(d, readable).cred = "none" /\ ~LoadSettings(d, readable).code
          /\ ~LoadSettings(d, readable).bad /\ LoadSettings(d, readable).identity = Nothing
      BY <2>1 DEF Fresh
    <2>3. Official \in Origins
      BY DEF Origins
    <2> QED BY <1>1, <2>1, <2>2, <2>3 DEF States, Sane, Rejected, MayLoad
  <1>2. CASE d.settings.at = "damaged"
    <2>1. LoadSettings(d, readable) =
            [Fresh EXCEPT !.bad = TRUE, !.cred = "unavailable", !.warn = TRUE]
      BY <1>2 DEF LoadSettings
    <2>2. ~LoadSettings(d, readable).code /\ LoadSettings(d, readable).identity = Nothing
      BY <2>1 DEF Fresh
    <2>3. "unavailable" \in Standings
      BY DEF Standings
    <2> QED BY <1>2, <2>1, <2>2, <2>3 DEF States, Sane, Rejected, MayLoad
  <1>3. CASE d.settings.at \notin {"missing", "damaged"}
    <2> DEFINE f == d.settings
               code == f.identity # Nothing /\ readable
               known == code /\ f.cred \in {"unchecked", "valid"} \cup Rejected
               cred == IF f.identity = Nothing THEN "none"
                       ELSE IF ~code THEN "unavailable"
                       ELSE IF known THEN f.cred ELSE "unchecked"
               ends == IF known THEN f.ends ELSE Nothing
               warn == f.identity # Nothing /\ ~code
    <2>1. f \in SavedSettings
      BY <1>3 DEF Disks
    <2>2. /\ f.at = "saved" /\ f.source \in Origins /\ f.identity \in Codings
          /\ f.cred \in Standings /\ f.ends \in Expiries
      BY <2>1 DEF SavedSettings
    <2>3. LoadSettings(d, readable) =
            [Fresh EXCEPT !.source = f.source, !.identity = f.identity, !.code = code,
                          !.cred = cred, !.ends = ends, !.warn = warn]
      BY <1>3, Zenon DEF LoadSettings, Credential
    <2>4. /\ code \in BOOLEAN /\ warn \in BOOLEAN /\ cred \in Standings /\ ends \in Expiries
          /\ cred \in Rejected => f.cred \in Rejected
          /\ code => f.identity # Nothing
          /\ f.cred \in Rejected /\ code => cred \in Rejected
      BY <2>2 DEF Standings, Rejected, Expiries
    <2>5. ~Fresh.bad
      BY DEF Fresh
    <2> HIDE DEF code, known, cred, ends, warn, f
    <2>6. /\ LoadSettings(d, readable) \in States
          /\ LoadSettings(d, readable).res = Nothing /\ LoadSettings(d, readable).pub = Nothing
          /\ LoadSettings(d, readable).recent = Nothing
          /\ LoadSettings(d, readable).cred = cred /\ LoadSettings(d, readable).code = code
          /\ LoadSettings(d, readable).identity = f.identity /\ ~LoadSettings(d, readable).bad
      BY <2>2, <2>3, <2>4, <2>5 DEF States
    <2> QED BY <2>2, <2>4, <2>6 DEF Sane, MayLoad, f
  <1> QED BY <1>1, <1>2, <1>3

\* As long as nothing is denied, everything was shown later.
LEMMA NoneDenied ==
    ASSUME NEW ids \in Indexes, NEW den, \A p \in Restricted : den[p] = 0
    PROVE  Later(ids, den)
  <1> SUFFICES ASSUME NEW p \in DOMAIN ids PROVE ids[p] >= den[p]
    BY DEF Later
  <1>1. p \in Restricted /\ ids[p] \in Nat
    BY IndexRead
  <1> QED BY <1>1

\* What a start loads: the cache of an older version where there is no other.
LEMMA LoadFacts ==
    ASSUME NEW d \in Disks, NEW readable \in BOOLEAN
    PROVE  LET s == LoadSettings(d, readable)
               l == Load(d, readable)
           IN  /\ l \in States /\ l.recent = Nothing /\ SameCode(s, l) /\ l.cred = s.cred
               /\ l.bad = s.bad /\ l.warn = s.warn
               /\ l.pub # Nothing => l.pub = l.source
               /\ l.res # Nothing =>
                     /\ l.res = Cache(d.res, d.res1) /\ MayLoad(s)
                     /\ l.res.source = l.source /\ l.res.identity = l.identity
  <1> DEFINE s == LoadSettings(d, readable)
             oldPub == Cache(d.pub, d.pub1)
             oldRes == Cache(d.res, d.res1)
             pub == IF oldPub # Nothing /\ oldPub = s.source THEN oldPub ELSE Nothing
             res == IF /\ oldRes # Nothing /\ MayLoad(s)
                       /\ oldRes.source = s.source /\ oldRes.identity = s.identity
                    THEN oldRes ELSE Nothing
             l == Load(d, readable)
  <1>1. s \in States /\ s.recent = Nothing
    BY SettingsLoad
  <1>2. l = [s EXCEPT !.pub = pub, !.res = res]
    BY DEF Load
  <1>3. oldPub \in Origins /\ oldRes \in Copies \cup {Nothing} /\ oldRes = Cache(d.res, d.res1)
    BY DEF Cache, Disks, Origins
  <1> HIDE DEF oldPub, oldRes, s, l
  <1>4. /\ pub \in Origins /\ res \in Copies \cup {Nothing}
        /\ pub # Nothing => pub = s.source
        /\ res # Nothing => /\ res = oldRes /\ MayLoad(s)
                            /\ res.source = s.source /\ res.identity = s.identity
    BY <1>3 DEF Origins
  <1> HIDE DEF pub, res
  <1>5. /\ l \in States /\ l.pub = pub /\ l.res = res /\ l.recent = Nothing
        /\ SameCode(s, l) /\ l.cred = s.cred /\ l.bad = s.bad /\ l.warn = s.warn
    BY <1>1, <1>2, <1>4 DEF States, SameCode
  <1> QED BY <1>3, <1>4, <1>5 DEF SameCode, s, l

LEMMA LoadKeeps ==
    ASSUME NEW d \in Disks, NEW readable \in BOOLEAN, NEW n, Young(d, n), Nothing \notin 1..n,
           NEW den \in Denials, \A p \in Restricted : den[p] = 0
    PROVE  Good(Load(d, readable), d, den, n)
  <1> DEFINE s == LoadSettings(d, readable)
             l == Load(d, readable)
  <1>1. /\ s \in States /\ Sane(s)
        /\ s.cred \in Rejected => d.settings.at = "saved" /\ d.settings.cred \in Rejected
        /\ s.identity = IF d.settings.at = "saved" THEN d.settings.identity ELSE Nothing
        /\ MayLoad(s) => s.cred \notin Rejected
    BY SettingsLoad DEF MayLoad
  <1>5. /\ l \in States /\ l.recent = Nothing /\ SameCode(s, l) /\ l.cred = s.cred
        /\ l.bad = s.bad /\ l.warn = s.warn
        /\ l.pub # Nothing => l.pub = l.source
        /\ l.res # Nothing =>
              /\ MayLoad(s) /\ l.res.source = l.source /\ l.res.identity = l.identity
    BY LoadFacts
  <1> HIDE DEF s, l
  <1>6. Honest(l) /\ Sane(l)
    BY <1>1, <1>5 DEF Honest, Sane, SameCode
  <1>7. Survives(l, d)
    BY <1>1, <1>5 DEF Survives, Barred
  <1>8. Sticks(l, den)
    <2> SUFFICES ASSUME NEW p \in Shown(l) PROVE l.res.ids[p] >= den[p]
      BY DEF Sticks
    <2>1. l.res # Nothing /\ l.res.ids \in Indexes /\ p \in DOMAIN l.res.ids
      BY <1>5, ShownIsKnown
    <2> QED BY <2>1, NoneDenied DEF Later
  <1>9. Lasts(l, d, den)
    <2>1. /\ d.res # Nothing => Later(d.res.ids, den)
          /\ d.res1 # Nothing => Later(d.res1.ids, den)
      <3>1. /\ d.res # Nothing => d.res.ids \in Indexes
            /\ d.res1 # Nothing => d.res1.ids \in Indexes
        BY DEF Disks, Copies
      <3> QED BY <3>1, NoneDenied
    <2> QED BY <2>1 DEF Lasts, Gone1
  <1>10. Held(l, d, n)
    BY <1>1, <1>5 DEF Held, Young, SameCode
  <1> QED BY <1>5, <1>6, <1>7, <1>8, <1>9, <1>10 DEF Good, l

-----------------------------------------------------------------------------
(***************************************************************************)
(* Requests while the state moves                                          *)
(***************************************************************************)

\* a step of the service outdates every request, or changes nothing they rely on
Follows(s, t, den, den2) ==
    \/ s.gen < t.gen
    \/ /\ t.gen = s.gen /\ t.source = s.source /\ t.identity = s.identity
       /\ t.cred \in Rejected => s.cred \in Rejected
       /\ den2 = den

LEMMA StaysSound ==
    ASSUME NEW s \in States, NEW t \in States, NEW den, NEW den2,
           NEW e \in Nat, NEW e2 \in Nat, e <= e2,
           Follows(s, t, den, den2), NEW j, Sound(j, s, den, e)
    PROVE  Sound(j, t, den2, e2)
  <1>1. s.gen \in Nat /\ t.gen \in Nat /\ s.gen <= t.gen
    BY DEF States, Follows
  <1>2. j \in Jobs /\ j.gen \in Nat /\ (j.reply # Nothing => j.reply.epoch \in Nat)
    BY DEF Sound, Jobs, Replies
  <1>3. Ordered(j, t, e2)
    BY <1>1, <1>2 DEF Sound, Ordered
  <1>4. ASSUME j.at \in Stages, j.gen = t.gen
        PROVE  Fits(j, t, den2)
    <2>1. j.gen <= s.gen
      BY <1>4 DEF Sound, Ordered
    <2>2. ~(s.gen < t.gen)
      BY <1>1, <1>2, <1>4, <2>1
    <2>3. /\ t.gen = s.gen /\ t.source = s.source /\ t.identity = s.identity
          /\ t.cred \in Rejected => s.cred \in Rejected
          /\ den2 = den
      BY <2>2 DEF Follows
    <2>4. Fits(j, s, den)
      BY <1>4, <2>3 DEF Sound
    <2> QED BY <2>3, <2>4 DEF Fits
  <1> QED BY <1>2, <1>3, <1>4 DEF Sound

\* One request moves, and the state with it.
LEMMA StateMoves ==
    ASSUME CatalogInv, NEW r \in Requests, NEW j, req' = [req EXCEPT ![r] = j],
           Good(st', onDisk', denied', budget.identities), Follows(st, st', denied, denied'),
           \A p \in Restricted : denied'[p] <= srv.epoch,
           Sound(j, st', denied', srv.epoch),
           installed' \in Nat, UNCHANGED <<srv, now, budget>>
    PROVE  CatalogInv'
  <1>1. st \in States /\ st' \in States /\ srv.epoch \in Nat
    BY DEF CatalogInv, Good, Services
  <1>2. DOMAIN req' = Requests
    BY DEF CatalogInv
  <1>3. ASSUME NEW q \in Requests PROVE Sound(req'[q], st', denied', srv.epoch)
    <2>1. CASE q = r
      BY <2>1 DEF CatalogInv
    <2>2. CASE q # r
      <3>1. req'[q] = req[q]
        BY <2>2 DEF CatalogInv
      <3>2. Sound(req[q], st, denied, srv.epoch)
        BY DEF CatalogInv
      <3>3. Sound(req[q], st', denied', srv.epoch)
        BY <1>1, <3>2, StaysSound
      <3> QED BY <3>1, <3>3
    <2> QED BY <2>1, <2>2
  <1>4. srv' = srv /\ now' = now /\ budget' = budget
    OBVIOUS
  <1>5. /\ srv' \in Services /\ now' \in {0, 1} /\ budget' \in Limits
        /\ \A p \in Restricted : denied'[p] <= srv'.epoch
    BY <1>4 DEF CatalogInv
  <1>6. \A q \in Requests : Sound(req'[q], st', denied', srv'.epoch)
    BY <1>3, <1>4
  <1>7. Good(st', onDisk', denied', budget'.identities)
    BY <1>4
  <1> QED BY <1>2, <1>5, <1>6, <1>7 DEF CatalogInv

LEMMA RequestMoves ==
    ASSUME CatalogInv, NEW r \in Requests, NEW j, req' = [req EXCEPT ![r] = j],
           Sound(j, st, denied, srv.epoch),
           installed' \in Nat, UNCHANGED <<st, onDisk, srv, now, denied, budget>>
    PROVE  CatalogInv'
  <1>1. st' = st /\ onDisk' = onDisk /\ denied' = denied
    OBVIOUS
  <1>2. Good(st', onDisk', denied', budget.identities) /\ \A p \in Restricted : denied'[p] <= srv.epoch
    BY <1>1 DEF CatalogInv
  <1>3. Follows(st, st', denied, denied')
    BY <1>1 DEF Follows
  <1>4. Sound(j, st', denied', srv.epoch)
    BY <1>1
  <1>5. UNCHANGED <<srv, now, budget>>
    OBVIOUS
  <1> QED BY <1>2, <1>3, <1>4, <1>5, StateMoves

\* A request ends, whatever it has done to the state.
LEMMA EndingMoves ==
    ASSUME CatalogInv, NEW r \in Requests, Ends(r),
           Good(st', onDisk', denied', budget.identities), Follows(st, st', denied, denied'),
           \A p \in Restricted : denied'[p] <= srv.epoch,
           installed' \in Nat, UNCHANGED <<srv, now, budget>>
    PROVE  CatalogInv'
  <1>1. Sound(At("done"), st', denied', srv.epoch)
    BY AtRestIsSound
  <1> QED BY <1>1, StateMoves DEF Ends

LEMMA EndingOnly ==
    ASSUME CatalogInv, NEW r \in Requests, Ends(r),
           installed' \in Nat, UNCHANGED <<st, onDisk, srv, now, denied, budget>>
    PROVE  CatalogInv'
  <1>1. Sound(At("done"), st, denied, srv.epoch)
    BY AtRestIsSound
  <1> QED BY <1>1, RequestMoves DEF Ends

LEMMA FailingKeeps ==
    ASSUME CatalogInv, NEW r \in Requests, Fails(r)
    PROVE  CatalogInv'
  <1>1. installed' \in Nat
    BY DEF Fails, CatalogInv
  <1> QED BY <1>1, EndingOnly DEF Fails

\* What is known of a request of the invariant.
LEMMA KnownJob ==
    ASSUME CatalogInv, NEW r \in Requests
    PROVE  /\ Sound(req[r], st, denied, srv.epoch) /\ Ordered(req[r], st, srv.epoch)
           /\ req[r] \in Jobs
           /\ req[r].at \in Stages /\ req[r].gen = st.gen => Fits(req[r], st, denied)
           /\ req[r].gen \in Nat /\ req[r].seq \in Nat /\ req[r].coded \in BOOLEAN
           /\ req[r].source \in Origins /\ req[r].identity \in Codings
           /\ req[r].todo \in Indexes /\ req[r].items \in Indexes
           /\ req[r].reply # Nothing =>
                 /\ req[r].reply \in Replies
                 /\ req[r].reply.ids \in Indexes /\ req[r].reply.epoch \in Nat
                 /\ req[r].reply.ends \in Expiries
                 /\ req[r].reply.id \in Restricted \cup {Nothing}
           /\ st \in States /\ onDisk \in Disks /\ denied \in Denials /\ srv.epoch \in Nat
           /\ st.gen \in Nat /\ st.seq \in Nat
           /\ Good(st, onDisk, denied, budget.identities) /\ Fine(st, denied)
  <1>1. Sound(req[r], st, denied, srv.epoch) /\ Good(st, onDisk, denied, budget.identities) /\ srv \in Services
    BY DEF CatalogInv
  <1>2. req[r] \in Jobs
    BY <1>1 DEF Sound
  <1>3. /\ req[r].gen \in Nat /\ req[r].seq \in Nat /\ req[r].coded \in BOOLEAN
        /\ req[r].source \in Origins /\ req[r].identity \in Codings
        /\ req[r].todo \in Indexes /\ req[r].items \in Indexes
        /\ req[r].reply \in Replies \cup {Nothing}
    BY <1>2 DEF Jobs
  <1>4. req[r].reply # Nothing =>
                 /\ req[r].reply \in Replies
                 /\ req[r].reply.ids \in Indexes /\ req[r].reply.epoch \in Nat
                 /\ req[r].reply.ends \in Expiries
                 /\ req[r].reply.id \in Restricted \cup {Nothing}
    BY <1>3 DEF Replies
  <1>5. /\ st \in States /\ onDisk \in Disks /\ denied \in Denials /\ srv.epoch \in Nat
        /\ st.gen \in Nat /\ st.seq \in Nat /\ Fine(st, denied)
    BY <1>1 DEF Good, Fine, States, Services
  <1> QED BY <1>1, <1>2, <1>3, <1>4, <1>5 DEF Sound

LEMMA SequenceFacts ==
    ASSUME NEW s, NEW d, NEW den, NEW n, Good(s, d, den, n)
    PROVE  LET t == [s EXCEPT !.seq = s.seq + 1] IN
           /\ Good(t, d, den, n) /\ SameCode(s, t)
           /\ t.gen = s.gen /\ t.cred = s.cred /\ t.seq = s.seq + 1
  <1> DEFINE t == [s EXCEPT !.seq = s.seq + 1]
  <1>1. s \in States /\ s.seq + 1 \in Nat
    BY DEF Good, States
  <1>2. /\ t \in States
        /\ t.source = s.source /\ t.identity = s.identity /\ t.code = s.code
        /\ t.gen = s.gen /\ t.cred = s.cred /\ t.res = s.res /\ t.seq = s.seq + 1
        /\ t.bad = s.bad /\ t.warn = s.warn /\ t.pub = s.pub /\ t.recent = s.recent
    BY <1>1 DEF States
  <1> HIDE DEF t
  <1>3. Shown(t) = Shown(s)
    BY <1>2 DEF Shown
  <1>4. Good(t, d, den, n)
    BY <1>2, <1>3 DEF Good, Honest, Sane, Survives, Sticks, Lasts, Held
  <1> QED BY <1>2, <1>4 DEF SameCode, t

\* Who is denied from now on.
LEMMA DeniedFacts ==
    ASSUME CatalogInv, NEW gone, NEW epoch \in Nat, epoch <= srv.epoch, DeniedAt(gone, epoch)
    PROVE  /\ denied' \in Denials
           /\ \A p \in Restricted : denied'[p] <= srv.epoch
           /\ \A q \in Restricted \ gone : denied'[q] = denied[q]
           /\ Restricted \cap gone = {} => denied' = denied
  <1>1. denied \in Denials /\ \A p \in Restricted : denied[p] <= srv.epoch
    BY DEF CatalogInv, Good
  <1>2. denied' = [p \in Restricted |->
                      IF p \in gone /\ epoch > denied[p] THEN epoch ELSE denied[p]]
    BY DEF DeniedAt
  <1> QED BY <1>1, <1>2 DEF Denials

-----------------------------------------------------------------------------
(***************************************************************************)
(* Requests: begin, code, index                                            *)
(***************************************************************************)

\* A request is made with the code of the state, of which it knows nothing yet.
LEMMA BeginKeeps ==
    ASSUME CatalogInv, NEW r \in Requests, NEW job \in Jobs,
           DOMAIN job.todo = {}, DOMAIN job.items = {}, job.reply = Nothing, ~job.cancelled,
           st.source # Nothing, BeginRequest(r, job), UNCHANGED budget
    PROVE  CatalogInv'
  <1> PICK o \in IF Expires(st) THEN Rejections("expired") ELSE {[st |-> st, disk |-> onDisk]} :
          /\ st' = [o.st EXCEPT !.seq = o.st.seq + 1]
          /\ onDisk' = o.disk
          /\ req' = [req EXCEPT ![r] =
                [job EXCEPT !.at = "access", !.source = st.source, !.coded = st.code,
                            !.identity = st.identity, !.gen = o.st.gen, !.seq = o.st.seq + 1]]
    BY DEF BeginRequest
  <1>1. UNCHANGED <<srv, now, installed, denied, budget>>
    BY DEF BeginRequest
  <1>2. Good(st, onDisk, denied, budget.identities) /\ st \in States
    BY KnownJob
  <1>3. Good(o.st, o.disk, denied, budget.identities) /\ SameCode(st, o.st) /\ Follows(st, o.st, denied, denied)
    <2>1. CASE Expires(st)
      <3>1. o \in Rejections("expired") /\ "expired" \in Rejected
        BY <2>1 DEF Rejected
      <3>2. Good(o.st, o.disk, denied, budget.identities) /\ SameCode(st, o.st) /\ o.st.gen = st.gen + 1
        BY <1>2, <3>1, RejectionsKeep
      <3> QED BY <1>2, <3>2 DEF Follows, States
    <2>2. CASE ~Expires(st)
      <3>1. o.st = st /\ o.disk = onDisk
        BY <2>2
      <3> QED BY <1>2, <3>1 DEF Follows, SameCode
    <2> QED BY <2>1, <2>2
  <1>4. /\ Good(st', onDisk', denied, budget.identities) /\ SameCode(o.st, st')
        /\ st'.gen = o.st.gen /\ st'.cred = o.st.cred
    BY <1>3, SequenceFacts
  <1>5. Follows(st, st', denied, denied')
    BY <1>1, <1>3, <1>4 DEF Follows, SameCode
  <1> DEFINE j == [job EXCEPT !.at = "access", !.source = st.source, !.coded = st.code,
                            !.identity = st.identity, !.gen = o.st.gen, !.seq = o.st.seq + 1]
  <1>6. o.st \in States /\ o.st.gen \in Nat /\ o.st.seq + 1 \in Nat
    BY <1>3 DEF Good, States
  <1>7. st.source \in Origins /\ st.identity \in Codings /\ st.code \in BOOLEAN
    BY <1>2 DEF States
  <1>8. /\ j \in Jobs /\ j.at = "access" /\ j.source = st.source /\ j.coded = st.code
        /\ j.identity = st.identity /\ j.gen = o.st.gen
        /\ j.reply = Nothing /\ ~j.cancelled /\ DOMAIN j.todo = {} /\ DOMAIN j.items = {}
    BY <1>6, <1>7 DEF Jobs, Stages
  <1>9. req' = [req EXCEPT ![r] = j]
    OBVIOUS
  <1> HIDE DEF j
  <1>10. Ordered(j, st', srv.epoch)
    BY <1>4, <1>6, <1>8 DEF Ordered
  <1>11. Fits(j, st', denied)
    <2>1. st.code => st.identity # Nothing
      BY <1>2 DEF Good, Sane
    <2> QED BY <1>3, <1>4, <1>8, <2>1 DEF Fits, SameCode, Later
  <1>12. Sound(j, st', denied', srv.epoch)
    BY <1>1, <1>8, <1>10, <1>11 DEF Sound
  <1>13. /\ Good(st', onDisk', denied', budget.identities) /\ installed' \in Nat /\ UNCHANGED <<srv, now, budget>>
         /\ \A p \in Restricted : denied'[p] <= srv.epoch
    BY <1>1, <1>4 DEF CatalogInv
  <1> QED BY <1>5, <1>9, <1>12, <1>13, StateMoves

LEMMA WithoutCodeKeeps ==
    ASSUME CatalogInv, NEW r \in Requests, NEW what \in Rejected, NEW at,
           req[r].at \in {"access", "catalog"}, at \in {"access", "catalog"},
           WithoutCode(r, what, at),
           UNCHANGED <<srv, now, installed, denied, budget>>
    PROVE  CatalogInv'
  <1> USE KnownJob
  <1>0. installed' \in Nat /\ UNCHANGED <<srv, now, budget>>
        /\ \A p \in Restricted : denied'[p] <= srv.epoch
    BY DEF CatalogInv
  <1>1. CASE st.gen # req[r].gen
    <2>1. Ends(r) /\ UNCHANGED <<st, onDisk>>
      BY <1>1 DEF WithoutCode
    <2> QED BY <1>0, <2>1, EndingOnly
  <1>2. CASE st.gen = req[r].gen
    <2> PICK o \in Rejections(what) : onDisk' = o.disk /\ Renew(r, o.st, FALSE, at)
      BY <1>2 DEF WithoutCode
    <2>1. /\ Good(o.st, o.disk, denied, budget.identities) /\ SameCode(st, o.st) /\ o.st.gen = st.gen + 1
      BY RejectionsKeep
    <2>2. o.st.gen \in Nat /\ o.st.seq + 1 \in Nat
      BY <2>1 DEF Good, States
    <2>3. CASE Unbumped(r)
      <3> DEFINE j == [req[r] EXCEPT !.gen = o.st.gen, !.seq = o.st.seq + 1,
                                     !.coded = FALSE, !.reply = Nothing, !.at = at]
      <3>1. st' = [o.st EXCEPT !.seq = o.st.seq + 1] /\ req' = [req EXCEPT ![r] = j]
        BY <2>3 DEF Renew
      <3>2. /\ Good(st', onDisk', denied, budget.identities) /\ SameCode(o.st, st') /\ st'.gen = o.st.gen
        BY <2>1, <3>1, SequenceFacts
      <3>3. Fits(req[r], st, denied)
        BY <1>2 DEF Stages
      <3>4. /\ j \in Jobs /\ j.at = at /\ ~j.coded /\ j.reply = Nothing /\ j.gen = o.st.gen
            /\ j.source = req[r].source /\ j.identity = req[r].identity
            /\ j.todo = req[r].todo /\ j.items = req[r].items
        <4>1. at \in Stages
          BY DEF Stages
        <4> QED BY <2>2, <4>1 DEF Jobs
      <3> HIDE DEF j
      <3>5. DOMAIN j.todo = {} /\ DOMAIN j.items = {}
        BY <3>4 DEF Ordered
      <3>6. Ordered(j, st', srv.epoch)
        BY <2>2, <3>2, <3>4, <3>5 DEF Ordered
      <3>7. Fits(j, st', denied)
        BY <2>1, <3>2, <3>3, <3>4 DEF Fits, SameCode
      <3>8. Sound(j, st', denied', srv.epoch)
        BY <3>4, <3>6, <3>7 DEF Sound
      <3>9. Follows(st, st', denied, denied') /\ Good(st', onDisk', denied', budget.identities)
        BY <2>1, <3>2 DEF Follows
      <3> QED BY <1>0, <3>1, <3>8, <3>9, StateMoves
    <2>4. CASE ~Unbumped(r)
      <3>1. st' = o.st /\ Ends(r)
        BY <2>4 DEF Renew
      <3>2. Follows(st, st', denied, denied') /\ Good(st', onDisk', denied', budget.identities)
        BY <2>1, <3>1 DEF Follows
      <3> QED BY <1>0, <3>1, <3>2, EndingMoves
    <2> QED BY <2>3, <2>4
  <1> QED BY <1>1, <1>2

LEMMA CodeRejectedKeeps ==
    ASSUME CatalogInv, NEW r \in Requests, CodeRejected(r)
    PROVE  CatalogInv'
  <1> USE KnownJob
  <1>0. /\ UNCHANGED <<srv, now, installed, denied, budget>> /\ req[r].reply.kind \in Rejected
        /\ installed' \in Nat /\ UNCHANGED <<srv, now, budget>>
        /\ \A p \in Restricted : denied'[p] <= srv.epoch
    BY DEF CodeRejected, CatalogInv
  <1>1. CASE req[r].at \in {"access", "catalog"} /\ WithoutCode(r, req[r].reply.kind, req[r].at)
    BY <1>0, <1>1, WithoutCodeKeeps
  <1>2. CASE /\ Ends(r) /\ st.gen = req[r].gen
             /\ \E o \in Rejections(req[r].reply.kind) : st' = o.st /\ onDisk' = o.disk
    <2> PICK o \in Rejections(req[r].reply.kind) : st' = o.st /\ onDisk' = o.disk
      BY <1>2
    <2>1. Good(o.st, o.disk, denied, budget.identities) /\ o.st.gen = st.gen + 1
      BY <1>0, RejectionsKeep
    <2>2. Follows(st, st', denied, denied') /\ Good(st', onDisk', denied', budget.identities)
      BY <1>0, <2>1 DEF Follows
    <2> QED BY <1>0, <1>2, <2>2, EndingMoves
  <1>3. CASE Ends(r) /\ UNCHANGED <<st, onDisk>>
    BY <1>0, <1>3, EndingOnly
  <1> QED BY <1>1, <1>2, <1>3 DEF CodeRejected

LEMMA KnownExpiredKeeps ==
    ASSUME CatalogInv, NEW r \in Requests, KnownExpired(r)
    PROVE  CatalogInv'
  <1>1. /\ req[r].at = "access" /\ WithoutCode(r, "expired", "catalog")
        /\ UNCHANGED <<srv, now, installed, denied, budget>> /\ "expired" \in Rejected
    BY DEF KnownExpired, Got, Rejected
  <1> QED BY <1>1, WithoutCodeKeeps

\* A request that goes on without its answer.
LEMMA GoesFacts ==
    ASSUME CatalogInv, NEW r \in Requests, NEW place \in Stages, Goes(r, place)
    PROVE  LET j == [req[r] EXCEPT !.at = place, !.reply = Nothing] IN
           /\ req' = [req EXCEPT ![r] = j]
           /\ j \in Jobs /\ j.at = place /\ j.reply = Nothing
           /\ j.source = req[r].source /\ j.identity = req[r].identity
           /\ j.coded = req[r].coded /\ j.gen = req[r].gen /\ j.cancelled = req[r].cancelled
           /\ j.todo = req[r].todo /\ j.items = req[r].items
  <1>1. req[r] \in Jobs
    BY KnownJob
  <1>2. req' = [req EXCEPT ![r] = [req[r] EXCEPT !.at = place, !.reply = Nothing]]
    BY DEF Goes, CatalogInv
  <1> QED BY <1>1, <1>2 DEF Jobs

\* The code is valid, or there is none.
LEMMA AuthenticateKeeps ==
    ASSUME CatalogInv, NEW r \in Requests, Authenticate(r)
    PROVE  CatalogInv'
  <1> USE KnownJob
  <1>0. /\ UNCHANGED <<srv, now, installed, denied, budget>>
        /\ installed' \in Nat /\ UNCHANGED <<srv, now, budget>>
        /\ \A p \in Restricted : denied'[p] <= srv.epoch
    BY DEF Authenticate, CatalogInv
  <1> DEFINE j == [req[r] EXCEPT !.at = "catalog", !.reply = Nothing]
  <1>1. "catalog" \in Stages /\ Goes(r, "catalog") /\ req[r].at = "access" /\ req[r].reply # Nothing
    BY DEF Stages, Authenticate, Got
  <1>2. /\ req' = [req EXCEPT ![r] = j]
        /\ j \in Jobs /\ j.at = "catalog" /\ j.reply = Nothing
        /\ j.source = req[r].source /\ j.identity = req[r].identity
        /\ j.coded = req[r].coded /\ j.gen = req[r].gen /\ j.cancelled = req[r].cancelled
        /\ j.todo = req[r].todo /\ j.items = req[r].items
    BY <1>1, GoesFacts
  <1> HIDE DEF j
  <1>3. DOMAIN j.todo = {} /\ DOMAIN j.items = {}
    BY <1>1, <1>2 DEF Ordered
  <1>4. CASE st.gen # req[r].gen
    <2>1. UNCHANGED <<st, onDisk>>
      BY <1>4 DEF Authenticate
    <2>2. Ordered(j, st, srv.epoch)
      BY <1>1, <1>2, <1>3 DEF Ordered, Stages
    <2>3. Sound(j, st, denied, srv.epoch)
      BY <1>2, <1>4, <2>2 DEF Sound
    <2> QED BY <1>0, <1>2, <2>1, <2>3, RequestMoves
  <1>5. CASE st.gen = req[r].gen
    <2> DEFINE s == IF req[r].coded
                    THEN [st EXCEPT !.cred = "valid", !.ends = req[r].reply.ends]
                    ELSE [st EXCEPT !.cred = IF st.identity = Nothing THEN "none" ELSE st.cred]
    <2> PICK saved \in Saves : st' = [s EXCEPT !.warn = s.warn \/ ~saved]
                               /\ onDisk' = Persist(onDisk, s, saved)
      BY <1>5 DEF Authenticate
    <2>1. saved \in BOOLEAN
      BY SavesAreBoolean
    <2>2. /\ s \in States
          /\ SameCode(st, s) /\ s.gen = st.gen /\ s.res = st.res /\ s.pub = st.pub
          /\ s.recent = st.recent /\ s.bad = st.bad /\ s.warn = st.warn
          /\ s.cred \in Rejected => s.cred = st.cred /\ ~req[r].coded
      <3>1. CASE req[r].coded
        <4>1. "valid" \in Standings /\ req[r].reply.ends \in Expiries /\ "valid" \notin Rejected
          BY <1>1 DEF Standings, Rejected
        <4>2. s = [st EXCEPT !.cred = "valid", !.ends = req[r].reply.ends]
          BY <3>1
        <4> HIDE DEF s
        <4> QED BY <4>1, <4>2 DEF States, SameCode
      <3>2. CASE ~req[r].coded
        <4> DEFINE cred == IF st.identity = Nothing THEN "none" ELSE st.cred
        <4>1. cred \in Standings /\ (cred \in Rejected => cred = st.cred)
          BY DEF Standings, Rejected, States
        <4>2. s = [st EXCEPT !.cred = cred]
          BY <3>2
        <4> HIDE DEF s, cred
        <4> QED BY <3>2, <4>1, <4>2 DEF States, SameCode
      <3> QED BY <3>1, <3>2
    <2> HIDE DEF s
    <2>3. Fine(s, denied)
      <3>1. Shown(s) = Shown(st)
        BY <2>2 DEF Shown
      <3> QED BY <2>2, <3>1 DEF Fine, Honest, Sane, Sticks, SameCode
    <2>4. Warned(s, st')
      <3> DEFINE w == s.warn \/ ~saved
      <3>1. w \in BOOLEAN /\ (s.warn => w) /\ st' = [s EXCEPT !.warn = w]
        BY <2>1, <2>2 DEF States
      <3> HIDE DEF w
      <3> QED BY <3>1 DEF Warned
    <2>5. /\ Fine(st', denied) /\ SameCode(s, st') /\ st'.gen = s.gen /\ st'.cred = s.cred
          /\ st'.bad = s.bad
      BY <2>3, <2>4, WarnedIsFine
    <2>6. /\ onDisk' \in Disks /\ onDisk'.res = onDisk.res /\ onDisk'.res1 = onDisk.res1
          /\ onDisk'.spared <=> onDisk.spared
          /\ onDisk'.hushed <=> onDisk.hushed
      <3>1. onDisk \in Disks /\ s \in States /\ onDisk' = Persist(onDisk, s, saved)
        BY <2>2
      <3> DEFINE d == onDisk
                 w == Persist(onDisk, s, saved)
      <3>2. /\ w \in Disks /\ w.res = d.res /\ w.res1 = d.res1
            /\ w.spared <=> d.spared
            /\ w.hushed <=> d.hushed
        BY <2>1, <3>1, PersistFacts
      <3>3. onDisk' = w
        BY <3>1
      <3> HIDE DEF w
      <3> QED BY <3>2, <3>3
    <2>6a. Held(st', onDisk', budget.identities) /\ Lasts(st', onDisk', denied)
      <3>1. Held(st, onDisk, budget.identities) /\ Lasts(st, onDisk, denied)
        BY DEF Good
      <3>2. Held(s, onDisk, budget.identities)
        BY <2>2, <3>1, HeldMoves
      <3>3. Held(s, onDisk', budget.identities)
        BY <2>1, <2>2, <3>2, HeldPersists
      <3>4. SameCode(s, st') /\ (s.warn => st'.warn)
        BY <2>3, <2>4, WarnedIsFine
      <3>5. Gone1(onDisk') <=> Gone1(onDisk)
        BY <2>6 DEF Gone1
      <3>6. Lasts(st', onDisk', denied)
        BY <2>2, <2>6, <3>1, <3>4, <3>5 DEF Lasts, SameCode
      <3>7. Held(st', onDisk', budget.identities)
        BY <3>3, <3>4, HeldMoves
      <3> QED BY <3>6, <3>7
    <2>7. Survives(st', onDisk')
      <3> SUFFICES ASSUME st'.cred \in Rejected, ~st'.warn PROVE Barred(onDisk')
        BY DEF Survives
      <3>1. st'.warn = (s.warn \/ ~saved)
        BY <2>2 DEF States
      <3>2. saved /\ ~s.bad
        BY <2>3, <3>1 DEF Fine, Sane
      <3>3. onDisk'.settings = Settings(s) /\ Settings(s).at = "saved" /\ Settings(s).cred = s.cred
        BY <2>1, <2>2, <3>2, PersistFacts
      <3> QED BY <2>5, <3>3 DEF Barred
    <2>8. Good(st', onDisk', denied', budget.identities)
      BY <1>0, <2>5, <2>6, <2>6a, <2>7 DEF Good, Fine
    <2>9. Follows(st, st', denied, denied')
      BY <1>0, <2>2, <2>5 DEF Follows, SameCode
    <2>10. Ordered(j, st', srv.epoch)
      BY <1>2, <1>3, <1>5, <2>2, <2>5 DEF Ordered
    <2>11. Fits(j, st', denied)
      <3>1. Fits(req[r], st, denied)
        BY <1>1, <1>5 DEF Stages
      <3> QED BY <1>2, <2>2, <2>5, <3>1 DEF Fits, SameCode
    <2>12. Sound(j, st', denied', srv.epoch)
      BY <1>0, <1>2, <2>10, <2>11 DEF Sound
    <2> QED BY <1>0, <1>2, <2>8, <2>9, <2>12, StateMoves
  <1> QED BY <1>4, <1>5

\* The index of a current request: the cache gives up what it no longer shows,
\* and what is denied with that is not in the index.
LEMMA NarrowedKeeps ==
    ASSUME CatalogInv, NEW r \in Requests, Got(r, "catalog", "ok"), st.gen = req[r].gen,
           NEW o \in Narrowed(r),
           NEW den2 \in Denials, \A q \in Restricted \ Gone(r) : den2[q] = denied[q]
    PROVE  /\ Good(o.st, o.disk, den2, budget.identities) /\ Fine(o.st, den2)
           /\ SameCode(st, o.st) /\ o.st.cred = st.cred
           /\ o.st.gen \in Nat /\ o.st.gen >= st.gen
           /\ Follows(st, o.st, denied, den2)
           /\ \A p \in DOMAIN req[r].reply.ids : p \in Restricted /\ den2[p] = denied[p]
  <1> USE KnownJob
  <1> DEFINE ids == req[r].reply.ids
  <1>1. req[r].reply # Nothing /\ ids \in Indexes
    BY DEF Got
  <1>2. \A p \in DOMAIN ids : p \in Restricted /\ den2[p] = denied[p]
    BY <1>1, IndexRead DEF Gone
  <1>3. CASE Narrows(st, ids)
    <2>1. o \in Synced(Narrow(st, ids), onDisk)
      BY <1>3 DEF Narrowed
    <2>2. st.res # Nothing
      BY <1>3, ShownIsKnown DEF Narrows
    <2>3. Loses(st, Narrow(st, ids), Gone(r))
      BY <2>2, NarrowLoses DEF Gone
    <2>4. /\ Fine(Narrow(st, ids), den2) /\ Narrow(st, ids).gen = st.gen + 1
          /\ SameCode(st, Narrow(st, ids)) /\ Narrow(st, ids).cred = st.cred
      <3>1. Fine(st, denied)
        OBVIOUS
      <3> DEFINE t == Narrow(st, ids)
                 gone == Gone(r)
      <3>2. Loses(st, t, gone) /\ \A q \in Restricted \ gone : den2[q] = denied[q]
        BY <2>3
      <3> HIDE DEF t, gone
      <3>3. Fine(t, den2) /\ t.gen = st.gen + 1 /\ SameCode(st, t) /\ t.cred = st.cred
        BY <3>1, <3>2, LosesKeeps
      <3> QED BY <3>3 DEF t
    <2>4a. Held(Narrow(st, ids), onDisk, budget.identities)
      BY <2>4, HeldMoves DEF Good
    <2>5. Good(o.st, o.disk, den2, budget.identities) /\ Fine(o.st, den2) /\ Warned(Narrow(st, ids), o.st)
      BY <2>1, <2>4, <2>4a, SyncedKeeps
    <2>6. /\ SameCode(Narrow(st, ids), o.st) /\ o.st.gen = Narrow(st, ids).gen
          /\ o.st.cred = Narrow(st, ids).cred
      BY <2>4, <2>5, WarnedIsFine
    <2> QED BY <1>2, <2>4, <2>5, <2>6 DEF SameCode, Follows
  <1>4. CASE ~Narrows(st, ids)
    <2>1. o.st = st /\ o.disk = onDisk
      BY <1>4 DEF Narrowed
    <2>2. Gone(r) = {}
      BY <1>4 DEF Gone, Narrows
    <2>3. den2 = denied
      BY <2>2 DEF Denials
    <2> QED BY <1>2, <2>1, <2>3 DEF SameCode, Follows
  <1> QED BY <1>3, <1>4

LEMMA ScopeOfCatalogKeeps ==
    ASSUME CatalogInv, NEW c \in Catalogs, ScopeOfCatalog(c)
    PROVE  CatalogInv'
  <1> USE KnownJob
  <1>0. /\ UNCHANGED <<srv, now, installed, budget>> /\ installed' \in Nat
        /\ UNCHANGED <<srv, now, budget>>
        /\ Got(c, "catalog", "ok") /\ c \in Requests
    BY DEF ScopeOfCatalog, CatalogInv, Requests
  <1> DEFINE ids == req[c].reply.ids
  <1>1. CASE st.gen # req[c].gen
    <2>1. Ends(c) /\ UNCHANGED <<st, onDisk, denied>>
      BY <1>1 DEF ScopeOfCatalog
    <2> QED BY <1>0, <2>1, EndingOnly
  <1>2. CASE st.gen = req[c].gen
    <2> PICK o \in Narrowed(c) :
            /\ st' = o.st /\ onDisk' = o.disk
            /\ req' = [req EXCEPT ![c] = [req[c] EXCEPT !.at = "updates", !.reply = Nothing,
                                                        !.gen = o.st.gen, !.todo = ids]]
      BY <1>2 DEF ScopeOfCatalog
    <2>1. DeniedAt(Gone(c), req[c].reply.epoch)
      BY <1>2 DEF ScopeOfCatalog
    <2>2. req[c].reply # Nothing /\ ids \in Indexes /\ req[c].reply.epoch \in Nat
          /\ req[c].reply.epoch <= srv.epoch /\ req[c].at = "catalog"
      BY <1>0 DEF Got, Ordered
    <2>3. /\ denied' \in Denials
          /\ \A p \in Restricted : denied'[p] <= srv.epoch
          /\ \A q \in Restricted \ Gone(c) : denied'[q] = denied[q]
      BY <2>1, <2>2, DeniedFacts
    <2>4. /\ Good(st', onDisk', denied', budget.identities) /\ SameCode(st, st') /\ st'.cred = st.cred
          /\ st'.gen \in Nat /\ Follows(st, st', denied, denied')
          /\ \A p \in DOMAIN ids : p \in Restricted /\ denied'[p] = denied[p]
      BY <1>0, <1>2, <2>3, NarrowedKeeps
    <2> DEFINE j == [req[c] EXCEPT !.at = "updates", !.reply = Nothing,
                                   !.gen = o.st.gen, !.todo = ids]
    <2>5. /\ j \in Jobs /\ j.at = "updates" /\ j.reply = Nothing /\ j.gen = st'.gen
          /\ j.source = req[c].source /\ j.identity = req[c].identity /\ j.coded = req[c].coded
          /\ j.todo = ids /\ j.items = req[c].items
      <3>1. "updates" \in Stages /\ o.st.gen \in Nat
        BY <2>4 DEF Stages
      <3> QED BY <1>0, <2>2, <3>1 DEF Jobs
    <2>5a. req' = [req EXCEPT ![c] = j]
      OBVIOUS
    <2> HIDE DEF j
    <2>6. Fits(req[c], st, denied)
      BY <1>0, <1>2, <2>2 DEF Stages
    <2>7. DOMAIN j.items = {} /\ (~j.coded => DOMAIN j.todo = {})
      BY <1>0, <2>2, <2>5 DEF Ordered
    <2>8. Ordered(j, st', srv.epoch)
      BY <2>4, <2>5, <2>7 DEF Ordered
    <2>9. Fits(j, st', denied')
      BY <2>2, <2>4, <2>5, <2>6, <2>7 DEF Fits, SameCode, Later
    <2>10. Sound(j, st', denied', srv.epoch)
      BY <2>5, <2>8, <2>9 DEF Sound
    <2> QED BY <1>0, <2>3, <2>4, <2>5a, <2>10, StateMoves
  <1> QED BY <1>1, <1>2

\* An installation goes on with the same code.
LEMMA InstallGoesOn ==
    ASSUME CatalogInv, NEW r \in Requests, req[r].at = "catalog", req[r].reply # Nothing,
           NEW s \in States, NEW den2, SameCode(st, s), s.cred = st.cred,
           \A p \in Restricted : den2[p] \in Nat,
           st.gen = req[r].gen
    PROVE  LET j == [req[r] EXCEPT !.at = "update", !.reply = Nothing, !.gen = s.gen] IN
           Sound(j, s, den2, srv.epoch)
  <1> USE KnownJob
  <1> DEFINE j == [req[r] EXCEPT !.at = "update", !.reply = Nothing, !.gen = s.gen]
  <1>1. /\ j \in Jobs /\ j.at = "update" /\ j.reply = Nothing /\ j.gen = s.gen
        /\ j.source = req[r].source /\ j.identity = req[r].identity /\ j.coded = req[r].coded
        /\ j.todo = req[r].todo /\ j.items = req[r].items
    <2>1. "update" \in Stages /\ s.gen \in Nat
      BY DEF Stages, States
    <2> QED BY <2>1 DEF Jobs
  <1> HIDE DEF j
  <1>2. DOMAIN j.todo = {} /\ DOMAIN j.items = {}
    BY <1>1 DEF Ordered
  <1>3. Fits(req[r], st, denied)
    BY DEF Stages
  <1>4. Ordered(j, s, srv.epoch)
    BY <1>1, <1>2 DEF Ordered, States
  <1>5. Fits(j, s, den2)
    BY <1>1, <1>2, <1>3 DEF Fits, SameCode, Later
  <1>6. Sound(j, s, den2, srv.epoch)
    BY <1>1, <1>4, <1>5 DEF Sound
  <1> QED BY <1>6 DEF j

LEMMA ScopeOfInstallKeeps ==
    ASSUME CatalogInv, NEW i \in Installs, ScopeOfInstall(i)
    PROVE  CatalogInv'
  <1> USE KnownJob
  <1>0. /\ UNCHANGED <<srv, now, installed, budget>> /\ installed' \in Nat
        /\ UNCHANGED <<srv, now, budget>>
        /\ Got(i, "catalog", "ok") /\ i \in Requests
        /\ req[i].at = "catalog" /\ req[i].reply # Nothing
    BY DEF ScopeOfInstall, CatalogInv, Requests, Got
  <1> DEFINE p == req[i].plugin
             lost == p \notin DOMAIN req[i].reply.ids
  <1>1. CASE st.gen # req[i].gen /\ lost
    <2>1. Ends(i) /\ UNCHANGED <<st, onDisk, denied>>
      BY <1>1 DEF ScopeOfInstall
    <2> QED BY <1>0, <2>1, EndingOnly
  <1>2. CASE st.gen # req[i].gen /\ ~lost
    <2>1. Goes(i, "update") /\ UNCHANGED <<st, onDisk, denied>>
      BY <1>2 DEF ScopeOfInstall
    <2> DEFINE j == [req[i] EXCEPT !.at = "update", !.reply = Nothing]
    <2>2. /\ req' = [req EXCEPT ![i] = j]
          /\ j \in Jobs /\ j.at = "update" /\ j.reply = Nothing
          /\ j.coded = req[i].coded /\ j.gen = req[i].gen
          /\ j.todo = req[i].todo /\ j.items = req[i].items
      <3>1. "update" \in Stages
        BY DEF Stages
      <3> QED BY <1>0, <2>1, <3>1, GoesFacts
    <2> HIDE DEF j
    <2>3. Ordered(j, st, srv.epoch)
      BY <1>0, <2>2 DEF Ordered, Stages
    <2>4. Sound(j, st, denied, srv.epoch)
      BY <1>0, <1>2, <2>2, <2>3 DEF Sound
    <2> QED BY <1>0, <2>1, <2>2, <2>4, RequestMoves
  <1>3. CASE st.gen = req[i].gen
    <2> DEFINE gone == Gone(i) \cup (IF lost THEN {p} ELSE {})
    <2> PICK o \in Narrowed(i) :
          \E q \in IF lost THEN Synced(Deny(o.st, p), o.disk) ELSE {o} :
            /\ st' = q.st /\ onDisk' = q.disk
            /\ IF lost THEN Ends(i)
               ELSE req' = [req EXCEPT ![i] = [req[i] EXCEPT !.at = "update", !.reply = Nothing,
                                                             !.gen = q.st.gen]]
      BY <1>3 DEF ScopeOfInstall
    <2> PICK q \in IF lost THEN Synced(Deny(o.st, p), o.disk) ELSE {o} :
            /\ st' = q.st /\ onDisk' = q.disk
            /\ IF lost THEN Ends(i)
               ELSE req' = [req EXCEPT ![i] = [req[i] EXCEPT !.at = "update", !.reply = Nothing,
                                                             !.gen = q.st.gen]]
      OBVIOUS
    <2>1. DeniedAt(gone, req[i].reply.epoch)
      BY <1>3 DEF ScopeOfInstall
    <2>2. req[i].reply.epoch \in Nat /\ req[i].reply.epoch <= srv.epoch
      BY <1>0 DEF Ordered
    <2>3. /\ denied' \in Denials
          /\ \A x \in Restricted : denied'[x] <= srv.epoch
          /\ \A x \in Restricted \ gone : denied'[x] = denied[x]
      BY <2>1, <2>2, DeniedFacts
    <2>4. CASE lost
      <3> DEFINE den == [x \in Restricted |-> IF x \in Gone(i) THEN denied'[x] ELSE denied[x]]
      <3>1. den \in Denials /\ \A x \in Restricted \ Gone(i) : den[x] = denied[x]
        <4>1. denied \in [Restricted -> Nat] /\ denied' \in [Restricted -> Nat]
          BY <1>0, <2>3, KnownJob DEF Denials
        <4>2. \A x \in Restricted : den[x] = IF x \in Gone(i) THEN denied'[x] ELSE denied[x]
          OBVIOUS
        <4>3. \A x \in Restricted : den[x] \in Nat
          BY <4>1, <4>2
        <4>4. den \in [Restricted -> Nat]
          BY <4>3
        <4> QED BY <4>2, <4>4 DEF Denials
      <3>2. \A x \in Restricted \ {p} : denied'[x] = den[x]
        BY <2>3
      <3> HIDE DEF den
      <3>3. /\ Good(o.st, o.disk, den, budget.identities) /\ Fine(o.st, den) /\ SameCode(st, o.st)
            /\ o.st.gen \in Nat /\ o.st.gen >= st.gen
        BY <1>0, <1>3, <3>1, NarrowedKeeps
      <3>4. o.st \in States /\ o.disk \in Disks
        BY <3>3 DEF Good
      <3>5. Loses(o.st, Deny(o.st, p), {p})
        BY <3>4, DenyLoses
      <3>5a. Held(Deny(o.st, p), o.disk, budget.identities)
        BY <3>3, <3>5, HeldMoves DEF Good, Loses
      <3>6. Fine(Deny(o.st, p), denied') /\ Deny(o.st, p).gen = o.st.gen + 1
        <4> DEFINE s == o.st
                   t == Deny(o.st, p)
                   some == {p}
        <4>1. Fine(s, den) /\ Loses(s, t, some) /\ denied' \in Denials
              /\ \A x \in Restricted \ some : denied'[x] = den[x]
          BY <2>3, <3>2, <3>3, <3>5
        <4> HIDE DEF s, t, some
        <4>2. Fine(t, denied') /\ t.gen = s.gen + 1
          BY <4>1, LosesKeeps
        <4> QED BY <4>2 DEF s, t
      <3>7. Good(q.st, q.disk, denied', budget.identities) /\ Warned(Deny(o.st, p), q.st)
        BY <2>4, <3>4, <3>5a, <3>6, SyncedKeeps
      <3>8. q.st.gen = o.st.gen + 1
        BY <3>6, <3>7, WarnedIsFine
      <3>9. Good(st', onDisk', denied', budget.identities) /\ Follows(st, st', denied, denied')
        <4>1. st.gen \in Nat /\ st'.gen = o.st.gen + 1
          BY <1>0, <3>8
        <4>2. st.gen < st'.gen
          BY <3>3, <4>1
        <4>3. Good(st', onDisk', denied', budget.identities)
          BY <3>7
        <4> QED BY <4>2, <4>3 DEF Follows
      <3> QED BY <1>0, <2>3, <2>4, <3>9, EndingMoves
    <2>5. CASE ~lost
      <3>1. \A x \in Restricted \ Gone(i) : denied'[x] = denied[x]
        BY <2>3, <2>5
      <3>2. q = o
        BY <2>5
      <3>3. /\ Good(st', onDisk', denied', budget.identities) /\ SameCode(st, st') /\ st'.cred = st.cred
            /\ Follows(st, st', denied, denied') /\ st' \in States
        BY <1>0, <1>3, <2>3, <3>1, <3>2, NarrowedKeeps DEF Good
      <3> DEFINE j == [req[i] EXCEPT !.at = "update", !.reply = Nothing, !.gen = st'.gen]
      <3>4. req' = [req EXCEPT ![i] = j]
        BY <2>5
      <3>5. Sound(j, st', denied', srv.epoch)
        <4>1. \A x \in Restricted : denied'[x] \in Nat
          BY <2>3 DEF Denials
        <4> QED BY <1>0, <1>3, <3>3, <4>1, InstallGoesOn
      <3> HIDE DEF j
      <3> QED BY <1>0, <2>3, <3>3, <3>4, <3>5, StateMoves
    <2> QED BY <2>4, <2>5
  <1> QED BY <1>1, <1>2, <1>3

-----------------------------------------------------------------------------
(***************************************************************************)
(* Answers, updates and the commit of a catalog                            *)
(***************************************************************************)

\* An answer is as old as the service that gave it, and shows nothing to a
\* request without a code.
LEMMA AnswerFacts ==
    ASSUME CatalogInv, NEW r \in Requests, NEW p \in Restricted \cup {Nothing},
           NEW a \in {Answer(r, p), Malformed(p)}
    PROVE  /\ a \in Replies /\ a.epoch = srv.epoch
           /\ p # Nothing => a.id = p
           /\ ~req[r].coded => DOMAIN a.ids = {}
           /\ \A q \in DOMAIN a.ids : a.ids[q] = srv.epoch
  <1>1. /\ srv \in Services /\ srv.epoch \in Nat /\ srv.scope \in SUBSET Restricted
        /\ srv.ends \in Expiries
    BY DEF CatalogInv, Services
  <1>2. ASSUME NEW kind \in {"ok", "gone", "down"} \cup Rejected
        PROVE  /\ Says(kind, p) \in Replies /\ Says(kind, p).epoch = srv.epoch
               /\ Says(kind, p).id = p /\ DOMAIN Says(kind, p).ids = {}
    BY <1>1, NobodyIndexed DEF Says, Replies, Expiries
  <1>3. CASE \E kind \in {"ok", "gone", "down"} \cup Rejected : a = Says(kind, p)
    BY <1>2, <1>3
  <1>4. CASE p = Nothing /\ a = Index(r)
    <2> DEFINE ids == [q \in (IF req[r].coded THEN srv.scope ELSE {}) |-> srv.epoch]
               ends == IF req[r].coded THEN srv.ends ELSE Nothing
               scope == IF req[r].coded THEN srv.scope ELSE {}
    <2>1. /\ ids \in Indexes /\ \A q \in DOMAIN ids : ids[q] = srv.epoch
          /\ ~req[r].coded => DOMAIN ids = {}
      <3>1. scope \in SUBSET Restricted /\ ids = [q \in scope |-> srv.epoch]
        BY <1>1
      <3>2. ids \in [scope -> Nat]
        BY <1>1, <3>1
      <3> HIDE DEF ids
      <3>3. ids \in Indexes
        BY <3>1, <3>2, IndexMade
      <3> QED BY <3>1, <3>3
    <2>2. ends \in Expiries
      BY <1>1 DEF Expiries
    <2>3. Says("ok", Nothing) \in Replies /\ Says("ok", Nothing).epoch = srv.epoch
      BY <1>2, <1>4
    <2>4. a = [Says("ok", Nothing) EXCEPT !.ends = ends, !.ids = ids]
      BY <1>4 DEF Index
    <2> HIDE DEF ids, ends
    <2>5. a \in Replies /\ a.epoch = srv.epoch /\ a.ids = ids
      BY <2>1, <2>2, <2>3, <2>4 DEF Replies
    <2> QED BY <1>4, <2>1, <2>5
  <1> QED
    <2>1. {"revoked", "expired", "ok", "gone", "down"} \subseteq {"ok", "gone", "down"} \cup Rejected
      BY DEF Rejected
    <2>2. \/ a = Says("revoked", p) \/ a = Says("expired", p) \/ a = Says("ok", p)
          \/ a = Says("gone", p) \/ a = Says("down", p) \/ (p = Nothing /\ a = Index(r))
      BY DEF Answer, Malformed
    <2> QED BY <1>3, <1>4, <2>1, <2>2

LEMMA ServiceAnswersKeeps ==
    ASSUME CatalogInv, NEW r \in Requests, ServiceAnswers(r)
    PROVE  CatalogInv'
  <1> USE KnownJob
  <1>0. /\ UNCHANGED <<st, onDisk, srv, now, installed, denied, budget>> /\ installed' \in Nat
        /\ UNCHANGED <<st, onDisk, srv, now, denied, budget>>
        /\ Waiting(r)
    BY DEF ServiceAnswers, CatalogInv
  <1> PICK p \in Asked(r) :
        \E a \in {Answer(r, p)} \cup (IF "net" \in budget.faults THEN {Malformed(p)} ELSE {}) :
            req' = [req EXCEPT ![r].reply = a]
    BY DEF ServiceAnswers
  <1> PICK a \in {Answer(r, p), Malformed(p)} : req' = [req EXCEPT ![r].reply = a]
    OBVIOUS
  <1>1. /\ p \in Restricted \cup {Nothing}
        /\ req[r].at = "updates" => p \in DOMAIN req[r].todo /\ p # Nothing
    <2>1. \A q \in DOMAIN req[r].todo : q \in Restricted
      BY IndexRead
    <2>2. req[r].plugin \in Restricted \cup {Nothing}
      BY DEF Jobs
    <2> QED BY <2>1, <2>2 DEF Asked
  <1>2. /\ a \in Replies /\ a.epoch = srv.epoch
        /\ p # Nothing => a.id = p
        /\ ~req[r].coded => DOMAIN a.ids = {}
        /\ \A q \in DOMAIN a.ids : a.ids[q] = srv.epoch
    BY <1>1, AnswerFacts
  <1> DEFINE j == [req[r] EXCEPT !.reply = a]
  <1>3. /\ j \in Jobs /\ j.reply = a /\ j.at = req[r].at
        /\ j.source = req[r].source /\ j.identity = req[r].identity
        /\ j.coded = req[r].coded /\ j.gen = req[r].gen /\ j.cancelled = req[r].cancelled
        /\ j.todo = req[r].todo /\ j.items = req[r].items
    BY <1>2 DEF Jobs
  <1>4. req' = [req EXCEPT ![r] = j]
    BY DEF CatalogInv
  <1> HIDE DEF j
  <1>5. Ordered(j, st, srv.epoch)
    BY <1>1, <1>2, <1>3 DEF Ordered
  <1>6. ASSUME j.at \in Stages, j.gen = st.gen PROVE Fits(j, st, denied)
    <2>1. Fits(req[r], st, denied)
      BY <1>3, <1>6
    <2>2. Later(a.ids, denied)
      <3> SUFFICES ASSUME NEW q \in DOMAIN a.ids PROVE a.ids[q] >= denied[q]
        BY DEF Later
      <3>1. q \in Restricted
        BY <1>2, IndexRead DEF Replies
      <3>2. denied[q] <= srv.epoch /\ denied[q] \in Nat
        BY <3>1 DEF CatalogInv, Denials
      <3> QED BY <1>2, <3>2
    <2> QED BY <1>3, <2>1, <2>2 DEF Fits
  <1>7. Sound(j, st, denied, srv.epoch)
    BY <1>3, <1>5, <1>6 DEF Sound
  <1> QED BY <1>0, <1>4, <1>7, RequestMoves

\* A plugin is added to what a catalog has gathered.
LEMMA IndexJoined ==
    ASSUME NEW f \in Indexes, NEW p \in Restricted, NEW n \in Nat, p \notin DOMAIN f
    PROVE  /\ With(f, p, n) \in Indexes
           /\ DOMAIN With(f, p, n) = DOMAIN f \cup {p}
           /\ \A q \in DOMAIN f : With(f, p, n)[q] = f[q]
           /\ With(f, p, n)[p] = n
  <1> DEFINE g == With(f, p, n)
             S == DOMAIN f \cup {p}
  <1>1. DOMAIN f \in SUBSET Restricted /\ \A q \in DOMAIN f : f[q] \in Nat
    BY IndexRead
  <1>2. g = [q \in S |-> IF q = p THEN n ELSE f[q]]
    BY DEF With
  <1>4. /\ DOMAIN g = S /\ g[p] = n /\ \A q \in DOMAIN f : g[q] = f[q]
        /\ g = [q \in S |-> g[q]]
    BY <1>2
  <1>5. \A q \in S : g[q] \in Nat
    BY <1>1, <1>4
  <1> HIDE DEF g
  <1>6. S \in SUBSET Restricted /\ g \in [S -> Nat]
    BY <1>1, <1>4, <1>5
  <1>7. g \in Indexes
    BY <1>6, IndexMade
  <1> QED BY <1>4, <1>7 DEF g

LEMMA UpdateTakenKeeps ==
    ASSUME CatalogInv, NEW c \in Catalogs, UpdateTaken(c)
    PROVE  CatalogInv'
  <1> USE KnownJob
  <1>0. /\ UNCHANGED <<st, onDisk, srv, now, installed, denied, budget>> /\ installed' \in Nat
        /\ UNCHANGED <<st, onDisk, srv, now, denied, budget>>
        /\ req[c].at = "updates" /\ req[c].reply # Nothing /\ c \in Requests
    BY DEF UpdateTaken, CatalogInv, Got, Requests
  <1> DEFINE p == req[c].reply.id
             todo == req[c].todo
             left == Restrict(todo, DOMAIN todo \ {p})
             items == With(req[c].items, p, todo[p])
             problem == req[c].problem \/ req[c].reply.kind = "down"
  <1>1. /\ p \in DOMAIN todo /\ p \notin DOMAIN req[c].items
        /\ todo \in Indexes /\ req[c].items \in Indexes
    BY <1>0 DEF Ordered
  <1>2. p \in Restricted /\ todo[p] \in Nat
    BY <1>1, IndexRead
  <1>3. /\ left \in Indexes /\ DOMAIN left = DOMAIN todo \ {p}
        /\ \A q \in DOMAIN left : left[q] = todo[q]
    BY <1>1, IndexRestricted
  <1>4. /\ items \in Indexes /\ DOMAIN items = DOMAIN req[c].items \cup {p}
        /\ \A q \in DOMAIN req[c].items : items[q] = req[c].items[q]
        /\ items[p] = todo[p]
    <2> DEFINE f == req[c].items
               n == todo[p]
    <2>1. f \in Indexes /\ p \in Restricted /\ n \in Nat /\ p \notin DOMAIN f
      BY <1>1, <1>2
    <2>2. items = With(f, p, n)
      OBVIOUS
    <2> HIDE DEF f, n, items, p
    <2>3. /\ items \in Indexes /\ DOMAIN items = DOMAIN f \cup {p}
          /\ \A q \in DOMAIN f : items[q] = f[q]
          /\ items[p] = n
      BY <2>1, <2>2, IndexJoined
    <2> QED BY <2>3 DEF f, n
  <1>5. problem \in BOOLEAN
    BY <1>0 DEF Jobs
  <1> DEFINE j == [req[c] EXCEPT !.todo = left, !.items = items, !.problem = problem,
                                 !.reply = Nothing]
  <1>6. req' = [req EXCEPT ![c] = j]
    BY DEF UpdateTaken
  <1>7. /\ j \in Jobs /\ j.reply = Nothing /\ j.at = req[c].at
        /\ j.source = req[c].source /\ j.identity = req[c].identity
        /\ j.coded = req[c].coded /\ j.gen = req[c].gen
        /\ j.todo = left /\ j.items = items
    <2>1. req[c] \in Jobs
      BY <1>0
    <2> HIDE DEF left, items, problem
    <2> QED BY <1>3, <1>4, <1>5, <2>1 DEF Jobs
  <1> HIDE DEF j, left, items, problem
  <1>8. Ordered(j, st, srv.epoch)
    <2>1. req[c].coded
      BY <1>0, <1>1 DEF Ordered
    <2>2. DOMAIN todo \cap DOMAIN req[c].items = {} /\ req[c].gen <= st.gen
      BY <1>0 DEF Ordered, Stages
    <2> QED BY <1>0, <1>3, <1>4, <1>7, <2>1, <2>2 DEF Ordered
  <1>9. ASSUME j.at \in Stages, j.gen = st.gen PROVE Fits(j, st, denied)
    <2>1. Fits(req[c], st, denied)
      BY <1>0, <1>7, <1>9
    <2>2. Later(left, denied) /\ Later(items, denied)
      BY <1>1, <1>3, <1>4, <2>1 DEF Fits, Later
    <2> QED BY <1>7, <2>1, <2>2 DEF Fits
  <1>10. Sound(j, st, denied, srv.epoch)
    BY <1>7, <1>8, <1>9 DEF Sound
  <1> QED BY <1>0, <1>6, <1>10, RequestMoves

\* A plugin is denied to a current request.
LEMMA DeniedPlugin ==
    ASSUME CatalogInv, NEW r \in Requests, req[r].reply # Nothing, NEW p,
           NEW o \in Synced(Deny(st, p), onDisk), DeniedAt({p}, req[r].reply.epoch)
    PROVE  /\ Good(o.st, o.disk, denied', budget.identities)
           /\ SameCode(st, o.st) /\ o.st.cred = st.cred /\ o.st.gen = st.gen + 1
           /\ \A q \in Restricted : denied'[q] <= srv.epoch
           /\ \A q \in Restricted \ {p} : denied'[q] = denied[q]
  <1>1. /\ st \in States /\ onDisk \in Disks /\ Fine(st, denied)
        /\ req[r].reply.epoch \in Nat /\ req[r].reply.epoch <= srv.epoch
    BY KnownJob DEF Ordered
  <1>2. /\ denied' \in Denials
        /\ \A q \in Restricted : denied'[q] <= srv.epoch
        /\ \A q \in Restricted \ {p} : denied'[q] = denied[q]
    BY <1>1, DeniedFacts
  <1> DEFINE t == Deny(st, p)
             some == {p}
  <1>3. Loses(st, t, some) /\ \A q \in Restricted \ some : denied'[q] = denied[q]
    BY <1>1, <1>2, DenyLoses
  <1>4. o \in Synced(t, onDisk)
    OBVIOUS
  <1> HIDE DEF t, some
  <1>5. Fine(t, denied') /\ t.gen = st.gen + 1 /\ SameCode(st, t) /\ t.cred = st.cred
    BY <1>1, <1>2, <1>3, LosesKeeps
  <1>5a. Held(t, onDisk, budget.identities)
    BY <1>5, KnownJob, HeldMoves DEF Good
  <1>6. Good(o.st, o.disk, denied', budget.identities) /\ Warned(t, o.st)
    BY <1>1, <1>4, <1>5, <1>5a, SyncedKeeps
  <1>7. SameCode(t, o.st) /\ o.st.gen = t.gen /\ o.st.cred = t.cred
    BY <1>5, <1>6, WarnedIsFine
  <1> QED BY <1>2, <1>5, <1>6, <1>7 DEF SameCode

LEMMA UpdateDeniedKeeps ==
    ASSUME CatalogInv, NEW c \in Catalogs, UpdateDenied(c)
    PROVE  CatalogInv'
  <1> USE KnownJob
  <1>0. /\ UNCHANGED <<srv, now, installed, budget>> /\ installed' \in Nat
        /\ UNCHANGED <<srv, now, budget>>
        /\ req[c].at = "updates" /\ req[c].reply # Nothing /\ c \in Requests
    BY DEF UpdateDenied, CatalogInv, Got, Requests
  <1> DEFINE p == req[c].reply.id
             rest == Restrict(req[c].todo, DOMAIN req[c].todo \ {p})
  <1>1. CASE ~Current(c)
    <2>1. Ends(c) /\ UNCHANGED <<st, onDisk, denied>>
      BY <1>1 DEF UpdateDenied
    <2> QED BY <1>0, <2>1, EndingOnly
  <1>2. CASE Current(c)
    <2> PICK o \in Synced(Deny(st, p), onDisk) :
            /\ onDisk' = o.disk
            /\ IF Unbumped(c)
               THEN /\ st' = [o.st EXCEPT !.seq = o.st.seq + 1]
                    /\ req' = [req EXCEPT ![c] = [req[c] EXCEPT !.todo = rest, !.reply = Nothing,
                                          !.gen = o.st.gen, !.seq = o.st.seq + 1]]
               ELSE st' = o.st /\ Ends(c)
      BY <1>2 DEF UpdateDenied
    <2>1. DeniedAt({p}, req[c].reply.epoch)
      BY <1>2 DEF UpdateDenied
    <2>2. /\ Good(o.st, o.disk, denied', budget.identities)
          /\ SameCode(st, o.st) /\ o.st.cred = st.cred /\ o.st.gen = st.gen + 1
          /\ \A q \in Restricted : denied'[q] <= srv.epoch
          /\ \A q \in Restricted \ {p} : denied'[q] = denied[q]
      <3> HIDE DEF p
      <3> QED BY <1>0, <2>1, DeniedPlugin DEF p
    <2>3. o.st.gen \in Nat /\ o.st.seq + 1 \in Nat /\ st.gen \in Nat /\ st.gen < o.st.gen
      BY <1>0, <2>2 DEF Good, States
    <2>4. CASE ~Unbumped(c)
      <3>1. st' = o.st /\ Ends(c) /\ onDisk' = o.disk
        BY <2>4
      <3>2. Good(st', onDisk', denied', budget.identities) /\ Follows(st, st', denied, denied')
        BY <2>2, <2>3, <3>1 DEF Follows
      <3> QED BY <1>0, <2>2, <3>1, <3>2, EndingMoves
    <2>5. CASE Unbumped(c)
      <3> DEFINE j == [req[c] EXCEPT !.todo = rest, !.reply = Nothing,
                                     !.gen = o.st.gen, !.seq = o.st.seq + 1]
      <3>1. st' = [o.st EXCEPT !.seq = o.st.seq + 1] /\ req' = [req EXCEPT ![c] = j]
            /\ onDisk' = o.disk
        BY <2>5
      <3>2. /\ Good(st', onDisk', denied', budget.identities) /\ SameCode(o.st, st') /\ st'.gen = o.st.gen
            /\ st'.cred = o.st.cred
        BY <2>2, <3>1, SequenceFacts
      <3>3. /\ rest \in Indexes /\ DOMAIN rest = DOMAIN req[c].todo \ {p}
            /\ \A q \in DOMAIN rest : rest[q] = req[c].todo[q]
        BY <1>0, IndexRestricted
      <3>4. /\ j \in Jobs /\ j.reply = Nothing /\ j.at = "updates" /\ j.gen = o.st.gen
            /\ j.source = req[c].source /\ j.identity = req[c].identity
            /\ j.coded = req[c].coded
            /\ j.todo = rest /\ j.items = req[c].items
        <4> DEFINE gen == o.st.gen
                   seq == o.st.seq + 1
        <4>1. req[c] \in Jobs /\ gen \in Nat /\ seq \in Nat /\ rest \in Indexes
          BY <1>0, <2>3, <3>3
        <4> HIDE DEF rest, gen, seq
        <4>2. j = [req[c] EXCEPT !.todo = rest, !.reply = Nothing, !.gen = gen, !.seq = seq]
          BY DEF gen, seq
        <4> HIDE DEF j
        <4> QED BY <1>0, <4>1, <4>2 DEF Jobs, gen
      <3> HIDE DEF j, rest
      <3>5. Ordered(j, st', srv.epoch)
        <4>1. p \in DOMAIN req[c].todo /\ DOMAIN req[c].todo \cap DOMAIN req[c].items = {}
          BY <1>0 DEF Ordered
        <4>2. req[c].coded
          BY <1>0, <4>1 DEF Ordered
        <4> QED BY <2>3, <3>2, <3>3, <3>4, <4>1, <4>2 DEF Ordered
      <3>6. Fits(j, st', denied')
        <4>1. Fits(req[c], st, denied)
          BY <1>0, <1>2 DEF Stages, Current
        <4>2. DOMAIN rest \subseteq Restricted \ {p} /\ DOMAIN req[c].items \subseteq Restricted \ {p}
          <5>1. DOMAIN req[c].todo \subseteq Restricted /\ DOMAIN req[c].items \subseteq Restricted
            BY <1>0, IndexRead
          <5>2. p \notin DOMAIN req[c].items
            BY <1>0 DEF Ordered
          <5> QED BY <3>3, <5>1, <5>2
        <4>3. Later(rest, denied') /\ Later(req[c].items, denied')
          BY <2>2, <3>3, <4>1, <4>2 DEF Fits, Later
        <4>4. /\ st'.source = st.source /\ st'.identity = st.identity /\ st'.cred = st.cred
          BY <2>2, <3>2 DEF SameCode
        <4>5. req[c].at # "access"
          BY <1>0
        <4> QED BY <3>4, <4>1, <4>3, <4>4, <4>5 DEF Fits
      <3>7. Sound(j, st', denied', srv.epoch)
        BY <3>4, <3>5, <3>6 DEF Sound
      <3>8. Follows(st, st', denied, denied')
        BY <2>3, <3>2 DEF Follows
      <3> QED BY <1>0, <2>2, <3>1, <3>2, <3>7, <3>8, StateMoves
    <2> QED BY <2>4, <2>5
  <1> QED BY <1>1, <1>2

\* Both parts of MayCommit are needed: the generation tells that source, code
\* and denials are the ones the answers belong to.
LEMMA CommitKeeps ==
    ASSUME CatalogInv, NEW c \in Catalogs, CommitCatalog(c)
    PROVE  CatalogInv'
  <1> USE KnownJob
  <1>0. /\ UNCHANGED <<srv, now, installed, denied, budget>> /\ installed' \in Nat
        /\ UNCHANGED <<srv, now, budget>>
        /\ req[c].at = "updates" /\ c \in Requests /\ Ends(c)
        /\ \A p \in Restricted : denied'[p] <= srv.epoch
    BY DEF CommitCatalog, CatalogInv, Requests
  <1>1. CASE ~MayCommit(c)
    <2>1. UNCHANGED <<st, onDisk>>
      BY <1>1 DEF CommitCatalog
    <2> QED BY <1>0, <2>1, EndingOnly
  <1>2. CASE MayCommit(c)
    <2> DEFINE ids == req[c].items
               gen == IF Shown(st) # DOMAIN ids THEN st.gen + 1 ELSE st.gen
               copy == [source |-> req[c].source, identity |-> req[c].identity, ids |-> ids]
               res == IF ~req[c].coded THEN Nothing ELSE copy
               recent == [gen |-> gen, ids |-> DOMAIN ids, for |-> Gate]
               s == [st EXCEPT !.gen = gen, !.pub = req[c].source, !.res = res, !.recent = recent]
    <2> PICK o \in Synced(s, onDisk), saved \in Saves :
            /\ st' = o.st
            /\ onDisk' = IF saved THEN [o.disk EXCEPT !.pub = s.pub] ELSE o.disk
      BY <1>2 DEF CommitCatalog
    <2>1. /\ Fits(req[c], st, denied) /\ ids \in Indexes /\ st.gen \in Nat
          /\ req[c].source \in Sources /\ (req[c].coded => req[c].identity \in Nat)
          /\ ~req[c].coded => DOMAIN ids = {}
      <3>1. Fits(req[c], st, denied)
        BY <1>0, <1>2 DEF MayCommit, Stages
      <3> QED BY <1>0, <3>1 DEF Fits, Ordered, Origins, Codings
    <2>2. gen \in Nat /\ (gen = st.gen \/ st.gen < gen)
      BY <2>1
    <2>3. /\ res \in Copies \cup {Nothing} /\ (~req[c].coded => res = Nothing)
          /\ req[c].coded =>
                /\ res # Nothing /\ res.source = req[c].source
                /\ res.identity = req[c].identity /\ res.ids = ids
      <3>1. req[c].coded => copy \in Copies
        BY <2>1 DEF Copies
      <3> QED BY <3>1
    <2>4. recent \in Snapshots /\ recent.ids = DOMAIN ids
      <3>1. DOMAIN ids \in SUBSET Restricted /\ Gate \in SUBSET Catalogs
        BY <2>1, IndexRead DEF Gate
      <3> HIDE DEF ids, gen
      <3> QED BY <2>2, <3>1 DEF Snapshots
    <2>5. st \in States /\ onDisk \in Disks /\ denied' = denied /\ req[c].source \in Origins
      BY <1>0, <2>1 DEF Origins
    <2> HIDE DEF gen, res, recent, copy, ids
    <2>6. /\ s \in States /\ s.gen = gen /\ s.pub = req[c].source /\ s.res = res
          /\ s.recent = recent /\ SameCode(st, s) /\ s.cred = st.cred
          /\ s.bad = st.bad /\ s.warn = st.warn
      BY <2>2, <2>3, <2>4, <2>5 DEF States, SameCode
    <2> HIDE DEF s
    <2>7. Shown(s) = DOMAIN ids
      BY <2>1, <2>3, <2>6 DEF Shown
    <2>8. Honest(s)
      <3>1. /\ s.source = st.source /\ s.identity = st.identity
            /\ req[c].source = st.source /\ req[c].identity = st.identity
            /\ req[c].coded => st.cred \notin Rejected
        BY <1>0, <2>1, <2>6 DEF Fits, SameCode
      <3>2. s.pub = s.source
        BY <2>6, <3>1
      <3>3. s.res # Nothing => /\ s.res.source = s.source /\ s.res.identity = s.identity
                               /\ s.cred \notin Rejected
        BY <2>3, <2>6, <3>1
      <3>4. s.recent.ids = Shown(s)
        BY <2>4, <2>6, <2>7
      <3> QED BY <3>2, <3>3, <3>4 DEF Honest
    <2>9. Sane(s)
      <3>1. Sane(st)
        BY <1>0 DEF Fine
      <3> QED BY <2>6, <3>1 DEF Sane, SameCode
    <2>10. Sticks(s, denied)
      <3> SUFFICES ASSUME NEW p \in Shown(s) PROVE s.res.ids[p] >= denied[p]
        BY DEF Sticks
      <3>1. req[c].coded /\ s.res.ids = ids /\ p \in DOMAIN ids
        BY <2>1, <2>3, <2>6, <2>7
      <3> QED BY <2>1, <3>1 DEF Fits, Later, ids
    <2>11. Fine(s, denied)
      BY <1>0, <2>6, <2>8, <2>9, <2>10 DEF Fine
    <2>11a. Held(s, onDisk, budget.identities)
      BY <1>0, <2>6, HeldMoves DEF Good
    <2>12. Good(o.st, o.disk, denied, budget.identities) /\ Warned(s, o.st)
      BY <2>5, <2>11, <2>11a, SyncedKeeps
    <2>13. SameCode(s, o.st) /\ o.st.gen = s.gen /\ o.st.cred = s.cred
      BY <2>11, <2>12, WarnedIsFine
    <2>14. Good(st', onDisk', denied', budget.identities)
      <3>1. /\ onDisk' \in Disks /\ onDisk'.res = o.disk.res /\ onDisk'.res1 = o.disk.res1
            /\ onDisk'.settings = o.disk.settings
            /\ onDisk'.spared <=> o.disk.spared
            /\ onDisk'.hushed <=> o.disk.hushed
        <4>1. o.disk \in Disks /\ s.pub \in Origins
          BY <2>5, <2>6, <2>12 DEF Good
        <4> QED BY <4>1 DEF Disks
      <3>2. Gone1(onDisk') <=> Gone1(o.disk)
        BY <3>1 DEF Gone1
      <3>3. Good(o.st, o.disk, denied, budget.identities) /\ st' = o.st /\ denied' = denied
        BY <2>5, <2>12
      <3>4. Survives(st', onDisk')
        BY <3>1, <3>2, <3>3 DEF Good, Survives, Barred
      <3>5. Lasts(st', onDisk', denied)
        BY <3>1, <3>2, <3>3 DEF Good, Lasts
      <3>6. Held(st', onDisk', budget.identities)
        BY <3>1, <3>3 DEF Good, Held, Young
      <3> QED BY <3>1, <3>3, <3>4, <3>5, <3>6 DEF Good
    <2>15. Follows(st, st', denied, denied')
      BY <2>2, <2>5, <2>6, <2>13 DEF Follows, SameCode
    <2> QED BY <1>0, <2>14, <2>15, EndingMoves
  <1> QED BY <1>1, <1>2

-----------------------------------------------------------------------------
(***************************************************************************)
(* Installations                                                           *)
(***************************************************************************)

LEMMA PackageDeniedKeeps ==
    ASSUME CatalogInv, NEW i \in Installs, PackageDenied(i)
    PROVE  CatalogInv'
  <1> USE KnownJob
  <1>0. /\ UNCHANGED <<srv, now, installed, budget>> /\ installed' \in Nat
        /\ UNCHANGED <<srv, now, budget>>
        /\ req[i].reply # Nothing /\ i \in Requests /\ Ends(i)
    BY DEF PackageDenied, CatalogInv, Got, Requests
  <1> DEFINE p == req[i].plugin
  <1>1. CASE st.gen # req[i].gen
    <2>1. UNCHANGED <<st, onDisk, denied>>
      BY <1>1 DEF PackageDenied
    <2> QED BY <1>0, <2>1, EndingOnly
  <1>2. CASE st.gen = req[i].gen
    <2> PICK o \in Synced(Deny(st, p), onDisk) : st' = o.st /\ onDisk' = o.disk
      BY <1>2 DEF PackageDenied
    <2>1. DeniedAt({p}, req[i].reply.epoch)
      BY <1>2 DEF PackageDenied
    <2> HIDE DEF p
    <2>2. /\ Good(o.st, o.disk, denied', budget.identities) /\ o.st.gen = st.gen + 1
          /\ \A q \in Restricted : denied'[q] <= srv.epoch
      BY <1>0, <2>1, DeniedPlugin
    <2>3. Good(st', onDisk', denied', budget.identities) /\ Follows(st, st', denied, denied')
      BY <1>0, <2>2 DEF Follows
    <2> QED BY <1>0, <2>2, <2>3, EndingMoves
  <1> QED BY <1>1, <1>2

\* A request that goes on from a place where it holds nothing.
LEMMA GoingKeeps ==
    ASSUME CatalogInv, NEW r \in Requests, NEW place \in {"package", "prepared", "committing"},
           req[r].at \in Stages \ {"access"}, Goes(r, place),
           place = "committing" => ~req[r].cancelled,
           installed' \in Nat, UNCHANGED <<st, onDisk, srv, now, denied, budget>>
    PROVE  CatalogInv'
  <1> USE KnownJob
  <1> DEFINE j == [req[r] EXCEPT !.at = place, !.reply = Nothing]
  <1>1. place \in Stages
    BY DEF Stages
  <1>2. /\ req' = [req EXCEPT ![r] = j]
        /\ j \in Jobs /\ j.at = place /\ j.reply = Nothing
        /\ j.source = req[r].source /\ j.identity = req[r].identity
        /\ j.coded = req[r].coded /\ j.gen = req[r].gen /\ j.cancelled = req[r].cancelled
        /\ j.todo = req[r].todo /\ j.items = req[r].items
    BY <1>1, GoesFacts
  <1> HIDE DEF j
  <1>3. Ordered(j, st, srv.epoch)
    BY <1>2 DEF Ordered
  <1>4. ASSUME j.at \in Stages, j.gen = st.gen PROVE Fits(j, st, denied)
    <2>1. Fits(req[r], st, denied)
      BY <1>2, <1>4
    <2> QED BY <1>2, <2>1 DEF Fits
  <1>5. Sound(j, st, denied, srv.epoch)
    BY <1>2, <1>3, <1>4 DEF Sound
  <1> QED BY <1>2, <1>5, RequestMoves

LEMMA CancelKeeps ==
    ASSUME CatalogInv, NEW i \in Installs, Cancel(i)
    PROVE  CatalogInv'
  <1> USE KnownJob
  <1>0. /\ UNCHANGED <<st, onDisk, srv, now, installed, denied, budget>> /\ installed' \in Nat
        /\ UNCHANGED <<st, onDisk, srv, now, denied, budget>>
        /\ i \in Requests /\ Running(i)
    BY DEF Cancel, CatalogInv, Requests
  <1> DEFINE j == [req[i] EXCEPT !.cancelled = TRUE]
  <1>1. /\ j \in Jobs /\ j.at = req[i].at /\ j.reply = req[i].reply
        /\ j.source = req[i].source /\ j.identity = req[i].identity
        /\ j.coded = req[i].coded /\ j.gen = req[i].gen
        /\ j.todo = req[i].todo /\ j.items = req[i].items
    BY <1>0 DEF Jobs
  <1>2. req' = [req EXCEPT ![i] = j]
    BY DEF Cancel, CatalogInv
  <1> HIDE DEF j
  <1>3. req[i].at # "committing"
    BY <1>0 DEF Running, Waiting
  <1>4. Ordered(j, st, srv.epoch)
    BY <1>0, <1>1, <1>3 DEF Ordered
  <1>5. ASSUME j.at \in Stages, j.gen = st.gen PROVE Fits(j, st, denied)
    <2>1. Fits(req[i], st, denied)
      BY <1>0, <1>1, <1>5
    <2> QED BY <1>1, <2>1 DEF Fits
  <1>6. Sound(j, st, denied, srv.epoch)
    BY <1>1, <1>4, <1>5 DEF Sound
  <1> QED BY <1>0, <1>2, <1>6, RequestMoves

LEMMA BeginInstallKeeps ==
    ASSUME CatalogInv, NEW i \in Installs, BeginInstall(i)
    PROVE  CatalogInv'
  <1>0. /\ UNCHANGED budget /\ i \in Requests
    BY DEF BeginInstall, Requests
  <1>1. CASE st.bad \/ st.source = Nothing
    <2>1. /\ Ends(i) /\ UNCHANGED <<st, onDisk, srv, now, installed, denied, budget>>
          /\ installed' \in Nat /\ UNCHANGED <<st, onDisk, srv, now, denied, budget>>
      BY <1>1 DEF BeginInstall, CatalogInv
    <2> QED BY <1>0, <2>1, EndingOnly
  <1>2. CASE ~(st.bad \/ st.source = Nothing)
    <2> PICK p \in Restricted, v \in 1..MaxVersion, mode \in Modes :
          BeginRequest(i, [NoRequest EXCEPT !.plugin = p, !.version = v, !.mode = mode,
                                            !.had = installed])
      BY <1>2 DEF BeginInstall
    <2> DEFINE job == [NoRequest EXCEPT !.plugin = p, !.version = v, !.mode = mode,
                                        !.had = installed]
    <2>1. installed \in Nat /\ v \in Nat
      BY DEF CatalogInv
    <2>2. NoRequest \in Jobs /\ NoRequest.reply = Nothing /\ ~NoRequest.cancelled
          /\ DOMAIN NoRequest.todo = {} /\ DOMAIN NoRequest.items = {}
      BY NoRequestFacts
    <2>3. /\ job \in Jobs /\ DOMAIN job.todo = {} /\ DOMAIN job.items = {}
          /\ job.reply = Nothing /\ ~job.cancelled
      BY <2>1, <2>2 DEF Jobs
    <2> HIDE DEF job
    <2>4. BeginRequest(i, job)
      BY DEF job
    <2> QED BY <1>0, <1>2, <2>3, <2>4, BeginKeeps
  <1> QED BY <1>1, <1>2

LEMMA InstallsKeep ==
    ASSUME CatalogInv, NEW i \in Installs, InstallSteps(i)
    PROVE  CatalogInv'
  <1>0. i \in Requests /\ installed \in Nat /\ MaxVersion \in Nat
    BY DEF Requests, CatalogInv
  <1>1. CASE BeginInstall(i)
    BY <1>1, BeginInstallKeeps
  <1>2. CASE ScopeOfInstall(i)
    BY <1>2, ScopeOfInstallKeeps
  <1>3. CASE PackageDenied(i)
    BY <1>3, PackageDeniedKeeps
  <1>4. CASE UpdateChecked(i)
    <2>1. /\ UNCHANGED <<st, onDisk, srv, now, denied, budget>> /\ installed' \in Nat
          /\ req[i].at = "update" /\ "update" \in Stages \ {"access"}
      BY <1>0, <1>4 DEF UpdateChecked, Got, Stages
    <2>2. Goes(i, "package") \/ Ends(i)
      BY <1>4 DEF UpdateChecked
    <2> QED BY <1>0, <2>1, <2>2, GoingKeeps, EndingOnly
  <1>5. CASE PackageFetched(i)
    <2>1. /\ UNCHANGED <<st, onDisk, srv, now, denied, budget>> /\ installed' \in Nat
          /\ req[i].at = "package" /\ "package" \in Stages \ {"access"} /\ Goes(i, "prepared")
      BY <1>0, <1>5 DEF PackageFetched, Got, Stages
    <2> QED BY <1>0, <2>1, GoingKeeps
  <1>6. CASE Cancel(i)
    BY <1>6, CancelKeeps
  <1>7. CASE Cancelled(i)
    BY <1>0, <1>7, FailingKeeps DEF Cancelled
  <1>8. CASE BeginCommit(i)
    <2>1. /\ UNCHANGED <<st, onDisk, srv, now, denied, budget>> /\ installed' \in Nat
          /\ req[i].at = "prepared" /\ "prepared" \in Stages \ {"access"}
      BY <1>0, <1>8 DEF BeginCommit, Stages
    <2>2. (Goes(i, "committing") /\ ~req[i].cancelled) \/ Ends(i)
      BY <1>8 DEF BeginCommit
    <2> QED BY <1>0, <2>1, <2>2, GoingKeeps, EndingOnly
  <1>9. CASE InstallPackage(i)
    <2>1. /\ UNCHANGED <<st, onDisk, srv, now, denied, budget>> /\ Ends(i)
          /\ installed' = req[i].version
      BY <1>9 DEF InstallPackage
    <2>2. req[i].version \in Nat
      BY <1>0, KnownJob DEF Jobs
    <2> QED BY <1>0, <2>1, <2>2, EndingOnly
  <1>10. CASE NotInstalled(i)
    BY <1>0, <1>10, FailingKeeps DEF NotInstalled
  <1> QED BY <1>1, <1>2, <1>3, <1>4, <1>5, <1>6, <1>7, <1>8, <1>9, <1>10 DEF InstallSteps

-----------------------------------------------------------------------------
(***************************************************************************)
(* Configuration, expiry, restarts and the service                         *)
(***************************************************************************)

\* A state that is made by a configuration starts over, unless it keeps source
\* and code: with a code that no file has seen, or with none.
Left(how) == IF how = "set" THEN budget.identities - 1 ELSE budget.identities
LEMMA ConfiguredFacts ==
    ASSUME CatalogInv, NEW source \in Origins, NEW how \in Codes, MayConfigure(source, how)
    PROVE  LET s == Configured(source, how) IN
           /\ Fine(s, denied) /\ Follows(st, s, denied, denied)
           /\ ~s.warn
           /\ s.gen = st.gen => s.identity = st.identity
           /\ s.gen # st.gen => s.identity \in (1..budget.identities) \cup {Nothing}
           /\ s.identity \notin 1..Left(how)
  <1> DEFINE moved == source # st.source
             clear == moved \/ how = "clear"
             identity == IF how = "set" THEN budget.identities
                         ELSE IF clear THEN Nothing ELSE st.identity
             code == how = "set" \/ (st.code /\ ~clear)
             reset == moved \/ how = "clear" \/ identity # st.identity
             base == [st EXCEPT !.source = source, !.identity = identity, !.code = code,
                                !.bad = FALSE, !.warn = FALSE]
             cred == IF code THEN "unchecked" ELSE "none"
             pub == IF moved THEN Nothing ELSE st.pub
             again == [Bump(base) EXCEPT !.seq = st.seq + 1, !.res = Nothing, !.ends = Nothing,
                                         !.cred = cred, !.pub = pub]
             s == Configured(source, how)
  <1>1. /\ Fine(st, denied) /\ st \in States /\ budget.identities \in Nat
        /\ st.identity \in Codings /\ st.seq + 1 \in Nat /\ st.gen \in Nat /\ st.pub \in Origins
        /\ denied \in Denials /\ st.code \in BOOLEAN
    BY DEF CatalogInv, Good, Fine, States, Limits
  <1>2. /\ identity \in Codings /\ code \in BOOLEAN
        /\ code => identity # Nothing
    BY <1>1 DEF Codings, Fine, Sane
  <1>2a. /\ identity \notin 1..Left(how)
         /\ reset => identity \in (1..budget.identities) \cup {Nothing}
    <2>1. st.identity \notin 1..budget.identities
      BY DEF CatalogInv, Good, Held
    <2>2. Nothing \notin 1..Left(how) /\ Nothing \notin 1..budget.identities
      BY <1>1 DEF Left
    <2>3. how = "set" => budget.identities > 0
      BY DEF MayConfigure
    <2>4. CASE how = "set"
      <3>1. identity = budget.identities /\ Left(how) = budget.identities - 1
        BY <2>4 DEF Left
      <3> HIDE DEF identity
      <3> QED BY <1>1, <2>3, <2>4, <3>1
    <2>5. CASE how # "set"
      <3>1. Left(how) = budget.identities /\ identity \in {Nothing, st.identity}
            /\ (reset => identity = Nothing)
        BY <2>5 DEF Left
      <3> HIDE DEF identity, reset
      <3> QED BY <2>1, <2>2, <3>1
    <2> QED BY <2>4, <2>5
  <1>3. cred \in Standings /\ cred \notin Rejected /\ pub \in Origins /\ Nothing \in Expiries
    BY <1>1 DEF Standings, Rejected, Origins, Expiries
  <1>4. ~reset => source = st.source /\ identity = st.identity
    OBVIOUS
  <1>5. (pub # Nothing => pub = source)
    BY <1>1 DEF Fine, Honest
  <1>6. base \in States /\ base.seq = st.seq /\ base.pub = st.pub /\ base.res = st.res
        /\ base.gen = st.gen /\ base.cred = st.cred /\ base.recent = st.recent
        /\ base.source = source /\ base.identity = identity /\ base.code = code
        /\ ~base.bad /\ ~base.warn
    <2> HIDE DEF identity, code
    <2> QED BY <1>1, <1>2 DEF States
  <1>7. CASE ~reset
    <2>1. s = base
      BY <1>7 DEF Configured
    <2>2. Shown(base) = Shown(st)
      BY <1>6 DEF Shown
    <2> HIDE DEF base, identity, code, s, reset, moved
    <2>3. Fine(base, denied)
      <3>1. base.source = st.source /\ base.identity = st.identity
        BY <1>4, <1>6, <1>7
      <3>2. Honest(base) /\ Sane(base) /\ Sticks(base, denied)
        BY <1>1, <1>2, <1>6, <2>2, <3>1 DEF Fine, Honest, Sane, Sticks
      <3> QED BY <1>1, <1>6, <3>2 DEF Fine
    <2>4. Follows(st, base, denied, denied)
      BY <1>4, <1>6, <1>7 DEF Follows
    <2>5. ~base.warn /\ base.gen = st.gen /\ base.identity = st.identity
          /\ base.identity \notin 1..Left(how)
      BY <1>2a, <1>4, <1>6, <1>7
    <2> QED BY <2>1, <2>3, <2>4, <2>5 DEF s
  <1>8. CASE reset
    <2>1. s = [Bump(base) EXCEPT !.seq = Bump(base).seq + 1, !.res = Nothing, !.ends = Nothing,
                                 !.cred = cred, !.pub = IF moved THEN Nothing ELSE Bump(base).pub]
      BY <1>8 DEF Configured
    <2> HIDE DEF base, identity, code, reset, s, cred
    <2>2. /\ Bump(base) \in States /\ Bump(base).gen = st.gen + 1 /\ Bump(base).seq = st.seq
          /\ Bump(base).recent = Nothing /\ SameCode(base, Bump(base))
          /\ ~Bump(base).bad /\ ~Bump(base).warn /\ Bump(base).pub = st.pub
      BY <1>6, BumpFacts
    <2>3. s = again
      BY <2>1, <2>2
    <2> HIDE DEF pub, moved
    <2>4. /\ s \in States /\ s.gen = st.gen + 1 /\ s.res = Nothing /\ s.recent = Nothing
          /\ s.pub = pub /\ s.cred = cred /\ ~s.bad /\ ~s.warn
          /\ s.source = source /\ s.identity = identity /\ s.code = code
      BY <1>1, <1>3, <1>6, <2>2, <2>3 DEF States, SameCode
    <2> HIDE DEF again
    <2>5. Shown(s) = {}
      BY <2>4 DEF Shown
    <2>6. Fine(s, denied)
      BY <1>1, <1>2, <1>5, <2>4, <2>5 DEF Fine, Honest, Sane, Sticks
    <2>7. Follows(st, s, denied, denied)
      BY <1>1, <2>4 DEF Follows
    <2>8. /\ s.gen # st.gen /\ s.identity \notin 1..Left(how)
          /\ s.identity \in (1..budget.identities) \cup {Nothing}
      BY <1>1, <1>2a, <1>8, <2>4
    <2> QED BY <2>4, <2>6, <2>7, <2>8 DEF s
  <1> QED BY <1>7, <1>8

\* The state moves, and no request with it.
LEMMA OnlyStateMoves ==
    ASSUME CatalogInv, Good(st', onDisk', denied, budget'.identities), Follows(st, st', denied, denied),
           UNCHANGED <<req, srv, now, installed, denied>>, budget' \in Limits
    PROVE  CatalogInv'
  <1>1. st \in States /\ st' \in States /\ srv.epoch \in Nat
    BY DEF CatalogInv, Good, Services
  <1>2. req' = req /\ srv' = srv /\ now' = now /\ installed' = installed /\ denied' = denied
    OBVIOUS
  <1>3. ASSUME NEW q \in Requests PROVE Sound(req[q], st', denied, srv.epoch)
    <2>1. Sound(req[q], st, denied, srv.epoch)
      BY DEF CatalogInv
    <2> QED BY <1>1, <2>1, StaysSound
  <1>4. \A q \in Requests : Sound(req'[q], st', denied', srv'.epoch)
    BY <1>2, <1>3
  <1>5. Good(st', onDisk', denied', budget'.identities)
    BY <1>2
  <1>6. /\ srv' \in Services /\ now' \in {0, 1} /\ installed' \in Nat /\ DOMAIN req' = Requests
        /\ \A p \in Restricted : denied'[p] <= srv'.epoch
    BY <1>2 DEF CatalogInv
  <1> QED BY <1>4, <1>5, <1>6 DEF CatalogInv

LEMMA SpentFacts ==
    ASSUME CatalogInv, NEW source, NEW how, MayConfigure(source, how), Spent(how)
    PROVE  /\ budget' \in Limits /\ budget'.identities = Left(how)
           /\ \A k : k \notin 1..budget.identities => k \notin 1..Left(how)
  <1> DEFINE left == IF how = "set" THEN budget.identities - 1 ELSE budget.identities
             more == budget.configures - 1
  <1>1. /\ budget \in Limits /\ budget.identities \in Nat /\ budget.configures \in Nat
    BY DEF CatalogInv, Limits
  <1>2. left \in Nat /\ more \in Nat /\ left <= budget.identities
    BY <1>1 DEF MayConfigure
  <1>3. budget' = [budget EXCEPT !.configures = more, !.identities = left]
    BY DEF Spent
  <1>4. left = Left(how)
    BY DEF Left
  <1> HIDE DEF left, more
  <1>5. budget' \in Limits /\ budget'.identities = left
    BY <1>1, <1>2, <1>3 DEF Limits
  <1>6. \A k : k \notin 1..budget.identities => k \notin 1..left
    BY <1>1, <1>2
  <1> QED BY <1>4, <1>5, <1>6

LEMMA ConfigureKeeps ==
    ASSUME CatalogInv, NEW source \in Origins, NEW how \in Codes, Configure(source, how)
    PROVE  CatalogInv'
  <1> DEFINE s == Configured(source, how)
             n == budget.identities
             reset == s.gen # st.gen
  <1> PICK removed \in Removals :
          /\ st' = s
          /\ onDisk' = [Removed(onDisk, removed, reset, source # st.source) EXCEPT
                           !.settings = Settings(s), !.kept = Preserved,
                           !.hushed = Removed(onDisk, removed, reset, source # st.source).hushed \/ st.warn]
    BY DEF Configure
  <1> DEFINE d == Removed(onDisk, removed, reset, source # st.source)
             hushed == d.hushed \/ st.warn
  <1>0. onDisk' = [d EXCEPT !.settings = Settings(s), !.kept = Preserved, !.hushed = hushed]
    OBVIOUS
  <1>1. /\ MayConfigure(source, how) /\ Spent(how)
        /\ UNCHANGED <<req, srv, now, installed, denied>>
    BY DEF Configure
  <1>2. /\ Fine(s, denied) /\ Follows(st, s, denied, denied) /\ ~s.warn
        /\ ~reset => s.identity = st.identity
        /\ reset => s.identity \in (1..n) \cup {Nothing}
        /\ s.identity \notin 1..Left(how)
    BY <1>1, ConfiguredFacts
  <1>3. /\ Settings(s) \in SavedSettings /\ Settings(s).at = "saved" /\ Settings(s).cred = s.cred
        /\ Settings(s).identity = s.identity
    BY <1>2 DEF Fine, Settings, SavedSettings, States
  <1>4. /\ onDisk \in Disks /\ st \in States /\ Lasts(st, onDisk, denied) /\ Held(st, onDisk, n)
        /\ n \in Nat
    BY DEF CatalogInv, Good, Limits
  <1>5. /\ d \in Disks /\ (d.hushed <=> onDisk.hushed) /\ (d.spared <=> onDisk.spared)
        /\ d.res \in {Nothing, onDisk.res} /\ d.res1 \in {Nothing, onDisk.res1}
        /\ ~reset => d.res = onDisk.res /\ d.res1 = onDisk.res1
    <2> DEFINE res == IF reset /\ removed.res THEN Nothing ELSE onDisk.res
               res1 == IF reset /\ removed.res1 THEN Nothing ELSE onDisk.res1
               pub == IF source # st.source /\ removed.pub THEN Nothing ELSE onDisk.pub
               pub1 == IF source # st.source /\ removed.pub1 THEN Nothing ELSE onDisk.pub1
    <2>1. d = [onDisk EXCEPT !.res = res, !.res1 = res1, !.pub = pub, !.pub1 = pub1]
      BY DEF Removed
    <2>2. /\ res \in Copies \cup {Nothing} /\ res1 \in Copies \cup {Nothing}
          /\ pub \in Origins /\ pub1 \in Origins
          /\ res \in {Nothing, onDisk.res} /\ res1 \in {Nothing, onDisk.res1}
          /\ ~reset => res = onDisk.res /\ res1 = onDisk.res1
      BY <1>4 DEF Disks, Origins
    <2> HIDE DEF d, res, res1, pub, pub1, reset, s
    <2> QED BY <1>4, <2>1, <2>2 DEF Disks
  <1>6. hushed \in BOOLEAN /\ (hushed <=> onDisk.hushed \/ st.warn)
    <2> HIDE DEF d
    <2> QED BY <1>4, <1>5 DEF Disks, States
  <1>7. Preserved \in BOOLEAN
    BY <1>4 DEF Preserved, Disks, States
  <1> HIDE DEF s, d, hushed, n, reset
  <1>8. /\ onDisk' \in Disks /\ onDisk'.settings = Settings(s)
        /\ onDisk'.res = d.res /\ onDisk'.res1 = d.res1
        /\ onDisk'.spared <=> onDisk.spared
        /\ onDisk'.hushed <=> onDisk.hushed \/ st.warn
    <2> HIDE DEF Settings
    <2> QED BY <1>0, <1>3, <1>5, <1>6, <1>7 DEF Disks
  <1>9. Survives(s, onDisk')
    BY <1>3, <1>8 DEF Survives, Barred
  <1>10. Lasts(s, onDisk', denied)
    <2>1. CASE ~reset
      <3>1. Gone1(onDisk') <=> Gone1(onDisk)
        BY <1>5, <1>8, <2>1 DEF Gone1
      <3> QED BY <1>2, <1>4, <1>5, <1>8, <2>1, <3>1 DEF Lasts
    <2>2. CASE reset
      <3>1. /\ d.res # Nothing => d.res.identity \notin 1..n /\ d.res.identity # Nothing
            /\ d.res1 # Nothing => d.res1.identity \notin 1..n /\ d.res1.identity # Nothing
        BY <1>4, <1>5 DEF Held, Young, Disks, Copies
      <3>2. s.identity \in (1..n) \cup {Nothing}
        BY <1>2, <2>2
      <3> QED BY <1>8, <3>1, <3>2 DEF Lasts, Gone1
    <2> QED BY <2>1, <2>2
  <1>11. /\ budget' \in Limits /\ budget'.identities = Left(how)
         /\ \A k : k \notin 1..n => k \notin 1..Left(how)
    BY <1>1, SpentFacts DEF n
  <1>12. Held(s, onDisk', Left(how))
    <2>1. /\ d.res # Nothing => d.res.identity \notin 1..Left(how)
          /\ d.res1 # Nothing => d.res1.identity \notin 1..Left(how)
      BY <1>4, <1>5, <1>11 DEF Held, Young
    <2> QED BY <1>2, <1>3, <1>8, <2>1 DEF Held, Young
  <1>13. Good(st', onDisk', denied, budget'.identities)
    BY <1>2, <1>8, <1>9, <1>10, <1>11, <1>12 DEF Good, Fine
  <1>14. Follows(st, st', denied, denied)
    BY <1>2
  <1> QED BY <1>1, <1>11, <1>13, <1>14, OnlyStateMoves

\* A start loads what the disk holds; every request of before is over.
LEMMA StartKeeps ==
    ASSUME CatalogInv, NEW d \in Disks, StartService(d), budget' \in Limits,
           Young(d, budget'.identities)
    PROVE  CatalogInv'
  <1> PICK readable \in BOOLEAN : st' = Load(d, readable)
    BY DEF StartService
  <1>1. /\ onDisk' = d /\ UNCHANGED <<srv, now, installed>>
        /\ req' = [r \in Requests |-> At(IF req[r].at = "idle" THEN "idle" ELSE "done")]
        /\ denied' = [p \in Restricted |-> 0]
    BY DEF StartService
  <1>2. denied' \in Denials /\ \A p \in Restricted : denied'[p] = 0
    BY <1>1 DEF Denials
  <1>3. Good(st', onDisk', denied', budget'.identities)
    <2> DEFINE n == budget'.identities
    <2>1. n \in Nat /\ Young(d, n)
      BY DEF Limits
    <2> HIDE DEF n
    <2>2. Nothing \notin 1..n
      BY <2>1
    <2>3. Good(Load(d, readable), d, denied', n)
      BY <1>2, <2>1, <2>2, LoadKeeps
    <2> QED BY <1>1, <2>3 DEF n
  <1>4. ASSUME NEW r \in Requests PROVE Sound(req'[r], st', denied', srv.epoch)
    <2> DEFINE place == IF req[r].at = "idle" THEN "idle" ELSE "done"
    <2>1. place \in {"idle", "gate", "done"} /\ req'[r] = At(place)
      BY <1>1
    <2> HIDE DEF place
    <2>2. Sound(At(place), st', denied', srv.epoch)
      BY <2>1, AtRestIsSound
    <2> QED BY <2>1, <2>2
  <1>5. DOMAIN req' = Requests /\ srv' = srv /\ now' = now /\ installed' = installed
    BY <1>1
  <1>6. \A p \in Restricted : denied'[p] <= srv.epoch
    BY <1>2 DEF CatalogInv, Services
  <1>7. /\ srv' \in Services /\ now' \in {0, 1} /\ installed' \in Nat
        /\ \A p \in Restricted : denied'[p] <= srv'.epoch
        /\ \A r \in Requests : Sound(req'[r], st', denied', srv'.epoch)
    BY <1>4, <1>5, <1>6 DEF CatalogInv
  <1> QED BY <1>3, <1>5, <1>7 DEF CatalogInv

LEMMA RestartKeeps ==
    ASSUME CatalogInv, Restart
    PROVE  CatalogInv'
  <1>0. onDisk \in Disks /\ budget \in Limits /\ Young(onDisk, budget.identities)
    BY DEF CatalogInv, Good, Held
  <1>1. CASE StartService(onDisk) /\ UNCHANGED budget
    <2>1. budget' \in Limits /\ Young(onDisk, budget'.identities)
      BY <1>0, <1>1
    <2> QED BY <1>0, <1>1, <2>1, StartKeeps
  <1>2. CASE \E source \in Sources \cup {Nothing}, how \in Codes :
             /\ MayConfigure(source, how) /\ ~st.bad
             /\ StartService([onDisk EXCEPT !.settings = Settings(Configured(source, how))])
             /\ Spent(how)
    <2> PICK source \in Origins, how \in Codes :
             /\ MayConfigure(source, how)
             /\ StartService([onDisk EXCEPT !.settings = Settings(Configured(source, how))])
             /\ Spent(how)
      BY <1>2 DEF Origins
    <2> DEFINE s == Configured(source, how)
               d == [onDisk EXCEPT !.settings = Settings(s)]
    <2>1. s \in States /\ s.identity \notin 1..Left(how)
      BY ConfiguredFacts DEF Fine
    <2> HIDE DEF s
    <2>2. Settings(s) \in SavedSettings /\ Settings(s).identity = s.identity
      BY <2>1 DEF Settings, SavedSettings, States
    <2>3. d \in Disks
      <3> HIDE DEF Settings
      <3> QED BY <1>0, <2>2 DEF Disks
    <2>4. StartService(d)
      BY DEF d, s
    <2>5. /\ budget' \in Limits /\ budget'.identities = Left(how)
          /\ \A k : k \notin 1..budget.identities => k \notin 1..Left(how)
      BY SpentFacts
    <2>6. d.settings = Settings(s) /\ d.res = onDisk.res /\ d.res1 = onDisk.res1
      <3> HIDE DEF Settings
      <3> QED BY <1>0 DEF Disks
    <2> HIDE DEF d
    <2>7. Young(d, budget'.identities)
      BY <1>0, <2>1, <2>2, <2>5, <2>6 DEF Young
    <2> QED BY <2>3, <2>4, <2>5, <2>7, StartKeeps
  <1>3. CASE /\ StartService([onDisk EXCEPT !.settings = [at |-> "damaged"]])
             /\ UNCHANGED budget
    <2> DEFINE d == [onDisk EXCEPT !.settings = [at |-> "damaged"]]
    <2>1. [at |-> "damaged"] \in [at : {"missing", "damaged"}]
      OBVIOUS
    <2>2. d \in Disks
      BY <1>0, <2>1 DEF Disks
    <2>3. StartService(d) /\ budget' \in Limits /\ budget'.identities = budget.identities
      BY <1>0, <1>3
    <2>4. d.settings.at = "damaged" /\ d.res = onDisk.res /\ d.res1 = onDisk.res1
      BY <1>0 DEF Disks
    <2> HIDE DEF d
    <2>5. Young(d, budget'.identities)
      BY <1>0, <2>3, <2>4 DEF Young
    <2> QED BY <2>2, <2>3, <2>5, StartKeeps
  <1> QED BY <1>1, <1>2, <1>3 DEF Restart

LEMMA ObserveKeeps ==
    ASSUME CatalogInv, Observe
    PROVE  CatalogInv'
  <1>1. "expired" \in Rejected
    BY DEF Rejected
  <1> PICK o \in Rejections("expired") : st' = o.st /\ onDisk' = o.disk
    BY DEF Observe
  <1>2. /\ UNCHANGED <<req, srv, now, installed, denied>> /\ budget' = budget
        /\ budget' \in Limits
    BY DEF Observe, CatalogInv
  <1>3. Good(st, onDisk, denied, budget.identities) /\ st.gen \in Nat
    BY DEF CatalogInv, Good, States
  <1>4. Good(o.st, o.disk, denied, budget.identities) /\ o.st.gen = st.gen + 1
    BY <1>1, <1>3, RejectionsKeep
  <1>5. Good(st', onDisk', denied, budget'.identities) /\ Follows(st, st', denied, denied)
    BY <1>2, <1>3, <1>4 DEF Follows
  <1> QED BY <1>2, <1>5, OnlyStateMoves

\* What the service gave before, it gave at an earlier epoch.
LEMMA ServiceKeeps ==
    ASSUME CatalogInv, ServiceChanges \/ TimePasses
    PROVE  CatalogInv'
  <1>1. UNCHANGED <<st, onDisk, req, installed, denied, budget>>
    BY DEF ServiceChanges, TimePasses
  <1>2. st' = st /\ onDisk' = onDisk /\ req' = req /\ installed' = installed
        /\ denied' = denied /\ budget' = budget
    BY <1>1
  <1>3. srv \in Services /\ srv.epoch \in Nat /\ srv.ends \in Expiries
    BY DEF CatalogInv, Services
  <1>4. srv' \in Services /\ srv'.epoch \in Nat /\ srv.epoch <= srv'.epoch /\ now' \in {0, 1}
    <2>1. CASE ServiceChanges
      <3> PICK code \in {"valid", "revoked"}, scope \in SUBSET Restricted,
               ends \in {srv.ends, Nothing} :
                srv' = [code |-> code, scope |-> scope, ends |-> ends, epoch |-> srv.epoch + 1]
        BY <2>1 DEF ServiceChanges
      <3>1. ends \in Expiries /\ srv.epoch + 1 \in Nat
        BY <1>3 DEF Expiries
      <3>2. srv' \in Services /\ srv'.epoch = srv.epoch + 1
        BY <3>1 DEF Services
      <3>3. now' = now
        BY <2>1 DEF ServiceChanges
      <3> QED BY <1>3, <3>2, <3>3 DEF CatalogInv
    <2>2. CASE TimePasses
      BY <1>3, <2>2 DEF TimePasses
    <2> QED BY <2>1, <2>2
  <1>5. ASSUME NEW r \in Requests PROVE Sound(req[r], st, denied, srv'.epoch)
    <2>1. Sound(req[r], st, denied, srv.epoch) /\ st \in States
      BY DEF CatalogInv, Good
    <2>2. Follows(st, st, denied, denied)
      BY DEF Follows
    <2> QED BY <1>3, <1>4, <2>1, <2>2, StaysSound
  <1>6. \A p \in Restricted : denied[p] <= srv'.epoch
    <2> SUFFICES ASSUME NEW p \in Restricted PROVE denied[p] <= srv'.epoch
      OBVIOUS
    <2>1. denied[p] \in Nat /\ denied[p] <= srv.epoch
      BY DEF CatalogInv, Good, Denials
    <2> QED BY <1>3, <1>4, <2>1
  <1>7. /\ Good(st', onDisk', denied', budget'.identities) /\ DOMAIN req' = Requests /\ installed' \in Nat
        /\ budget' \in Limits
        /\ \A p \in Restricted : denied'[p] <= srv'.epoch
        /\ \A r \in Requests : Sound(req'[r], st', denied', srv'.epoch)
    BY <1>2, <1>5, <1>6 DEF CatalogInv
  <1> QED BY <1>4, <1>7 DEF CatalogInv

LEMMA CatalogsKeep ==
    ASSUME CatalogInv, NEW c \in Catalogs, CatalogSteps(c)
    PROVE  CatalogInv'
  <1>0. c \in Requests
    BY DEF Requests
  <1>1. CASE Call(c)
    <2>1. Sound(At("gate"), st, denied, srv.epoch)
      BY AtRestIsSound
    <2>2. /\ req' = [req EXCEPT ![c] = At("gate")] /\ installed' \in Nat
          /\ UNCHANGED <<st, onDisk, srv, now, denied, budget>>
      BY <1>1 DEF Call, CatalogInv
    <2> QED BY <1>0, <2>1, <2>2, RequestMoves
  <1>2. CASE BeginCatalog(c)
    <2>1. /\ NoRequest \in Jobs /\ DOMAIN NoRequest.todo = {} /\ DOMAIN NoRequest.items = {}
          /\ NoRequest.reply = Nothing /\ ~NoRequest.cancelled
      BY NoRequestFacts
    <2> QED BY <1>0, <1>2, <2>1, BeginKeeps DEF BeginCatalog
  <1>3. CASE BeginCoalesced(c)
    <2>1. /\ UNCHANGED <<srv, now, budget>> /\ installed' \in Nat /\ Ends(c)
          /\ onDisk' = onDisk /\ denied' = denied
          /\ st' = [st EXCEPT !.seq = st.seq + 1]
          /\ \A p \in Restricted : denied'[p] <= srv.epoch
      BY <1>3 DEF BeginCoalesced, CatalogInv
    <2>2. Good(st, onDisk, denied, budget.identities)
      BY DEF CatalogInv
    <2>3. Good(st', onDisk', denied', budget.identities) /\ SameCode(st, st') /\ st'.gen = st.gen /\ st'.cred = st.cred
      BY <2>1, <2>2, SequenceFacts
    <2>4. Follows(st, st', denied, denied')
      BY <2>1, <2>3 DEF Follows, SameCode
    <2> QED BY <1>0, <2>1, <2>3, <2>4, EndingMoves
  <1>4. CASE ScopeOfCatalog(c)
    BY <1>4, ScopeOfCatalogKeeps
  <1>5. CASE UpdateTaken(c)
    BY <1>5, UpdateTakenKeeps
  <1>6. CASE UpdateDenied(c)
    BY <1>6, UpdateDeniedKeeps
  <1>7. CASE CommitCatalog(c)
    BY <1>7, CommitKeeps
  <1> QED BY <1>1, <1>2, <1>3, <1>4, <1>5, <1>6, <1>7 DEF CatalogSteps

LEMMA RequestsKeep ==
    ASSUME CatalogInv, NEW r \in Requests, RequestSteps(r)
    PROVE  CatalogInv'
  <1>1. Fails(r) => CatalogInv'
    BY FailingKeeps
  <1> QED BY <1>1, ServiceAnswersKeeps, CodeRejectedKeeps, AuthenticateKeeps, KnownExpiredKeeps
          DEF RequestSteps, Unanswered

-----------------------------------------------------------------------------
(***************************************************************************)
(* The theorems                                                            *)
(***************************************************************************)

LEMMA CatalogStarts == CatalogInit => CatalogInv
  <1> SUFFICES ASSUME CatalogInit PROVE CatalogInv
    OBVIOUS
  <1>0. budget \in Limits /\ budget.identities \in Nat
    BY DEF CatalogInit, Limits
  <1>1. onDisk \in Disks /\ Young(onDisk, budget.identities)
    <2>1. [at |-> "missing"] \in [at : {"missing", "damaged"}]
      OBVIOUS
    <2>2. Empty \in Disks /\ Empty.settings.at = "missing" /\ Empty.res = Nothing
          /\ Empty.res1 = Nothing
      BY <2>1 DEF Empty, Disks, Origins
    <2> DEFINE file == [at |-> "saved", source |-> Official, identity |-> 0,
                        cred |-> "valid", ends |-> srv.ends]
               ids == [p \in Restricted |-> 0]
               copy == [source |-> Official, identity |-> 0, ids |-> ids]
    <2>3. file \in SavedSettings /\ file.identity = 0
      BY DEF CatalogInit, SavedSettings, Origins, Codings, Standings, Expiries
    <2>4. ids \in Indexes
      <3>1. ids \in [Restricted -> Nat]
        OBVIOUS
      <3> HIDE DEF ids
      <3> QED BY <3>1, IndexMade
    <2> HIDE DEF ids
    <2>5. copy \in Copies /\ copy.identity = 0
      BY <2>4 DEF Copies
    <2>6. Older = [Empty EXCEPT !.settings = file, !.pub1 = Official, !.res1 = copy]
      BY DEF Older, ids
    <2> HIDE DEF file, copy
    <2>7. /\ Older \in Disks /\ Older.settings = file /\ Older.res = Nothing
          /\ Older.res1 = copy
      BY <2>2, <2>3, <2>5, <2>6 DEF Disks, Origins
    <2>8. onDisk = Empty \/ onDisk = Older
      BY DEF CatalogInit
    <2>9. 0 \notin 1..budget.identities
      BY <1>0
    <2> QED BY <2>2, <2>3, <2>5, <2>7, <2>8, <2>9 DEF Young
  <1>2. denied \in Denials /\ \A p \in Restricted : denied[p] = 0
    BY DEF CatalogInit, Denials
  <1>3. Good(st, onDisk, denied, budget.identities)
    <2>1. st = Load(onDisk, TRUE)
      BY DEF CatalogInit
    <2>2. Nothing \notin 1..budget.identities
      BY <1>0
    <2> QED BY <1>1, <1>2, <2>1, <2>2, LoadKeeps
  <1>4. srv \in Services /\ srv.epoch = 0
    BY DEF CatalogInit, Services, Expiries
  <1>5. ASSUME NEW r \in Requests PROVE Sound(req[r], st, denied, srv.epoch)
    <2>1. req[r] = NoRequest
      BY DEF CatalogInit
    <2>2. Ordered(NoRequest, st, srv.epoch) /\ NoRequest.at \notin Stages
      BY NoRequestFacts DEF Ordered, Stages
    <2> QED BY <2>1, <2>2, NoRequestFacts DEF Sound
  <1>6. DOMAIN req = Requests /\ installed \in Nat /\ now \in {0, 1} /\ budget \in Limits
    BY DEF CatalogInit, Limits
  <1> QED BY <1>2, <1>3, <1>4, <1>5, <1>6 DEF CatalogInv

LEMMA CatalogKeeps == CatalogInv /\ [CatalogNext]_catalogVars => CatalogInv'
  <1> SUFFICES ASSUME CatalogInv, [CatalogNext]_catalogVars PROVE CatalogInv'
    OBVIOUS
  <1>1. CASE UNCHANGED catalogVars
    <2>1. st' = st /\ onDisk' = onDisk /\ req' = req /\ srv' = srv /\ now' = now
          /\ installed' = installed /\ denied' = denied /\ budget' = budget
      BY <1>1 DEF catalogVars
    <2> QED BY <2>1 DEF CatalogInv
  <1>2. CASE \E c \in Catalogs : CatalogSteps(c)
    BY <1>2, CatalogsKeep
  <1>3. CASE \E i \in Installs : InstallSteps(i)
    BY <1>3, InstallsKeep
  <1>4. CASE \E r \in Requests : RequestSteps(r)
    BY <1>4, RequestsKeep
  <1>5. CASE \E source \in Sources \cup {Nothing}, how \in Codes : Configure(source, how)
    BY <1>5, ConfigureKeeps DEF Origins
  <1>6. CASE Observe
    BY <1>6, ObserveKeeps
  <1>7. CASE Restart
    BY <1>7, RestartKeeps
  <1>8. CASE ServiceChanges \/ TimePasses
    BY <1>8, ServiceKeeps
  <1> QED BY <1>1, <1>2, <1>3, <1>4, <1>5, <1>6, <1>7, <1>8 DEF CatalogNext

LEMMA CatalogInvHolds == CatalogSpec => []CatalogInv
  BY CatalogStarts, CatalogKeeps, PTL DEF CatalogSpec

\* What is shown belongs to the configured source and access code, for any
\* number of sources, plugins, catalog requests and installations: whatever
\* answers arrive late, whatever a start finds (NothingForeignShown).
THEOREM ShownIsOwn == CatalogSpec => []NothingForeignShown
  <1>1. CatalogInv => NothingForeignShown
    <2> SUFFICES ASSUME CatalogInv PROVE NothingForeignShown
      OBVIOUS
    <2>1. Honest(st) /\ st \in States
      BY DEF CatalogInv, Good
    <2>2. st.res # Nothing => st.res.identity # Nothing
      BY <2>1 DEF States, Copies
    <2> QED BY <2>1, <2>2 DEF Honest, NothingForeignShown
  <1> QED BY <1>1, CatalogInvHolds, PTL

\* Neither a late answer nor a start brings back what was denied, or what a
\* rejected code had shown, as long as the service has not warned; but for the
\* cache of an older version whose removal failed, and for denials whose warning a
\* configuration withdrew (DenialsLast).
THEOREM DenialsStand == CatalogSpec => []DenialsLast
  <1>1. CatalogInv => DenialsLast
    <2> SUFFICES ASSUME CatalogInv PROVE DenialsLast
      OBVIOUS
    <2>1. /\ onDisk \in Disks /\ Survives(st, onDisk) /\ Sticks(st, denied)
          /\ Lasts(st, onDisk, denied) /\ Held(st, onDisk, budget.identities)
      BY DEF CatalogInv, Good
    <2>2. DenialSurvives
      <3> SUFFICES ASSUME ~st.warn, NEW readable \in BOOLEAN, ~Outlives,
                          Load(onDisk, readable).res # Nothing
                   PROVE  /\ st.cred \notin Rejected
                          /\ onDisk.hushed \/ \A p \in Shown(Load(onDisk, readable)) :
                                Load(onDisk, readable).res.ids[p] >= denied[p]
        BY DEF DenialSurvives
      <3> DEFINE s == LoadSettings(onDisk, readable)
                 l == Load(onDisk, readable)
      <3>1. /\ l \in States /\ l.res = Cache(onDisk.res, onDisk.res1) /\ MayLoad(s)
            /\ l.res.identity = l.identity /\ l.identity = s.identity
        BY <2>1, LoadFacts DEF SameCode
      <3>2. /\ onDisk.settings.at = "saved" /\ s.identity = onDisk.settings.identity
            /\ onDisk.settings.cred \notin Rejected
        BY <2>1, <3>1, SettingsLoad
      <3>3. l.res # Nothing
        OBVIOUS
      <3> HIDE DEF s, l
      <3>4. l.res.identity = st.identity
        BY <2>1, <3>1, <3>2 DEF Held
      <3>5. /\ onDisk.res # Nothing => l.res = onDisk.res
            /\ onDisk.res = Nothing => l.res = onDisk.res1 /\ ~Gone1(onDisk)
        BY <3>1, <3>3 DEF Cache, Outlives, Gone1
      <3>6. st.cred \notin Rejected
        BY <2>1, <3>2, <3>5 DEF Survives, Barred, Outlives, Gone1
      <3>7. ASSUME ~onDisk.hushed PROVE Later(l.res.ids, denied)
        BY <2>1, <3>4, <3>5, <3>7 DEF Lasts
      <3>8. Shown(l) = DOMAIN l.res.ids
        BY <3>1, <3>3, ShownIsKnown
      <3> QED BY <3>6, <3>7, <3>8 DEF Later, l
    <2>3. DenialSticks
      BY <2>1 DEF Sticks, DenialSticks
    <2> QED BY <2>2, <2>3 DEF DenialsLast
  <1> QED BY <1>1, CatalogInvHolds, PTL

\* A download whose cancellation was confirmed is not installed, and no mode is
\* exceeded, however many installations overtake each other (InstallsAsAsked).
THEOREM InstallsAreAsked == CatalogSpec => InstallsAsAsked
  <1>1. CatalogInv /\ [CatalogNext]_catalogVars =>
          [\A i \in Installs :
             req[i].at = "committing" /\ installed' # installed /\ req'[i].at = "done" =>
                 /\ ~req[i].cancelled
                 /\ Allowed(req[i].mode, installed', installed)]_catalogVars
    <2> SUFFICES ASSUME CatalogInv, CatalogNext, NEW i \in Installs,
                        req[i].at = "committing", installed' # installed, req'[i].at = "done"
                 PROVE  ~req[i].cancelled /\ Allowed(req[i].mode, installed', installed)
      OBVIOUS
    <2>1. i \in Requests /\ ~req[i].cancelled
      BY KnownJob DEF Requests, Ordered
    <2>2. PICK k \in Installs : InstallPackage(k)
      <3>1. ASSUME NEW c \in Catalogs, CatalogSteps(c) PROVE FALSE
        BY <3>1 DEF CatalogSteps, Call, BeginCatalog, BeginRequest, BeginCoalesced,
                    ScopeOfCatalog, UpdateTaken, UpdateDenied, CommitCatalog
      <3>2. ASSUME NEW r \in Requests, RequestSteps(r) PROVE FALSE
        BY <3>2 DEF RequestSteps, ServiceAnswers, Unanswered, Fails, CodeRejected,
                    Authenticate, KnownExpired
      <3>3. ASSUME NEW k \in Installs, InstallSteps(k) PROVE InstallPackage(k)
        BY <3>3 DEF InstallSteps, BeginInstall, BeginRequest, ScopeOfInstall, PackageDenied,
                    UpdateChecked, PackageFetched, Cancel, Cancelled, Fails, BeginCommit,
                    NotInstalled
      <3>4. ~(\E source \in Sources \cup {Nothing}, how \in Codes : Configure(source, how))
        BY DEF Configure
      <3>5. ~(Observe \/ Restart \/ ServiceChanges \/ TimePasses)
        BY DEF Observe, Restart, StartService, ServiceChanges, TimePasses
      <3> QED BY <3>1, <3>2, <3>3, <3>4, <3>5 DEF CatalogNext
    <2>3. k = i
      <3> SUFFICES ASSUME k # i PROVE FALSE
        OBVIOUS
      <3>1. req'[i] = req[i]
        BY <2>1, <2>2 DEF InstallPackage, Ends, CatalogInv
      <3> QED BY <3>1
    <2>4. Allowed(req[i].mode, req[i].version, installed) /\ installed' = req[i].version
      BY <2>2, <2>3 DEF InstallPackage, Confirmed
    <2> QED BY <2>1, <2>4
  <1> QED BY <1>1, CatalogInvHolds, PTL DEF CatalogSpec, InstallsAsAsked
=============================================================================
