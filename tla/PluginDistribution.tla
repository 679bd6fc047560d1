--------------------------- MODULE PluginDistribution ---------------------------
(***************************************************************************)
(* The plugin distribution service, plugin_distribution.rs: the configured *)
(* source and access code, the cached catalogs in memory and on disk, the  *)
(* catalog requests that share a gate and the installations that do not,   *)
(* with the jobs of plugin_manager.rs that can be cancelled.               *)
(*                                                                         *)
(* The service answers at its own time: a request sends, the service fixes *)
(* its answer, and the answer is handled later.  The configuration, other  *)
(* requests and the clock move in between; generation and sequence are     *)
(* there to tell.  Public introductions never change; the sources behave   *)
(* alike.  Updates of a catalog are handled one at a time, in any order.   *)
(***************************************************************************)
EXTENDS Naturals, FiniteSets, Functions

CONSTANTS
    Sources, Official,  \* origins, and the one used before any is configured
    Restricted,         \* plugins an access code may show
    Catalogs, Installs, \* requests
    Nothing,
    Budgets,            \* bounds, one of which a behaviour keeps
    MaxVersion          \* bound: versions of the plugin that is installed

Requests == Catalogs \cup Installs
AllFaults == {"disk",    \* a file cannot be written or removed
              "damage",  \* a start finds the settings damaged
              "seal",    \* a start cannot unseal the access code
              "net",     \* no answer, or one that does not parse
              "crash"}   \* the process ends

\* an index: plugins, each with the epoch of the service it was shown at
Indexes == UNION {[S -> Nat] : S \in SUBSET Restricted}
\* the introductions of a code: access codes are told apart by a number
Copies == [source : Sources, identity : Nat, ids : Indexes]

ASSUME DistributionAssumption ==
    /\ Official \in Sources /\ Catalogs \cap Installs = {}
    /\ Nothing \notin Sources \cup Restricted \cup Requests
    /\ Nothing \notin Nat /\ Nothing \notin Copies
    /\ MaxVersion \in Nat
    /\ Budgets \subseteq
          [faults : SUBSET AllFaults,   \* what may go wrong
           upgraded : BOOLEAN,          \* the first start finds the files of an older version
           may : SUBSET Requests,       \* the requests that are made
           identities : Nat, configures : Nat, epochs : Nat]
                \* codes set, configurations, changes of the service

VARIABLES
    st,         \* RuntimeState
    onDisk,     \* the settings, the two caches, those of an older version (pub1, res1),
                \*   the copy of damaged settings; and, as history, whether res1
                \*   has outlived a removal (spared), and whether a warning was
                \*   withdrawn before res was written again (hushed)
    req,        \* the requests
    srv,        \* the service: the code, the plugins it shows, its expiry
    now,        \* 0 before and 1 after the expiry an access status may name
    installed,  \* the version of the plugin, 0 when there is none
    denied,     \* epoch of the last denial this process accepted, by plugin
    budget      \* what the bound has left

catalogVars == <<st, onDisk, req, srv, now, installed, denied, budget>>

Rejected == {"invalid", "expired", "revoked"}
Saves == IF "disk" \in budget.faults THEN BOOLEAN ELSE {TRUE}
Modes == {"update", "repair", "rollback"}
Past(ends) == ends # Nothing /\ now = 1

Fresh ==
    [source |-> Nothing, identity |-> Nothing, code |-> FALSE, cred |-> "none",
     ends |-> Nothing,
     bad |-> FALSE, warn |-> FALSE, gen |-> 1, seq |-> 0,
     pub |-> Nothing, res |-> Nothing, recent |-> Nothing]

Settings(s) == [at |-> "saved", source |-> s.source, identity |-> s.identity, cred |-> s.cred, ends |-> s.ends]

NoPlugins == [p \in {} |-> 0]

\* RequestState, then what a catalog has gathered and what an installation is for
NoRequest ==
    [at |-> "idle", source |-> Nothing, coded |-> FALSE, identity |-> Nothing,
     gen |-> 0, seq |-> 0, reply |-> Nothing,
     todo |-> NoPlugins, items |-> NoPlugins, problem |-> FALSE,
     plugin |-> Nothing, version |-> 0, mode |-> "none", had |-> 0, cancelled |-> FALSE]
At(place) == [NoRequest EXCEPT !.at = place]

-----------------------------------------------------------------------------
(* Load *)

\* load_credential and restore_access_state
Credential(f, readable) ==
    LET code == f.identity # Nothing /\ readable
        known == code /\ f.cred \in {"unchecked", "valid"} \cup Rejected
    IN  [Fresh EXCEPT
           !.source = f.source, !.identity = f.identity, !.code = code,
           !.cred = IF f.identity = Nothing THEN "none"
                    ELSE IF ~code THEN "unavailable"
                    ELSE IF known THEN f.cred ELSE "unchecked",
           !.ends = IF known THEN f.ends ELSE Nothing,
           !.warn = f.identity # Nothing /\ ~code]

LoadSettings(d, readable) ==
    CASE d.settings.at = "missing" -> [Fresh EXCEPT !.source = Official]
      [] d.settings.at = "damaged" ->
            [Fresh EXCEPT !.bad = TRUE, !.cred = "unavailable", !.warn = TRUE]
      [] OTHER -> Credential(d.settings, readable)

\* load_cache: the cache of an older version stands in for one that is missing;
\* a cache of another source or code is left alone
MayLoad(s) == s.code /\ s.cred \notin Rejected
Cache(file, older) == IF file # Nothing THEN file ELSE older

Load(d, readable) ==
    LET s == LoadSettings(d, readable)
        pub == Cache(d.pub, d.pub1)
        res == Cache(d.res, d.res1)
    IN  [s EXCEPT
           !.pub = IF pub # Nothing /\ pub = s.source THEN pub ELSE Nothing,
           !.res = IF /\ res # Nothing /\ MayLoad(s)
                      /\ res.source = s.source /\ res.identity = s.identity
                   THEN res ELSE Nothing]

\* the disk of a first start, and what an older version leaves: its settings, of
\* a code that is told apart from every later one, and its caches
Empty ==
    [settings |-> [at |-> "missing"], pub |-> Nothing, res |-> Nothing,
     pub1 |-> Nothing, res1 |-> Nothing, kept |-> FALSE, spared |-> FALSE, hushed |-> FALSE]
Older ==
    [Empty EXCEPT
       !.settings = [at |-> "saved", source |-> Official, identity |-> 0, cred |-> "valid", ends |-> srv.ends],
       !.pub1 = Official,
       !.res1 = [source |-> Official, identity |-> 0, ids |-> [p \in Restricted |-> 0]]]

CatalogInit ==
    /\ budget \in Budgets
    /\ \E ends \in {Nothing, 1} :
          srv = [code |-> "valid", scope |-> Restricted, ends |-> ends, epoch |-> 0]
    /\ onDisk = IF budget.upgraded THEN Older ELSE Empty
    /\ st = Load(onDisk, TRUE)
    /\ req = [r \in Requests |-> NoRequest]
    /\ now = 0 /\ installed = 0
    /\ denied = [p \in Restricted |-> 0]

\* what the restricted cache of a state shows: snapshot_from_state
Shown(s) == IF s.res = Nothing THEN {} ELSE DOMAIN s.res.ids

-----------------------------------------------------------------------------
(* State changes under the lock *)

Bump(s) == [s EXCEPT !.gen = @ + 1, !.recent = Nothing]

\* write_restricted_cache: an empty cache is removed from the disk, after that of
\* an older version.  Whether the latter could be removed is not asked.
Tries == [file : Saves, older : Saves]
KeptCopy(s) == IF Shown(s) = {} THEN Nothing ELSE s.res
WriteRestricted(d, s, try) ==
    LET older == IF KeptCopy(s) = Nothing /\ try.older THEN Nothing ELSE d.res1
    IN  [d EXCEPT !.res = IF try.file THEN KeptCopy(s) ELSE @,
                  !.hushed = @ /\ ~try.file,
                  !.res1 = older,
                  !.spared = IF KeptCopy(s) = Nothing THEN older # Nothing ELSE @]
MutWritten(d, s, try) == TRUE    \* mutant: nobody is told that the cache stayed
Written(d, s, try) == try.file \/ (KeptCopy(s) = Nothing /\ d.res = Nothing)

\* persist_access_state: damaged settings are never overwritten
Persist(d, s, ok) == IF ok /\ ~s.bad THEN [d EXCEPT !.settings = Settings(s)] ELSE d

\* The rejected code takes its introductions away: invalidate (which removes
\* the cache twice) and expire_known_code.
Reject(s, what) == [Bump(s) EXCEPT !.cred = what, !.res = Nothing]

Rejections(what) ==
    LET s == Reject(st, what)
    IN  {[st |-> [s EXCEPT !.warn = @ \/ ~(saved \/ Written(onDisk, s, removed))],
          disk |-> WriteRestricted(Persist(onDisk, s, saved), s, removed)] :
            saved \in Saves, removed \in Tries}

Lacking(copy, gone) == [copy EXCEPT !.ids = Restrict(@, DOMAIN @ \ gone)]

\* invalidate for one plugin
Deny(s, p) ==
    [Bump(s) EXCEPT !.res = IF @ = Nothing THEN Nothing ELSE Lacking(@, {p})]
\* The cache has changed in memory and follows on the disk
Synced(s, d) ==
    {[st |-> [s EXCEPT !.warn = @ \/ ~Written(d, s, saved)],
      disk |-> WriteRestricted(d, s, saved)] : saved \in Tries}

\* accept_live_scope: introductions the code no longer shows go at once
Narrow(s, ids) == [Bump(s) EXCEPT !.res = Lacking(@, Shown(s) \ DOMAIN ids)]
Narrows(s, ids) == ~(Shown(s) \subseteq DOMAIN ids)
DeniedAt(gone, epoch) ==
    denied' = [p \in Restricted |-> IF p \in gone /\ epoch > denied[p] THEN epoch ELSE denied[p]]

\* expire_known_code
Expires(s) == s.cred = "valid" /\ Past(s.ends)

\* settings, and every fallback to the cached introductions
Observe ==
    /\ Expires(st)
    /\ \E o \in Rejections("expired") : st' = o.st /\ onDisk' = o.disk
    /\ UNCHANGED <<req, srv, now, installed, denied, budget>>

-----------------------------------------------------------------------------
(* configure *)

Codes == {"keep", "clear", "set"}
Configured(source, how) ==
    LET moved == source # st.source
        clear == moved \/ how = "clear"
        identity == IF how = "set" THEN budget.identities
                     ELSE IF clear THEN Nothing ELSE st.identity
        code == how = "set" \/ (st.code /\ ~clear)
        reset == moved \/ how = "clear" \/ identity # st.identity
        base == [st EXCEPT !.source = source, !.identity = identity, !.code = code,
                           !.bad = FALSE, !.warn = FALSE]
    IN  IF ~reset THEN base
        ELSE [Bump(base) EXCEPT
                !.seq = @ + 1, !.res = Nothing, !.ends = Nothing,
                !.cred = IF code THEN "unchecked" ELSE "none",
                !.pub = IF moved THEN Nothing ELSE @]

MayConfigure(source, how) ==
    /\ budget.configures > 0
    /\ how = "set" => source # Nothing /\ budget.identities > 0

\* preserve_damaged_file
Preserved == onDisk.kept \/ (st.bad /\ onDisk.settings.at = "damaged")

Spent(how) ==
    budget' = [budget EXCEPT !.configures = @ - 1, !.identities = IF how = "set" THEN @ - 1 ELSE @]

\* the caches of restricted plugins, and of all when the source changes
Removals == [pub : Saves, res : Saves, pub1 : Saves, res1 : Saves]
Removed(d, removed, restricted, all) ==
    [d EXCEPT !.res = IF restricted /\ removed.res THEN Nothing ELSE @,
              !.res1 = IF restricted /\ removed.res1 THEN Nothing ELSE @,
              !.pub = IF all /\ removed.pub THEN Nothing ELSE @,
              !.pub1 = IF all /\ removed.pub1 THEN Nothing ELSE @]

\* A copy of damaged settings is made first; if it or the settings cannot be
\* written nothing changes.  Removing the caches may fail unnoticed.
Configure(source, how) ==
    /\ MayConfigure(source, how)
    /\ \E removed \in Removals :
         LET s == Configured(source, how)
             without == Removed(onDisk, removed, s.gen # st.gen, source # st.source)
         IN  /\ st' = s
             /\ onDisk' = [without EXCEPT !.settings = Settings(s), !.kept = Preserved,
                                         !.hushed = @ \/ st.warn]
    /\ Spent(how)
    /\ UNCHANGED <<req, srv, now, installed, denied>>

\* The process starts again: from what is on the disk, or after a configuration
\* that had replaced the settings and removed no cache
StartService(d) ==
    /\ \E readable \in IF "seal" \in budget.faults THEN BOOLEAN ELSE {TRUE} : st' = Load(d, readable)
    /\ onDisk' = d
    /\ req' = [r \in Requests |-> At(IF req[r].at = "idle" THEN "idle" ELSE "done")]
    /\ denied' = [p \in Restricted |-> 0]
    /\ UNCHANGED <<srv, now, installed>>

Restart ==
    /\ "crash" \in budget.faults
    /\ \/ StartService(onDisk) /\ UNCHANGED budget
       \/ \E source \in Sources \cup {Nothing}, how \in Codes :
             /\ MayConfigure(source, how) /\ ~st.bad
             /\ StartService([onDisk EXCEPT !.settings = Settings(Configured(source, how))])
             /\ Spent(how)
       \/ /\ "damage" \in budget.faults /\ onDisk.settings.at = "saved"
          /\ ~onDisk.kept
          /\ StartService([onDisk EXCEPT !.settings = [at |-> "damaged"]])
          /\ UNCHANGED budget

-----------------------------------------------------------------------------
(* The service *)

\* an administrator changes what the code shows, revokes or extends it
ServiceChanges ==
    /\ srv.epoch < budget.epochs
    /\ \E code \in {"valid", "revoked"}, scope \in SUBSET Restricted, ends \in {srv.ends, Nothing} :
          /\ <<code, scope, ends>> # <<srv.code, srv.scope, srv.ends>>
          /\ srv' = [code |-> code, scope |-> scope, ends |-> ends, epoch |-> srv.epoch + 1]
    /\ UNCHANGED <<st, onDisk, req, now, installed, denied, budget>>

TimePasses ==
    /\ now = 0 /\ now' = 1
    /\ UNCHANGED <<st, onDisk, req, srv, installed, denied, budget>>

Waiting(r) == req[r].at \in {"access", "catalog", "updates", "update", "package"}
Asked(r) == IF req[r].at = "updates" THEN DOMAIN req[r].todo
            ELSE IF req[r].at \in {"update", "package"} THEN {req[r].plugin} ELSE {Nothing}

\* one HTTP exchange with the code of the request, or without
Says(kind, p) == [kind |-> kind, id |-> p, epoch |-> srv.epoch, ends |-> Nothing, ids |-> NoPlugins]
Index(r) ==
    [Says("ok", Nothing) EXCEPT
        !.ends = IF req[r].coded THEN srv.ends ELSE Nothing,
        !.ids = [q \in (IF req[r].coded THEN srv.scope ELSE {}) |-> srv.epoch]]
Answer(r, p) ==
    IF req[r].coded /\ srv.code = "revoked" THEN Says("revoked", p)
    ELSE IF req[r].coded /\ Past(srv.ends) THEN Says("expired", p)
    ELSE IF p = Nothing THEN Index(r)
    ELSE Says(IF req[r].coded /\ p \in srv.scope THEN "ok" ELSE "gone", p)

\* no answer, or an index or update that the checks of the client refuse
Malformed(p) == Says("down", p)

ServiceAnswers(r) ==
    /\ Waiting(r) /\ req[r].reply = Nothing
    /\ \E p \in Asked(r) :
         \E a \in {Answer(r, p)} \cup (IF "net" \in budget.faults THEN {Malformed(p)} ELSE {}) :
            req' = [req EXCEPT ![r].reply = a]
    /\ UNCHANGED <<st, onDisk, srv, now, installed, denied, budget>>

-----------------------------------------------------------------------------
(* Requests *)

Current(r) == st.gen = req[r].gen /\ st.source = req[r].source
Unbumped(r) == st.seq = req[r].seq
Got(r, at, kind) == req[r].at = at /\ req[r].reply # Nothing /\ req[r].reply.kind = kind

Ends(r) == req' = [req EXCEPT ![r] = At("done")]
Fails(r) == Ends(r) /\ UNCHANGED <<st, onDisk, srv, now, installed, denied, budget>>
Goes(r, at) == req' = [req EXCEPT ![r].at = at, ![r].reply = Nothing]

\* catalog: the request waits for the gate
Call(c) ==
    /\ req[c].at = "idle" /\ c \in budget.may
    /\ req' = [req EXCEPT ![c] = At("gate")]
    /\ UNCHANGED <<st, onDisk, srv, now, installed, denied, budget>>

GateFree == \A c \in Catalogs : req[c].at \in {"idle", "gate", "done"}
Gate == {c \in Catalogs : req[c].at = "gate"}

\* begin_request: a code known to have expired is rejected first
BeginRequest(r, job) ==
    /\ \E o \in IF Expires(st) THEN Rejections("expired") ELSE {[st |-> st, disk |-> onDisk]} :
          /\ st' = [o.st EXCEPT !.seq = @ + 1]
          /\ onDisk' = o.disk
          /\ req' = [req EXCEPT ![r] =
                [job EXCEPT !.at = "access", !.source = st.source, !.coded = st.code,
                            !.identity = st.identity, !.gen = o.st.gen, !.seq = o.st.seq + 1]]
    /\ UNCHANGED <<srv, now, installed, denied>>

\* The gate is taken.  A snapshot finished since the request was made answers
\* it, if its generation is still the current one.
Coalesced(c) == st.recent # Nothing /\ st.recent.gen = st.gen /\ c \in st.recent.for

BeginCatalog(c) ==
    /\ req[c].at = "gate" /\ GateFree
    /\ ~st.bad /\ st.source # Nothing
    /\ ~(Coalesced(c) /\ ~Expires(st))
    /\ BeginRequest(c, NoRequest)
    /\ UNCHANGED budget

BeginCoalesced(c) ==
    /\ req[c].at = "gate" /\ GateFree
    /\ ~st.bad /\ st.source # Nothing
    /\ Coalesced(c) /\ ~Expires(st)
    /\ st' = [st EXCEPT !.seq = @ + 1]
    /\ Ends(c)
    /\ UNCHANGED <<onDisk, srv, now, installed, denied, budget>>

\* no source, unreadable settings, an error of the service, the time budget
Unanswered(r) ==
    /\ req[r].at = "gate" \/ Waiting(r)
    /\ Fails(r)

\* install_catalog_request: the job, then begin_request at once
BeginInstall(i) ==
    /\ req[i].at = "idle" /\ i \in budget.may
    /\ IF st.bad \/ st.source = Nothing
       THEN Ends(i) /\ UNCHANGED <<st, onDisk, srv, now, installed, denied>>
       ELSE \E p \in Restricted, v \in 1..MaxVersion, mode \in Modes :
              BeginRequest(i, [NoRequest EXCEPT !.plugin = p, !.version = v, !.mode = mode,
                                                !.had = installed])
    /\ UNCHANGED budget

\* invalidate_and_renew: an outdated request ends, and so does one that another
\* has overtaken, once the rejection is known
Renew(r, o, coded, at) ==
    IF Unbumped(r)
    THEN /\ st' = [o EXCEPT !.seq = @ + 1]
         /\ req' = [req EXCEPT ![r] = [req[r] EXCEPT !.gen = o.gen, !.seq = o.seq + 1,
                                               !.coded = coded, !.reply = Nothing, !.at = at]]
    ELSE st' = o /\ Ends(r)

WithoutCode(r, what, at) ==
    IF st.gen = req[r].gen
    THEN \E o \in Rejections(what) : onDisk' = o.disk /\ Renew(r, o.st, FALSE, at)
    ELSE Ends(r) /\ UNCHANGED <<st, onDisk>>

CodeRejected(r) ==
    /\ Waiting(r) /\ req[r].reply # Nothing /\ req[r].reply.kind \in Rejected
    /\ \/ req[r].at \in {"access", "catalog"} /\ WithoutCode(r, req[r].reply.kind, req[r].at)
       \/ /\ req[r].at \in {"updates", "update", "package"}   \* request_result
          /\ IF st.gen = req[r].gen
             THEN \E o \in Rejections(req[r].reply.kind) : st' = o.st /\ onDisk' = o.disk
             ELSE UNCHANGED <<st, onDisk>>
          /\ Ends(r)
    /\ UNCHANGED <<srv, now, installed, denied, budget>>

\* authenticate: an expiry that has passed is a rejection; a request that is
\* no longer current goes on without touching the state
Authenticate(r) ==
    /\ Got(r, "access", "ok") /\ ~Past(req[r].reply.ends)
    /\ IF st.gen = req[r].gen
       THEN \E saved \in Saves :
              LET s == IF req[r].coded
                       THEN [st EXCEPT !.cred = "valid", !.ends = req[r].reply.ends]
                       ELSE [st EXCEPT !.cred = IF st.identity = Nothing THEN "none" ELSE @]
              IN  /\ st' = [s EXCEPT !.warn = @ \/ ~saved]
                  /\ onDisk' = Persist(onDisk, s, saved)
       ELSE UNCHANGED <<st, onDisk>>
    /\ Goes(r, "catalog")
    /\ UNCHANGED <<srv, now, installed, denied, budget>>

KnownExpired(r) ==
    /\ Got(r, "access", "ok") /\ Past(req[r].reply.ends)
    /\ WithoutCode(r, "expired", "catalog")
    /\ UNCHANGED <<srv, now, installed, denied, budget>>

\* accept_live_scope on a current request: what goes from the cache
Narrowed(r) ==
    IF Narrows(st, req[r].reply.ids) THEN Synced(Narrow(st, req[r].reply.ids), onDisk)
    ELSE {[st |-> st, disk |-> onDisk]}
Gone(r) == Shown(st) \ DOMAIN req[r].reply.ids

\* the index of a catalog, then ensure_current
ScopeOfCatalog(c) ==
    /\ Got(c, "catalog", "ok")
    /\ IF st.gen = req[c].gen
       THEN /\ \E o \in Narrowed(c) :
                 /\ st' = o.st /\ onDisk' = o.disk
                 /\ req' = [req EXCEPT ![c] = [req[c] EXCEPT !.at = "updates", !.reply = Nothing,
                                !.gen = o.st.gen, !.todo = req[c].reply.ids]]
            /\ DeniedAt(Gone(c), req[c].reply.epoch)
       ELSE Ends(c) /\ UNCHANGED <<st, onDisk, denied>>
    /\ UNCHANGED <<srv, now, installed, budget>>

\* the index of an installation, which does not ask whether it is current; a
\* plugin that is not in it is a denial
ScopeOfInstall(i) ==
    /\ Got(i, "catalog", "ok")
    /\ LET p == req[i].plugin
           lost == p \notin DOMAIN req[i].reply.ids
       IN  IF st.gen = req[i].gen
           THEN /\ \E o \in Narrowed(i) :
                     \E q \in IF lost THEN Synced(Deny(o.st, p), o.disk) ELSE {o} :
                        /\ st' = q.st /\ onDisk' = q.disk
                        /\ IF lost THEN Ends(i)
                           ELSE req' = [req EXCEPT ![i] = [req[i] EXCEPT !.at = "update", !.reply = Nothing,
                                                                  !.gen = q.st.gen]]
                /\ DeniedAt(Gone(i) \cup (IF lost THEN {p} ELSE {}), req[i].reply.epoch)
           ELSE /\ IF lost THEN Ends(i) ELSE Goes(i, "update")
                /\ UNCHANGED <<st, onDisk, denied>>
    /\ UNCHANGED <<srv, now, installed, budget>>

With(ids, p, epoch) == [q \in DOMAIN ids \cup {p} |-> IF q = p THEN epoch ELSE ids[q]]

\* the update of one plugin of the index: taken up, with or without an error
UpdateTaken(c) ==
    /\ Got(c, "updates", "ok") \/ Got(c, "updates", "down")
    /\ LET p == req[c].reply.id
           todo == req[c].todo
       IN  req' = [req EXCEPT ![c] = [req[c] EXCEPT
              !.todo = Restrict(todo, DOMAIN todo \ {p}), !.items = With(@, p, todo[p]),
              !.problem = req[c].problem \/ req[c].reply.kind = "down", !.reply = Nothing]]
    /\ UNCHANGED <<st, onDisk, srv, now, installed, denied, budget>>

\* or denied: it goes from the cache, and older requests are outdated by that
UpdateDenied(c) ==
    /\ Got(c, "updates", "gone")
    /\ LET p == req[c].reply.id
           rest == Restrict(req[c].todo, DOMAIN req[c].todo \ {p})
       IN  IF Current(c)
           THEN /\ \E o \in Synced(Deny(st, p), onDisk) :
                     /\ onDisk' = o.disk
                     /\ IF Unbumped(c)
                        THEN /\ st' = [o.st EXCEPT !.seq = @ + 1]
                             /\ req' = [req EXCEPT ![c] = [req[c] EXCEPT !.todo = rest, !.reply = Nothing,
                                            !.gen = o.st.gen, !.seq = o.st.seq + 1]]
                        ELSE st' = o.st /\ Ends(c)
                /\ DeniedAt({p}, req[c].reply.epoch)
           ELSE Ends(c) /\ UNCHANGED <<st, onDisk, denied>>
    /\ UNCHANGED <<srv, now, installed, budget>>

\* commit_catalog: another request or generation since then, and nothing is kept
MutMayCommit(c) == Unbumped(c)    \* mutant: only an overtaking request is noticed
MayCommit(c) == st.gen = req[c].gen /\ Unbumped(c)

CommitCatalog(c) ==
    /\ req[c].at = "updates" /\ DOMAIN req[c].todo = {} /\ req[c].reply = Nothing
    /\ IF MayCommit(c)
       THEN LET ids == req[c].items
                gen == IF Shown(st) # DOMAIN ids THEN st.gen + 1 ELSE st.gen
                s == [st EXCEPT
                        !.gen = gen, !.pub = req[c].source,
                        !.res = IF ~req[c].coded THEN Nothing
                                ELSE [source |-> req[c].source, identity |-> req[c].identity, ids |-> ids],
                        !.recent = [gen |-> gen, ids |-> DOMAIN ids, for |-> Gate]]
            IN  \E o \in Synced(s, onDisk), saved \in Saves :
                  /\ st' = o.st
                  /\ onDisk' = IF saved THEN [o.disk EXCEPT !.pub = s.pub] ELSE o.disk
       ELSE UNCHANGED <<st, onDisk>>
    /\ Ends(c)
    /\ UNCHANGED <<srv, now, installed, denied, budget>>

-----------------------------------------------------------------------------
(* Installations *)

\* request_result: the plugin is denied
PackageDenied(i) ==
    /\ Got(i, "update", "gone") \/ Got(i, "package", "gone")
    /\ IF st.gen = req[i].gen
       THEN /\ \E o \in Synced(Deny(st, req[i].plugin), onDisk) : st' = o.st /\ onDisk' = o.disk
            /\ DeniedAt({req[i].plugin}, req[i].reply.epoch)
       ELSE UNCHANGED <<st, onDisk, denied>>
    /\ Ends(i)
    /\ UNCHANGED <<srv, now, installed, budget>>

Allowed(mode, version, current) ==    \* validate_install_mode
    CASE mode = "update" -> current < version
      [] mode = "repair" -> current = version
      [] mode = "rollback" -> current > version

\* The live entry is the reviewed one, compatible, and the request is current:
\* the package is fetched.  (An entry that is not ends as Unanswered.)
UpdateChecked(i) ==
    /\ Got(i, "update", "ok")
    /\ IF Allowed(req[i].mode, req[i].version, req[i].had) /\ Current(i)
       THEN Goes(i, "package") ELSE Ends(i)
    /\ UNCHANGED <<st, onDisk, srv, now, installed, denied, budget>>

PackageFetched(i) ==
    /\ Got(i, "package", "ok")
    /\ Goes(i, "prepared")
    /\ UNCHANGED <<st, onDisk, srv, now, installed, denied, budget>>

\* cancel_catalog_install: answers that it will be cancelled
Running(i) == Waiting(i) \/ req[i].at = "prepared"
Cancel(i) ==
    /\ Running(i) /\ ~req[i].cancelled
    /\ req' = [req EXCEPT ![i].cancelled = TRUE]
    /\ UNCHANGED <<st, onDisk, srv, now, installed, denied, budget>>

\* the select of install_catalog_request sees it; it may as well see the package
Cancelled(i) == Waiting(i) /\ req[i].cancelled /\ Fails(i)

BeginCommit(i) ==
    /\ req[i].at = "prepared"
    /\ IF ~req[i].cancelled THEN Goes(i, "committing") ELSE Ends(i)
    /\ UNCHANGED <<st, onDisk, srv, now, installed, denied, budget>>

\* install_catalog_package, with the management lock: the mode is validated
\* again; a busy manager or any later failure leaves the plugin as it was
MutConfirmed(i) == TRUE      \* mutant: the earlier validation is relied on
Confirmed(i) == Allowed(req[i].mode, req[i].version, installed)

InstallPackage(i) ==
    /\ req[i].at = "committing"
    /\ Confirmed(i)
    /\ installed' = req[i].version
    /\ Ends(i)
    /\ UNCHANGED <<st, onDisk, srv, now, denied, budget>>

NotInstalled(i) == req[i].at = "committing" /\ Fails(i)

-----------------------------------------------------------------------------

CatalogSteps(c) ==
    \/ Call(c) \/ BeginCatalog(c) \/ BeginCoalesced(c) \/ ScopeOfCatalog(c)
    \/ UpdateTaken(c) \/ UpdateDenied(c) \/ CommitCatalog(c)

InstallSteps(i) ==
    \/ BeginInstall(i) \/ ScopeOfInstall(i) \/ PackageDenied(i) \/ UpdateChecked(i)
    \/ PackageFetched(i) \/ Cancel(i) \/ Cancelled(i) \/ BeginCommit(i)
    \/ InstallPackage(i) \/ NotInstalled(i)

RequestSteps(r) ==
    \/ ServiceAnswers(r) \/ Unanswered(r) \/ CodeRejected(r) \/ Authenticate(r) \/ KnownExpired(r)

CatalogNext ==
    \/ \E c \in Catalogs : CatalogSteps(c)
    \/ \E i \in Installs : InstallSteps(i)
    \/ \E r \in Requests : RequestSteps(r)
    \/ \E source \in Sources \cup {Nothing}, how \in Codes : Configure(source, how)
    \/ Observe \/ Restart \/ ServiceChanges \/ TimePasses

CatalogSpec == CatalogInit /\ [][CatalogNext]_catalogVars

-----------------------------------------------------------------------------
(* Properties *)

\* What is shown belongs to the configured source and access code, whatever
\* answers arrive late and wherever a configuration was interrupted: a cache of
\* another source or code, or of a code known to be rejected, is never shown,
\* and a snapshot that may answer another request holds what the cache holds
\* (commit_catalog, load_cache, invalidate, configure).
NothingForeignShown ==
    /\ st.pub # Nothing => st.pub = st.source
    /\ st.res # Nothing =>
          /\ st.res.source = st.source
          /\ st.res.identity = st.identity /\ st.identity # Nothing
          /\ st.cred \notin Rejected
    /\ st.recent # Nothing /\ st.recent.gen = st.gen =>
          st.recent.ids = Shown(st)

\* "this denial must invalidate any older in-flight catalog immediately": an
\* introduction that was taken away does not come back with an answer the
\* service gave before.
DenialSticks ==
    \A p \in Shown(st) : st.res.ids[p] >= denied[p]

\* Neither does it come back with a start, nor does anything a rejected code had
\* shown, while no warning says that this may happen (invalidate, accept_live_scope,
\* expire_known_code).  Two cases are known to break this silently.  The cache of an
\* older version is kept "on disk until a source/code clear invalidates" it, and
\* write_restricted_cache ignores that its removal failed; and a configuration that
\* changes neither withdraws the warning although nothing was removed.
Outlives == onDisk.res = Nothing /\ onDisk.spared
DenialSurvives ==
    ~st.warn => \A readable \in BOOLEAN :
        LET next == Load(onDisk, readable)
        IN  next.res # Nothing =>
                \/ Outlives
                \/ /\ st.cred \notin Rejected
                   /\ onDisk.hushed \/ \A p \in Shown(next) : next.res.ids[p] >= denied[p]

\* Neither a restart nor a late answer brings back what was denied.
DenialsLast == DenialSticks /\ DenialSurvives

\* A download whose cancellation was confirmed is not installed, and no mode
\* is exceeded: only an update raises the version and only a rollback lowers
\* it, even when installations overtake each other.
InstallsAsAsked ==
    [][\A i \in Installs :
          req[i].at = "committing" /\ installed' # installed /\ req'[i].at = "done" =>
              /\ ~req[i].cancelled
              /\ Allowed(req[i].mode, installed', installed)]_catalogVars

=============================================================================
