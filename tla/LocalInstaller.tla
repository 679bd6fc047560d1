---------------------------- MODULE LocalInstaller ----------------------------
\* Installing packages of this machine, after a review: plugin_local_install.rs.
\* The page imports files (uploads) or picks paths; prepare copies each of them
\* into a snapshot of its own under plugin-imports and shows what it found; run
\* installs the selected ones, one by one, while their authors go on building,
\* other commands change the plugins, and the user cancels, reloads the page or
\* ends the program. A package is one value: the bytes that fingerprint digests.
\* Of an installed plugin the review keeps less: its version and signature key, the
\* source it came from and whether it is enabled.
EXTENDS Naturals, Sequences, FiniteSets

CONSTANTS Packages, Broken,   \* packages; those among them that do not verify
          PluginOf,           \* package -> its plugin
          VersionOf,          \* package, or nothing -> the version and key it shows
          LabelOf,            \* source or import -> the origin it is installed with
          Sources, Uploads,   \* paths on this machine; imports, by number
          Batches, NoPackage, \* previews, by number; nothing installed
          ImportBudgets,      \* bounds: [imports, previews, edits, changes, crashes, fails, resets]
          MaxLeftovers        \* bound: files whose removal has failed

VARIABLES importBudget,
          running,    \* whether the program runs
          author,     \* source or upload -> the package there
          imports,    \* the generated files of plugin-imports
          uploads,    \* upload -> [at, chunks]: how many of its two chunks it has
          batches,    \* batch -> its review and how far it is
          installed,  \* plugin -> [package, origin, enabled]
          management  \* who holds the management lock
importVars == <<importBudget, running, author, imports, uploads, batches, installed, management>>

\* What was installed, with what the review said about it; the files of
\* plugin-imports that could not be removed.
VARIABLES installs, leftovers
allImportVars == <<importVars, installs, leftovers>>

Plugins == {PluginOf[p] : p \in Packages}
Unused == "unused"
Gone == "gone"
Complete == 2
\* The management lock is free, held by a batch, or by another command.
Other == "other"
ASSUME ImportAssumption ==
    /\ Unused \notin Batches /\ Other \notin Batches
    /\ \A p \in Packages : VersionOf[p] # VersionOf[NoPackage]
\* What a plugin may be: nothing, or a package of this machine or a distribution.
Nothing == [package |-> NoPackage, origin |-> NoPackage, enabled |-> FALSE]
InstallStates(p) ==
    {Nothing} \cup [package : {k \in Packages \ Broken : PluginOf[k] = p},
                    origin : {LabelOf[s] : s \in Sources \cup Uploads} \cup {Other}, enabled : BOOLEAN]
Closed(at) == [at |-> at, shown |-> installed, left |-> {}, current |-> {}, items |-> {},
               selected |-> {}, cancel |-> FALSE, files |-> {}]

\* The results of fs::remove_file and remove_dir_all are dropped: any of the files
\* may stay where it is.
Removes(files) ==
    \E stuck \in SUBSET files :
        /\ leftovers' = leftovers \cup stuck
        /\ Cardinality(leftovers') <= MaxLeftovers
        /\ imports' = imports \ (files \ stuck)

UploadFile(u) == <<"wplug", u>>
ReviewFile(b, s) == <<"review", b, s>>
Waiting(u) == uploads[u].at = "open"
Has(u, chunks) == Waiting(u) /\ uploads[u].chunks = chunks
Taken == [at |-> Gone, chunks |-> 0]

PayImport(k) == /\ importBudget[k] > 0
                /\ importBudget' = [importBudget EXCEPT ![k] = @ - 1]

----------------------------------------------------------------------------
\* Imports: a file is created, filled in order and consumed once.

Open(u) ==
    /\ running
    /\ PayImport("imports")
    /\ uploads[u].at = Unused
    /\ \E p \in Packages : author' = [author EXCEPT ![u] = p]
    /\ uploads' = [uploads EXCEPT ![u].at = "open"]
    /\ imports' = imports \cup {UploadFile(u)}
    /\ UNCHANGED <<running, batches, installed, management, installs, leftovers>>

\* A chunk at any other offset is refused, and so is one too many.
WriteChunk(u) ==
    /\ running
    /\ Waiting(u) /\ uploads[u].chunks < Complete
    /\ uploads' = [uploads EXCEPT ![u].chunks = @ + 1]
    /\ UNCHANGED <<importBudget, running, author, imports, batches, installed, management, installs, leftovers>>

DiscardUpload(u) ==
    /\ running
    /\ Waiting(u)
    /\ uploads' = [uploads EXCEPT ![u] = Taken]
    /\ Removes({UploadFile(u)})
    /\ UNCHANGED <<importBudget, running, author, batches, installed, management, installs>>

----------------------------------------------------------------------------
\* The review.

Begin(b, sources, files) ==
    batches' = [batches EXCEPT ![b] = [Closed("inspect") EXCEPT !.left = sources, !.files = files]]

PrepareSources(b, picked) ==
    /\ running
    /\ PayImport("previews")
    /\ batches[b].at = Unused
    /\ Begin(b, picked, {})
    /\ UNCHANGED <<running, author, imports, uploads, installed, management, installs, leftovers>>

\* The uploads are taken in the order the page names them; at the first that is
\* missing or incomplete the command fails, and what it has taken is removed.
PrepareUploads(b, ids) ==
    LET whole(i) == Has(ids[i], Complete)
        taken == {ids[i] : i \in {j \in DOMAIN ids : \A k \in 1 .. j - 1 : whole(k)}}
        \* a name that is not in the table has nothing to take
        here == {u \in taken : Waiting(u)}
    IN /\ running
       /\ PayImport("previews")
       /\ batches[b].at = Unused
       /\ uploads' = [u \in Uploads |-> IF u \in here THEN Taken ELSE uploads[u]]
       /\ IF \A i \in DOMAIN ids : whole(i)
          THEN /\ Begin(b, here, {UploadFile(u) : u \in here})
               /\ UNCHANGED <<imports, leftovers>>
          ELSE /\ Removes({UploadFile(u) : u \in here})
               /\ UNCHANGED batches
       /\ UNCHANGED <<running, author, installed, management, installs>>

\* The fingerprint of the source, before it is copied.
Fingerprint(b, s) ==
    /\ batches[b].at = "inspect"
    /\ batches[b].current = {}
    /\ s \in batches[b].left
    /\ batches' = [batches EXCEPT ![b].left = @ \ {s},
                                  ![b].current = {[source |-> s, before |-> author[s]]}]
    /\ UNCHANGED <<importBudget, running, author, imports, uploads, installed, management, installs, leftovers>>

\* The snapshot's file belongs to the batch before anything is copied into it.
CopySource(b, c) ==
    /\ batches[b].at = "inspect"
    /\ c \in batches[b].current
    /\ batches' = [batches EXCEPT ![b].at = "copied",
                                  ![b].current = {[source |-> c.source, before |-> c.before,
                                                   copy |-> author[c.source]]},
                                  ![b].files = @ \cup {ReviewFile(b, c.source)}]
    /\ imports' = imports \cup {ReviewFile(b, c.source)}
    /\ UNCHANGED <<importBudget, running, author, uploads, installed, management, installs, leftovers>>

\* Nothing moved while it was copied.
Stable(c) == c.before = c.copy /\ c.before = author[c.source]

\* The item that the page shows: only one of several imports of the same bytes.
Inspect(b, c) ==
    LET sound == Stable(c) /\ c.copy \notin Broken
        again == c.source \in Uploads
                 /\ \E i \in batches[b].items :
                       i.source \in Uploads /\ i.valid /\ i.print = c.before
        item == [source |-> c.source, print |-> c.before, copy |-> c.copy, valid |-> sound]
    IN /\ batches[b].at = "copied"
       /\ c \in batches[b].current
       /\ batches' = [batches EXCEPT
              ![b].at = "inspect",
              ![b].current = {},
              ![b].items = IF sound /\ again THEN @ ELSE @ \cup {item}]
       /\ UNCHANGED <<importBudget, running, author, imports, uploads, installed, management, installs, leftovers>>

\* The page learns the number of the batch.
Present(b) ==
    /\ batches[b].at = "inspect"
    /\ batches[b].left = {} /\ batches[b].current = {}
    /\ batches' = [batches EXCEPT ![b].at = "preview"]
    /\ UNCHANGED <<importBudget, running, author, imports, uploads, installed, management, installs, leftovers>>

----------------------------------------------------------------------------
\* The end of a batch removes the files it owns, and nothing else.

Drop(b) == /\ batches' = [batches EXCEPT ![b] = Closed(Gone)]
           /\ Removes(batches[b].files)

\* The user cancels: a batch that runs only learns of it, a preview is gone.
Discard(b) ==
    /\ \/ batches[b].at = "preview" /\ Drop(b)
       \/ /\ batches[b].at \in {"admit", "run", "start", "commit"}
          /\ ~batches[b].cancel
          /\ batches' = [batches EXCEPT ![b].cancel = TRUE]
          /\ UNCHANGED <<imports, leftovers>>
    /\ UNCHANGED <<importBudget, running, author, uploads, installed, management, installs>>

\* The page was loaded anew. A batch that runs goes on; one still inspected is
\* shown to a page that never asked for it.
Reset ==
    LET shown == {b \in Batches : batches[b].at = "preview"}
        open == {u \in Uploads : Waiting(u)}
    IN /\ running
       /\ shown \cup open # {}
       /\ PayImport("resets")
       /\ batches' = [b \in Batches |-> IF b \in shown THEN Closed(Gone) ELSE batches[b]]
       /\ uploads' = [u \in Uploads |-> IF u \in open THEN Taken ELSE uploads[u]]
       /\ Removes({UploadFile(u) : u \in open} \cup UNION {batches[b].files : b \in shown})
       /\ UNCHANGED <<running, author, installed, management, installs>>

----------------------------------------------------------------------------
\* The installation.

\* Valid packages only, and one for each plugin; the preview is consumed anyway.
Selectable(items) ==
    /\ \A i \in items : i.valid
    /\ \A i, j \in items : PluginOf[i.copy] = PluginOf[j.copy] => i = j

Run(b, selected) ==
    /\ batches[b].at = "preview"
    /\ selected \subseteq batches[b].items
    /\ IF Selectable(selected)
       THEN /\ batches' = [batches EXCEPT ![b].at = "admit", ![b].selected = selected]
            /\ UNCHANGED <<imports, leftovers>>
       ELSE Drop(b)
    /\ UNCHANGED <<importBudget, running, author, uploads, installed, management, installs>>

\* No other change of plugins may be under way.
Admit(b) ==
    /\ batches[b].at = "admit"
    /\ IF management = Unused
       THEN /\ management' = b
            /\ batches' = [batches EXCEPT ![b].at = "run", ![b].left = batches[b].items]
            /\ UNCHANGED <<imports, leftovers>>
       ELSE Drop(b) /\ UNCHANGED management
    /\ UNCHANGED <<importBudget, running, author, uploads, installed, installs>>

\* The next item: not selected, cancelled, or started.
Starts(b, i) == i \in batches[b].selected /\ ~batches[b].cancel

NextItem(b, i) ==
    /\ batches[b].at = "run"
    /\ i \in batches[b].left
    /\ batches' = IF Starts(b, i)
                  THEN [batches EXCEPT ![b].left = @ \ {i}, ![b].at = "start",
                            ![b].current = {[item |-> i, late |-> batches[b].cancel]}]
                  ELSE [batches EXCEPT ![b].left = @ \ {i}]
    /\ UNCHANGED <<importBudget, running, author, imports, uploads, installed, management, installs, leftovers>>

\* What the review shows of an installed plugin: not its bytes.
Seen(state) ==
    [version |-> VersionOf[state.package], origin |-> state.origin, enabled |-> state.enabled]

\* Both copies are still what was reviewed; the installed plugin looks as it did.
AsReviewed(b, i) ==
    /\ author[i.source] = i.print
    /\ i.copy = i.print
    /\ LET plugin == PluginOf[i.copy] IN Seen(installed[plugin]) = Seen(batches[b].shown[plugin])

Reverify(b, c) ==
    /\ batches[b].at = "start"
    /\ c \in batches[b].current
    /\ batches' = IF AsReviewed(b, c.item)
                  THEN [batches EXCEPT ![b].at = "commit"]
                  ELSE [batches EXCEPT ![b].at = "run", ![b].current = {}]
    /\ UNCHANGED <<importBudget, running, author, imports, uploads, installed, management, installs, leftovers>>

MutReopens(c) == author[c.item.source]
\* The package that the transaction installs is the snapshot.
Installed(c) == c.item.copy

\* A new plugin is enabled, an updated one keeps what the user chose. A
\* transaction that fails leaves everything as it was (PluginHost, InstallRecovery).
InstallItem(b, c) ==
    LET plugin == PluginOf[c.item.copy]
        was == installed[plugin]
        now == [package |-> Installed(c), origin |-> LabelOf[c.item.source],
                enabled |-> was.package = NoPackage \/ was.enabled]
    IN /\ batches[b].at = "commit"
       /\ c \in batches[b].current
       /\ batches' = [batches EXCEPT ![b].at = "run", ![b].current = {}]
       /\ \/ /\ installed' = [installed EXCEPT ![plugin] = now]
             /\ installs' = installs \cup {[reviewed |-> c.item.print, package |-> now.package,
                                            shown |-> batches[b].shown[plugin], was |-> was,
                                            late |-> c.late]}
             /\ UNCHANGED importBudget
          \/ PayImport("fails") /\ UNCHANGED <<installed, installs>>
       /\ UNCHANGED <<running, author, imports, uploads, management, leftovers>>

Finish(b) ==
    /\ batches[b].at = "run"
    /\ batches[b].left = {}
    /\ management' = Unused
    /\ Drop(b)
    /\ UNCHANGED <<importBudget, running, author, uploads, installed, installs>>

----------------------------------------------------------------------------
\* Everyone else.

\* The author's next build.
Edit(s) ==
    /\ PayImport("edits")
    /\ \E p \in Packages \ {author[s]} : author' = [author EXCEPT ![s] = p]
    /\ UNCHANGED <<running, imports, uploads, batches, installed, management, installs, leftovers>>

\* Another command changes a plugin: it holds the management lock throughout.
OtherBegins ==
    /\ running
    /\ management = Unused
    /\ PayImport("changes")
    /\ management' = Other
    /\ UNCHANGED <<running, author, imports, uploads, batches, installed, installs, leftovers>>

OtherEnds ==
    /\ management = Other
    /\ management' = Unused
    /\ \E p \in Plugins : \E state \in InstallStates(p) :
          installed' = [installed EXCEPT ![p] = state]
    /\ UNCHANGED <<importBudget, running, author, imports, uploads, batches, installs, leftovers>>

\* The process dies: no Drop runs.
CrashImporter ==
    /\ running
    /\ PayImport("crashes")
    /\ running' = FALSE
    /\ batches' = [b \in Batches |-> IF batches[b].at = Unused THEN batches[b] ELSE Closed(Gone)]
    /\ uploads' = [u \in Uploads |-> IF Waiting(u) THEN Taken ELSE uploads[u]]
    /\ management' = Unused
    /\ UNCHANGED <<author, imports, installed, installs, leftovers>>

\* LocalPluginInstaller::new removes the generated files it finds, if it can.
Swept(found) == {stuck \in SUBSET found : Cardinality(stuck) <= MaxLeftovers}

StartImporter ==
    /\ ~running
    /\ running' = TRUE
    /\ imports' \in Swept(imports)
    /\ leftovers' = imports'
    /\ UNCHANGED <<importBudget, author, uploads, batches, installed, management, installs>>

----------------------------------------------------------------------------
Orders == {ids \in UNION {[1 .. n -> Uploads] : n \in 1 .. Cardinality(Uploads)} :
              \A i, j \in DOMAIN ids : ids[i] = ids[j] => i = j}

ImportInit ==
    /\ importBudget \in ImportBudgets
    /\ running = TRUE
    /\ author \in {a \in [Sources \cup Uploads -> Packages \cup {NoPackage}] :
                      \A s \in DOMAIN a : s \in Uploads <=> a[s] = NoPackage}
    /\ imports = {}
    /\ uploads = [u \in Uploads |-> [at |-> Unused, chunks |-> 0]]
    /\ installed \in {f \in [Plugins -> UNION {InstallStates(p) : p \in Plugins}] :
                         \A p \in Plugins : f[p] \in InstallStates(p)}
    /\ batches = [b \in Batches |-> Closed(Unused)]
    /\ management = Unused
    /\ installs = {} /\ leftovers = {}

ImportNext ==
    \/ \E u \in Uploads : Open(u) \/ WriteChunk(u) \/ DiscardUpload(u)
    \/ \E b \in Batches :
          \/ \E picked \in SUBSET Sources \ {{}} : PrepareSources(b, picked)
          \/ \E ids \in Orders : PrepareUploads(b, ids)
          \/ \E s \in Sources \cup Uploads : Fingerprint(b, s)
          \/ \E c \in batches[b].current :
                CopySource(b, c) \/ Inspect(b, c) \/ Reverify(b, c) \/ InstallItem(b, c)
          \/ \E selected \in SUBSET batches[b].items : Run(b, selected)
          \/ \E i \in batches[b].left : NextItem(b, i)
          \/ Present(b) \/ Discard(b) \/ Admit(b) \/ Finish(b)
    \/ \E s \in Sources : Edit(s)
    \/ Reset \/ OtherBegins \/ OtherEnds \/ CrashImporter \/ StartImporter

ImportSpec == ImportInit /\ [][ImportNext]_allImportVars

----------------------------------------------------------------------------
\* What an install puts in place is byte for byte the package that was reviewed,
\* the plugin it replaces looks as the review showed it (its version and key, its
\* source, whether it is enabled), and it did not start after the user had
\* cancelled, whatever was built, changed or clicked meanwhile (prepare and
\* run_batch: "never reopen an author build").
InstalledAsReviewed ==
    \A i \in installs : i.package = i.reviewed /\ Seen(i.was) = Seen(i.shown) /\ ~i.late

\* The files of the imports that wait and of the batches.
Needed == {UploadFile(u) : u \in {v \in Uploads : Waiting(v)}} \cup UNION {batches[b].files : b \in Batches}

\* While the program runs, no file of plugin-imports is removed while an import or
\* a batch needs it, also where one ends beside another; and none outlives its
\* owner, not even over a crash, but those that could not be removed
\* (ImportFile::drop, new, reset).
ImportsOwned == running => Needed \subseteq imports /\ imports \ Needed \subseteq leftovers

\* What is installed is what the user was shown, and every file imported for it
\* belongs to somebody who will remove it, or has tried.
ImportsSound == InstalledAsReviewed /\ ImportsOwned
=============================================================================
