--------------------------------- MODULE UserData --------------------------------
(* Where the user's data lives: crates/user-data/src/lib.rs, with the locks on the  *)
(* roots that a start takes (lib.rs and cli_ipc.rs).                                *)
(*                                                                                  *)
(* The default root holds the control file, which names the active root and the     *)
(* root a migration is scheduled to. The start that finds one copies the data,      *)
(* commits by rewriting the control file and clears the old root, before any other  *)
(* part of Core runs. A crash and a failing file operation may come between any two *)
(* of the steps. A second process, the command line, is started on the same profile *)
(* or directly on another root with --data-dir; it cannot schedule migrations.      *)
EXTENDS Naturals, FiniteSets

CONSTANTS Default, Roots,     \* the default root; all roots, among them the default one
          Files,              \* files of the user's data
          Desktop, Headless,  \* the two processes
          NoRoot, DataBudgets \* bounds: [starts, crashes, fails, edits, writes]
ASSUME DataAssumption ==
    /\ Default \in Roots /\ NoRoot \notin Roots
    /\ Desktop # Headless /\ NoRoot \notin {Desktop, Headless}

VARIABLES dataBudget,
          content,    \* root -> [there, files, marker: the target the marker names]
          control,    \* [path, backup]: the control file and its backup
          held,       \* root -> the process that has locked it
          process     \* the processes that boot, migrate and run
dataVars == <<dataBudget, content, control, held, process>>

\* Ghost: the data of the profile as the program last wrote it.
VARIABLE latest
allDataVars == <<dataVars, latest>>

Processes == {Desktop, Headless}
NoControl == [active |-> NoRoot, pending |-> NoRoot]
Empty == [f \in Files |-> "none"]
Off == [at |-> "off", selected |-> NoRoot, roots |-> {}, active |-> NoRoot, target |-> NoRoot,
        todo |-> {}, created |-> {}, write |-> NoControl, then |-> "none"]

DataInit ==
    /\ dataBudget \in DataBudgets
    /\ content = [r \in Roots |->
          [there |-> r = Default, marker |-> NoRoot,
           files |-> IF r = Default THEN [f \in Files |-> "old"] ELSE Empty]]
    /\ control = [path |-> NoControl, backup |-> NoControl]
    /\ held = [r \in Roots |-> NoRoot]
    /\ process = [p \in Processes |-> Off]
    /\ latest = [f \in Files |-> "old"]

(* read_control_snapshot: the file, else its backup, else the default root.         *)
Recovered == control.path = NoControl /\ control.backup # NoControl
Snapshot(selected) ==
    CASE selected # Default -> [active |-> selected, pending |-> NoRoot]
      [] selected = Default /\ control.path # NoControl -> control.path
      [] selected = Default /\ Recovered -> control.backup
      [] OTHER -> [active |-> Default, pending |-> NoRoot]

Spend(what) == dataBudget[what] > 0 /\ dataBudget' = [dataBudget EXCEPT ![what] = @ - 1]
Fails == Spend("fails")
At(p, stage) == process[p].at = stage
Goes(p, changes) == process' = [process EXCEPT ![p] =
    [f \in DOMAIN @ |-> IF f \in DOMAIN changes THEN changes[f] ELSE @[f]]]
Holds(p) == {r \in Roots : held[r] = p}
Ends(p) == /\ process' = [process EXCEPT ![p] = Off]
           /\ held' = [r \in Roots |-> IF held[r] = p THEN NoRoot ELSE held[r]]

(* ------------------------------------------------------------------ locks *)
(* The selected root is locked first; a lock that is taken ends the start.          *)
Start(p, r) ==
    /\ At(p, "off")
    /\ p = Desktop => r = Default
    /\ dataBudget.starts > 0 /\ dataBudget' = [dataBudget EXCEPT !.starts = @ - 1]
    /\ held[r] = NoRoot
    /\ held' = [held EXCEPT ![r] = p]
    /\ Goes(p, [at |-> "resolving", selected |-> r])
    /\ UNCHANGED <<content, control, latest>>

(* bootstrap_lock_roots only reads; an active root that cannot be read is an error. *)
Named(snapshot) == {snapshot.active, snapshot.pending} \ {NoRoot}
LockRoots(selected) == {selected} \cup Named(Snapshot(selected))
ReadableControl(selected) ==
    LET active == Snapshot(selected).active IN active = selected \/ content[active].there
Resolve(p) ==
    /\ At(p, "resolving")
    /\ IF ReadableControl(process[p].selected)
       THEN /\ Goes(p, [at |-> "locking", roots |-> LockRoots(process[p].selected)])
            /\ UNCHANGED held
       ELSE Ends(p)
    /\ UNCHANGED <<dataBudget, content, control, latest>>

LockRoot(p, r) ==
    /\ At(p, "locking") /\ r \in process[p].roots \ Holds(p)
    /\ IF held[r] = NoRoot THEN held' = [held EXCEPT ![r] = p] /\ UNCHANGED process
       ELSE Ends(p)
    /\ UNCHANGED <<dataBudget, content, control, latest>>

(* With all locks the roots are resolved again: they must be the ones locked.       *)
Locked(p) ==
    /\ At(p, "locking") /\ process[p].roots \subseteq Holds(p)
    /\ IF LockRoots(process[p].selected) = process[p].roots
       THEN Goes(p, [at |-> "booting"]) /\ UNCHANGED held
       ELSE Ends(p)
    /\ UNCHANGED <<dataBudget, content, control, latest>>

(* -------------------------------------------------------------- bootstrap *)
(* Nothing is changed before the active root has been read. Then a backup is put    *)
(* back or dropped, and the marker of a migration that was committed.               *)
RecoveredControl(selected) ==
    IF selected # Default THEN control
    ELSE [path |-> IF Recovered THEN control.backup ELSE control.path, backup |-> NoControl]
Unmarked(r) == IF content[r].marker = r THEN NoRoot ELSE content[r].marker
Boot(p) ==
    LET selected == process[p].selected
        snapshot == Snapshot(selected)
    IN /\ At(p, "booting")
       /\ \/ /\ control' = RecoveredControl(selected)
             /\ content' = [content EXCEPT ![selected].there = TRUE,
                                           ![snapshot.active].marker = Unmarked(snapshot.active)]
             /\ Goes(p, [at |-> IF snapshot.pending = NoRoot THEN "running" ELSE "checking",
                         active |-> snapshot.active, target |-> snapshot.pending])
             /\ UNCHANGED <<dataBudget, held>>
          \/ Fails /\ Ends(p) /\ UNCHANGED <<content, control>>
       /\ UNCHANGED latest

(* The target must be empty, the control file of the default root apart; a marker   *)
(* in the target, or in the source, ends the migration, and so does a failure.      *)
Free(r) == content[r].files = Empty /\ content[r].marker = NoRoot
Abandoned(p) ==
    Goes(p, [at |-> "writing", then |-> "run", target |-> NoRoot, todo |-> {}, created |-> {},
             write |-> [active |-> process[p].active, pending |-> NoRoot]])
Check(p) ==
    LET target == process[p].target
        fits == content[target].there /\ Free(target) /\ content[process[p].active].marker = NoRoot
    IN /\ At(p, "checking")
       /\ \/ /\ fits /\ content' = [content EXCEPT ![target].marker = target]
             /\ Goes(p, [at |-> "copying",
                         todo |-> {f \in Files : content[process[p].active].files[f] # "none"}])
             /\ UNCHANGED dataBudget
          \/ (IF fits THEN Fails ELSE UNCHANGED dataBudget) /\ Abandoned(p) /\ UNCHANGED content
       /\ UNCHANGED <<control, held, latest>>

(* A file is created, then filled; it must not exist.                               *)
Copy(p, f) ==
    LET target == process[p].target
        here == content[target].files[f]
    IN /\ At(p, "copying") /\ f \in process[p].todo
       /\ \/ /\ f \notin process[p].created /\ here = "none"
             /\ content' = [content EXCEPT ![target].files[f] = "part"]
             /\ Goes(p, [created |-> process[p].created \cup {f}]) /\ UNCHANGED dataBudget
          \/ /\ f \in process[p].created
             /\ content' = [content EXCEPT ![target].files[f] = content[process[p].active].files[f]]
             /\ Goes(p, [todo |-> process[p].todo \ {f}]) /\ UNCHANGED dataBudget
          \/ /\ IF f \notin process[p].created /\ here # "none" THEN UNCHANGED dataBudget ELSE Fails
             /\ Goes(p, [at |-> "undoing", then |-> "run"]) /\ UNCHANGED content
       /\ UNCHANGED <<control, held, latest>>

(* verify_copied_tree, then the new control file is written.                        *)
Verify(p) ==
    LET target == process[p].target
    IN /\ At(p, "copying") /\ process[p].todo = {}
       /\ \/ /\ Goes(p, [at |-> "writing", then |-> "switch",
                         write |-> [active |-> target, pending |-> NoRoot]])
             /\ UNCHANGED dataBudget
          \/ Fails /\ Goes(p, [at |-> "undoing", then |-> "run"])
       /\ UNCHANGED <<content, control, held, latest>>

(* cleanup_created. The marker stays when a file does.                              *)
Undo(p) ==
    LET target == process[p].target
        left == process[p].created
    IN /\ At(p, "undoing")
       /\ \/ /\ left # {}
             /\ \E f \in left :
                   /\ content' = [content EXCEPT ![target].files[f] = "none"]
                   /\ Goes(p, [created |-> left \ {f}])
             /\ UNCHANGED <<dataBudget, held>>
          \/ /\ IF left = {} THEN UNCHANGED dataBudget ELSE Fails
             /\ content' = [content EXCEPT ![target].marker = IF left = {} THEN NoRoot ELSE @]
             /\ IF process[p].then = "run" THEN Abandoned(p) /\ UNCHANGED held ELSE Ends(p)
       /\ UNCHANGED <<control, latest>>

(* ---------------------------------------------------------- write_control *)
(* The temporary file is complete; the old file becomes the backup, the new one     *)
(* takes its place, the backup is dropped.                                          *)
MutInPlace(p) == [path |-> NoControl, backup |-> NoControl]
SetAside(p) == [path |-> NoControl, backup |-> control.path]
KeepControl(p) ==
    /\ At(p, "writing")
    /\ \/ /\ control' = IF control.path = NoControl THEN control ELSE SetAside(p)
          /\ Goes(p, [at |-> "swapping"]) /\ UNCHANGED dataBudget
       \/ Fails /\ Goes(p, [at |-> "refused"]) /\ UNCHANGED control
    /\ UNCHANGED <<content, held, latest>>

SwapControl(p) ==
    /\ At(p, "swapping")
    /\ \/ /\ control' = [control EXCEPT !.path = process[p].write]
          /\ Goes(p, [at |-> "written"]) /\ UNCHANGED dataBudget
       \/ /\ Fails /\ Goes(p, [at |-> "refused"])
          /\ control' \in {control, [path |-> control.backup, backup |-> NoControl]}
    /\ UNCHANGED <<content, held, latest>>

(* What the caller does with the outcome: "switch" is the commit of a migration,    *)
(* "run" a record that may be missing, "edit" a command of the settings page.       *)
Written(p) ==
    LET target == process[p].target
    IN /\ At(p, "written")
       /\ control' \in {control, [control EXCEPT !.backup = NoControl]}
       /\ IF process[p].then = "switch"
          THEN /\ \E marker \in {target, NoRoot} : content' = [content EXCEPT ![target].marker = marker]
               /\ Goes(p, [at |-> "clearing", active |-> target, target |-> process[p].active,
                           created |-> {}])
          ELSE UNCHANGED content /\ Goes(p, [at |-> "running", then |-> "none"])
       /\ UNCHANGED <<dataBudget, held, latest>>

Refused(p) ==
    /\ At(p, "refused")
    /\ IF process[p].then = "switch" THEN Goes(p, [at |-> "undoing"])
       ELSE Goes(p, [at |-> "running", then |-> "none"])
    /\ UNCHANGED <<dataBudget, content, control, held, latest>>

(* remove_tree_contents of the old root, which goes unless it is the default one.   *)
(* A failure is recorded in the control file, if that can be written.               *)
Clear(p) ==
    LET old == process[p].target
        left == {f \in Files : content[old].files[f] # "none"}
    IN /\ At(p, "clearing")
       /\ \/ /\ left # {}
             /\ \E f \in left : content' = [content EXCEPT ![old].files[f] = "none"]
             /\ UNCHANGED <<dataBudget, process>>
          \/ /\ left = {}
             /\ content' = [content EXCEPT ![old].there = (old = Default), ![old].marker = NoRoot]
             /\ Goes(p, [at |-> "running", target |-> NoRoot, then |-> "none"])
             /\ UNCHANGED dataBudget
          \/ Fails /\ Abandoned(p) /\ UNCHANGED content
       /\ UNCHANGED <<control, held, latest>>

(* ---------------------------------------------------------------- running *)
Save(p, f) ==
    LET active == process[p].active
    IN /\ At(p, "running") /\ Spend("writes")
       /\ content' = [content EXCEPT ![active].files[f] = "new"]
       /\ latest' = IF Snapshot(Default).active = active THEN [latest EXCEPT ![f] = "new"] ELSE latest
       /\ UNCHANGED <<control, held, process>>

(* schedule_migration creates the target and demands that it is empty; the active   *)
(* root as the target cancels. The control file is recovered before it is edited.   *)
Schedule(p, r) ==
    LET active == process[p].active
        free == r = active \/ Free(r)
    IN /\ At(p, "running") /\ p = Desktop /\ Spend("edits")
       /\ content' = [content EXCEPT ![r].there = TRUE]
       /\ IF free
          THEN /\ control' = RecoveredControl(Default)
               /\ Goes(p, [at |-> "writing", then |-> "edit",
                     write |-> [active |-> Snapshot(Default).active,
                                pending |-> IF r = active THEN NoRoot ELSE r]])
          ELSE UNCHANGED <<control, process>>
       /\ UNCHANGED <<held, latest>>

Exit(p) == At(p, "running") /\ Ends(p) /\ UNCHANGED <<dataBudget, content, control, latest>>
Crash(p) == ~At(p, "off") /\ ~At(p, "running") /\ Spend("crashes") /\ Ends(p)
            /\ UNCHANGED <<content, control, latest>>

Step(p) ==
    \/ Resolve(p) \/ Locked(p) \/ Boot(p) \/ Check(p) \/ Verify(p) \/ Undo(p) \/ KeepControl(p)
    \/ SwapControl(p) \/ Written(p) \/ Refused(p) \/ Clear(p) \/ Exit(p) \/ Crash(p)
    \/ \E r \in Roots : Start(p, r) \/ LockRoot(p, r) \/ Schedule(p, r)
    \/ \E f \in Files : Copy(p, f) \/ Save(p, f)
DataNext == \E p \in Processes : Step(p)
DataSpec == DataInit /\ [][DataNext]_allDataVars

(* -------------------------------------------------------------- properties *)
(* Whatever failed, and wherever the process was stopped, the root that a start     *)
(* would choose now holds the whole of the data as it was last written.             *)
DataKept ==
    LET active == Snapshot(Default).active
    IN content[active].there /\ content[active].files = latest

(* No two processes work on one root: the selected one, the active one, and the one *)
(* that is copied to or cleared (docs/CORE-CLI-COMMAND-INVENTORY.md:47).            *)
Works(p) == IF process[p].at \in {"off", "resolving", "locking"} THEN {}
            ELSE {process[p].selected, process[p].active, process[p].target} \ {NoRoot}
RootsExclusive == Works(Desktop) \cap Works(Headless) = {}

(* Nothing that was written is lost by a migration, and no two processes work in    *)
(* one root.                                                                        *)
UserDataSafe == DataKept /\ RootsExclusive
===================================================================================
