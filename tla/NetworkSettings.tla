----------------------------- MODULE NetworkSettings -----------------------------
(* The proxy settings of Core and the update that was found through them:           *)
(* network.rs and core_update.rs. A command that changes the settings holds the     *)
(* lock of the service from the new file to the new memory; it replaces the file in *)
(* steps between which the process may end. Checks for a new Core, and its          *)
(* installation, run beside it and meet it only in the cache of updates.            *)
EXTENDS Naturals, Sequences

CONSTANTS Addresses, Checks,       \* addresses of proxies; checks for updates, by number
          NoAddress, NetBudgets    \* bounds: [updates, fails, crashes, corruptions]

ASSUME ChecksAssumption == Checks \subseteq Nat \ {0}

VARIABLES netBudget,
          file,      \* [path, backup]: each nothing, unreadable or settings
          memory,    \* the settings of the service, with their credentials
          proxy,     \* the configuration that clients are built with
          writer,    \* the command that changes the settings: [at, new]
          cache,     \* [update: the check that found it, generation]
          check,     \* number -> [at, generation, proxy]
          install    \* [at, update, generation]
netVars == <<netBudget, file, memory, proxy, writer, cache, check, install>>

\* Ghost: the checks in the order in which they were answered.
VARIABLE answered
allNetVars == <<netVars, answered>>

(* Credentials carry the address they were entered for; bound is what is stored.    *)
Fresh == [mode |-> "system", address |-> NoAddress, credentials |-> NoAddress, bound |-> NoAddress]
Missing == [Fresh EXCEPT !.mode = "missing"]
Corrupt == [Fresh EXCEPT !.mode = "corrupt"]
Readable(s) == s \notin {Missing, Corrupt}
Idle == [at |-> "idle", new |-> Fresh]
NoUpdate == 0

CredentialsForSettings(s) ==
    IF s.mode = "custom" /\ s.address = s.bound THEN s.credentials ELSE NoAddress
Configuration(s) ==
    [mode |-> s.mode, address |-> s.address, credentials |-> CredentialsForSettings(s)]

NetInit ==
    /\ netBudget \in NetBudgets
    /\ file = [path |-> Missing, backup |-> Missing]
    /\ memory = Fresh /\ proxy = Configuration(Fresh)
    /\ writer = Idle
    /\ cache = [update |-> NoUpdate, generation |-> 0]
    /\ check = [c \in Checks |-> [at |-> "new", generation |-> 0, proxy |-> Configuration(Fresh)]]
    /\ install = [at |-> "idle", update |-> NoUpdate, generation |-> 0]
    /\ answered = <<>>

Pay(what) == netBudget[what] > 0 /\ netBudget' = [netBudget EXCEPT ![what] = @ - 1]
Fail == Pay("fails")

(* --------------------------------------------------------- settings file *)
(* The file if it is readable, else the backup, else the defaults. A readable file  *)
(* drops the backup, a backup takes the place of the file once a damaged file is    *)
(* out of its way; each of these steps may fail.                                    *)
Found == CASE Readable(file.path) -> file.path
           [] ~Readable(file.path) /\ Readable(file.backup) -> file.backup
           [] OTHER -> Fresh
Restored == [path |-> Found, backup |-> Missing]
Loaded == IF ~Readable(file.path) /\ ~Readable(file.backup) THEN {file}
          ELSE {file, Restored}
               \cup {f \in {[file EXCEPT !.path = Missing]} : ~Readable(file.path)}

(* The file is damaged on the disk; the process ends, and the next one loads the    *)
(* settings before anything else.                                                   *)
Damage ==
    /\ Pay("corruptions") /\ Readable(file.path)
    /\ file' = [file EXCEPT !.path = Corrupt]
    /\ UNCHANGED <<memory, proxy, writer, cache, check, install, answered>>

Restart ==
    /\ Pay("crashes")
    /\ file' \in Loaded
    /\ memory' = Found /\ proxy' = Configuration(Found)
    /\ writer' = Idle /\ cache' = [update |-> NoUpdate, generation |-> 0]
    /\ check' = [c \in Checks |-> IF check[c].at = "new" THEN check[c]
                                  ELSE [check[c] EXCEPT !.at = "done"]]
    /\ install' = [at |-> "idle", update |-> NoUpdate, generation |-> 0]
    /\ answered' = <<>>

(* ---------------------------------------------------------------- update *)
(* New credentials need a custom proxy and are bound to its address; without new    *)
(* ones the old ones stay with the address they are bound to.                       *)
Kept(mode, address) ==
    [mode |-> mode, address |-> address, credentials |-> memory.credentials, bound |-> memory.bound]
Cleared(mode, address) ==
    [mode |-> mode, address |-> address, credentials |-> NoAddress, bound |-> NoAddress]
Entered(address) ==
    [mode |-> "custom", address |-> address, credentials |-> address, bound |-> address]
Validated == {[mode |-> "custom", address |-> a] : a \in Addresses}
             \cup {[mode |-> "system", address |-> NoAddress]}

Update ==
    /\ writer.at = "idle" /\ Pay("updates")
    /\ \E s \in Validated :
          \E new \in {Kept(s.mode, s.address), Cleared(s.mode, s.address)}
                     \cup {Entered(a) : a \in {s.address} \ {NoAddress}} :
             writer' = [at |-> "writing", new |-> new]
    /\ UNCHANGED <<file, memory, proxy, cache, check, install, answered>>

(* An older backup is removed before the file becomes the backup; without a file the *)
(* backup stays, it may be all there is.                                            *)
DropBackup ==
    /\ writer.at = "writing"
    /\ \/ /\ file' = IF file.path = Missing THEN file ELSE [file EXCEPT !.backup = Missing]
          /\ writer' = [writer EXCEPT !.at = "keeping"] /\ UNCHANGED netBudget
       \/ Fail /\ writer' = Idle /\ UNCHANGED file
    /\ UNCHANGED <<memory, proxy, cache, check, install, answered>>

MutDiscards == [file EXCEPT !.path = Missing]
Aside == [path |-> Missing, backup |-> file.path]
KeepBackup ==
    /\ writer.at = "keeping"
    /\ \/ /\ file' = IF file.path = Missing THEN file ELSE Aside
          /\ writer' = [writer EXCEPT !.at = "swapping"] /\ UNCHANGED netBudget
       \/ Fail /\ writer' = Idle /\ UNCHANGED file
    /\ UNCHANGED <<memory, proxy, cache, check, install, answered>>

(* A failure puts the backup back, unless that fails too. The command then ends     *)
(* with an error and the memory as it was.                                          *)
Swap ==
    /\ writer.at = "swapping"
    /\ \/ /\ file' = [file EXCEPT !.path = writer.new]
          /\ writer' = [writer EXCEPT !.at = "written"] /\ UNCHANGED netBudget
       \/ /\ Fail /\ writer' = Idle
          /\ file' \in {file, [path |-> file.backup, backup |-> Missing]}
    /\ UNCHANGED <<memory, proxy, cache, check, install, answered>>

(* Clients use the new configuration before the service shows it; both are done     *)
(* under its lock. Only then are the updates that were found before forgotten.      *)
Commit ==
    /\ writer.at = "written"
    /\ file' \in {file, [file EXCEPT !.backup = Missing]}
    /\ proxy' = Configuration(writer.new) /\ memory' = writer.new
    /\ writer' = [writer EXCEPT !.at = "clearing"]
    /\ UNCHANGED <<netBudget, cache, check, install, answered>>

ClearUpdates ==
    /\ writer.at = "clearing"
    /\ cache' = [update |-> NoUpdate, generation |-> cache.generation + 1]
    /\ writer' = Idle /\ answered' = <<>>
    /\ UNCHANGED <<netBudget, file, memory, proxy, check, install>>

(* ---------------------------------------------------------------- updates *)
(* A check remembers the generation of the cache, then reads the configuration.     *)
BeginCheck(c) ==
    /\ check[c].at = "new" /\ \A d \in Checks : d < c => check[d].at # "new"
    /\ check' = [check EXCEPT ![c].at = "begun", ![c].generation = cache.generation]
    /\ UNCHANGED <<netBudget, file, memory, proxy, writer, cache, install, answered>>
Ask(c) ==
    /\ check[c].at = "begun"
    /\ check' = [check EXCEPT ![c].at = "asking", ![c].proxy = proxy]
    /\ UNCHANGED <<netBudget, file, memory, proxy, writer, cache, install, answered>>

(* Its answer counts only for the generation it began with, and begins a new one;   *)
(* it replaces what an earlier check found, also by nothing. Without an identifier  *)
(* for what it found the check fails, and only the generation has moved.            *)
Current(c) == check[c].generation = cache.generation
Answer(c) ==
    /\ check[c].at = "asking"
    /\ check' = [check EXCEPT ![c].at = "done"]
    /\ \/ UNCHANGED <<cache, answered>>
       \/ /\ Current(c)
          /\ \E found \in {c, NoUpdate} :
                cache' = [update |-> found, generation |-> cache.generation + 1]
          /\ answered' = Append(answered, cache'.update)
       \/ /\ Current(c)
          /\ cache' = [cache EXCEPT !.generation = @ + 1]
          /\ UNCHANGED answered
    /\ UNCHANGED <<netBudget, file, memory, proxy, writer, install>>

(* The installation takes the update out of the cache; a failed one puts it back    *)
(* unless the cache has moved on. One that succeeds replaces the program.           *)
Install ==
    /\ install.at = "idle" /\ cache.update # NoUpdate
    /\ install' = [at |-> "installing", update |-> cache.update, generation |-> cache.generation]
    /\ cache' = [cache EXCEPT !.update = NoUpdate]
    /\ UNCHANGED <<netBudget, file, memory, proxy, writer, check, answered>>
MutPutsBack == cache.update = NoUpdate
MayRetry == cache.generation = install.generation /\ cache.update = NoUpdate
InstallFails ==
    /\ install.at = "installing"
    /\ install' = [install EXCEPT !.at = "idle"]
    /\ cache' = [cache EXCEPT !.update = IF MayRetry THEN install.update ELSE @]
    /\ UNCHANGED <<netBudget, file, memory, proxy, writer, check, answered>>

NetNext ==
    \/ Damage \/ Restart \/ Update \/ DropBackup \/ KeepBackup \/ Swap \/ Commit \/ ClearUpdates
    \/ Install \/ InstallFails
    \/ \E c \in Checks : BeginCheck(c) \/ Ask(c) \/ Answer(c)
NetSpec == NetInit /\ [][NetNext]_allNetVars

(* -------------------------------------------------------------- properties *)
(* A start now would load the settings in use, whole, and never the defaults in     *)
(* their place; from the moment a change has its file in place it would load those. *)
(* Only a damaged file, or a damaged backup that no file stands in for, is left out. *)
(* And no client ever sends credentials to an address other than the one they were  *)
(* entered for, also after a change and back.                                       *)
Undamaged == IF file.path = Missing THEN file.backup # Corrupt ELSE file.path # Corrupt
SettingsKept ==
    /\ Undamaged => Found = IF writer.at = "written" THEN writer.new ELSE memory
    /\ proxy.credentials \in {NoAddress, proxy.address}

(* The update that can be installed is what the latest answered check found, and it *)
(* was found through the proxy in use, once a change of the settings has returned.  *)
UpdateIsCurrent ==
    cache.update # NoUpdate =>
        /\ writer.at # "clearing" => check[cache.update].proxy = proxy
        /\ answered # <<>> /\ answered[Len(answered)] = cache.update
===================================================================================
