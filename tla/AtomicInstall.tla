----------------------------- MODULE AtomicInstall -----------------------------
(***************************************************************************)
(* What a plugin installation promises: the package in a version directory *)
(* and the preferences that name it change together, in one step, or not   *)
(* at all.  InstallRecovery implements this with a staged rename, a        *)
(* durable journal and a rollback; here an installation is one action.     *)
(* Once the setting of an installation that was undone has been saved,     *)
(* only the packages are promised anything.                                *)
(***************************************************************************)
CONSTANTS Versions,    \* version directories of the plugin
          Packages,    \* package contents
          VersionOf,   \* the version a package's manifest names
          None         \* no package, no preferences

VARIABLES installed,   \* version -> the package in its directory
          setting,     \* the plugin's entry in the manager preferences
          astray       \* the setting of an undone installation was saved

vars == <<installed, setting, astray>>

NoneInstalled == [v \in Versions |-> None]

(* A fresh host, or one where a package was installed before.              *)
Init == /\ astray = FALSE
        /\ \/ /\ installed = NoneInstalled
              /\ setting = None
           \/ \E p \in Packages, e \in BOOLEAN :
                /\ installed = [NoneInstalled EXCEPT ![VersionOf[p]] = p]
                /\ setting = [pkg |-> p, enabled |-> e]

(* An accepted installation: the enable choice survives it, and a first    *)
(* installation is enabled.                                                *)
Install(p) ==
  /\ installed' = [installed EXCEPT ![VersionOf[p]] = p]
  /\ astray \/ setting' = [pkg |-> p, enabled |-> IF setting = None THEN TRUE
                                                ELSE setting.enabled]
  /\ UNCHANGED astray

SetEnabled(e) ==
  /\ setting # None
  /\ setting' = [setting EXCEPT !.enabled = e]
  /\ UNCHANGED <<installed, astray>>

(* Preferences are saved by a host that gave up undoing an installation.   *)
GoAstray ==
  /\ astray'
  /\ UNCHANGED installed

Next == \/ \E p \in Packages : Install(p)
        \/ \E e \in BOOLEAN : SetEnabled(e)
        \/ GoAstray

Spec == Init /\ [][Next]_vars
================================================================================
