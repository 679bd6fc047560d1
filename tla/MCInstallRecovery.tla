--------------------------- MODULE MCInstallRecovery ---------------------------
EXTENDS InstallRecovery, TLC

CONSTANTS v1, v2,        \* versions
          a1, b1, a2     \* two packages of v1 (same version, other bytes), one of v2

MCVersions == {v1, v2}
MCPackages == {a1, b1, a2}
MCVersionOf == (a1 :> v1) @@ (b1 :> v1) @@ (a2 :> v2)
================================================================================
