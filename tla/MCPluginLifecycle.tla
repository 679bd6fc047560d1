--------------------------- MODULE MCPluginLifecycle ---------------------------
EXTENDS PluginLifecycle, TLC

CONSTANTS r1, r2    \* model values: host-service workers

MCSymmetry == Permutations({r1, r2})

\* Bound: a start that its end overtakes, a damaged record and a crash are explored apart.
MCApart ==
  (\E i \in Instances : Told(i) /\ inst[i].worker \in {"check", "connect", "late"}) =>
    /\ file.kind # "damaged" /\ ~mem.diagnostic /\ crashes = 0
================================================================================
