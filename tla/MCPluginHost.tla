------------------------------ MODULE MCPluginHost ------------------------------
EXTENDS PluginHost, TLC

CONSTANTS p1, p2, c1, r1, w1, w2, m, a, b, c,    \* model values
          dirA, dirB

MCSymmetry == Permutations({w1, w2}) \cup Permutations({a, b})

MCSamePlace == (a :> dirA) @@ (b :> dirA)     \* other bytes of the same version
MCPlaces == MCSamePlace @@ (c :> dirB)        \* and another version

B(plugins, packages, users, calls, kinds, operations, faults) ==
    [plugins |-> plugins, packages |-> packages, users |-> users, calls |-> calls,
     kinds |-> kinds, operations |-> operations, faults |-> faults]
MCBudgets == {
    B({p1}, {a, b}, {c1}, 1, {"enable", "disable", "uninstall"}, 2,
      {"launch", "hello", "die", "stop", "garbage"}),
    B({p1}, {a, b, c}, {c1}, 1, {"install"}, 1, {"launch", "hello", "die", "files"}),
    B({p1, p2}, {a, b}, {c1, r1}, 2, {"disable"}, 1, {"thread"})}
MCLiveBudgets == {B({p1}, {a, b}, {c1, r1}, 2, {"disable"}, 1, {"thread", "hello", "die", "garbage"})}
MCInstallBudgets == {B({p1}, {a, b}, {r1}, 1, {"install"}, 1, {})}
MCTwoBudgets == {B({p1, p2}, {a, b}, {c1}, 1, {"install"}, 1, {})}
================================================================================
