-------------------------------- MODULE MCPackages -------------------------------
(* Where packages come from (PluginDistribution) and how one is put in place        *)
(* (InstallRecovery), checked in one run. Between the two lies the manager, which   *)
(* has a module of its own (PluginHost); they share no state, and the initial       *)
(* states choose the one that moves.                                                *)
EXTENDS MCInstallRecovery, PluginDistribution

CONSTANTS src1, src2,  \* sources
          pl,          \* a restricted plugin
          c1, c2, i1, i2

B(may, identities, configures, epochs, faults) ==
    [may |-> may, identities |-> identities, configures |-> configures,
     epochs |-> epochs, faults |-> faults, upgraded |-> FALSE]
Upgraded(b) == [b EXCEPT !.upgraded = TRUE]
Resting == B({}, 0, 0, 0, {})

MCBudgets == {
    B({c1, c2}, 1, 2, 1, {"net"}),
    B({c1, c2}, 1, 1, 1, {"disk", "crash"}),
    B({c1}, 1, 1, 1, AllFaults),
    B({c1, i1}, 1, 1, 1, {}),
    Upgraded(B({i1, i2}, 0, 0, 0, {})),
    Upgraded(B({c1}, 1, 1, 1, {"disk", "crash"})),
    Resting}

VARIABLE part  \* the component that moves

PackagesInit ==
    /\ Init /\ CatalogInit
    /\ part = IF budget = Resting THEN "install" ELSE "catalog"
    /\ IF part = "install" THEN srv.ends = Nothing
       ELSE config = [mine |-> None, other |-> FALSE]
PackagesNext ==
    /\ UNCHANGED part
    /\ \/ part = "install" /\ Next /\ UNCHANGED catalogVars
       \/ part = "catalog" /\ CatalogNext /\ UNCHANGED vars
PackagesSpec == PackagesInit /\ [][PackagesNext]_<<part, vars, catalogVars>>
==================================================================================
