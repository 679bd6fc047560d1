------------------------------- MODULE MCComponents ------------------------------
(* Six components that share no state with each other, checked in one run: the     *)
(* initial states choose the one that moves, the others keep an initial state.      *)
EXTENDS CliArguments, UserData, NetworkSettings, EventFeed, LocalInstaller, ScanRetry

VARIABLE part      \* the component that moves
others == <<part, line>>

MCDataBudgets == {[starts |-> 4, crashes |-> 1, fails |-> 2, edits |-> 2, writes |-> 1],
                  [starts |-> 0, crashes |-> 0, fails |-> 0, edits |-> 0, writes |-> 0]}
MCNetBudgets == {[updates |-> 2, fails |-> 1, crashes |-> 1, corruptions |-> 0],
                 [updates |-> 1, fails |-> 1, crashes |-> 2, corruptions |-> 1],
                 [updates |-> 0, fails |-> 0, crashes |-> 0, corruptions |-> 0]}
MCFeedBudgets == {[events |-> 6, losses |-> 1, connects |-> 2, starts |-> 1],
                  [events |-> 0, losses |-> 0, connects |-> 0, starts |-> 0]}

(* Two plugins: of the one, two packages of the same version and a third that does  *)
(* not verify, and one of the other. Imports have one file name, as copies of a     *)
(* file do. Each kind of behaviour has a budget of its own.                         *)
MCPluginOf == [p \in Packages |-> IF p = "c" THEN "y" ELSE "x"]
MCVersionOf == [p \in Packages \cup {NoPackage} |-> IF p = NoPackage THEN 0 ELSE 1]
MCLabelOf == [s \in Sources \cup Uploads |-> IF s \in Sources THEN "path" ELSE "name"]
MCImportBudgets ==
    {[imports |-> 0, previews |-> 1, edits |-> 2, changes |-> 1, crashes |-> 0, fails |-> 1, resets |-> 0],
     [imports |-> 1, previews |-> 2, edits |-> 0, changes |-> 0, crashes |-> 0, fails |-> 0, resets |-> 1],
     [imports |-> 2, previews |-> 1, edits |-> 0, changes |-> 0, crashes |-> 1, fails |-> 0, resets |-> 0],
     [imports |-> 0, previews |-> 0, edits |-> 0, changes |-> 0, crashes |-> 0, fails |-> 0, resets |-> 0]}

(* The plugins there are at first: none, or an earlier package of the first.         *)
MCInstalled(moves) ==
    {[p \in Plugins |-> IF there /\ p = "x" THEN [package |-> "d", origin |-> "path", enabled |-> TRUE]
                                          ELSE Nothing] : there \in moves}

(* Two workers may be scheduled before a third; every kind of interruption meets a   *)
(* failure of some step in one of the budgets.                                      *)
Scans(changed, failing, retried, refreshed, switched, placed, removed, upgraded, stopped) ==
    [changes |-> changed, fails |-> failing, retries |-> retried, refreshes |-> refreshed,
     switches |-> switched, installs |-> placed, removals |-> removed,
     upgrades |-> upgraded, shutdowns |-> stopped]
MCScanBudgets ==
    {Scans(1, 1, 1, 1, 0, 0, 0, 0, 0), Scans(1, 0, 1, 0, 1, 0, 1, 0, 1),
     Scans(0, 1, 1, 0, 1, 0, 1, 0, 0), Scans(1, 1, 0, 0, 0, 1, 0, 1, 0),
     Scans(1, 1, 1, 0, 0, 1, 0, 0, 0), Scans(0, 2, 0, 0, 0, 1, 0, 0, 0),
     Scans(0, 0, 0, 0, 0, 0, 0, 0, 0)}

Rests(b) == \A k \in DOMAIN b : b[k] = 0

Init ==
    /\ part \in {"arguments", "data", "network", "events", "imports", "scans"}
    /\ DataInit /\ (part = "data" <=> ~Rests(dataBudget))
    /\ NetInit /\ (part = "network" <=> ~Rests(netBudget))
    /\ FeedInit /\ (part = "events" <=> ~Rests(feedBudget))
    /\ installed \in MCInstalled(IF part = "imports" THEN BOOLEAN ELSE {FALSE})
    /\ ImportInit /\ (part = "imports" <=> ~Rests(importBudget))
    /\ ScanInit /\ (part = "scans" <=> ~Rests(scanBudget))
    /\ part # "scans" => chosen.enabled = "no" /\ package.at = "good" /\ ~package.journal.open
    /\ importBudget.changes = 0 => \A p \in Plugins : installed[p] = Nothing
    /\ part # "imports" => \A s \in Sources : author[s] = "a"
    /\ line \in IF part = "arguments" THEN Lines ELSE {[kind |-> "enable", options |-> <<>>]}

Next ==
    \/ /\ part = "data" /\ DataNext
       /\ UNCHANGED <<others, allNetVars, allFeedVars, allImportVars, allScanVars>>
    \/ /\ part = "network" /\ NetNext
       /\ UNCHANGED <<others, allDataVars, allFeedVars, allImportVars, allScanVars>>
    \/ /\ part = "events" /\ FeedNext
       /\ UNCHANGED <<others, allDataVars, allNetVars, allImportVars, allScanVars>>
    \/ /\ part = "imports" /\ ImportNext
       /\ UNCHANGED <<others, allDataVars, allNetVars, allFeedVars, allScanVars>>
    \/ /\ part = "scans" /\ ScanNext
       /\ UNCHANGED <<others, allDataVars, allNetVars, allFeedVars, allImportVars>>

Spec ==
    Init /\ [][Next]_<<others, allDataVars, allNetVars, allFeedVars, allImportVars, allScanVars>>
===================================================================================
