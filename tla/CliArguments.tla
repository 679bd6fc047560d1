------------------------------- MODULE CliArguments ------------------------------
(* The options of the commands that change something: plugin_cli.rs,                *)
(* plugin_distribution_cli.rs, web_access.rs and cli_ipc.rs. A line is a kind of    *)
(* command with the words after its positional arguments. A word is one of the      *)
(* flags, or stands for its class: "json", "number" (both JSON), "zero", "word".    *)
EXTENDS Naturals, Sequences, FiniteSets

CONSTANT MaxWords        \* bound: words after the positional arguments
ASSUME WordsAssumption == MaxWords \in Nat

VARIABLE line            \* the command line, which only the initial states vary

(* ------------------------------------------------------------ the options *)
(* The loops over call options step over the word after a flag that takes one.     *)
Valued == {"--input-json", "--timeout-ms"}
FollowedBy(options, i) ==
    IF i \in DOMAIN options /\ options[i] \in Valued THEN i + 2 ELSE i + 1
Loop(options) ==
    LET at[n \in Nat] == IF n = 0 THEN 1 ELSE FollowedBy(options, at[n - 1])
    IN at
Stands(options) == {Loop(options)[n] : n \in 0..Len(options)} \cap DOMAIN options
Given(options, flag) == {i \in Stands(options) : options[i] = flag}
After(options, i) == IF i + 1 \in DOMAIN options THEN options[i + 1] ELSE "missing"
IsJson(word) == word \in {"json", "number", "zero"}

(* One loop of plugins call and one of ui command run: every flag at most once.    *)
CallOptions(options) ==
    /\ \A i \in Stands(options) : options[i] \in Valued \cup {"--yes"}
    /\ \A flag \in Valued \cup {"--yes"} : Cardinality(Given(options, flag)) <= 1
    /\ \A i \in Given(options, "--timeout-ms") : After(options, i) = "number"
    /\ \E i \in Given(options, "--input-json") : IsJson(After(options, i))

(* command_timeout_ms reads the same words on both sides of the connection, before *)
(* the command itself is parsed: a word at which its loop stands is looked at only *)
(* for being one of the two flags.                                                 *)
MutLateStart(options) ==
    LET late == SubSeq(options, 2, Len(options))
        found == {i \in DOMAIN late : late[i] = "--timeout-ms"}
    IN IF found = {} THEN "none" ELSE After(late, CHOOSE i \in found : TRUE)
OptionTimeout(options) ==
    LET found == Given(options, "--timeout-ms")
    IN CASE found = {} -> "none"
         [] Cardinality(found) > 1 -> "invalid"
         [] OTHER -> LET word == After(options, CHOOSE i \in found : TRUE)
                     IN IF word = "number" THEN word ELSE "invalid"
CommandTimeout(kind, options) ==
    IF kind \in {"call", "ui run", "ui read"} THEN OptionTimeout(options) ELSE "fixed"

Words(options) == {options[i] : i \in DOMAIN options}
Called(options) == CallOptions(options) /\ Given(options, "--yes") # {}
UiRun(options, mutating) ==
    CallOptions(options) /\ (mutating => Given(options, "--yes") # {})

(* plugins install, enable (disable, retry), uninstall: repetitions are accepted.  *)
LocalInstall(options) ==
    /\ Words(options) \subseteq {"--yes", "--overwrite", "--approve-source-change"}
    /\ "--yes" \in Words(options)
OnlyConfirmed(options) == "--yes" \in Words(options) /\ Words(options) = {"--yes"}
Uninstall(options) ==
    "--yes" \in Words(options) /\ Words(options) \subseteq {"--yes", "--remove-data"}

(* plugins distribution and the online installs: no repetition.                    *)
Flags(options, allowed) ==
    /\ Words(options) \subseteq allowed /\ Cardinality(Words(options)) = Len(options)
    /\ "--yes" \in Words(options)
SetCode(options) == Flags(options, {"--yes", "--stdin"}) /\ "--stdin" \in Words(options)
Online(options, update) ==
    /\ Flags(options, {"--yes", "--approve-source-change", "--repair", "--rollback"})
    /\ IF update THEN {"--repair", "--rollback"} \cap Words(options) = {}
       ELSE ~({"--repair", "--rollback"} \subseteq Words(options))

(* The web commands are matched word for word.                                     *)
WebStart(options) ==
    /\ Len(options) = 3 /\ options[1] = "--config-json" /\ options[2] = "json"
    /\ options[3] = "--yes"
WebConfirmed(options) == options = <<"--yes">>

(* What is dispatched to the manager.                                              *)
Dispatched(kind, options) ==
    CASE kind = "call" -> Called(options)
      [] kind = "ui run" -> UiRun(options, TRUE)
      [] kind = "ui read" -> UiRun(options, FALSE)
      [] kind = "install" -> LocalInstall(options)
      [] kind = "enable" -> OnlyConfirmed(options)
      [] kind = "uninstall" -> Uninstall(options)
      [] kind = "source" -> Flags(options, {"--yes"})
      [] kind = "set-code" -> SetCode(options)
      [] kind = "install-online" -> Online(options, FALSE)
      [] kind = "update" -> Online(options, TRUE)
      [] kind = "web start" -> WebStart(options)
      [] kind = "web stop" -> WebConfirmed(options)

(* ----------------------------------------------------------- the reference *)
(* The groups of words that the help text gives for each command.                  *)
Inputs == {<<"--input-json", word>> : word \in {"json", "number", "zero"}}
Groups == [kind \in {"call", "ui run", "ui read", "install", "enable", "uninstall", "source",
                     "set-code", "install-online", "update", "web start", "web stop"} |->
    {<<"--yes">>} \cup
    CASE kind \in {"call", "ui run", "ui read"} -> Inputs \cup {<<"--timeout-ms", "number">>}
      [] kind = "install" -> {<<"--overwrite">>, <<"--approve-source-change">>}
      [] kind = "uninstall" -> {<<"--remove-data">>}
      [] kind = "set-code" -> {<<"--stdin">>}
      [] kind = "install-online" -> {<<"--approve-source-change">>, <<"--repair">>, <<"--rollback">>}
      [] kind = "update" -> {<<"--approve-source-change">>}
      [] kind = "web start" -> {<<"--config-json", "json">>}
      [] OTHER -> {}]
Kinds == DOMAIN Groups

(* All lines of groups, as pairs of the words and the groups they are made of.     *)
Extended(kind, l) == {[words |-> l.words \o g, of |-> l.of \cup {g}] : g \in Groups[kind]}
Longer(kind, lines) == lines \cup UNION {Extended(kind, l) : l \in lines}
LinesOf(kind) ==
    LET lines[n \in Nat] == IF n = 0 THEN {[words |-> <<>>, of |-> {}]}
                            ELSE Longer(kind, lines[n - 1])
    IN lines
Documented == [kind \in Kinds |-> {l \in LinesOf(kind)[MaxWords] : Len(l.words) <= MaxWords}]

Vocabulary(kind) == UNION {Words(g) : g \in Groups[kind]} \cup {"zero", "word"}
Lines == UNION {[kind : {k}, options : UNION {[1..n -> Vocabulary(k)] : n \in 0..MaxWords}]
                : k \in Kinds}

(* What is executed reads as a line of documented groups, one of which is the       *)
(* confirmation unless the command only reads: neither the value of an option nor   *)
(* a word that is skipped counts as one. The limit that both ends of the connection *)
(* use is the one of the command, none when it has none (docs/CORE-CLI-COMMAND-     *)
(* INVENTORY.md:10 and :105).                                                       *)
ArgumentsAgree(kind, options) ==
    Dispatched(kind, options) =>
        \E l \in Documented[kind] :
            /\ l.words = options
            /\ <<"--yes">> \in l.of \/ kind = "ui read"
            /\ CommandTimeout(kind, options) =
                   IF kind \notin {"call", "ui run", "ui read"} THEN "fixed"
                   ELSE IF <<"--timeout-ms", "number">> \in l.of THEN "number" ELSE "none"

(* plugin_cli.rs and the other parsers: what is run agrees with the documented      *)
(* commands, the confirmation and the time limit among them.                        *)
LinesAgree == ArgumentsAgree(line.kind, line.options)

LineSpec == line \in Lines /\ [][UNCHANGED line]_line
===================================================================================
