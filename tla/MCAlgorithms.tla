---------------------------- MODULE MCAlgorithms ----------------------------
(* The algorithms of the server, each over all its small inputs: a behaviour *)
(* is about one subject.                                                     *)
EXTENDS FileEdits, Recorder, BuildCommands, AppConfig, PathRules, AccessBundle

CONSTANTS MaxLog, MaxComponents   \* bounds: bytes logged, components of a path

VARIABLES subject, input, log, history
vars == <<subject, input, log, history, file, before, copy, edit, recorderVars>>
editVars == <<file, before, copy, edit>>

TruncationMarker == <<9, 9>>
MCDefaultList == <<[key |-> "x", form |-> 0]>>
Seqs(S, n) == UNION {[1..k -> S] : k \in 0..n}

\* Paths of requests, below "/r/s".
Root == <<"r", "s">>
PathInputs == [abs : BOOLEAN, path : Seqs({"", ".", "..", "s", "x"}, MaxComponents)]

\* Configurations: paths absent, blank or set, under data roots of every form;
\* the certificate and the key, the database and the backups are set together.
PathSettings ==
    {s \in [PathFields -> {"absent", "blank", "set"}] :
        s["certPath"] = s["keyPath"] /\ s["dbPath"] = s["backupDir"]}
DataRoots == {<< >>, <<"data">>, <<".", "">>, <<".", "data">>, <<"", "srv", "">>, <<"..", "data">>}
FileOf(settings, root) ==
    [f \in {p \in PathFields : settings[p] # "absent"} \cup {"dataRoot"} |->
        IF f = "dataRoot" THEN root ELSE IF settings[f] = "blank" THEN << >> ELSE <<"custom", f>>]
Environments ==
    {<< >>, [dataRoot |-> <<"env">>, dbPath |-> << >>], [stateDir |-> <<".", "">>],
     [pidFile |-> <<".", "runtime", "pid">>], [dataRoot |-> <<"env">>, logDir |-> DefaultPath.logDir]}
Item(k, n) == [key |-> k, form |-> n]
Items == {Item(k, n) : k \in {"", "x"}, n \in 1..2}
SettingInputs ==
    {[number |-> n, limit |-> l, enabled |-> e, copies |-> c, list |-> i] :
        n \in {-1, 0, 3}, l \in {-1, 0, 2}, e \in BOOLEAN, c \in -1..2, i \in Seqs(Items, 2)}
PathFiles == {FileOf(s, r) : s \in PathSettings, r \in DataRoots}
SettingEnvironments ==
    {<< >>, [limit |-> -1], [copies |-> 0], [list |-> <<Item("", 1), Item("x", 2), Item("x", 1)>>]}
ConfigInputs ==
    [file : PathFiles, env : Environments] \cup [file : SettingInputs, env : SettingEnvironments]

\* Units and targets of builds.
Name(k, n) == [key |-> k, form |-> n]
Targets == {Name("", 0), Name("app", 1), Name("app", 2), Name("lib", 1)}
TargetInputs ==
    [files : SUBSET {"CMakeLists.txt", "Makefile", "sln"},
     requested : Targets \cup {Name("all", 1), Name("lib", 2)},
     reply : [ok : BOOLEAN, targets : Seqs(Targets, 2)], projects : Seqs(Targets, 2)]

\* Configurations that a bundle is made from.
Words(S) == {Text("")} \cup [says : S, padded : {TRUE}]
Hosts == {"any", "ip", "host", "name", "localhost", "loopback"}
Addresses ==
    [ok : {TRUE}, host : Hosts \cup {""}, port : {1}] \cup {[ok |-> FALSE, host |-> "", port |-> 0]}
BundleInputs ==
    [addr : Addresses, host : Words({"", "name", "loopback"}), port : {0, 2}, tls : BOOLEAN, hasCert : BOOLEAN,
     useTLS : BOOLEAN, auth : BOOLEAN, secret : Words({"secret"}), serverID : Words({"id"}),
     group : Words({"team"}), provider : Words({"p"}), mode : Words({"dns"}), tlsName : Words({"name", "host"})]

Inputs(s) ==
    CASE s = "path" -> PathInputs
      [] s = "config" -> ConfigInputs
      [] s = "target" -> TargetInputs
      [] s = "bundle" -> [cfg : BundleInputs, local : BOOLEAN]
      [] s \in {"edit", "writes", "durations", "log"} -> {<< >>}

Init ==
    /\ subject \in {"path", "config", "target", "bundle", "edit", "writes", "durations", "log"}
    /\ input \in Inputs(subject)
    /\ EditInit /\ RecorderInit /\ log = << >> /\ history = << >>

Edit == subject = "edit" /\ EditNext /\ UNCHANGED <<subject, input, log, history, recorderVars>>
Record ==
    /\ \/ /\ subject = "writes"
          /\ \E p \in HotPaths, b \in {0, Threshold, Threshold + 1}, t \in 1..(3 * Window) :
                RecordRangeWrite(p, b, t)
       \/ /\ subject = "durations"
          /\ \E d \in Durations, failed \in BOOLEAN : RecordDuration(d, failed)
    /\ UNCHANGED <<subject, input, log, history, editVars>>
AppendLog(entry) ==
    /\ subject = "log" /\ Len(history) + Len(entry) <= MaxLog
    /\ log' = AppendLogWithLimit(log, entry) /\ history' = history \o entry
    /\ UNCHANGED <<subject, input, editVars, recorderVars>>

Next == Edit \/ Record \/ \E entry \in Seqs({1, 2}, 3) \ {<< >>} : AppendLog(entry)
Spec == Init /\ [][Next]_vars

-----------------------------------------------------------------------------
\* NormalizeProjectPath, for every request path up to the bound.
PathsHaveOneForm == subject = "path" => OneFormPerPlace(Root, input.abs, input.path)

\* Load and Save, for every configuration file and environment.
ConfigurationsSettle == subject = "config" => ConfigSettles(input.file, input.env)

\* The paths that are derived, seen from a working directory.
PathsLieInBase == subject = "config" => UnsetPathsLieInBase(Root, input.file, input.env)

\* runBuildCommands, for every unit, request and list of targets.
TargetsAsAsked ==
    subject = "target" => BuildsWhatWasAsked(input.files, input.requested, input.reply, input.projects)

\* IssueJoinBundle and the import on the client, for every configuration.
BundlesConnect == subject = "bundle" => IssuedBundleConnects(input.cfg, input.local)

\* The bounded build log, after every sequence of appends.
LogEndsRight == LogShowsTheEnd(log, history)
=============================================================================
