------------------------------ MODULE AppConfig ------------------------------
(***************************************************************************)
(* appconfig: defaults, the file, the environment and their normalisation. *)
(* A path is the sequence of its components, as strings.Split on "/" gives *)
(* them: "" first in an absolute path, and last in one that ends with a    *)
(* slash; << >> is a blank value.  A name stands for all its spellings in  *)
(* upper and lower case.  The settings that are not paths are represented  *)
(* by one of each kind: a number that has to be positive (intervals,       *)
(* retention times, counts), a limit of which zero means none, the number  *)
(* of conflict copies, and a list.                                         *)
(***************************************************************************)
EXTENDS PathRules

CONSTANTS DefaultNumber, DefaultCopies, DefaultList

ASSUME ConfigAssumption == DefaultNumber \in Nat \ {0} /\ DefaultCopies \in Nat \ {0}
\* No list of Default has a blank or a double value.
ASSUME ListAssumption ==
    /\ DefaultList \in Seq({DefaultList[i] : i \in 1..Len(DefaultList)})
    /\ \A i \in 1..Len(DefaultList) :
          DefaultList[i].key # "" /\ \A j \in 1..(i - 1) : DefaultList[j].key # DefaultList[i].key

\* Config and Default.
PathFields ==
    {"stateDir", "pidFile", "logDir", "dbPath", "certPath", "keyPath", "backupDir", "logFilesDir"}
DefaultPath ==
    [stateDir |-> <<"runtime">>, pidFile |-> <<"runtime", "pid">>, logDir |-> <<"runtime", "logs">>,
     dbPath |-> <<"db">>, certPath |-> <<"certs", "cert">>, keyPath |-> <<"certs", "key">>,
     backupDir |-> <<"backups">>, logFilesDir |-> <<"runtime", "logs">>]
Default ==
    [paths |-> DefaultPath, dataRoot |-> << >>, number |-> DefaultNumber, limit |-> 1,
     enabled |-> TRUE, copies |-> DefaultCopies, list |-> DefaultList]

\* path.Clean.
CleanPath(path) ==
    LET absolute == path[1] = ""
        names == Clean(absolute, path)
    IN  CASE absolute /\ names = << >> -> <<"", "">>
          [] absolute /\ names # << >> -> <<"">> \o names
          [] ~absolute /\ names = << >> -> <<".">>
          [] ~absolute /\ names # << >> -> names

\* Mutant: strings.TrimLeft takes every dot and slash away.
TrimDotsAndSlashes(path) ==
    IF Len(path) > 1 /\ path[1] \in {"", ".", ".."} THEN Tail(path) ELSE path

\* strings.TrimPrefix(path, "./"); of "./" itself the empty text is left.
TrimDotSlash(path) == IF Len(path) > 1 /\ path[1] = "." THEN Tail(path) ELSE path

\* joinConfigPath of a name that is not blank, and with it deriveDataPath; the
\* text between the slash and what is left of "./" is empty, so that "./" and a
\* name make an absolute path.
JoinConfigPath(base, name) ==
    IF base = << >> THEN name ELSE CleanPath(TrimDotSlash(base) \o TrimDotSlash(name))

\* sameConfigPath, of a path and the default one.
SameConfigPath(path, default) == path # << >> /\ CleanPath(path) = CleanPath(default)

\* A path that is blank, or the default one while there is a data root, goes
\* under the data root.
Relocate(root, f, v) ==
    IF v = << >> \/ (root # << >> /\ SameConfigPath(v, DefaultPath[f]))
    THEN JoinConfigPath(root, DefaultPath[f]) ELSE v

\* A path that is blank, or the default one, follows a directory.
Follow(f, v, place) == IF v = << >> \/ SameConfigPath(v, DefaultPath[f]) THEN place ELSE v

\* normalizeRuntime.  The pid file and the logs follow the state directory.
NormalizeRuntime(c) ==
    LET state == Relocate(c.dataRoot, "stateDir", c.paths.stateDir) IN
    [c EXCEPT !.paths.stateDir = state,
              !.paths.pidFile = Follow("pidFile", @, JoinConfigPath(state, <<"pid">>)),
              !.paths.logDir = Follow("logDir", @, JoinConfigPath(state, <<"logs">>))]

\* Mutant: the directory that is cleaned up does not follow the log directory.
NormalizeStorageLogs(c) ==
    [c EXCEPT !.paths = [f \in PathFields |->
        IF f \in {"dbPath", "certPath", "keyPath", "backupDir", "logFilesDir"}
        THEN Relocate(c.dataRoot, f, @[f]) ELSE @[f]]]

\* normalizeStoragePaths, on what normalizeRuntime has returned.
NormalizeStoragePaths(c) ==
    [c EXCEPT !.paths = [f \in PathFields |->
        CASE f \in {"dbPath", "certPath", "keyPath", "backupDir"} -> Relocate(c.dataRoot, f, @[f])
          [] f = "logFilesDir" -> Follow(f, @[f], @["logDir"])
          [] f \in {"stateDir", "pidFile", "logDir"} -> @[f]]]

\* normalizeList: blank values and later spellings of a value are dropped.
NormalizeList(l) ==
    LET Kept(i) == l[i].key # "" /\ \A j \in 1..(i - 1) : l[j].key # l[i].key
        kept[i \in 0..Len(l)] == IF i = 0 THEN << >> ELSE IF Kept(i) THEN Append(kept[i - 1], l[i]) ELSE kept[i - 1]
    IN  kept[Len(l)]

\* The rest of normalize.
NormalizeSettings(c) ==
    [c EXCEPT !.number = IF @ <= 0 THEN DefaultNumber ELSE @,
              !.limit = IF @ < 0 THEN 0 ELSE @,
              !.copies = IF @ > 0 THEN @ ELSE IF c.enabled THEN DefaultCopies ELSE 0,
              !.list = IF NormalizeList(@) = << >> THEN DefaultList ELSE NormalizeList(@)]

Normalize(c) == NormalizeSettings(NormalizeStoragePaths(NormalizeRuntime(c)))

\* Fields that are present replace those of c: json.Unmarshal over the defaults.
Override(c, set) ==
    [f \in DOMAIN c |->
        IF f = "paths" THEN [p \in PathFields |-> IF p \in DOMAIN set THEN set[p] ELSE c.paths[p]]
        ELSE IF f \in DOMAIN set THEN set[f] ELSE c[f]]

\* applyEnvOverrides.  Of the variables those count that are not blank and can be
\* parsed: first the paths of the server, then the settings of the control plane
\* and of the clean-up; lists are normalised one by one.
EnvServer(c, env) ==
    Override(c, [f \in {g \in DOMAIN env \cap ((PathFields \ {"logFilesDir"}) \cup {"dataRoot"}) :
                            env[g] # << >>} |-> env[f]])
EnvControlPlaneAndCleanup(c, env) ==
    LET isSet == {f \in DOMAIN env \ ((PathFields \ {"logFilesDir"}) \cup {"dataRoot"}) :
                    f = "logFilesDir" => env[f] # << >>}
    IN  Override(c, [f \in isSet |-> IF f = "list" THEN NormalizeList(env[f]) ELSE env[f]])
ApplyEnvOverrides(c, env) == Normalize(EnvControlPlaneAndCleanup(EnvServer(c, env), env))

\* Load: defaults, then the file, then the environment.
Load(file, env) == ApplyEnvOverrides(Override(Default, file), env)

\* Save writes every field, normalised.
Save(c) ==
    LET n == Normalize(c) IN
    [f \in PathFields \cup (DOMAIN c \ {"paths"}) |-> IF f \in PathFields THEN n.paths[f] ELSE n[f]]

-----------------------------------------------------------------------------
(* Properties *)

\* Neither the environment nor the file says anything but the default.
Unset(f, file, env) ==
    (f \in DOMAIN env => env[f] = << >>) /\ (f \in DOMAIN file => file[f] \in {<< >>, DefaultPath[f]})

\* A configuration that was saved is read back as it is, with the environment it
\* was made in and without one: normalising twice moves no path a second time,
\* however the data root is written.  The clean-up of logs looks where the logs
\* are written, and no setting is out of range (normalize, Load, Save).
ConfigSettles(file, env) ==
    LET c == Load(file, env) IN
    /\ Load(Save(c), env) = c
    /\ Load(Save(c), << >>) = c
    /\ Unset("logFilesDir", file, env) => c.paths.logFilesDir = c.paths.logDir
    /\ c.number > 0 /\ c.limit >= 0 /\ c.copies >= 0 /\ (c.enabled => c.copies > 0)

\* Reference: where a path leads from a working directory, component by component.
Place(cwd, path) ==
    LET whole == IF path # << >> /\ path[1] = "" THEN path ELSE cwd \o path IN Walk(whole, Len(whole))

\* What a path that nobody set is derived from: the data root, of the pid file and
\* the logs the state directory; and its name there.
DerivedPaths == PathFields \ {"logFilesDir"}
Base(c, f) == IF f \in {"pidFile", "logDir"} THEN c.paths.stateDir ELSE c.dataRoot
NameInBase(f) ==
    CASE f = "pidFile" -> <<"pid">> [] f = "logDir" -> <<"logs">>
      [] f \notin {"pidFile", "logDir"} -> DefaultPath[f]
LiesInBase(cwd, c, f) == Place(cwd, c.paths[f]) = Place(cwd, Base(c, f) \o NameInBase(f))

\* "./", and what begins with ".//".
DotSlash(path) == Len(path) > 1 /\ path[1] = "." /\ path[2] = ""

\* A path that nobody set lies in the directory it is derived from, in whatever
\* working directory the server is started, unless that directory is written as
\* "./": of that the join leaves nothing, and the path lies at the root of the file
\* system (deriveDataPath, joinConfigPath).
UnsetPathsLieInBase(cwd, file, env) ==
    LET c == Load(file, env) IN
    \A f \in DerivedPaths : Unset(f, file, env) /\ ~DotSlash(Base(c, f)) => LiesInBase(cwd, c, f)
=============================================================================
