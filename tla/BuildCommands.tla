---------------------------- MODULE BuildCommands ----------------------------
(***************************************************************************)
(* What a build of BuildService runs: the kind of the unit, the target     *)
(* that is passed on, and the log, which is bounded.  A name of a target   *)
(* is a record of its lower-case form (key) and its spelling; the empty    *)
(* name has the key "".                                                    *)
(***************************************************************************)
EXTENDS Integers, Sequences, FiniteSets

CONSTANTS
    Marker,      \* logTruncationMarker, as a sequence of bytes
    LogLimit     \* maxLogBytes; NewBuildService makes it positive

ASSUME BuildCommandsAssumption == Marker \in Seq(Nat) /\ LogLimit \in Nat \ {0}

NoName == [key |-> "", form |-> 0]

\* detectBuildKind, of the files in the unit's directory.
DetectBuildKind(files) ==
    CASE "CMakeLists.txt" \in files -> "cmake"
      [] "CMakeLists.txt" \notin files /\ "Makefile" \in files -> "make"
      [] files \cap {"CMakeLists.txt", "Makefile"} = {} /\ "sln" \in files -> "msbuild"
      [] OTHER -> "unsupported"

\* dedupeSortedTargets: the first spelling of every name.
DedupeTargets(targets) ==
    {targets[i] : i \in {j \in 1..Len(targets) :
        targets[j].key # "" /\ \A k \in 1..(j - 1) : targets[k].key # targets[j].key}}

\* listCMakeTargets: the file API's answer, or the project files of Visual
\* Studio where it is missing, broken or empty; {} when neither helps.
ListCMakeTargets(reply, projects) ==
    IF reply.ok /\ DedupeTargets(reply.targets) # {}
    THEN DedupeTargets(reply.targets) ELSE DedupeTargets(projects)

\* Mutant: some target of the list, whatever its name.
ResolveFolded(requested, available) ==
    CASE requested.key \in {"", "all", "default"} -> [ok |-> TRUE, target |-> NoName]
      [] requested.key \notin {"", "all", "default"} /\ available = {} -> [ok |-> TRUE, target |-> requested]
      [] requested.key \notin {"", "all", "default"} /\ available # {} ->
            [ok |-> TRUE, target |-> CHOOSE t \in available : TRUE]

\* resolveCMakeBuildTarget: NoName stands for the default build.
ResolveCMakeBuildTarget(requested, available) ==
    LET folded == {t \in available : t.key = requested.key} IN
    CASE requested.key \in {"", "all", "default"} -> [ok |-> TRUE, target |-> NoName]
      [] requested.key \notin {"", "all", "default"} ->
            IF available = {} \/ requested \in available THEN [ok |-> TRUE, target |-> requested]
            ELSE IF folded # {} THEN [ok |-> TRUE, target |-> CHOOSE t \in folded : TRUE]
            ELSE [ok |-> FALSE, target |-> NoName]

\* runBuildCommands, when the commands themselves succeed: whether it gets as
\* far as the build, the directory it writes to and the target it names.
RunBuildCommands(files, requested, reply, projects) ==
    LET kind == DetectBuildKind(files)
        cmake == ResolveCMakeBuildTarget(requested, ListCMakeTargets(reply, projects))
    IN  CASE kind = "cmake" -> [ok |-> cmake.ok, writes |-> "build", target |-> cmake.target]
          [] kind \in {"make", "msbuild"} -> [ok |-> TRUE, writes |-> "workspace", target |-> requested]
          [] kind = "unsupported" -> [ok |-> FALSE, writes |-> "none", target |-> NoName]

LastBytes(buf, n) == SubSeq(buf, Len(buf) - n + 1, Len(buf))

\* Mutant: a marker in front of what is already as long as allowed.
AppendMarked(existing, entry) ==
    LET buf == existing \o entry IN
    IF Len(buf) <= LogLimit THEN buf ELSE Marker \o LastBytes(buf, LogLimit)

\* appendLogWithLimit: a log that is too long keeps its end, behind a marker if
\* there is room for one.
AppendLogWithLimit(existing, entry) ==
    LET buf == existing \o entry IN
    IF Len(buf) <= LogLimit THEN buf
    ELSE IF LogLimit <= Len(Marker) THEN LastBytes(buf, LogLimit)
    ELSE Marker \o LastBytes(buf, LogLimit - Len(Marker))

-----------------------------------------------------------------------------
(* Properties *)

\* A build writes outside the unit it builds, and what it builds is what was
\* asked for: the target with the requested spelling where there is one, else
\* one that differs in case only, the default for no name and for its two
\* aliases; a name that is not listed is refused before anything is built
\* (runBuildCommands, resolveCMakeBuildTarget).
BuildsWhatWasAsked(files, requested, reply, projects) ==
    LET made == RunBuildCommands(files, requested, reply, projects)
        listed == IF reply.ok /\ \E i \in 1..Len(reply.targets) : reply.targets[i].key # ""
                  THEN reply.targets ELSE projects
        Listed(t) == \E i \in 1..Len(listed) : listed[i] = t
        Known == \E i \in 1..Len(listed) : listed[i].key # ""
        Named == requested.key \notin {"", "all", "default"}
        First(t) == \E i \in 1..Len(listed) : listed[i] = t /\ \A j \in 1..(i - 1) : listed[j].key # t.key
    IN  /\ made.writes # "unit"
        /\ made.ok /\ "CMakeLists.txt" \in files =>
             CASE ~Named -> made.target = NoName
               [] Named /\ ~Known -> made.target = requested
               [] Named /\ Known ->
                    /\ made.target.key = requested.key /\ Listed(made.target)
                    /\ First(requested) => made.target = requested
        /\ "CMakeLists.txt" \in files /\ ~made.ok =>
             Named /\ ~\E i \in 1..Len(listed) : listed[i].key = requested.key

\* However the log was written, it is the whole of what was written if that is
\* within the limit, and otherwise no longer than the limit, with the end of
\* what was written behind the marker (appendLogWithLimit).
LogShowsTheEnd(log, history) ==
    IF Len(history) <= LogLimit THEN log = history
    ELSE LET shown == IF LogLimit <= Len(Marker) THEN 0 ELSE Len(Marker)
         IN  /\ Len(log) = LogLimit
             /\ SubSeq(log, 1, shown) = SubSeq(Marker, 1, shown)
             /\ SubSeq(log, shown + 1, LogLimit) = LastBytes(history, LogLimit - shown)
=============================================================================
