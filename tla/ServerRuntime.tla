--------------------------- MODULE ServerRuntime ---------------------------
(***************************************************************************)
(* The life of the server process (internal/serverapp): Start acquires the *)
(* instance locks, the database, the TLS files and the listener one after  *)
(* the other and gives back what it has when a step fails; Stop drains the *)
(* requests for a while and then cuts them off; cleanup gives everything   *)
(* back in its own order.  Server processes share the database and the TLS *)
(* files with each other and with the operator's commands (restore,        *)
(* rotate-tls).  Any process may be killed between two steps.              *)
(***************************************************************************)
EXTENDS DatabaseRestore

CONSTANTS Servers       \* server processes, each with its own state directory

ASSUME ServersAssumption == Operator \notin Servers /\ Free \notin Servers \cup {Operator}
\* Idle is not itself a command.
ASSUME IdleAssumption ==
    \A b \in BOOLEAN : Idle # [op |-> "rotate", at |-> "write", option |-> b, copied |-> TRUE]

VARIABLES pc,           \* how far Start, Serve or cleanup of a process is
          serviceLock,  \* the lock file in the state directory of a process
          open,         \* processes that have the database open
          writes,       \* the TLS files a process or the command still writes
          half,         \* whether the first of these writes is half done
          loaded,       \* the certificate a process serves with
          busy,         \* processes with a request under way
          asked,        \* processes whose stop was requested
          stopping,     \* none, graceful or forced: the state of Stop
          tls,          \* the TLS files
          trusted,      \* ghost: the root under which a server began to serve,
                        \* with the root files whole and no rotation under way,
                        \* since a new root was last asked for, or Absent
          commits       \* how many commits there were

runVars == <<pc, serviceLock, open, writes, half, loaded, busy, asked, stopping>>
tlsVars == <<tls, trusted>>
vars == <<restoreVars, runVars, tlsVars, commits>>

Actors == Servers \cup {Operator}

Init ==
    /\ main = Absent /\ wal = Absent /\ safety = Absent
    /\ dbLock = Free /\ cmd = Idle /\ attached = {} /\ original = Absent
    /\ windows \in BOOLEAN /\ budget \in Budgets
    /\ pc = [p \in Servers |-> "off"]
    /\ serviceLock = [p \in Servers |-> Free]
    /\ open = {} /\ busy = {} /\ asked = {}
    /\ writes = [a \in Actors |-> <<>>] /\ half = [a \in Actors |-> FALSE]
    /\ loaded = [p \in Servers |-> Absent]
    /\ stopping = [p \in Servers |-> "none"]
    /\ tls = NoArtifacts /\ trusted = Absent
    /\ commits = 0

Step(p, from, to) == pc[p] = from /\ pc' = [pc EXCEPT ![p] = to]
Serving(p) == pc[p] = "serving"
Starting == {p \in Servers : pc[p] \in {"starting", "locked", "opened", "securing", "secured"}}

\* A rotation is under way.
Rotating == cmd # Idle /\ cmd.op = "rotate"

(***************************************************************************)
(* Start                                                                   *)
(***************************************************************************)

\* Start is called and its checks of the configuration and of the root
\* directory pass, before it holds anything; then it takes the lock of its
\* state directory, which a process that died may have left behind.
StartServer(p) ==
    /\ Spend("starts")
    /\ \/ serviceLock[p] = Free /\ serviceLock' = [serviceLock EXCEPT ![p] = p]
          /\ Step(p, "off", "starting")
       \/ serviceLock[p] # Free /\ Step(p, "off", "off") /\ UNCHANGED serviceLock
    /\ UNCHANGED <<main, wal, safety, dbLock, cmd, attached, original, windows, open,
                   writes, half, loaded, busy, asked, stopping, tls, trusted, commits>>

\* A variant of TakeDatabaseLock whose roll-back removes the lock file it failed to create.
TakeDatabaseLockBreaking(p) ==
    /\ \/ dbLock = Free /\ dbLock' = p
          /\ Step(p, "starting", "locked") /\ UNCHANGED serviceLock
       \/ dbLock # Free /\ Step(p, "starting", "off")
          /\ serviceLock' = [serviceLock EXCEPT ![p] = Free] /\ dbLock' = Free
    /\ UNCHANGED <<main, wal, safety, cmd, attached, original, windows, budget, open,
                   writes, half, loaded, busy, asked, stopping, tlsVars, commits>>

\* The lock of the database, with the roll-back of the first when it is taken.
TakeDatabaseLock(p) ==
    /\ \/ dbLock = Free /\ dbLock' = p
          /\ Step(p, "starting", "locked") /\ UNCHANGED serviceLock
       \/ dbLock # Free /\ Step(p, "starting", "off")
          /\ serviceLock' = [serviceLock EXCEPT ![p] = Free] /\ UNCHANGED dbLock
    /\ UNCHANGED <<main, wal, safety, cmd, attached, original, windows, budget, open,
                   writes, half, loaded, busy, asked, stopping, tlsVars, commits>>

\* db.Open with its migrations, and the stores made on it: creates the database
\* when there is none; the rows of a log that was left behind are seen again.
OpenDatabase(p) ==
    /\ \/ /\ main # Torn /\ Step(p, "locked", "opened")
          /\ main' = IF main = Absent THEN 0 ELSE main
          /\ open' = open \cup {p} /\ attached' = attached \cup {p}
          /\ UNCHANGED budget
       \/ /\ Step(p, "locked", "failed_closed")
          /\ \/ main = Torn /\ UNCHANGED budget
             \/ main # Torn /\ Fault
          /\ UNCHANGED <<main, open, attached>>
    /\ UNCHANGED <<wal, safety, dbLock, cmd, original, windows, serviceLock, writes,
                   half, loaded, busy, asked, stopping, tlsVars, commits>>

\* The pairs that are in a file, in memory or trusted by a client.
UsedPairs ==
    PairsOf(tls) \cup ({trusted} \ {Absent})
      \cup UNION {PairsIn("cert", loaded[p]) : p \in {q \in Servers : loaded[q] # Absent}}
      \cup UNION {UNION {PairsIn(writes[a][i].file, writes[a][i].value) :
                          i \in DOMAIN writes[a]} : a \in Actors}

\* loadServerTLSCredentials decides which TLS files to write.
EnsureCertificate(p) ==
    LET plan == EnsureServerCertificate(tls, UsedPairs)
    IN /\ Step(p, "opened", IF plan.ok THEN "securing" ELSE "failed")
       /\ writes' = [writes EXCEPT ![p] = plan.writes]
       /\ UNCHANGED <<restoreVars, serviceLock, open, half, loaded, busy, asked,
                      stopping, tlsVars, commits>>

\* One write of a TLS file, in two steps.
WriteArtifact(a) ==
    /\ writes[a] # <<>>
    /\ \/ /\ ~half[a] /\ half' = [half EXCEPT ![a] = TRUE]
          /\ tls' = HalfWritten(tls, Head(writes[a]), a # Operator)
          /\ UNCHANGED writes
       \/ /\ half[a] /\ half' = [half EXCEPT ![a] = FALSE]
          /\ tls' = Written(tls, Head(writes[a]))
          /\ writes' = [writes EXCEPT ![a] = Tail(@)]
    /\ UNCHANGED <<restoreVars, pc, serviceLock, open, loaded, busy, asked, stopping,
                   trusted, commits>>

LoadCertificate(p) ==
    /\ pc[p] = "securing" /\ writes[p] = <<>>
    /\ \/ /\ CanLoad(tls) /\ Step(p, "securing", "secured")
          /\ loaded' = [loaded EXCEPT ![p] = tls.cert]
       \/ ~CanLoad(tls) /\ Step(p, "securing", "failed") /\ UNCHANGED loaded
    /\ UNCHANGED <<restoreVars, serviceLock, open, writes, half, busy, asked, stopping,
                   tlsVars, commits>>

\* net.Listen; then the services are registered and Serve runs.
Listen(p) ==
    /\ \/ /\ Step(p, "secured", "serving") /\ UNCHANGED budget
          /\ trusted' = IF /\ loaded[p].signer = tls.rootCert /\ tls.rootKey = tls.rootCert
                           /\ ~Rotating
                        THEN tls.rootCert ELSE trusted
       \/ Fault /\ Step(p, "secured", "failed") /\ UNCHANGED trusted
    /\ UNCHANGED <<main, wal, safety, dbLock, cmd, attached, original, windows,
                   serviceLock, open, writes, half, loaded, busy, asked, stopping,
                   tls, commits>>

\* A connection's close, external (SQLite): the last one copies the log into the database file and
\* removes it, unless the file was removed under it or a request still uses the
\* connection.
CloseDatabase(p) ==
    /\ open' = open \ {p} /\ attached' = attached \ {p}
    /\ IF attached = {p} /\ p \notin busy
       THEN main' = Content /\ wal' = Absent
       ELSE UNCHANGED <<main, wal>>

\* What a failed Start gives back, in the reverse order.
FailedStart(p) ==
    /\ \/ /\ Step(p, "failed", "failed_closed") /\ CloseDatabase(p)
          /\ UNCHANGED <<dbLock, serviceLock, budget>>
       \/ /\ Step(p, "failed_closed", "off")
          /\ Release(p, dbLock, dbLock')
          /\ serviceLock' = [serviceLock EXCEPT ![p] = Free]
          /\ UNCHANGED <<main, wal, open, attached>>
    /\ loaded' = [loaded EXCEPT ![p] = Absent]
    /\ UNCHANGED <<safety, cmd, original, windows, writes, half, busy, asked,
                   stopping, tlsVars, commits>>

(***************************************************************************)
(* Serve and Stop                                                          *)
(***************************************************************************)

BeginRequest(p) ==
    /\ Serving(p) /\ stopping[p] = "none" /\ p \notin busy /\ Spend("requests")
    /\ busy' = busy \cup {p}
    /\ UNCHANGED <<main, wal, safety, dbLock, cmd, attached, original, windows, pc,
                   serviceLock, open, writes, half, loaded, asked, stopping, tlsVars,
                   commits>>

\* A request commits to the database, also one that outlives a forced stop; it
\* commits to nothing when the files were removed under its connection.  Rows
\* that continue the original take its place.
Commit(p) ==
    /\ p \in busy /\ p \in open /\ Spend("commits")
    /\ commits' = commits + 1
    /\ wal' = IF p \in attached THEN commits + 1 ELSE wal
    /\ original' = IF p \in attached /\ original = Content THEN Absent ELSE original
    /\ UNCHANGED <<main, safety, dbLock, cmd, attached, windows, runVars,
                   tlsVars>>

EndRequest(p) ==
    /\ p \in busy
    /\ busy' = busy \ {p}
    /\ UNCHANGED <<restoreVars, pc, serviceLock, open, writes, half, loaded, asked,
                   stopping, tlsVars, commits>>

\* A checkpoint of the running server (databaseMaintenanceManager).
Checkpoint(p) ==
    /\ Serving(p) /\ p \in attached /\ wal # Absent
    /\ main' = wal
    /\ UNCHANGED <<wal, safety, dbLock, cmd, attached, original, windows, budget,
                   runVars, tlsVars, commits>>

\* RequestServerShutdown, a signal, or the stop control of the Windows service.
RequestStop(p) ==
    /\ Serving(p) /\ p \notin asked
    /\ asked' = asked \cup {p}
    /\ UNCHANGED <<restoreVars, pc, serviceLock, open, writes, half, loaded, busy,
                   stopping, tlsVars, commits>>

\* Stop: GracefulStop waits for the requests under way ...
Stop(p) ==
    /\ Serving(p) /\ p \in asked /\ stopping[p] = "none"
    /\ stopping' = [stopping EXCEPT ![p] = "graceful"]
    /\ UNCHANGED <<restoreVars, pc, serviceLock, open, writes, half, loaded, busy,
                   asked, tlsVars, commits>>

\* A variant of StopTimeout that goes on waiting for the requests.
StopWithoutTimeout(p) ==
    /\ Serving(p) /\ stopping[p] = "graceful" /\ p \notin busy
    /\ stopping' = [stopping EXCEPT ![p] = "forced"]
    /\ UNCHANGED <<restoreVars, pc, serviceLock, open, writes, half, loaded, busy,
                   asked, tlsVars, commits>>

\* ... and when the time is over the connections are closed without waiting.
StopTimeout(p) ==
    /\ Serving(p) /\ stopping[p] = "graceful" /\ p \in busy
    /\ stopping' = [stopping EXCEPT ![p] = "forced"]
    /\ UNCHANGED <<restoreVars, pc, serviceLock, open, writes, half, loaded, busy,
                   asked, tlsVars, commits>>

\* Serve returns, after a stop or with an error of the listener.  cleanup
\* closes the build service, the log hook and the janitors and releases the
\* service lock.
ServeReturns(p) ==
    /\ Step(p, "serving", "closing")
    /\ \/ /\ stopping[p] = "forced" \/ (stopping[p] = "graceful" /\ p \notin busy)
          /\ \E lock \in {Free, Stale} :
                /\ Release(p, p, lock)
                /\ serviceLock' = [serviceLock EXCEPT ![p] = lock]
       \/ /\ stopping[p] = "none" /\ Fault
          /\ serviceLock' = [serviceLock EXCEPT ![p] = Free]
    /\ UNCHANGED <<main, wal, safety, dbLock, cmd, attached, original, windows, open,
                   writes, half, loaded, busy, asked, stopping, tlsVars, commits>>

\* cleanup releases the lock of the database ...
ReleaseDatabaseLock(p) ==
    /\ Step(p, "closing", "released")
    /\ Release(p, dbLock, dbLock')
    /\ UNCHANGED <<main, wal, safety, cmd, attached, original, windows, serviceLock,
                   open, writes, half, loaded, busy, asked, stopping, tlsVars, commits>>

\* What is left of a process that is gone.
Vanish(p) ==
    /\ busy' = busy \ {p} /\ asked' = asked \ {p}
    /\ stopping' = [stopping EXCEPT ![p] = "none"]
    /\ loaded' = [loaded EXCEPT ![p] = Absent]

\* ... and closes the database after that; Wait returns and the process ends, a
\* request that is still running with it.
CloseAndExit(p) ==
    /\ Step(p, "released", "off")
    /\ CloseDatabase(p)
    /\ Vanish(p)
    /\ UNCHANGED <<safety, dbLock, cmd, original, windows, budget, serviceLock, writes,
                   half, tlsVars, commits>>

(***************************************************************************)
(* The operator's commands and deaths                                      *)
(***************************************************************************)

Restore(safe) ==
    /\ BeginRestore(safe)
    /\ UNCHANGED <<runVars, tlsVars, commits>>

RestoreAdvances ==
    /\ RestoreStep
    /\ UNCHANGED <<runVars, tlsVars, commits>>

\* The -rotate-tls command; asking for a new root is what makes the clients
\* import it again.
RotateTLS(newRoot) ==
    LET plan == RotateTLSArtifacts(tls, newRoot, UsedPairs)
    IN /\ cmd = Idle
       /\ Spend("rotations")
       /\ plan.ok
       /\ cmd' = [op |-> "rotate", at |-> "write", option |-> newRoot, copied |-> TRUE]
       /\ writes' = [writes EXCEPT ![Operator] = plan.writes]
       /\ trusted' = IF newRoot THEN Absent ELSE trusted
       /\ UNCHANGED <<main, wal, safety, dbLock, attached, original, windows, pc,
                      serviceLock, open, half, loaded, busy, asked, stopping, tls,
                      commits>>

RotationEnds ==
    /\ cmd # Idle /\ cmd.op = "rotate" /\ writes[Operator] = <<>>
    /\ cmd' = Idle
    /\ UNCHANGED <<main, wal, safety, dbLock, attached, original, windows, budget,
                   runVars, tlsVars, commits>>

\* The validity period of the server certificate ends.
CertificateExpires ==
    /\ Readable(tls, "cert") /\ tls.cert.live /\ Spend("expiries")
    /\ tls' = [tls EXCEPT !.cert.live = FALSE]
    /\ UNCHANGED <<main, wal, safety, dbLock, cmd, attached, original, windows, runVars,
                   trusted, commits>>

\* A server process is killed: a half written TLS file stays so.
Crash(p) ==
    /\ pc[p] # "off" /\ Fault
    /\ pc' = [pc EXCEPT ![p] = "off"]
    /\ serviceLock' = [serviceLock EXCEPT ![p] = LockAfterDeath(p, @)]
    /\ dbLock' = LockAfterDeath(p, dbLock)
    /\ open' = open \ {p} /\ attached' = attached \ {p}
    /\ writes' = [writes EXCEPT ![p] = <<>>] /\ half' = [half EXCEPT ![p] = FALSE]
    /\ Vanish(p)
    /\ UNCHANGED <<main, wal, safety, cmd, original, windows, tlsVars, commits>>

\* The operator's command is killed; a copy under way is cut off.
CrashCommand ==
    /\ cmd # Idle /\ Fault
    /\ cmd' = Idle
    /\ dbLock' = LockAfterDeath(Operator, dbLock)
    /\ main' \in IF At("rollback_copy") THEN {main, Torn} ELSE {main}
    /\ safety' \in IF At("safety") /\ cmd.option THEN {safety, Torn} ELSE {safety}
    /\ writes' = [writes EXCEPT ![Operator] = <<>>]
    /\ half' = [half EXCEPT ![Operator] = FALSE]
    /\ UNCHANGED <<wal, attached, original, windows, pc, serviceLock, open, loaded, busy,
                   asked, stopping, tlsVars, commits>>

\* What the goroutines of a process do by themselves.
Advance(p) ==
    \/ TakeDatabaseLock(p) \/ OpenDatabase(p)
    \/ EnsureCertificate(p) \/ WriteArtifact(p) \/ LoadCertificate(p) \/ Listen(p)
    \/ FailedStart(p) \/ Stop(p) \/ StopTimeout(p) \/ ServeReturns(p)
    \/ ReleaseDatabaseLock(p) \/ CloseAndExit(p)

Next ==
    \/ \E p \in Servers :
          \/ StartServer(p) \/ Advance(p) \/ RequestStop(p) \/ Crash(p)
          \/ BeginRequest(p) \/ Commit(p) \/ EndRequest(p) \/ Checkpoint(p)
    \/ \E b \in BOOLEAN : Restore(b) \/ RotateTLS(b)
    \/ RestoreAdvances \/ WriteArtifact(Operator) \/ RotationEnds
    \/ CertificateExpires \/ CrashCommand

\* The scheduler runs the goroutines of a process that is alive.  Nothing is
\* assumed of the requests: one may never end.
Spec == Init /\ [][Next]_vars /\ \A p \in Servers : WF_vars(Advance(p))

(***************************************************************************)
(* Properties                                                              *)
(***************************************************************************)

TypeOK ==
    /\ {main, wal, safety, original} \subseteq (0 .. commits) \cup {Absent, Torn, Backup}
    /\ dbLock \in Actors \cup {Free, Stale}
    /\ \A p \in Servers : serviceLock[p] \in {p, Free, Stale}
    /\ attached \subseteq open /\ open \subseteq Servers
    /\ busy \subseteq Servers /\ asked \subseteq Servers

\* The database has one user: while a server process accepts requests no other
\* process does, and no restore is under way, however starts, failed starts,
\* stops, restores and deaths overlap (Start, RestoreFromBackup, the lock files).
\* A process that has released its locks in cleanup no longer counts as a user.
DatabaseServedAlone ==
    \A p \in Servers :
        Serving(p) => /\ \A q \in Servers \ {p} : ~Serving(q)
                      /\ ~(cmd # Idle /\ cmd.op = "restore")

\* A restore with a safety copy that finds the database closed, with an empty
\* log, does not lose its rows: at every step, after every failure, roll-back
\* and death they are in the database or in the safety copy; and a restore that
\* answers with success has put the backup in place.
RestoreKeepsOriginal ==
    /\ original # Absent => original \in {safety, main}
    /\ At("restored") => Content = Backup

\* A client that trusts the root under which a server began to serve, while no
\* rotation was under way, goes on trusting the server: until the operator asks
\* for a new root, the root certificate on disk stays the same through restarts,
\* expiries, rotations of the server certificate and deaths in the middle of
\* them, and a server that serves has a certificate of the root of its start.
ClientsKeepTrust ==
    trusted # Absent => /\ tls.rootCert = trusted
                        /\ \A p \in Servers : Serving(p) => loaded[p].signer = trusted

\* A start ends with a serving process or with a process that has given back
\* its locks, and a stop that was asked for ends the process, even with a
\* request that never returns (Start, Stop, cleanup).  A start that is refused,
\* also because of a lock file that a dead process left, has ended.
Gone(p) == pc[p] = "off" /\ serviceLock[p] # p /\ dbLock # p
StartsAndStopsEnd ==
    \A p \in Servers :
        (p \in Starting \cup asked) ~> ((Serving(p) /\ p \notin asked) \/ Gone(p))
=============================================================================
