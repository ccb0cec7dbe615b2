--------------------------- MODULE Services_proofs ---------------------------
(***************************************************************************)
(* What the callers of two services may conclude from the answers they     *)
(* got, for any number of them, of calls at a time and of failures.        *)
(*                                                                         *)
(* ControlPlaneService: the number of a policy revision names its policy,  *)
(* a cleared pull flag means that the policy handed out last is the        *)
(* current one, no action is swallowed, and the console takes a device for *)
(* offline as its last report says.                                        *)
(*                                                                         *)
(* LockService: a lock that a client counts on is held, for any ttl (also  *)
(* one that overflows a time.Duration) and any resolution of the clock.    *)
(***************************************************************************)
EXTENDS ControlPlane, LockManager, TLAPS

-----------------------------------------------------------------------------
(* Devices                                                                 *)

\* The parts of the types that the arguments need.
Shape ==
    /\ DOMAIN device = Devices /\ DOMAIN policy = Devices
    /\ DOMAIN held = Devices /\ DOMAIN handed = Devices
    /\ DOMAIN pc = Callers /\ DOMAIN req = Callers /\ DOMAIN read = Callers
    /\ \A d \in Devices :
        /\ "known" \in DOMAIN device[d] /\ "rev" \in DOMAIN device[d] /\ "pull" \in DOMAIN device[d]
        /\ device[d].known \in BOOLEAN /\ device[d].rev \in Nat /\ device[d].pull \in BOOLEAN
        /\ held[d].rev \in Nat
    /\ \A c \in Callers :
        /\ "rev" \in DOMAIN read[c] /\ "policy" \in DOMAIN read[c] /\ "ids" \in DOMAIN read[c]
        /\ read[c].rev \in Nat
        /\ req[c].device \in Devices

\* Where a call of GetAssignedConfig may be.
ConfigStages ==
    /\ \A c \in Callers : req[c].op = "config" => pc[c] \in {"idle", "get", "mark", "policy", "reply"}
    /\ \A c \in Callers : pc[c] \in {"mark", "policy"} => req[c].op = "config"
    /\ \A c \in Callers : pc[c] = "get" => req[c].op \in {"config", "update", "action", "upload"}

\* The call c has read the revision of device d, and its policy too when it is
\* about to answer.
Fetching(c, d) == req[c].op = "config" /\ req[c].device = d /\ pc[c] \in {"mark", "policy", "reply"}

\* Revisions of a device grow as long as no two updates of it overlap: what a
\* device has, and what a call is about to give it, is not newer than the row,
\* and under the number of the row it is the policy of the row.
RevisionBehind(d) ==
    /\ device[d].known => device[d].rev > 0
    /\ held[d].rev = 0 \/ (device[d].known /\ held[d].rev <= device[d].rev)
    /\ held[d].rev = device[d].rev /\ device[d].known => held[d].policy = policy[d]
    /\ \A c \in Callers : Fetching(c, d) =>
        /\ device[d].known /\ 0 < read[c].rev /\ read[c].rev <= device[d].rev
        /\ pc[c] = "reply" /\ read[c].rev = device[d].rev => read[c].policy = policy[d]
RevisionsBehind == \A d \in Devices \ raced : RevisionBehind(d)

ConfigInv == Shape /\ ConfigStages /\ RevisionsBehind /\ PulledIsCurrent

\* Every request names a device.
LEMMA RequestDevice ==
    ASSUME NEW r \in AdminRequests \cup DeviceRequests
    PROVE  r.device \in Devices
<1>1. CASE r \in AdminRequests
  BY <1>1, RequestAssumption DEF AdminRequest
<1>2. CASE r \in DeviceRequests
  BY <1>2, RequestAssumption DEF DeviceRequest
<1> QED
  BY <1>1, <1>2

\* Nor is a goroutine that serves no call without one.
LEMMA NoRequestDevice == NoRequest.device \in Devices
<1>1. NoRequest \in DeviceRequests
  BY RequestAssumption DEF NoRequest
<1> QED
  BY <1>1, RequestDevice

\* What a step of the registry may do to the rows without an effect on what
\* devices were told: fill in reports, and make the row of a new device.
RowsKept ==
    \A d \in Devices :
        /\ policy'[d] = policy[d]
        /\ \/ /\ device'[d].known = device[d].known /\ device'[d].rev = device[d].rev
              /\ device'[d].pull = device[d].pull
           \/ /\ ~device[d].known /\ device'[d].known /\ device'[d].rev > 0 /\ device'[d].pull

\* A call moves on without being, before or after, between marking a policy as
\* pulled and reading it, and answers no configuration.
LEMMA MovesOn ==
    ASSUME ConfigInv, Shape', ConfigStages', NEW c \in Callers, RowsKept,
           \A e \in Callers \ {c} : pc'[e] = pc[e] /\ req'[e] = req[e] /\ read'[e] = read[e],
           pc[c] # "policy", ~(req'[c].op = "config" /\ pc'[c] \in {"mark", "policy", "reply"}),
           raced' = raced, handed' = handed, held' = held
    PROVE  ConfigInv'
<1>1. RevisionsBehind'
  <2> SUFFICES ASSUME NEW d \in Devices \ raced PROVE RevisionBehind(d)'
    BY DEF RevisionsBehind
  <2>1. RevisionBehind(d) /\ device[d].rev \in Nat /\ device'[d].rev \in Nat /\ held[d].rev \in Nat
        /\ device[d].known \in BOOLEAN /\ device'[d].known \in BOOLEAN
    BY DEF ConfigInv, RevisionsBehind, Shape
  <2>2. \A e \in Callers : Fetching(e, d)' =>
            e # c /\ Fetching(e, d) /\ pc'[e] = pc[e] /\ read'[e] = read[e]
    BY DEF Fetching
  <2>3. CASE device'[d].known = device[d].known /\ device'[d].rev = device[d].rev
    BY <2>1, <2>2, <2>3 DEF RevisionBehind, RowsKept
  <2>4. CASE ~device[d].known /\ device'[d].known /\ device'[d].rev > 0
    <3>1. held[d].rev = 0 /\ \A e \in Callers : ~Fetching(e, d)
      BY <2>1, <2>4 DEF RevisionBehind
    <3> QED
      BY <2>1, <2>2, <2>4, <3>1 DEF RevisionBehind
  <2> QED
    BY <2>3, <2>4 DEF RowsKept
<1>2. PulledIsCurrent'
  <2> SUFFICES ASSUME NEW d \in Devices, device'[d].known, ~device'[d].pull,
                      ~(\E e \in Callers : Unanswered(e)' /\ req'[e].device = d)
               PROVE  handed'[d] \subseteq {policy'[d]}
    BY DEF PulledIsCurrent, Dev
  <2>1. device[d].known /\ ~device[d].pull /\ policy'[d] = policy[d]
    BY DEF RowsKept
  <2>2. ~(\E e \in Callers : Unanswered(e) /\ Dev(e) = d)
    BY DEF Unanswered, Dev
  <2> QED
    BY <2>1, <2>2 DEF ConfigInv, PulledIsCurrent
<1> QED
  BY <1>1, <1>2 DEF ConfigInv

\* The state of the one call that a step is about.
Moved(c, stage) ==
    /\ pc'[c] = stage /\ req'[c] = req[c] /\ read'[c] = read[c]
    /\ \A e \in Callers \ {c} : pc'[e] = pc[e] /\ req'[e] = req[e] /\ read'[e] = read[e]
    /\ DOMAIN pc' = Callers /\ DOMAIN req' = Callers /\ DOMAIN read' = Callers
Over(c) ==
    /\ pc'[c] = "idle" /\ req'[c] = NoRequest /\ read'[c] = NothingRead
    /\ \A e \in Callers \ {c} : pc'[e] = pc[e] /\ req'[e] = req[e] /\ read'[e] = read[e]
    /\ DOMAIN pc' = Callers /\ DOMAIN req' = Callers /\ DOMAIN read' = Callers

\* A call that goes on to another statement.
LEMMA GotoMoves ==
    ASSUME Shape, NEW c \in Callers, NEW stage, Goto(c, stage), req' = req, read' = read
    PROVE  Moved(c, stage)
BY DEF Shape, Goto, Moved

\* A goroutine that has ended.
LEMMA EndedIsOver ==
    ASSUME Shape, NEW c \in Callers, Ended(c)
    PROVE  Over(c)
BY DEF Shape, Ended, Goto, Over

\* The types of the rows and of what devices hold.
RowShape ==
    /\ DOMAIN device = Devices /\ DOMAIN policy = Devices
    /\ DOMAIN held = Devices /\ DOMAIN handed = Devices
    /\ \A d \in Devices :
        /\ "known" \in DOMAIN device[d] /\ "rev" \in DOMAIN device[d] /\ "pull" \in DOMAIN device[d]
        /\ device[d].known \in BOOLEAN /\ device[d].rev \in Nat /\ device[d].pull \in BOOLEAN
        /\ held[d].rev \in Nat

\* Neither changes the types of the other calls.
LEMMA MovedShape ==
    ASSUME Shape, RowShape', NEW c \in Callers, NEW stage, Moved(c, stage)
    PROVE  Shape'
BY DEF Shape, RowShape, Moved

\* The same for a goroutine that has ended.
LEMMA OverShape ==
    ASSUME Shape, RowShape', NEW c \in Callers, Over(c)
    PROVE  Shape'
<1>1. "rev" \in DOMAIN NothingRead /\ "policy" \in DOMAIN NothingRead /\ "ids" \in DOMAIN NothingRead
      /\ NothingRead.rev \in Nat
  BY DEF NothingRead
<1> QED
  BY <1>1, NoRequestDevice DEF Shape, RowShape, Over

\* A step that leaves the rows and what devices hold alone.
LEMMA RowsUntouched ==
    ASSUME ConfigInv, device' = device, policy' = policy, held' = held, handed' = handed
    PROVE  RowShape' /\ RowsKept
BY DEF ConfigInv, Shape, RowShape, RowsKept

\* A call that ends, with an answer or an error, while nothing else happens.
LEMMA CallEnds ==
    ASSUME ConfigInv, NEW c \in Callers, Ended(c), pc[c] # "policy",
           device' = device, policy' = policy, held' = held, handed' = handed, raced' = raced
    PROVE  ConfigInv'
<1>1. Over(c)
  BY EndedIsOver DEF ConfigInv
<1>2. RowShape' /\ RowsKept
  BY RowsUntouched
<1>3. Shape'
  BY <1>1, <1>2, OverShape DEF ConfigInv
<1>4. ConfigStages'
  BY <1>1 DEF ConfigInv, ConfigStages, Over
<1> QED
  BY <1>1, <1>2, <1>3, <1>4, MovesOn DEF Over

\* A call of another kind than GetAssignedConfig moves on.
LEMMA OtherCallMoves ==
    ASSUME ConfigInv, NEW c \in Callers, NEW stage, Moved(c, stage), RowShape', RowsKept,
           req[c].op # "config", stage \notin {"get", "mark", "policy"},
           held' = held, handed' = handed, raced' = raced
    PROVE  ConfigInv'
<1>1. Shape'
  BY MovedShape DEF ConfigInv
<1>2. ConfigStages'
  BY DEF ConfigInv, ConfigStages, Moved
<1>3. pc[c] # "policy"
  BY DEF ConfigInv, ConfigStages
<1> QED
  BY <1>1, <1>2, <1>3, MovesOn DEF Moved

\* Begin: a request of either kind.
LEMMA BeginStep ==
    ASSUME ConfigInv, NEW c \in Callers, NEW r \in AdminRequests \cup DeviceRequests, Begin(c, r)
    PROVE  ConfigInv'
<1>1. /\ pc[c] = "idle" /\ pc'[c] = FirstStage(r.op) /\ req'[c] = r /\ read' = read
      /\ \A e \in Callers \ {c} : pc'[e] = pc[e] /\ req'[e] = req[e] /\ read'[e] = read[e]
      /\ DOMAIN pc' = Callers /\ DOMAIN req' = Callers
  BY DEF Begin, Goto, ConfigInv, Shape
<1>2. /\ device' = device /\ policy' = policy /\ held' = held /\ handed' = handed /\ raced' = raced
  BY DEF Begin, regVars
<1>3. RowShape' /\ RowsKept
  BY <1>2, RowsUntouched
<1>4. Shape'
  BY <1>1, <1>3, RequestDevice DEF ConfigInv, Shape, RowShape
<1>5. r.op \in {"update", "action", "register", "heartbeat", "config", "upload", "sync", "mount"}
  <2>1. CASE r \in AdminRequests
    BY <2>1, RequestAssumption DEF AdminRequest
  <2>2. CASE r \in DeviceRequests
    BY <2>2, RequestAssumption DEF DeviceRequest
  <2> QED
    BY <2>1, <2>2
<1>6. /\ FirstStage(r.op) \in {"get", "beat", "report"} /\ (r.op = "config" => FirstStage(r.op) = "get")
      /\ FirstStage(r.op) = "get" => r.op \in {"config", "update", "action", "upload"}
  BY <1>5 DEF FirstStage
<1>7. ConfigStages'
  BY <1>1, <1>6 DEF ConfigInv, ConfigStages
<1> QED
  BY <1>1, <1>2, <1>3, <1>4, <1>6, <1>7, MovesOn

\* Reports fill in a row and keep its revision and its flag; a first
\* registration makes one.
LEMMA ReportStep ==
    ASSUME ConfigInv, NEW c \in Callers,
           RegisterDevice(c) \/ ReportSyncState(c) \/ ReportMountState(c) \/ Heartbeat(c)
    PROVE  ConfigInv'
<1>1. PICK stage \in {"reply", "list"} : Reported(c, stage)
  BY DEF RegisterDevice, ReportSyncState, ReportMountState, Heartbeat
<1>2. Moved(c, stage) /\ held' = held /\ handed' = handed /\ raced' = raced
  BY <1>1, GotoMoves DEF Reported, ConfigInv
<1>3. req[c].op # "config"
  BY DEF RegisterDevice, ReportSyncState, ReportMountState, Heartbeat, ConfigInv, ConfigStages
<1> DEFINE d == req[c].device
<1>4. d \in Devices
  BY DEF ConfigInv, Shape
<1>5. policy' = policy /\ DOMAIN device' = Devices /\ \A e \in Devices \ {d} : device'[e] = device[e]
  BY <1>4 DEF RegisterDevice, ReportSyncState, ReportMountState, Heartbeat, Register,
       UpdateSyncState, UpdateMountState, UpdateHeartbeat, Dev, ConfigInv, Shape
<1>6. /\ "known" \in DOMAIN device'[d] /\ "rev" \in DOMAIN device'[d] /\ "pull" \in DOMAIN device'[d]
      /\ \/ /\ device'[d].known = device[d].known /\ device'[d].rev = device[d].rev
            /\ device'[d].pull = device[d].pull
         \/ /\ ~device[d].known /\ device'[d].known = TRUE /\ device'[d].rev = DefaultRevision
            /\ device'[d].pull = TRUE
  <2>1. /\ "known" \in DOMAIN device[d] /\ "rev" \in DOMAIN device[d] /\ "pull" \in DOMAIN device[d]
        /\ DOMAIN device = Devices /\ device[d].known \in BOOLEAN
    BY <1>4 DEF ConfigInv, Shape
  <2>2. CASE RegisterDevice(c)
    <3>1. CASE device[d].known
      <4>1. device'[d] = [device[d] EXCEPT !.known = TRUE, !.provider = req[c].provider,
                              !.overlay = TRUE, !.grpc = TRUE, !.seen = now]
        BY <1>4, <2>1, <2>2, <3>1 DEF RegisterDevice, Register, Dev
      <4> QED
        BY <2>1, <3>1, <4>1
    <3>2. CASE ~device[d].known
      <4> DEFINE new == [NoDevice EXCEPT !.rev = DefaultRevision, !.pull = TRUE]
      <4>1. device'[d] = [new EXCEPT !.known = TRUE, !.provider = req[c].provider,
                              !.overlay = TRUE, !.grpc = TRUE, !.seen = now]
        BY <1>4, <2>1, <2>2, <3>2 DEF RegisterDevice, Register, Dev
      <4>2. /\ "known" \in DOMAIN new /\ "rev" \in DOMAIN new /\ "pull" \in DOMAIN new
            /\ new.rev = DefaultRevision /\ new.pull = TRUE
        BY DEF NoDevice
      <4> HIDE DEF new
      <4> QED
        BY <3>2, <4>1, <4>2
    <3> QED
      BY <3>1, <3>2
  <2>3. CASE Heartbeat(c)
    BY <1>4, <2>1, <2>3 DEF Heartbeat, UpdateHeartbeat, Dev
  <2>4. CASE ReportSyncState(c)
    BY <1>4, <2>1, <2>4 DEF ReportSyncState, UpdateSyncState, Dev
  <2>5. CASE ReportMountState(c)
    BY <1>4, <2>1, <2>5 DEF ReportMountState, UpdateMountState, Dev
  <2> QED
    BY <2>2, <2>3, <2>4, <2>5
<1>7. DefaultRevision \in Nat \ {0}
  BY RegistryAssumption
<1>8. RowShape'
  BY <1>2, <1>4, <1>5, <1>6, <1>7 DEF ConfigInv, Shape, RowShape
<1>9. RowsKept
  BY <1>4, <1>5, <1>6, <1>7 DEF RowsKept
<1> QED
  BY <1>2, <1>3, <1>8, <1>9, OtherCallMoves

\* registry.Get: a GetAssignedConfig has read the revision now.
LEMMA GetDeviceStep ==
    ASSUME ConfigInv, NEW c \in Callers, GetDevice(c)
    PROVE  ConfigInv'
<1>1. /\ device' = device /\ policy' = policy /\ held' = held /\ handed' = handed /\ raced' = raced
      /\ pc[c] = "get" /\ device[req[c].device].known
  BY DEF GetDevice, regVars, Dev
<1>2. CASE Ended(c)
  BY <1>1, <1>2, CallEnds
<1>3. CASE ~Ended(c)
  <2> DEFINE d == req[c].device
  <2>0. d \in Devices /\ "rev" \in DOMAIN read[c] /\ "policy" \in DOMAIN read[c] /\ "ids" \in DOMAIN read[c]
    BY DEF ConfigInv, Shape
  <2>1. /\ req' = req /\ read'[c].rev = device[d].rev
        /\ "rev" \in DOMAIN read'[c] /\ "policy" \in DOMAIN read'[c] /\ "ids" \in DOMAIN read'[c]
        /\ \A e \in Callers \ {c} : pc'[e] = pc[e] /\ read'[e] = read[e]
        /\ DOMAIN pc' = Callers /\ DOMAIN read' = Callers
    BY <1>3, <2>0 DEF GetDevice, Goto, Dev, ConfigInv, Shape
  <2>2. /\ req[c].op = "config" => pc'[c] = "mark"
        /\ req[c].op \in {"update", "action", "upload"} => pc'[c] \in {"write", "enqueue", "insert"}
    BY <1>3 DEF GetDevice, Goto, ConfigInv, Shape
  <2>3. RowShape' /\ RowsKept
    BY <1>1, RowsUntouched
  <2>4. Shape'
    BY <1>1, <2>0, <2>1, <2>3 DEF ConfigInv, Shape, RowShape
  <2>5. req[c].op \in {"config", "update", "action", "upload"}
    BY <1>1 DEF ConfigInv, ConfigStages
  <2>6. ConfigStages'
    BY <2>1, <2>2, <2>5 DEF ConfigInv, ConfigStages
  <2>7. CASE req[c].op # "config"
    BY <1>1, <2>1, <2>3, <2>4, <2>6, <2>7, MovesOn
  <2>8. CASE req[c].op = "config"
    <3>1. pc'[c] = "mark"
      BY <2>2, <2>8
    <3>2. PulledIsCurrent'
      <4> SUFFICES ASSUME NEW e \in Devices, device[e].known, ~device[e].pull,
                          ~(\E a \in Callers : Unanswered(a)' /\ req'[a].device = e)
                   PROVE  handed[e] \subseteq {policy[e]}
        BY <1>1 DEF PulledIsCurrent, Dev
      <4>1. ~(\E a \in Callers : Unanswered(a) /\ Dev(a) = e)
        BY <1>1, <2>1 DEF Unanswered, Dev
      <4> QED
        BY <4>1 DEF ConfigInv, PulledIsCurrent
    <3>3. RevisionsBehind'
      <4> SUFFICES ASSUME NEW e \in Devices \ raced PROVE RevisionBehind(e)'
        BY <1>1 DEF RevisionsBehind
      <4>1. RevisionBehind(e) /\ device[e].rev \in Nat
        BY DEF ConfigInv, RevisionsBehind, Shape
      <4>2. \A a \in Callers \ {c} : Fetching(a, e)' <=> Fetching(a, e)
        BY <2>1 DEF Fetching
      <4>3. Fetching(c, e)' => e = d
        BY <2>1 DEF Fetching
      <4> QED
        BY <1>1, <2>1, <3>1, <4>1, <4>2, <4>3 DEF RevisionBehind
    <3> QED
      BY <2>4, <2>6, <3>2, <3>3 DEF ConfigInv
  <2> QED
    BY <2>7, <2>8
<1> QED
  BY <1>2, <1>3

\* GetAssignedConfig clears the flag: from here to the read it is unanswered.
LEMMA MarkPulledStep ==
    ASSUME ConfigInv, NEW c \in Callers, MarkPulled(c)
    PROVE  ConfigInv'
<1> DEFINE d == req[c].device
<1>1. pc[c] = "mark" /\ req[c].op = "config" /\ d \in Devices
  BY DEF MarkPulled, ConfigInv, ConfigStages, Shape
<1>2. Moved(c, "policy") /\ held' = held /\ handed' = handed /\ raced' = raced /\ policy' = policy
  BY GotoMoves DEF MarkPulled, MarkPolicyPulled, ConfigInv
<1>3. DOMAIN device' = Devices /\ \A e \in Devices \ {d} : device'[e] = device[e]
  BY <1>1 DEF MarkPulled, MarkPolicyPulled, Dev, ConfigInv, Shape
<1>4. /\ "known" \in DOMAIN device'[d] /\ "rev" \in DOMAIN device'[d] /\ "pull" \in DOMAIN device'[d]
      /\ device'[d].known = device[d].known /\ device'[d].rev = device[d].rev /\ device'[d].pull = FALSE
  BY <1>1 DEF MarkPulled, MarkPolicyPulled, Dev, ConfigInv, Shape
<1>5. RowShape'
  BY <1>2, <1>3, <1>4 DEF RowShape, ConfigInv, Shape
<1>6. Shape'
  BY <1>2, <1>5, MovedShape DEF ConfigInv
<1>7. ConfigStages'
  BY <1>1, <1>2 DEF ConfigInv, ConfigStages, Moved
<1>8. RevisionsBehind'
  <2> SUFFICES ASSUME NEW e \in Devices \ raced PROVE RevisionBehind(e)'
    BY <1>2 DEF RevisionsBehind
  <2>1. RevisionBehind(e) /\ device'[e].known = device[e].known /\ device'[e].rev = device[e].rev
    BY <1>3, <1>4 DEF ConfigInv, RevisionsBehind
  <2>2. \A a \in Callers : Fetching(a, e)' => Fetching(a, e) /\ (pc'[a] = "reply" => pc[a] = "reply")
    BY <1>1, <1>2 DEF Fetching, Moved
  <2>3. \A a \in Callers : read'[a] = read[a]
    BY <1>2 DEF Moved
  <2> QED
    BY <1>2, <2>1, <2>2, <2>3 DEF RevisionBehind
<1>9. PulledIsCurrent'
  <2> SUFFICES ASSUME NEW e \in Devices, device'[e].known, ~device'[e].pull,
                      ~(\E a \in Callers : Unanswered(a)' /\ req'[a].device = e)
               PROVE  handed[e] \subseteq {policy[e]}
    BY <1>2 DEF PulledIsCurrent, Dev
  <2>1. e # d
    BY <1>2 DEF Unanswered, Moved
  <2>2. ~(\E a \in Callers : Unanswered(a) /\ Dev(a) = e)
    BY <1>1, <1>2 DEF Unanswered, Dev, Moved
  <2> QED
    BY <1>3, <2>1, <2>2 DEF ConfigInv, PulledIsCurrent
<1> QED
  BY <1>6, <1>7, <1>8, <1>9 DEF ConfigInv

\* GetAssignedConfig reads the policy after the revision and after the flag.
LEMMA GetPolicyStep ==
    ASSUME ConfigInv, NEW c \in Callers, GetPolicy(c)
    PROVE  ConfigInv'
<1> DEFINE d == req[c].device
<1>0. "rev" \in DOMAIN read[c] /\ "policy" \in DOMAIN read[c] /\ "ids" \in DOMAIN read[c]
  BY DEF ConfigInv, Shape
<1>1. pc[c] = "policy" /\ req[c].op = "config" /\ d \in Devices
  BY DEF GetPolicy, ConfigInv, ConfigStages, Shape
<1>2. /\ device' = device /\ policy' = policy /\ held' = held /\ raced' = raced /\ req' = req
      /\ DOMAIN pc' = Callers /\ DOMAIN read' = Callers /\ DOMAIN handed' = Devices
  BY DEF GetPolicy, regVars, Goto, ConfigInv, Shape
<1>3. /\ pc'[c] = "reply" /\ read'[c].rev = read[c].rev /\ read'[c].policy = policy[d]
      /\ "rev" \in DOMAIN read'[c] /\ "policy" \in DOMAIN read'[c] /\ "ids" \in DOMAIN read'[c]
  BY <1>0 DEF GetPolicy, GetPolicyRow, Goto, Dev, ConfigInv, Shape
<1>4. \A e \in Callers \ {c} : pc'[e] = pc[e] /\ read'[e] = read[e]
  BY DEF GetPolicy, Goto, ConfigInv, Shape
<1>5. handed'[d] = {policy[d]} /\ \A e \in Devices \ {d} : handed'[e] = handed[e]
  BY <1>1 DEF GetPolicy, GetPolicyRow, Dev, ConfigInv, Shape
<1>6. Shape'
  BY <1>2, <1>3, <1>4 DEF ConfigInv, Shape
<1>7. ConfigStages'
  BY <1>2, <1>3, <1>4 DEF ConfigInv, ConfigStages
<1>8. RevisionsBehind'
  <2> SUFFICES ASSUME NEW e \in Devices \ raced PROVE RevisionBehind(e)'
    BY <1>2 DEF RevisionsBehind
  <2>1. RevisionBehind(e)
    BY DEF ConfigInv, RevisionsBehind
  <2>2. \A a \in Callers \ {c} : Fetching(a, e)' <=> Fetching(a, e)
    BY <1>2, <1>4 DEF Fetching
  <2>3. Fetching(c, e)' => e = d /\ Fetching(c, e)
    BY <1>1, <1>2, <1>3 DEF Fetching
  <2> QED
    BY <1>2, <1>3, <1>4, <2>1, <2>2, <2>3 DEF RevisionBehind
<1>9. PulledIsCurrent'
  <2> SUFFICES ASSUME NEW e \in Devices, device[e].known, ~device[e].pull,
                      ~(\E a \in Callers : Unanswered(a)' /\ req[a].device = e)
               PROVE  handed'[e] \subseteq {policy[e]}
    BY <1>2 DEF PulledIsCurrent, Dev
  <2>1. CASE e = d
    BY <1>5, <2>1
  <2>2. CASE e # d
    <3>1. ~(\E a \in Callers : Unanswered(a) /\ Dev(a) = e)
      BY <1>4, <2>2 DEF Unanswered, Dev
    <3> QED
      BY <1>5, <2>2, <3>1 DEF ConfigInv, PulledIsCurrent
  <2> QED
    BY <2>1, <2>2
<1> QED
  BY <1>6, <1>7, <1>8, <1>9 DEF ConfigInv

\* The answer of GetAssignedConfig reaches the device, or is lost.
LEMMA AnswerStep ==
    ASSUME ConfigInv, NEW c \in Callers, Answer(c)
    PROVE  ConfigInv'
<1> DEFINE d == req[c].device
<1>1. /\ device' = device /\ policy' = policy /\ handed' = handed /\ raced' = raced
      /\ pc[c] = "reply" /\ d \in Devices
  BY DEF Answer, regVars, ConfigInv, Shape
<1>2. CASE held' = held
  BY <1>1, <1>2, CallEnds DEF Answer
<1>3. CASE /\ req[c].op = "config"
           /\ held' = [held EXCEPT ![d] = [rev |-> read[c].rev, policy |-> read[c].policy]]
  <2>1. Over(c)
    BY EndedIsOver DEF Answer, ConfigInv
  <2>2. /\ DOMAIN held' = Devices /\ held'[d].rev = read[c].rev /\ held'[d].policy = read[c].policy
        /\ \A e \in Devices \ {d} : held'[e] = held[e]
    BY <1>1, <1>3 DEF ConfigInv, Shape
  <2>3. RowShape'
    BY <1>1, <2>2 DEF ConfigInv, Shape, RowShape
  <2>4. Shape'
    BY <2>1, <2>3, OverShape DEF ConfigInv
  <2>5. ConfigStages'
    BY <2>1 DEF ConfigInv, ConfigStages, Over
  <2>6. RevisionsBehind'
    <3> SUFFICES ASSUME NEW e \in Devices \ raced PROVE RevisionBehind(e)'
      BY <1>1 DEF RevisionsBehind
    <3>1. RevisionBehind(e)
      BY DEF ConfigInv, RevisionsBehind
    <3>2. \A a \in Callers : Fetching(a, e)' => Fetching(a, e) /\ pc'[a] = pc[a] /\ read'[a] = read[a]
      BY <2>1 DEF Fetching, Over
    <3>3. CASE e = d
      <4>1. Fetching(c, e)
        BY <1>1, <1>3, <3>3 DEF Fetching
      <4> QED
        BY <1>1, <2>2, <3>1, <3>2, <3>3, <4>1 DEF RevisionBehind
    <3>4. CASE e # d
      BY <1>1, <2>2, <3>1, <3>2, <3>4 DEF RevisionBehind
    <3> QED
      BY <3>3, <3>4
  <2>7. PulledIsCurrent'
    <3> SUFFICES ASSUME NEW e \in Devices, device[e].known, ~device[e].pull,
                        ~(\E a \in Callers : Unanswered(a)' /\ req'[a].device = e)
                 PROVE  handed[e] \subseteq {policy[e]}
      BY <1>1 DEF PulledIsCurrent, Dev
    <3>1. ~(\E a \in Callers : Unanswered(a) /\ Dev(a) = e)
      BY <1>1, <2>1 DEF Unanswered, Dev, Over
    <3> QED
      BY <3>1 DEF ConfigInv, PulledIsCurrent
  <2> QED
    BY <2>4, <2>5, <2>6, <2>7 DEF ConfigInv
<1> QED
  BY <1>2, <1>3 DEF Answer, Dev

\* UpdateDevicePolicy writes the policy and its number in one transaction; the
\* number is a new one unless the row has changed since it was read.
LEMMA UpdateStep ==
    ASSUME ConfigInv, NEW c \in Callers, UpdateDevicePolicy(c)
    PROVE  ConfigInv'
<1> DEFINE d == req[c].device
           next == read[c].rev + 1
<1>1. pc[c] = "write" /\ d \in Devices /\ req[c].op # "config" /\ read[c].rev \in Nat
  BY DEF UpdateDevicePolicy, ConfigInv, ConfigStages, Shape
<1>2. /\ held' = held /\ handed' = handed
      /\ raced' = IF device[d].rev = read[c].rev THEN raced ELSE raced \cup {d}
  BY DEF UpdateDevicePolicy
<1>3. PICK stage \in {"reply", "reread"} : Moved(c, stage)
  <2>1. req' = req /\ read' = read /\ (Goto(c, "reply") \/ Goto(c, "reread"))
    BY DEF UpdateDevicePolicy
  <2> QED
    BY <2>1, GotoMoves DEF ConfigInv
<1>4. /\ device' = [device EXCEPT ![d].rev = next, ![d].pull = TRUE]
      /\ DOMAIN policy' = Devices /\ \A e \in Devices \ {d} : policy'[e] = policy[e]
  BY <1>1 DEF UpdateDevicePolicy, ResetPolicy, UpsertPolicy, ConfigInv, Shape
<1>5. /\ DOMAIN device' = Devices /\ \A e \in Devices \ {d} : device'[e] = device[e]
      /\ "known" \in DOMAIN device'[d] /\ "rev" \in DOMAIN device'[d] /\ "pull" \in DOMAIN device'[d]
      /\ device'[d].known = device[d].known /\ device'[d].rev = next /\ device'[d].pull = TRUE
  <2> DEFINE row == [device[d] EXCEPT !.rev = next, !.pull = TRUE]
  <2>0. DOMAIN device = Devices /\ "known" \in DOMAIN device[d] /\ "rev" \in DOMAIN device[d]
        /\ "pull" \in DOMAIN device[d]
    BY <1>1 DEF ConfigInv, Shape
  <2>1. /\ "known" \in DOMAIN row /\ "rev" \in DOMAIN row /\ "pull" \in DOMAIN row
        /\ row.known = device[d].known /\ row.rev = next /\ row.pull = TRUE
    BY <2>0
  <2>2. device' = [device EXCEPT ![d] = row]
    BY <1>1, <1>4, <2>0
  <2> HIDE DEF row
  <2> QED
    BY <1>1, <2>0, <2>1, <2>2
<1>6. RowShape'
  <2>1. \A e \in Devices :
          /\ "known" \in DOMAIN device'[e] /\ "rev" \in DOMAIN device'[e] /\ "pull" \in DOMAIN device'[e]
          /\ device'[e].known \in BOOLEAN /\ device'[e].rev \in Nat /\ device'[e].pull \in BOOLEAN
    <3>1. next \in Nat /\ device[d].known \in BOOLEAN
      BY <1>1 DEF ConfigInv, Shape
    <3>2. ASSUME NEW e \in Devices \ {d}
          PROVE  /\ "known" \in DOMAIN device'[e] /\ "rev" \in DOMAIN device'[e]
                 /\ "pull" \in DOMAIN device'[e] /\ device'[e].known \in BOOLEAN
                 /\ device'[e].rev \in Nat /\ device'[e].pull \in BOOLEAN
      <4>1. device'[e] = device[e]
        BY <1>5
      <4> QED
        BY <4>1 DEF ConfigInv, Shape
    <3> HIDE DEF next
    <3> QED
      BY <1>5, <3>1, <3>2
  <2>2. \A e \in Devices : held'[e].rev \in Nat
    BY <1>2 DEF ConfigInv, Shape
  <2>3. DOMAIN held' = Devices /\ DOMAIN handed' = Devices
    BY <1>2 DEF ConfigInv, Shape
  <2> QED
    BY <1>4, <1>5, <2>1, <2>2, <2>3 DEF RowShape
<1>7. Shape'
  BY <1>3, <1>6, MovedShape DEF ConfigInv
<1>8. ConfigStages'
  BY <1>1, <1>3 DEF ConfigInv, ConfigStages, Moved
<1>9. RevisionsBehind'
  <2> SUFFICES ASSUME NEW e \in Devices \ raced' PROVE RevisionBehind(e)'
    BY DEF RevisionsBehind
  <2>1. RevisionBehind(e) /\ device[e].rev \in Nat /\ held[e].rev \in Nat
    BY <1>2 DEF ConfigInv, RevisionsBehind, Shape
  <2>2. \A a \in Callers : Fetching(a, e)' =>
            Fetching(a, e) /\ pc'[a] = pc[a] /\ read'[a] = read[a] /\ read[a].rev \in Nat
    BY <1>1, <1>3 DEF Fetching, Moved, ConfigInv, Shape
  <2>3. CASE e # d
    <3>1. device'[e] = device[e] /\ policy'[e] = policy[e] /\ held'[e] = held[e]
      BY <1>2, <1>4, <1>5, <2>3
    <3>2. ASSUME NEW a \in Callers, Fetching(a, e)'
          PROVE  /\ device'[e].known /\ 0 < read'[a].rev /\ read'[a].rev <= device'[e].rev
                 /\ pc'[a] = "reply" /\ read'[a].rev = device'[e].rev => read'[a].policy = policy'[e]
      <4>1. Fetching(a, e) /\ pc'[a] = pc[a] /\ read'[a] = read[a]
        BY <2>2, <3>2
      <4> QED
        BY <2>1, <3>1, <4>1 DEF RevisionBehind
    <3> QED
      BY <2>1, <3>1, <3>2 DEF RevisionBehind
  <2>4. CASE e = d
    <3>1. device'[e].rev = device[e].rev + 1 /\ device'[e].known = device[e].known
      BY <1>2, <1>5, <2>4
    <3>2. held[e].rev < device'[e].rev
      BY <2>1, <3>1 DEF RevisionBehind
    <3>3. \A a \in Callers : Fetching(a, e)' =>
            device[e].known /\ 0 < read'[a].rev /\ read'[a].rev < device'[e].rev
      BY <2>1, <2>2, <3>1 DEF RevisionBehind
    <3>4. /\ device'[e].rev > 0 /\ held'[e] = held[e] /\ held[e].rev # device'[e].rev
          /\ held[e].rev = 0 \/ (device'[e].known /\ held[e].rev <= device'[e].rev)
      BY <1>2, <2>1, <3>1, <3>2 DEF RevisionBehind
    <3>5. \A a \in Callers : Fetching(a, e)' =>
            /\ device'[e].known /\ 0 < read'[a].rev /\ read'[a].rev <= device'[e].rev
            /\ read'[a].rev # device'[e].rev
      BY <2>1, <2>2, <3>1, <3>3
    <3> QED
      BY <3>4, <3>5 DEF RevisionBehind
  <2> QED
    BY <2>3, <2>4
<1>10. PulledIsCurrent'
  <2> SUFFICES ASSUME NEW e \in Devices, device'[e].known, ~device'[e].pull,
                      ~(\E a \in Callers : Unanswered(a)' /\ req'[a].device = e)
               PROVE  handed[e] \subseteq {policy'[e]}
    BY <1>2 DEF PulledIsCurrent, Dev
  <2>1. e # d
    BY <1>5
  <2>2. ~(\E a \in Callers : Unanswered(a) /\ Dev(a) = e)
    BY <1>1, <1>3 DEF Unanswered, Dev, Moved
  <2> QED
    BY <1>4, <1>5, <2>1, <2>2 DEF ConfigInv, PulledIsCurrent
<1> QED
  BY <1>7, <1>8, <1>9, <1>10 DEF ConfigInv

\* The statements that concern neither revisions nor policies.
LEMMA OtherStatements ==
    ASSUME ConfigInv, NEW c \in Callers,
           \/ NotFound(c) \/ ListActions(c) \/ MarkDelivered(c) \/ UploadDiagnostics(c)
           \/ RereadPolicy(c) \/ RequestClientAction(c)
    PROVE  ConfigInv'
<1>1. /\ device' = device /\ policy' = policy /\ held' = held /\ handed' = handed /\ raced' = raced
  BY DEF NotFound, ListActions, MarkDelivered, UploadDiagnostics, RereadPolicy,
       RequestClientAction, MarkActionsDelivered, InsertDiagnostic, EnqueueAction, regVars
<1>2. CASE Ended(c) /\ pc[c] # "policy"
  BY <1>1, <1>2, CallEnds
<1>3. CASE ListActions(c)
  <2>0. "rev" \in DOMAIN read[c] /\ "policy" \in DOMAIN read[c] /\ "ids" \in DOMAIN read[c]
        /\ DOMAIN read = Callers
    BY DEF ConfigInv, Shape
  <2>1. /\ pc[c] = "list" /\ pc'[c] = "delivered" /\ req' = req /\ DOMAIN pc' = Callers
        /\ \A e \in Callers \ {c} : pc'[e] = pc[e] /\ read'[e] = read[e]
    BY <1>3 DEF ListActions, Goto, ConfigInv, Shape
  <2>2. /\ DOMAIN read' = Callers /\ read'[c].rev = read[c].rev
        /\ "rev" \in DOMAIN read'[c] /\ "policy" \in DOMAIN read'[c] /\ "ids" \in DOMAIN read'[c]
    BY <1>3, <2>0 DEF ListActions
  <2>3. RowShape' /\ RowsKept
    BY <1>1, RowsUntouched
  <2>4. Shape'
    BY <2>1, <2>2, <2>3 DEF ConfigInv, Shape, RowShape
  <2>5. ConfigStages'
    BY <2>1 DEF ConfigInv, ConfigStages
  <2> QED
    BY <1>1, <2>1, <2>3, <2>4, <2>5, MovesOn
<1>4. CASE /\ Goto(c, "reply") /\ req' = req /\ read' = read
           /\ pc[c] \in {"delivered", "insert", "reread", "enqueue"}
  <2>1. Moved(c, "reply")
    BY <1>4, GotoMoves DEF ConfigInv
  <2>2. req[c].op # "config"
    BY <1>4 DEF ConfigInv, ConfigStages
  <2>3. RowShape' /\ RowsKept
    BY <1>1, RowsUntouched
  <2> QED
    BY <1>1, <2>1, <2>2, <2>3, OtherCallMoves
<1> QED
  BY <1>2, <1>3, <1>4 DEF NotFound, MarkDelivered, UploadDiagnostics, RereadPolicy, RequestClientAction

\* Failing statements and the end of the process: a device whose policy was
\* marked as pulled and not read has nothing handed to it.
LEMMA FailureStep ==
    ASSUME ConfigInv, (\E c \in Callers : StatementFails(c)) \/ Crash
    PROVE  ConfigInv'
<1>1. PICK C \in SUBSET Callers :
        /\ Forget(C) /\ DOMAIN pc' = Callers /\ DOMAIN req' = Callers /\ DOMAIN read' = Callers
        /\ \A c \in C : pc'[c] = "idle" /\ req'[c] = NoRequest /\ read'[c] = NothingRead
        /\ \A c \in Callers \ C : pc'[c] = pc[c] /\ req'[c] = req[c] /\ read'[c] = read[c]
  <2>1. ASSUME NEW c \in Callers, StatementFails(c) PROVE
        /\ Forget({c}) /\ DOMAIN pc' = Callers /\ DOMAIN req' = Callers /\ DOMAIN read' = Callers
        /\ pc'[c] = "idle" /\ req'[c] = NoRequest /\ read'[c] = NothingRead
        /\ \A e \in Callers \ {c} : pc'[e] = pc[e] /\ req'[e] = req[e] /\ read'[e] = read[e]
    BY <2>1, EndedIsOver DEF StatementFails, Over, ConfigInv
  <2>2. ASSUME Crash PROVE
        /\ Forget(Callers) /\ DOMAIN pc' = Callers /\ DOMAIN req' = Callers /\ DOMAIN read' = Callers
        /\ \A c \in Callers : pc'[c] = "idle" /\ req'[c] = NoRequest /\ read'[c] = NothingRead
    BY <2>2 DEF Crash
  <2>3. CASE \E c \in Callers : StatementFails(c)
    <3>1. PICK c \in Callers : StatementFails(c)
      BY <2>3
    <3>2. {c} \in SUBSET Callers
      OBVIOUS
    <3> QED
      BY <2>1, <3>1, <3>2
  <2>4. CASE Crash
    BY <2>2, <2>4
  <2> QED
    BY <2>3, <2>4
<1>2. device' = device /\ policy' = policy /\ held' = held /\ raced' = raced
  BY DEF StatementFails, Crash, regVars
<1>3. /\ DOMAIN handed' = Devices
      /\ \A d \in Devices : handed'[d] = IF \E c \in C : Unanswered(c) /\ Dev(c) = d THEN {} ELSE handed[d]
  BY <1>1 DEF Forget
<1>4. Shape'
  <2>1. /\ "rev" \in DOMAIN NothingRead /\ "policy" \in DOMAIN NothingRead
        /\ "ids" \in DOMAIN NothingRead /\ NothingRead.rev \in Nat
    BY DEF NothingRead
  <2> QED
    BY <1>1, <1>2, <1>3, <2>1, NoRequestDevice DEF ConfigInv, Shape
<1>5. ConfigStages'
  BY <1>1 DEF ConfigInv, ConfigStages
<1>6. RevisionsBehind'
  <2> SUFFICES ASSUME NEW d \in Devices \ raced PROVE RevisionBehind(d)'
    BY <1>2 DEF RevisionsBehind
  <2>1. RevisionBehind(d)
    BY DEF ConfigInv, RevisionsBehind
  <2>2. \A a \in Callers : Fetching(a, d)' => Fetching(a, d) /\ pc'[a] = pc[a] /\ read'[a] = read[a]
    BY <1>1 DEF Fetching
  <2> QED
    BY <1>2, <2>1, <2>2 DEF RevisionBehind
<1>7. PulledIsCurrent'
  <2> SUFFICES ASSUME NEW d \in Devices, device[d].known, ~device[d].pull,
                      ~(\E a \in Callers : Unanswered(a)' /\ req'[a].device = d)
               PROVE  handed'[d] \subseteq {policy[d]}
    BY <1>2 DEF PulledIsCurrent, Dev
  <2>1. CASE \E c \in C : Unanswered(c) /\ Dev(c) = d
    BY <1>3, <2>1
  <2>2. CASE ~(\E c \in C : Unanswered(c) /\ Dev(c) = d)
    <3>1. ~(\E a \in Callers : Unanswered(a) /\ Dev(a) = d)
      BY <1>1, <2>2 DEF Unanswered, Dev
    <3> QED
      BY <1>3, <2>2, <3>1 DEF ConfigInv, PulledIsCurrent
  <2> QED
    BY <2>1, <2>2
<1> QED
  BY <1>4, <1>5, <1>6, <1>7 DEF ConfigInv

\* What devices hold and what calls have read is never ahead of the rows, and
\* under the number of the row it is the policy of the row.
THEOREM ConfigInvariant == Spec => []ConfigInv
<1>1. Init => ConfigInv
  <2> SUFFICES ASSUME Init PROVE ConfigInv
    OBVIOUS
  <2>1. \A r \in {NoDevice, RegisteredRow} :
          /\ "known" \in DOMAIN r /\ "rev" \in DOMAIN r /\ "pull" \in DOMAIN r
          /\ r.known \in BOOLEAN /\ r.rev \in Nat /\ r.pull \in BOOLEAN
          /\ r.known => r.rev > 0 /\ r.pull
    <3>1. /\ "known" \in DOMAIN NoDevice /\ "rev" \in DOMAIN NoDevice /\ "pull" \in DOMAIN NoDevice
          /\ NoDevice.known = FALSE /\ NoDevice.rev = 0 /\ NoDevice.pull = FALSE
      BY DEF NoDevice
    <3>2. /\ "known" \in DOMAIN RegisteredRow /\ "rev" \in DOMAIN RegisteredRow
          /\ "pull" \in DOMAIN RegisteredRow /\ RegisteredRow.known = TRUE
          /\ RegisteredRow.rev = DefaultRevision /\ RegisteredRow.pull = TRUE
      BY <3>1 DEF RegisteredRow
    <3> QED
      <4> SUFFICES ASSUME NEW r \in {NoDevice, RegisteredRow}
                   PROVE  /\ "known" \in DOMAIN r /\ "rev" \in DOMAIN r /\ "pull" \in DOMAIN r
                          /\ r.known \in BOOLEAN /\ r.rev \in Nat /\ r.pull \in BOOLEAN
                          /\ r.known => r.rev > 0 /\ r.pull
        OBVIOUS
      <4>1. DefaultRevision \in Nat /\ DefaultRevision > 0
        BY RegistryAssumption
      <4>2. CASE r = NoDevice
        <5>1. r.known = FALSE /\ r.pull = FALSE /\ r.rev = 0
          BY <3>1, <4>2
        <5>2. "known" \in DOMAIN r /\ "rev" \in DOMAIN r /\ "pull" \in DOMAIN r
          BY <3>1, <4>2
        <5>3. r.rev \in Nat
          BY <5>1
        <5>4. r.known \in BOOLEAN /\ r.pull \in BOOLEAN /\ ~r.known
          BY <5>1
        <5> QED
          BY <5>2, <5>3, <5>4
      <4>3. CASE r = RegisteredRow
        <5>1. r.known = TRUE /\ r.pull = TRUE /\ r.rev = DefaultRevision
          BY <3>2, <4>3
        <5>2. "known" \in DOMAIN r /\ "rev" \in DOMAIN r /\ "pull" \in DOMAIN r
          BY <3>2, <4>3
        <5> QED
          BY <4>1, <5>1, <5>2
      <4> QED
        BY <4>2, <4>3
  <2>2. /\ "rev" \in DOMAIN NothingRead /\ "policy" \in DOMAIN NothingRead
        /\ "ids" \in DOMAIN NothingRead /\ NothingRead.rev \in Nat /\ NoConfig.rev = 0
    BY DEF NothingRead, NoConfig
  <2>3. Shape
    BY <2>1, <2>2, NoRequestDevice DEF Init, RegistryInit, Shape
  <2>4. ConfigStages
    BY DEF Init, ConfigStages
  <2>5. \A c \in Callers : pc[c] = "idle"
    BY DEF Init
  <2>6. \A d \in Devices : device[d] \in {NoDevice, RegisteredRow} /\ held[d].rev = 0
    BY <2>2 DEF Init, RegistryInit
  <2>7. RevisionsBehind
    BY <2>1, <2>5, <2>6 DEF RevisionsBehind, RevisionBehind, Fetching
  <2>8. PulledIsCurrent
    BY <2>1, <2>6 DEF PulledIsCurrent
  <2> QED
    BY <2>3, <2>4, <2>7, <2>8 DEF ConfigInv
<1>2. ConfigInv /\ [Next]_vars => ConfigInv'
  <2> SUFFICES ASSUME ConfigInv, [Next]_vars PROVE ConfigInv'
    OBVIOUS
  <2>1. CASE Tick \/ UNCHANGED vars
    <3>1. /\ device' = device /\ policy' = policy /\ held' = held /\ handed' = handed
          /\ raced' = raced /\ pc' = pc /\ req' = req /\ read' = read
      BY <2>1 DEF Tick, vars, regVars, callVars
    <3> QED
      BY <3>1 DEF ConfigInv, Shape, ConfigStages, RevisionsBehind, RevisionBehind, Fetching,
           PulledIsCurrent, Unanswered, Dev
  <2>2. ASSUME NEW c \in Callers, NEW r \in AdminRequests \cup DeviceRequests, Begin(c, r)
        PROVE  ConfigInv'
    BY <2>2, BeginStep
  <2>3. ASSUME NEW c \in Callers, Step(c) PROVE ConfigInv'
    BY <2>3, GetDeviceStep, AnswerStep, ReportStep, MarkPulledStep, GetPolicyStep, UpdateStep,
       OtherStatements DEF Step
  <2>4. CASE (\E c \in Callers : StatementFails(c)) \/ Crash
    BY <2>4, FailureStep
  <2> QED
    BY <2>1, <2>2, <2>3, <2>4 DEF Next, Callers
<1> QED
  BY <1>1, <1>2, PTL DEF Spec

\* A device that has the number of the current revision has its policy, unless
\* two updates of it overlapped (GetAssignedConfig, UpdateDevicePolicy).
THEOREM RevisionsNamePolicies == Spec => []RevisionNamesPolicy
<1>1. ConfigInv => RevisionNamesPolicy
  BY DEF ConfigInv, RevisionsBehind, RevisionBehind, RevisionNamesPolicy
<1> QED
  BY <1>1, ConfigInvariant, PTL

\* A cleared flag means that the policy handed out last is the current one
\* (GetAssignedConfig clears it before it reads the policy).
THEOREM PulledPolicyIsCurrent == Spec => []PulledIsCurrent
<1>1. ConfigInv => PulledIsCurrent
  BY DEF ConfigInv
<1> QED
  BY <1>1, ConfigInvariant, PTL

-----------------------------------------------------------------------------
(* Actions.  Rows are never deleted, and the three ways an action is not     *)
(* pending any more are told apart by its status.                            *)

ActionsTyped ==
    /\ now \in Nat
    /\ \A i \in DOMAIN actions :
        /\ "device" \in DOMAIN actions[i] /\ "type" \in DOMAIN actions[i]
        /\ "at" \in DOMAIN actions[i] /\ "status" \in DOMAIN actions[i]
        /\ actions[i].at \in Nat /\ actions[i].at <= now
Replaced(i) ==
    /\ actions[i].status = "cancelled"
    /\ \E j \in DOMAIN actions \ {i} :
        /\ actions[j].device = actions[i].device /\ actions[j].type = actions[i].type
        /\ actions[j].at >= actions[i].at
ActionsInv ==
    /\ ActionsTyped
    /\ \A i \in DOMAIN actions : actions[i].status = "pending" \/ i \in listed \/ Replaced(i)

\* EnqueueAction cancels the pending actions of the type in the transaction that
\* adds the one which replaces them.
LEMMA EnqueueKeeps ==
    ASSUME ActionsInv, NEW d, NEW type, NEW replace, NEW id, EnqueueAction(d, type, replace, id),
           now' = now, listed' = listed
    PROVE  ActionsInv'
<1> DEFINE Similar(i) ==
             replace /\ actions[i].device = d /\ actions[i].type = type /\ actions[i].status = "pending"
           new == [device |-> d, type |-> type, at |-> now, status |-> "pending"]
<1>1. id \notin DOMAIN actions /\ DOMAIN actions' = DOMAIN actions \cup {id} /\ actions'[id] = new
  BY DEF EnqueueAction, With
<1>2. \A i \in DOMAIN actions :
        actions'[i] = IF Similar(i) THEN [actions[i] EXCEPT !.status = "cancelled"] ELSE actions[i]
  BY DEF EnqueueAction, With
<1>3. /\ new.device = d /\ new.type = type /\ new.at = now /\ new.status = "pending"
      /\ "device" \in DOMAIN new /\ "type" \in DOMAIN new /\ "at" \in DOMAIN new /\ "status" \in DOMAIN new
  OBVIOUS
<1> HIDE DEF new
<1>4. \A i \in DOMAIN actions :
        /\ actions'[i].device = actions[i].device /\ actions'[i].type = actions[i].type
        /\ actions'[i].at = actions[i].at
        /\ actions'[i].status = IF Similar(i) THEN "cancelled" ELSE actions[i].status
        /\ DOMAIN actions'[i] = DOMAIN actions[i]
  BY <1>2 DEF ActionsInv, ActionsTyped
<1>5. ActionsTyped'
  <2> SUFFICES ASSUME NEW i \in DOMAIN actions'
               PROVE  /\ "device" \in DOMAIN actions'[i] /\ "type" \in DOMAIN actions'[i]
                      /\ "at" \in DOMAIN actions'[i] /\ "status" \in DOMAIN actions'[i]
                      /\ actions'[i].at \in Nat /\ actions'[i].at <= now
    BY DEF ActionsTyped, ActionsInv
  <2>1. CASE i = id
    BY <1>1, <1>3, <2>1 DEF ActionsInv, ActionsTyped
  <2>2. CASE i \in DOMAIN actions
    BY <1>4, <2>2 DEF ActionsInv, ActionsTyped
  <2> QED
    BY <1>1, <2>1, <2>2
<1>6. ASSUME NEW i \in DOMAIN actions'
      PROVE  actions'[i].status = "pending" \/ i \in listed \/ Replaced(i)'
  <2>1. CASE i = id
    BY <1>1, <1>3, <2>1
  <2>2. CASE i \in DOMAIN actions /\ Similar(i)
    <3>1. /\ actions'[i].status = "cancelled" /\ id \in DOMAIN actions' \ {i}
          /\ actions'[id].device = actions'[i].device /\ actions'[id].type = actions'[i].type
      BY <1>1, <1>3, <1>4, <2>2
    <3>2. actions'[id].at >= actions'[i].at
      BY <1>1, <1>3, <1>4, <2>2 DEF ActionsInv, ActionsTyped
    <3> QED
      BY <3>1, <3>2 DEF Replaced
  <2>3. CASE i \in DOMAIN actions /\ ~Similar(i)
    <3>1. actions'[i].status = actions[i].status
      BY <1>4, <2>3
    <3>2. Replaced(i) => Replaced(i)'
      BY <1>1, <1>4, <2>3, <3>1 DEF Replaced
    <3> QED
      BY <2>3, <3>1, <3>2 DEF ActionsInv
  <2> QED
    BY <1>1, <2>1, <2>2, <2>3
<1> QED
  BY <1>5, <1>6 DEF ActionsInv

\* MarkActionsDelivered concerns the actions of the answer alone.
LEMMA DeliveryKeeps ==
    ASSUME ActionsInv, NEW ids, MarkActionsDelivered(ids), now' = now, listed' = listed \cup ids
    PROVE  ActionsInv'
<1>1. DOMAIN actions' = DOMAIN actions
  BY DEF MarkActionsDelivered
<1>2. \A i \in DOMAIN actions :
        actions'[i] = IF i \in ids /\ actions[i].status = "pending"
                      THEN [actions[i] EXCEPT !.status = "delivered"] ELSE actions[i]
  BY DEF MarkActionsDelivered
<1>3. \A i \in DOMAIN actions :
        /\ actions'[i].device = actions[i].device /\ actions'[i].type = actions[i].type
        /\ actions'[i].at = actions[i].at /\ DOMAIN actions'[i] = DOMAIN actions[i]
        /\ i \notin ids => actions'[i].status = actions[i].status
  BY <1>2 DEF ActionsInv, ActionsTyped
<1>4. ActionsTyped'
  BY <1>1, <1>3 DEF ActionsInv, ActionsTyped
<1>5. ASSUME NEW i \in DOMAIN actions, i \notin ids PROVE Replaced(i) => Replaced(i)'
  BY <1>1, <1>3, <1>5 DEF Replaced
<1> QED
  BY <1>1, <1>3, <1>4, <1>5 DEF ActionsInv

\* An action that is not pending was put into an answer or replaced.
THEOREM ActionsInvariant == Spec => []ActionsInv
<1>1. Init => ActionsInv
  BY RegistryAssumption DEF Init, RegistryInit, ActionsInv, ActionsTyped
<1>2. ActionsInv /\ [Next]_vars => ActionsInv'
  <2> SUFFICES ASSUME ActionsInv, [Next]_vars PROVE ActionsInv'
    OBVIOUS
  <2>1. CASE UNCHANGED <<actions, listed>> /\ (now' = now \/ now' = now + 1)
    BY <2>1 DEF ActionsInv, ActionsTyped, Replaced
  <2>2. ASSUME NEW c \in Callers, RequestClientAction(c) PROVE ActionsInv'
    BY <2>2, EnqueueKeeps DEF RequestClientAction
  <2>3. ASSUME NEW c \in Callers, MarkDelivered(c) PROVE ActionsInv'
    BY <2>3, DeliveryKeeps DEF MarkDelivered
  <2>4. CASE Tick \/ UNCHANGED vars
    BY <2>1, <2>4 DEF Tick, vars, regVars
  <2>5. CASE Crash \/ \E c \in Callers : StatementFails(c)
    BY <2>1, <2>5 DEF Crash, StatementFails, regVars
  <2>6. ASSUME NEW c \in Callers, NEW r, Begin(c, r) PROVE ActionsInv'
    BY <2>1, <2>6 DEF Begin, regVars
  <2>7. ASSUME NEW c \in Callers, Step(c), ~RequestClientAction(c), ~MarkDelivered(c)
        PROVE  ActionsInv'
    <3>1. CASE NotFound(c) \/ GetDevice(c) \/ Answer(c) \/ ListActions(c) \/ GetPolicy(c) \/ RereadPolicy(c)
      BY <2>1, <3>1 DEF NotFound, GetDevice, Answer, ListActions, GetPolicy, RereadPolicy, regVars
    <3>2. CASE RegisterDevice(c) \/ ReportSyncState(c) \/ ReportMountState(c) \/ Heartbeat(c)
      BY <2>1, <3>2 DEF RegisterDevice, ReportSyncState, ReportMountState, Heartbeat, Reported,
           Register, UpdateSyncState, UpdateMountState, UpdateHeartbeat
    <3>3. CASE MarkPulled(c) \/ UploadDiagnostics(c) \/ UpdateDevicePolicy(c)
      BY <2>1, <3>3 DEF MarkPulled, UploadDiagnostics, UpdateDevicePolicy, MarkPolicyPulled,
           InsertDiagnostic, ResetPolicy, UpsertPolicy
    <3> QED
      BY <2>7, <3>1, <3>2, <3>3 DEF Step
  <2> QED
    BY <2>2, <2>3, <2>4, <2>5, <2>6, <2>7 DEF Next, Callers
<1> QED
  BY <1>1, <1>2, PTL DEF Spec

\* No action is swallowed (Heartbeat, RequestClientAction).
THEOREM ActionsAreNotSwallowed == Spec => []NoActionSwallowed
<1>1. ActionsInv => NoActionSwallowed
  BY DEF ActionsInv, Replaced, NoActionSwallowed
<1> QED
  BY <1>1, ActionsInvariant, PTL

-----------------------------------------------------------------------------
(* Clocks.  The row has the time of the last report by the clock of the      *)
(* device or of the server, which differ by no more than Skew.               *)

\* A call is between its start and the heartbeat only if it is a heartbeat.
Beats ==
    \A c \in Callers : /\ req[c] \in AdminRequests \cup DeviceRequests
                       /\ pc[c] = "beat" => req[c].op = "heartbeat"

\* The time of a report by either clock.
Clock(d) ==
    /\ "seen" \in DOMAIN device[d]
    /\ device[d].known =>
        /\ device[d].seen \in Nat \ {0} /\ heard[d] \in Nat
        /\ device[d].seen - heard[d] \in -Skew .. Skew
ClockInv ==
    /\ now \in Nat /\ now >= Skew + 2 /\ DOMAIN heard = Devices
    /\ Beats
    /\ \A d \in Devices : Clock(d)

\* A call that moves on or ends is not before a heartbeat.
LEMMA BeatsKept ==
    ASSUME Shape, Beats, NEW c \in Callers,
           \/ req' = req /\ \E stage : stage # "beat" /\ Goto(c, stage)
           \/ Ended(c)
    PROVE  Beats'
<1>1. NoRequest \in DeviceRequests
  BY RequestAssumption DEF NoRequest
<1> QED
  BY <1>1 DEF Shape, Beats, Goto, Ended

\* A step that fills in no report.
LEMMA NoReport ==
    ASSUME ClockInv, Beats', heard' = heard, now' = now \/ now' = now + 1,
           \A d \in Devices : /\ "seen" \in DOMAIN device'[d]
                              /\ device'[d].known = device[d].known
                              /\ device'[d].seen = device[d].seen
    PROVE  ClockInv'
<1>1. now' \in Nat /\ now' >= Skew + 2
  BY RegistryAssumption DEF ClockInv
<1>2. \A d \in Devices : Clock(d)'
  BY DEF ClockInv, Clock
<1> QED
  BY <1>1, <1>2 DEF ClockInv

\* A report brings the clock of the server, or of the device within the bound.
LEMMA ReportsClock ==
    ASSUME ConfigInv, ClockInv, NEW c \in Callers,
           RegisterDevice(c) \/ ReportSyncState(c) \/ ReportMountState(c) \/ Heartbeat(c)
    PROVE  ClockInv'
<1> DEFINE d == req[c].device
<1>1. /\ d \in Devices /\ DOMAIN device = Devices /\ DOMAIN heard = Devices
      /\ "seen" \in DOMAIN device[d] /\ now \in Nat /\ now >= Skew + 2 /\ Skew \in Nat
  BY RegistryAssumption DEF ConfigInv, Shape, ClockInv, Clock
<1>2. /\ now' = now /\ heard' = [heard EXCEPT ![d] = now] /\ req' = req
      /\ \E stage : stage # "beat" /\ Goto(c, stage)
  BY DEF RegisterDevice, ReportSyncState, ReportMountState, Heartbeat, Reported, Dev
<1>3. Beats'
  BY <1>2, BeatsKept DEF ConfigInv, ClockInv
<1>4. \A e \in Devices \ {d} : device'[e] = device[e]
  BY <1>1 DEF RegisterDevice, ReportSyncState, ReportMountState, Heartbeat, Register,
       UpdateSyncState, UpdateMountState, UpdateHeartbeat, Dev
<1>5. \E s \in -Skew .. Skew : "seen" \in DOMAIN device'[d] /\ device'[d].seen = now + s
  <2>1. 0 \in -Skew .. Skew /\ now + 0 = now
    BY <1>1
  <2>2. CASE RegisterDevice(c)
    <3> DEFINE new == [NoDevice EXCEPT !.rev = DefaultRevision, !.pull = TRUE]
    <3>1. "seen" \in DOMAIN new
      BY DEF NoDevice
    <3>2. PICK row \in {device[d], new} :
            device'[d] = [row EXCEPT !.known = TRUE, !.provider = req[c].provider,
                                     !.overlay = TRUE, !.grpc = TRUE, !.seen = now]
      BY <1>1, <2>2 DEF RegisterDevice, Register, Dev
    <3> HIDE DEF new
    <3>3. "seen" \in DOMAIN row
      BY <1>1, <3>1
    <3>4. "seen" \in DOMAIN device'[d] /\ device'[d].seen = now
      BY <3>2, <3>3
    <3> QED
      BY <2>1, <3>4
  <2>3. CASE ReportSyncState(c)
    <3>1. "seen" \in DOMAIN device'[d] /\ device'[d].seen = now
      BY <1>1, <2>3 DEF ReportSyncState, UpdateSyncState, Dev
    <3> QED
      BY <2>1, <3>1
  <2>4. CASE ReportMountState(c)
    <3>1. "seen" \in DOMAIN device'[d] /\ device'[d].seen = now
      BY <1>1, <2>4 DEF ReportMountState, UpdateMountState, Dev
    <3> QED
      BY <2>1, <3>1
  <2>5. CASE Heartbeat(c)
    <3>1. req[c].op = "heartbeat" /\ req[c] \in AdminRequest \cup DeviceRequest
      BY <2>5, RequestAssumption DEF Heartbeat, ClockInv, Beats
    <3>2. req[c].beat \in Beat
      BY <3>1 DEF AdminRequest, DeviceRequest
    <3>3. req[c].beat.skew \in -Skew .. Skew
      BY <3>2 DEF Beat
    <3>4. "seen" \in DOMAIN device'[d] /\ device'[d].seen = now + req[c].beat.skew
      BY <1>1, <2>5 DEF Heartbeat, UpdateHeartbeat, Dev
    <3> QED
      BY <3>3, <3>4
  <2> QED
    BY <2>2, <2>3, <2>4, <2>5
<1>6. Clock(d)'
  <2>1. PICK s \in -Skew .. Skew : "seen" \in DOMAIN device'[d] /\ device'[d].seen = now + s
    BY <1>5
  <2>2. heard'[d] = now
    BY <1>1, <1>2
  <2>3. now + s \in Nat \ {0} /\ (now + s) - now \in -Skew .. Skew
    BY <1>1
  <2> QED
    BY <1>1, <1>2, <2>1, <2>2, <2>3 DEF Clock
<1>7. ASSUME NEW e \in Devices \ {d} PROVE Clock(e)'
  <2>1. heard'[e] = heard[e] /\ device'[e] = device[e] /\ Clock(e)
    BY <1>1, <1>2, <1>4 DEF ClockInv
  <2> QED
    BY <2>1 DEF Clock
<1>8. \A e \in Devices : Clock(e)'
  <2> SUFFICES ASSUME NEW e \in Devices PROVE Clock(e)'
    OBVIOUS
  <2>1. CASE e = d
    BY <1>2, <1>6, <2>1
  <2>2. CASE e # d
    BY <1>7, <2>2
  <2> QED
    BY <2>1, <2>2
<1>9. DOMAIN heard' = Devices
  BY <1>1, <1>2
<1> QED
  BY <1>1, <1>2, <1>3, <1>8, <1>9 DEF ClockInv

\* The statements that change a row without a report.
LEMMA PolicyClock ==
    ASSUME ConfigInv, ClockInv, NEW c \in Callers, MarkPulled(c) \/ UpdateDevicePolicy(c)
    PROVE  ClockInv'
<1> DEFINE d == req[c].device
<1>1. /\ d \in Devices /\ DOMAIN device = Devices /\ "seen" \in DOMAIN device[d]
      /\ "known" \in DOMAIN device[d]
  BY DEF ConfigInv, Shape, ClockInv, Clock
<1>2. /\ now' = now /\ heard' = heard /\ req' = req
      /\ \E stage : stage # "beat" /\ Goto(c, stage)
  BY DEF MarkPulled, UpdateDevicePolicy
<1>3. Beats'
  BY <1>2, BeatsKept DEF ConfigInv, ClockInv
<1>4. /\ \A e \in Devices \ {d} : device'[e] = device[e]
      /\ "seen" \in DOMAIN device'[d]
      /\ device'[d].known = device[d].known /\ device'[d].seen = device[d].seen
  <2>1. CASE MarkPulled(c)
    BY <1>1, <2>1 DEF MarkPulled, MarkPolicyPulled, Dev
  <2>2. CASE UpdateDevicePolicy(c)
    <3> DEFINE next == read[c].rev + 1
               row == [device[d] EXCEPT !.rev = next, !.pull = TRUE]
    <3>1. device' = [device EXCEPT ![d].rev = next, ![d].pull = TRUE]
      BY <2>2 DEF UpdateDevicePolicy, ResetPolicy, UpsertPolicy
    <3>2. device' = [device EXCEPT ![d] = row]
      BY <1>1, <3>1
    <3>3. "seen" \in DOMAIN row /\ row.known = device[d].known /\ row.seen = device[d].seen
      BY <1>1
    <3> HIDE DEF row
    <3> QED
      BY <1>1, <3>2, <3>3
  <2> QED
    BY <2>1, <2>2
<1>5. \A e \in Devices : /\ "seen" \in DOMAIN device'[e]
                         /\ device'[e].known = device[e].known
                         /\ device'[e].seen = device[e].seen
  BY <1>4 DEF ClockInv, Clock
<1> QED
  BY <1>2, <1>3, <1>5, NoReport

\* Everything else leaves the rows of the devices alone.
LEMMA OtherClock ==
    ASSUME ConfigInv, ClockInv, NEW c \in Callers,
           \/ NotFound(c) \/ GetDevice(c) \/ Answer(c) \/ ListActions(c) \/ MarkDelivered(c)
           \/ GetPolicy(c) \/ UploadDiagnostics(c) \/ RereadPolicy(c) \/ RequestClientAction(c)
           \/ StatementFails(c)
    PROVE  ClockInv'
<1>1. device' = device /\ now' = now /\ heard' = heard
  BY DEF NotFound, GetDevice, Answer, ListActions, MarkDelivered, GetPolicy, UploadDiagnostics,
       RereadPolicy, RequestClientAction, StatementFails, MarkActionsDelivered, InsertDiagnostic,
       EnqueueAction, regVars
<1>2. \/ req' = req /\ \E stage : stage # "beat" /\ Goto(c, stage)
      \/ Ended(c)
  <2>1. CASE GetDevice(c) /\ ~Ended(c)
    <3>1. req[c].op \in {"config", "update", "action", "upload"}
      BY <2>1 DEF GetDevice, ConfigInv, ConfigStages
    <3> DEFINE stage == CASE req[c].op = "update" -> "write"
                          [] req[c].op = "action" -> "enqueue"
                          [] req[c].op = "config" -> "mark"
                          [] req[c].op = "upload" -> "insert"
    <3>2. req' = req /\ Goto(c, stage)
      BY <2>1 DEF GetDevice
    <3>3. stage # "beat"
      BY <3>1
    <3> QED
      BY <3>2, <3>3
  <2>2. CASE ~GetDevice(c)
    BY <2>2 DEF NotFound, Answer, ListActions, MarkDelivered, GetPolicy, UploadDiagnostics,
         RereadPolicy, RequestClientAction, StatementFails
  <2> QED
    BY <2>1, <2>2
<1>3. Beats'
  BY <1>2, BeatsKept DEF ConfigInv, ClockInv
<1> QED
  BY <1>1, <1>3, NoReport DEF ClockInv, Clock

\* For any number of devices, calls and failures, in whatever order heartbeats
\* and other reports arrive: the console takes a device for offline or for
\* present as its last report says, up to the difference of the clocks
\* (Heartbeat, RegisterDevice, ReportSyncState, deviceOnlineState).
THEOREM OnlineStatesAreTimely == Spec => []OnlineStateTimely
<1>1. Init => ClockInv
  <2> SUFFICES ASSUME Init PROVE ClockInv
    OBVIOUS
  <2>1. NoRequest \in DeviceRequests
    BY RequestAssumption DEF NoRequest
  <2>2. Beats
    BY <2>1 DEF Init, Beats
  <2>3. "seen" \in DOMAIN NoDevice /\ NoDevice.known = FALSE
    BY DEF NoDevice
  <2>4. "seen" \in DOMAIN RegisteredRow /\ RegisteredRow.seen = 1
    BY <2>3 DEF RegisteredRow
  <2>5. now \in Nat /\ now >= Skew + 2 /\ DOMAIN heard = Devices /\ Skew \in Nat
    BY RegistryAssumption DEF Init, RegistryInit
  <2>6. ASSUME NEW d \in Devices PROVE Clock(d)
    <3>1. heard[d] = device[d].seen /\ device[d] \in {NoDevice, RegisteredRow}
      BY DEF Init, RegistryInit
    <3>2. CASE device[d] = NoDevice
      BY <2>3, <3>2 DEF Clock
    <3>3. CASE device[d] = RegisteredRow
      <4>1. "seen" \in DOMAIN device[d] /\ device[d].seen = 1 /\ heard[d] = 1
        BY <2>4, <3>1, <3>3
      <4>2. 1 - 1 \in -Skew .. Skew /\ 1 \in Nat \ {0}
        BY <2>5
      <4> QED
        BY <4>1, <4>2 DEF Clock
    <3> QED
      BY <3>1, <3>2, <3>3
  <2> QED
    BY <2>2, <2>5, <2>6 DEF ClockInv
<1>2. ConfigInv /\ ClockInv /\ [Next]_vars => ClockInv'
  <2> SUFFICES ASSUME ConfigInv, ClockInv, [Next]_vars PROVE ClockInv'
    OBVIOUS
  <2>1. CASE Tick \/ UNCHANGED vars
    <3>1. /\ device' = device /\ heard' = heard /\ pc' = pc /\ req' = req
          /\ now' = now \/ now' = now + 1
      BY <2>1 DEF Tick, vars, regVars, callVars
    <3>2. Beats'
      BY <3>1 DEF ClockInv, Beats
    <3> QED
      BY <3>1, <3>2, NoReport DEF ClockInv, Clock
  <2>2. ASSUME NEW c \in Callers, NEW r \in AdminRequests \cup DeviceRequests, Begin(c, r)
        PROVE  ClockInv'
    <3>1. device' = device /\ heard' = heard /\ now' = now
      BY <2>2 DEF Begin, regVars
    <3>2. /\ pc'[c] = FirstStage(r.op) /\ req'[c] = r
          /\ \A e \in Callers \ {c} : pc'[e] = pc[e] /\ req'[e] = req[e]
      BY <2>2 DEF Begin, Goto, ConfigInv, Shape
    <3>3. r \in AdminRequest \cup DeviceRequest
      BY RequestAssumption
    <3>4. r.op \in {"update", "action", "register", "heartbeat", "config", "upload", "sync", "mount"}
      BY <3>3 DEF AdminRequest, DeviceRequest
    <3>5. FirstStage(r.op) = "beat" => r.op = "heartbeat"
      BY <3>4 DEF FirstStage
    <3>6. Beats'
      BY <3>2, <3>5 DEF ClockInv, Beats
    <3> QED
      BY <3>1, <3>6, NoReport DEF ClockInv, Clock
  <2>3. ASSUME NEW c \in Callers, Step(c) \/ StatementFails(c) PROVE ClockInv'
    BY <2>3, ReportsClock, PolicyClock, OtherClock DEF Step
  <2>4. CASE Crash
    <3>1. device' = device /\ heard' = heard /\ now' = now
      BY <2>4 DEF Crash, regVars
    <3>2. NoRequest \in DeviceRequests
      BY RequestAssumption DEF NoRequest
    <3>3. Beats'
      BY <2>4, <3>2 DEF Crash, Beats
    <3> QED
      BY <3>1, <3>3, NoReport DEF ClockInv, Clock
  <2> QED
    BY <2>1, <2>2, <2>3, <2>4 DEF Next, Callers
<1>3. ClockInv => OnlineStateTimely
  <2> SUFFICES ASSUME ClockInv, NEW d \in Devices, device[d].known
               PROVE  IF OnlineState(d) = "offline"
                      THEN now - heard[d] > OfflineAfter - Skew
                      ELSE now - heard[d] <= OfflineAfter + Skew
    BY DEF OnlineStateTimely
  <2>1. /\ device[d].seen \in Nat /\ device[d].seen # 0 /\ heard[d] \in Nat /\ now \in Nat
        /\ device[d].seen - heard[d] >= -Skew /\ device[d].seen - heard[d] <= Skew
        /\ Skew \in Nat /\ OfflineAfter \in Nat
    BY RegistryAssumption DEF ClockInv, Clock
  <2>2. CASE now - device[d].seen > OfflineAfter
    <3>1. OnlineState(d) = "offline"
      BY <2>1, <2>2 DEF OnlineState
    <3> QED
      BY <2>1, <2>2, <3>1
  <2>3. CASE ~(now - device[d].seen > OfflineAfter)
    <3>1. now - device[d].seen <= OfflineAfter
      BY <2>1, <2>3
    <3>2. OnlineState(d) # "offline"
      BY <2>1, <3>1 DEF OnlineState
    <3> QED
      BY <2>1, <3>1, <3>2
  <2> QED
    BY <2>2, <2>3
<1> QED
  BY <1>1, <1>2, <1>3, ConfigInvariant, PTL DEF Spec

-----------------------------------------------------------------------------
(* Locks.  ViewIsHeld is not inductive: that the lock has not expired when *)
(* time passes follows from the expire_at the client has, which is the     *)
(* manager's time rounded down.                                            *)

ViewBounded ==
    \A c \in Clients, p \in Paths :
        Relies(c, p) => locks[p].owner = c /\ view[c][p] <= Unix(locks[p].expireAt)
LockInv == LockTypeOK /\ ViewBounded

\* Rounding to seconds keeps the order of times (LockService's exp.Unix()).
LEMMA UnixMonotone ==
    ASSUME NEW s \in Nat, NEW t \in Nat, s <= t
    PROVE  Unix(s) <= Unix(t) /\ Unix(t) \in 0..t
BY LockAssumption DEF Unix

\* Whatever ttl_seconds a client sends, the lock lives for a positive time.
LEMMA TTLType ==
    ASSUME NEW s \in Int
    PROVE  TTL(s) \in 1..Width
BY LockAssumption DEF TTL, Duration

\* A granted lock (Acquire, Renew) keeps the invariant when nobody else can
\* count on the path.
LEMMA GrantedStep ==
    ASSUME LockInv, NEW c \in Clients, NEW p \in Paths, NEW s \in Int,
           \A d \in Clients \ {c} : ~Relies(d, p),
           Granted(c, p, time + TTL(s))
    PROVE  LockInv'
<1> DEFINE t == time + TTL(s)
<1>1. t \in 0..(LastTime + Width)
  BY TTLType, LockAssumption DEF LockInv, LockTypeOK
<1>2. Unix(t) \in 0..(LastTime + Width)
  BY <1>1, UnixMonotone, LockAssumption
<1> HIDE DEF t
<1>3. LockTypeOK'
  BY <1>1, <1>2 DEF LockInv, LockTypeOK, Granted, LockInfo, t
<1>4. ViewBounded'
  <2> SUFFICES ASSUME NEW d \in Clients, NEW q \in Paths, Relies(d, q)'
               PROVE  (locks[q].owner = d /\ view[d][q] <= Unix(locks[q].expireAt))'
    BY DEF ViewBounded
  <2>1. locks' = [locks EXCEPT ![p] = [owner |-> c, expireAt |-> t]]
        /\ view' = [view EXCEPT ![c][p] = Unix(t)] /\ time' = time
    BY DEF Granted, t
  <2>2. CASE d = c /\ q = p
    BY <2>1, <2>2, <1>2 DEF LockInv, LockTypeOK
  <2>3. CASE q # p
    <3>1. view'[d][q] = view[d][q] /\ locks'[q] = locks[q]
      BY <2>1, <2>3 DEF LockInv, LockTypeOK
    <3>2. Relies(d, q)
      BY <2>1, <3>1 DEF Relies
    <3> QED
      BY <3>1, <3>2 DEF LockInv, ViewBounded
  <2>4. CASE d # c /\ q = p
    <3>1. view'[d][q] = view[d][q]
      BY <2>1, <2>4 DEF LockInv, LockTypeOK
    <3> QED
      BY <2>1, <2>4, <3>1 DEF Relies
  <2> QED
    BY <2>2, <2>3, <2>4
<1> QED
  BY <1>3, <1>4 DEF LockInv

\* An expired lock is counted on by nobody: the expire_at given out is not
\* later than the time at which Acquire lets another client in.
LEMMA ExpiredUnrelied ==
    ASSUME LockInv, NEW p \in Paths, locks[p].owner = Nobody \/ Expired(p)
    PROVE  \A d \in Clients : ~Relies(d, p)
<1> SUFFICES ASSUME NEW d \in Clients, Relies(d, p) PROVE FALSE
  OBVIOUS
<1>1. locks[p].owner = d /\ view[d][p] <= Unix(locks[p].expireAt)
  BY DEF LockInv, ViewBounded
<1>2. Expired(p)
  BY <1>1, LockAssumption
<1>3. locks[p].expireAt \in Nat /\ time \in Nat /\ locks[p].expireAt <= time
  BY <1>2, LockAssumption DEF Expired, LockInv, LockTypeOK, LockInfo
<1>4. Unix(locks[p].expireAt) <= Unix(time) /\ Unix(locks[p].expireAt) \in Nat /\ Unix(time) \in Nat
  BY <1>3, UnixMonotone
<1>5. view[d][p] \in Int
  BY LockAssumption DEF LockInv, LockTypeOK
<1> QED
  BY <1>1, <1>4, <1>5 DEF Relies

\* The invariant holds in every reachable state, from the constants'
\* assumptions alone.
THEOREM LockInvariant == LockSpec => []LockInv
<1>1. LockInit => LockInv
  <2> SUFFICES ASSUME LockInit PROVE LockInv
    OBVIOUS
  <2>1. LockTypeOK
    BY LockAssumption DEF LockInit, LockTypeOK, LockInfo, NoLock
  <2>2. Unix(0) \in 0..0
    BY UnixMonotone
  <2>3. ViewBounded
    BY <2>2 DEF LockInit, ViewBounded, Relies
  <2> QED
    BY <2>1, <2>3 DEF LockInv
<1>2. LockInv /\ [LockNext]_lockVars => LockInv'
  <2> SUFFICES ASSUME LockInv, [LockNext]_lockVars PROVE LockInv'
    OBVIOUS
  <2>1. ASSUME NEW c \in Clients, NEW p \in Paths, NEW s \in TtlSeconds, Acquire(c, p, s)
        PROVE  LockInv'
    BY <2>1, ExpiredUnrelied, GrantedStep, LockAssumption DEF Acquire
  <2>2. ASSUME NEW c \in Clients, NEW p \in Paths, NEW s \in TtlSeconds, Renew(c, p, s)
        PROVE  LockInv'
    <3>1. \A d \in Clients \ {c} : ~Relies(d, p)
      BY <2>2 DEF Renew, LockInv, ViewBounded
    <3> QED
      BY <2>2, <3>1, GrantedStep, LockAssumption DEF Renew
  <2>3. ASSUME NEW c \in Clients, NEW p \in Paths, Release(c, p)
        PROVE  LockInv'
    <3>1. LockTypeOK'
      BY <2>3, LockAssumption DEF Release, LockInv, LockTypeOK, LockInfo, NoLock
    <3>2. ASSUME NEW d \in Clients, NEW q \in Paths, Relies(d, q)'
          PROVE  (locks[q].owner = d /\ view[d][q] <= Unix(locks[q].expireAt))'
      <4>1. ~(d = c /\ q = p)
        <5> SUFFICES ASSUME d = c, q = p PROVE FALSE
          OBVIOUS
        <5>1. view'[d][q] = 0 /\ time' = time
          BY <2>3 DEF Release, LockInv, LockTypeOK
        <5>2. Unix(time) \in Nat
          BY UnixMonotone DEF LockInv, LockTypeOK
        <5> QED
          BY <5>1, <5>2, <3>2 DEF Relies
      <4>2. view'[d][q] = view[d][q] /\ time' = time
        BY <4>1, <2>3 DEF Release, LockInv, LockTypeOK
      <4>3. Relies(d, q)
        BY <4>2, <3>2 DEF Relies
      <4>4. locks[q].owner = d /\ view[d][q] <= Unix(locks[q].expireAt)
        BY <4>3 DEF LockInv, ViewBounded
      <4>5. locks'[q] = locks[q]
        BY <4>1, <4>4, <2>3 DEF Release, LockInv, LockTypeOK
      <4> QED
        BY <4>2, <4>4, <4>5
    <3> QED
      BY <3>1, <3>2 DEF LockInv, ViewBounded
  <2>4. ASSUME TimePasses PROVE LockInv'
    <3>1. LockTypeOK'
      BY <2>4, LockAssumption DEF TimePasses, LockInv, LockTypeOK
    <3>2. Unix(time) <= Unix(time + 1) /\ Unix(time) \in Nat /\ Unix(time + 1) \in Nat
      BY UnixMonotone DEF LockInv, LockTypeOK
    <3>3. \A c \in Clients, p \in Paths : view[c][p] \in Int
      BY LockAssumption DEF LockInv, LockTypeOK
    <3>4. \A c \in Clients, p \in Paths : Relies(c, p)' => Relies(c, p)
      BY <2>4, <3>2, <3>3 DEF TimePasses, Relies
    <3>5. ViewBounded'
      BY <2>4, <3>4 DEF TimePasses, LockInv, ViewBounded
    <3> QED
      BY <3>1, <3>5 DEF LockInv
  <2>5. ASSUME CleanupExpired PROVE LockInv'
    <3>1. LockTypeOK'
      BY <2>5, LockAssumption DEF CleanupExpired, LockInv, LockTypeOK, LockInfo, NoLock
    <3>2. ASSUME NEW c \in Clients, NEW p \in Paths, Relies(c, p)'
          PROVE  (locks[p].owner = c /\ view[c][p] <= Unix(locks[p].expireAt))'
      <4>1. Relies(c, p)
        BY <2>5, <3>2 DEF CleanupExpired, Relies
      <4>2. ~Expired(p)
        BY <4>1, ExpiredUnrelied
      <4> QED
        BY <2>5, <4>1, <4>2 DEF CleanupExpired, LockInv, ViewBounded
    <3> QED
      BY <3>1, <3>2 DEF LockInv, ViewBounded
  <2>6. CASE UNCHANGED lockVars
    BY <2>6 DEF lockVars, LockInv, LockTypeOK, ViewBounded, Relies
  <2> QED
    BY <2>1, <2>2, <2>3, <2>4, <2>5, <2>6 DEF LockNext
<1> QED
  BY <1>1, <1>2, PTL DEF LockSpec

\* A client that goes by its expire_at has the lock in the manager.
THEOREM CountedOnIsHeld == LockSpec => []ViewIsHeld
<1>1. LockInv => ViewIsHeld
  <2> SUFFICES ASSUME LockInv, NEW c \in Clients, NEW p \in Paths, Relies(c, p)
               PROVE  locks[p].owner = c /\ time <= locks[p].expireAt
    BY DEF ViewIsHeld
  <2>1. locks[p].owner = c
    BY DEF LockInv, ViewBounded
  <2>2. ~Expired(p)
    BY ExpiredUnrelied
  <2> QED
    BY <2>1, <2>2, LockAssumption DEF Expired, LockInv, LockTypeOK, LockInfo
<1> QED
  BY <1>1, LockInvariant, PTL

\* No two clients count on the same path at the same time.
THEOREM NoTwoHolders == LockSpec => []OneHolder
<1>1. LockInv => OneHolder
  BY DEF LockInv, ViewBounded, OneHolder
<1> QED
  BY <1>1, LockInvariant, PTL
=============================================================================
