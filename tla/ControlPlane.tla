---------------------------- MODULE ControlPlane ----------------------------
(***************************************************************************)
(* ControlPlaneService, which devices call, and the calls of               *)
(* AdminConsoleService that change a device.  Each call runs in a          *)
(* goroutine of its own and goes to the database several times; other      *)
(* calls, a failing statement or the end of the process fall between any   *)
(* two of its statements, and its answer may be lost.                      *)
(*                                                                         *)
(* The SELECT that follows an UPDATE only to fill in the answer is not a   *)
(* step of its own.                                                        *)
(***************************************************************************)
EXTENDS DeviceRegistry

CONSTANTS
    Admins,          \* calls of AdminConsoleService that may run at a time
    Sessions,        \* calls of ControlPlaneService that may run at a time
    AdminRequests,
    DeviceRequests,
    MaxCalls,        \* bound on calls
    MaxFaults        \* bound: failing statements and crashes

AdminRequest ==
    [op : {"update"}, device : Devices, policy : Policies \cup {NoPolicy}, expected : Nat]
        \cup [op : {"action"}, device : Devices, type : ActionTypes, replace : BOOLEAN]
Beat ==
    [skew : -Skew .. Skew, overlay : BOOLEAN, grpc : BOOLEAN, error : BOOLEAN, mount : MountStates]
DeviceRequest ==
    [op : {"register"}, device : Devices, provider : BOOLEAN]
        \cup [op : {"heartbeat"}, device : Devices, beat : Beat]
        \cup [op : {"config", "upload"}, device : Devices]
        \cup [op : {"sync"}, device : Devices, error : BOOLEAN]
        \cup [op : {"mount"}, device : Devices, mounted : BOOLEAN, error : BOOLEAN]

ASSUME RequestAssumption ==
    /\ AdminRequests \subseteq AdminRequest /\ DeviceRequests \subseteq DeviceRequest
    /\ AdminRequests # {} /\ DeviceRequests # {}
    /\ Admins \cap Sessions = {}
    /\ MaxCalls \in Nat /\ MaxFaults \in Nat

Callers == Admins \cup Sessions
NoRequest == CHOOSE r \in DeviceRequests : TRUE   \* of a goroutine that serves none

VARIABLES
    pc,       \* caller -> the next statement
    req,      \* caller -> the request
    read,     \* caller -> what it has read: revision, policy, actions
    held,     \* device -> the configuration it has received last
    calls,    \* calls so far
    faults,   \* failures so far
    handed,   \* history variable: the policy last put into an answer, per device
    listed,   \* history variable: actions put into an answer
    heard,    \* history variable: when the last report of a device was taken
    raced     \* history variable: devices of which two updates have overlapped

callVars == <<pc, req, read>>
vars == <<regVars, now, callVars, held, calls, faults, handed, listed, heard, raced>>

Stages == {"idle", "get", "mark", "policy", "beat", "list", "delivered", "write", "reread",
           "enqueue", "report", "insert", "reply"}
NothingRead == [rev |-> 0, policy |-> NoPolicy, ids |-> {}]

FirstStage(op) ==
    CASE op \in {"update", "action", "config", "upload"} -> "get"
      [] op = "heartbeat" -> "beat"
      [] op \in {"register", "sync", "mount"} -> "report"

Goto(c, stage) == pc' = [pc EXCEPT ![c] = stage]
Dev(c) == req[c].device

-----------------------------------------------------------------------------
(* All calls *)

Begin(c, r) ==
    /\ pc[c] = "idle"
    /\ calls < MaxCalls /\ calls' = calls + 1
    /\ req' = [req EXCEPT ![c] = r]
    /\ Goto(c, FirstStage(r.op))
    /\ UNCHANGED <<regVars, now, read, held, faults, handed, listed, heard, raced>>

\* A goroutine that has ended.
Ended(c) ==
    /\ Goto(c, "idle")
    /\ req' = [req EXCEPT ![c] = NoRequest]
    /\ read' = [read EXCEPT ![c] = NothingRead]

\* The device is not registered: the call ends with NotFound.
NotFound(c) ==
    /\ pc[c] \in {"get", "beat", "report"} /\ req[c].op # "register"
    /\ ~device[Dev(c)].known
    /\ Ended(c)
    /\ UNCHANGED <<regVars, now, held, calls, faults, handed, listed, heard, raced>>

\* registry.Get, and for an update the check of expected_policy_revision.
GetDevice(c) ==
    LET d == device[Dev(c)] IN
    /\ pc[c] = "get" /\ d.known
    /\ IF req[c].op = "update" /\ req[c].expected \notin {0, d.rev}
       THEN Ended(c)
       ELSE /\ read' = [read EXCEPT ![c].rev = d.rev]
            /\ Goto(c, CASE req[c].op = "update" -> "write"
                         [] req[c].op = "action" -> "enqueue"
                         [] req[c].op = "config" -> "mark"
                         [] req[c].op = "upload" -> "insert")
            /\ UNCHANGED req
    /\ UNCHANGED <<regVars, now, held, calls, faults, handed, listed, heard, raced>>

\* The answer arrives, and a device takes over its configuration, or it is lost.
Answer(c) ==
    /\ pc[c] = "reply"
    /\ Ended(c)
    /\ \/ held' = IF req[c].op = "config"
                  THEN [held EXCEPT ![Dev(c)] = [rev |-> read[c].rev, policy |-> read[c].policy]]
                  ELSE held
       \/ UNCHANGED held
    /\ UNCHANGED <<regVars, now, calls, faults, handed, listed, heard, raced>>

-----------------------------------------------------------------------------
(* ControlPlaneService *)

\* A report has been written.
Reported(c, stage) ==
    /\ Goto(c, stage)
    /\ heard' = [heard EXCEPT ![Dev(c)] = now]
    /\ UNCHANGED <<now, req, read, held, calls, faults, handed, listed, raced>>

\* The policy of a device that is already there stays.
RegisterDevice(c) ==
    /\ pc[c] = "report" /\ req[c].op = "register"
    /\ Register(Dev(c), req[c].provider)
    /\ Reported(c, "reply")

ReportSyncState(c) ==
    /\ pc[c] = "report" /\ req[c].op = "sync" /\ device[Dev(c)].known
    /\ UpdateSyncState(Dev(c), req[c].error)
    /\ Reported(c, "reply")

ReportMountState(c) ==
    /\ pc[c] = "report" /\ req[c].op = "mount" /\ device[Dev(c)].known
    /\ UpdateMountState(Dev(c), req[c].mounted, req[c].error)
    /\ Reported(c, "reply")

Heartbeat(c) ==
    /\ pc[c] = "beat" /\ device[Dev(c)].known
    /\ UpdateHeartbeat(Dev(c), req[c].beat)
    /\ Reported(c, "list")

ListActions(c) ==
    /\ pc[c] = "list"
    /\ read' = [read EXCEPT ![c].ids = ListPendingActions(Dev(c))]
    /\ Goto(c, "delivered")
    /\ UNCHANGED <<regVars, now, req, held, calls, faults, handed, listed, heard, raced>>

MarkDelivered(c) ==
    /\ pc[c] = "delivered"
    /\ MarkActionsDelivered(read[c].ids)
    /\ listed' = listed \cup read[c].ids
    /\ Goto(c, "reply")
    /\ UNCHANGED <<now, req, read, held, calls, faults, handed, heard, raced>>

\* GetAssignedConfig clears the flag before it reads the policy, so that an
\* update after the read sets the flag again.
MarkPulled(c) ==
    /\ pc[c] = "mark"
    /\ MarkPolicyPulled(Dev(c))
    /\ Goto(c, "policy")
    /\ UNCHANGED <<now, req, read, held, calls, faults, handed, listed, heard, raced>>

GetPolicy(c) ==
    /\ pc[c] = "policy"
    /\ read' = [read EXCEPT ![c].policy = GetPolicyRow(Dev(c))]
    /\ handed' = [handed EXCEPT ![Dev(c)] = {GetPolicyRow(Dev(c))}]
    /\ Goto(c, "reply")
    /\ UNCHANGED <<regVars, now, req, held, calls, faults, listed, heard, raced>>

UploadDiagnostics(c) ==
    /\ pc[c] = "insert"
    /\ \E id \in DiagnosticIds : InsertDiagnostic(Dev(c), id)
    /\ Goto(c, "reply")
    /\ UNCHANGED <<now, req, read, held, calls, faults, handed, listed, heard, raced>>

-----------------------------------------------------------------------------
(* AdminConsoleService *)

\* Mutant: the revision stays.
UpdateSameRevision(c) ==
    LET r == req[c] IN
    /\ pc[c] = "write"
    /\ IF r.policy = NoPolicy
       THEN ResetPolicy(r.device, read[c].rev) /\ Goto(c, "reply")
       ELSE UpsertPolicy(r.device, r.policy, read[c].rev) /\ Goto(c, "reread")
    /\ UNCHANGED <<now, req, read, held, calls, faults, handed, listed, heard, raced>>

\* The revision that was read before is counted on, and the check of the expected
\* revision lies before it too: two updates that overlap get the same number.
UpdateDevicePolicy(c) ==
    LET r == req[c]
        next == read[c].rev + 1
    IN
    /\ pc[c] = "write" /\ next <= MaxRevision
    /\ IF r.policy = NoPolicy
       THEN ResetPolicy(r.device, next) /\ Goto(c, "reply")
       ELSE UpsertPolicy(r.device, r.policy, next) /\ Goto(c, "reread")
    /\ raced' = IF device[r.device].rev = read[c].rev THEN raced ELSE raced \cup {r.device}
    /\ UNCHANGED <<now, req, read, held, calls, faults, handed, listed, heard>>

\* UpsertPolicy reads the row back; if it has been reset meanwhile the call ends
\* with NotFound, although the update took place.
RereadPolicy(c) ==
    /\ pc[c] = "reread"
    /\ IF GetPolicyRow(Dev(c)) = NoPolicy THEN Ended(c) ELSE Goto(c, "reply") /\ UNCHANGED <<req, read>>
    /\ UNCHANGED <<regVars, now, held, calls, faults, handed, listed, heard, raced>>

RequestClientAction(c) ==
    /\ pc[c] = "enqueue"
    /\ \E id \in ActionIds : EnqueueAction(Dev(c), req[c].type, req[c].replace, id)
    /\ Goto(c, "reply")
    /\ UNCHANGED <<now, req, read, held, calls, faults, handed, listed, heard, raced>>

-----------------------------------------------------------------------------
(* Failures *)

Fault == faults < MaxFaults /\ faults' = faults + 1

\* A configuration that was marked as pulled and never put into an answer.
Unanswered(c) == pc[c] = "policy"
Forget(C) == handed' = [d \in Devices |-> IF \E c \in C : Unanswered(c) /\ Dev(c) = d THEN {} ELSE handed[d]]

StatementFails(c) ==
    /\ pc[c] \notin {"idle", "reply"}
    /\ Fault
    /\ Ended(c)
    /\ Forget({c})
    /\ UNCHANGED <<regVars, now, held, calls, listed, heard, raced>>

Crash ==
    /\ Fault
    /\ \E c \in Callers : pc[c] # "idle"
    /\ pc' = [c \in Callers |-> "idle"]
    /\ req' = [c \in Callers |-> NoRequest]
    /\ read' = [c \in Callers |-> NothingRead]
    /\ Forget(Callers)
    /\ UNCHANGED <<regVars, now, held, calls, listed, heard, raced>>

Tick ==
    /\ now < MaxTime
    /\ now' = now + 1
    /\ UNCHANGED <<regVars, callVars, held, calls, faults, handed, listed, heard, raced>>

-----------------------------------------------------------------------------
(* Specification *)

NoConfig == [rev |-> 0, policy |-> NoPolicy]

Init ==
    /\ RegistryInit
    /\ pc = [c \in Callers |-> "idle"]
    /\ req = [c \in Callers |-> NoRequest]
    /\ read = [c \in Callers |-> NothingRead]
    /\ held = [d \in Devices |-> NoConfig]
    /\ calls = 0
    /\ faults = 0
    /\ handed = [d \in Devices |-> {}]
    /\ listed = {}
    /\ heard = [d \in Devices |-> device[d].seen]
    /\ raced = {}

Step(c) ==
    \/ NotFound(c) \/ GetDevice(c) \/ Answer(c)
    \/ RegisterDevice(c) \/ ReportSyncState(c) \/ ReportMountState(c) \/ Heartbeat(c)
    \/ ListActions(c) \/ MarkDelivered(c)
    \/ MarkPulled(c) \/ GetPolicy(c) \/ UploadDiagnostics(c)
    \/ UpdateDevicePolicy(c) \/ RereadPolicy(c) \/ RequestClientAction(c)

Next ==
    \/ \E c \in Admins, r \in AdminRequests : Begin(c, r)
    \/ \E c \in Sessions, r \in DeviceRequests : Begin(c, r)
    \/ \E c \in Callers : Step(c)
    \/ \E c \in Callers : StatementFails(c)
    \/ Crash
    \/ Tick

Spec == Init /\ [][Next]_vars

-----------------------------------------------------------------------------
(* Properties *)

Read == [rev : 0..MaxRevision, policy : Policies \cup {NoPolicy}, ids : SUBSET ActionIds]

TypeOK ==
    /\ RegistryTypeOK
    /\ pc \in [Callers -> Stages]
    /\ req \in [Callers -> AdminRequests \cup DeviceRequests]
    /\ read \in [Callers -> Read]
    /\ held \in [Devices -> [rev : 0..MaxRevision, policy : Policies \cup {NoPolicy}]]
    /\ calls \in 0..MaxCalls
    /\ faults \in 0..MaxFaults
    /\ handed \in [Devices -> SUBSET (Policies \cup {NoPolicy})]
    /\ listed \subseteq ActionIds
    /\ heard \in [Devices -> 0..MaxTime]
    /\ raced \subseteq Devices

\* A device that has the configuration of the current revision has the current
\* policy.  A heartbeat answers with the revision only, so a device that sees
\* its own revision there does not pull again: another policy under the same
\* number would never reach it.  Answers may be lost and overtake one another.
\* GetAssignedConfig has to read the revision before the policy.  Updates that
\* overlap are excepted: the later one is written under the same number, and a
\* device that pulled between the two is told nothing.
RevisionNamesPolicy ==
    \A d \in Devices \ raced :
        device[d].known /\ held[d].rev = device[d].rev => held[d].policy = policy[d]

\* Once requires_policy_pull is off the policy last handed to the device is the
\* current one, unless a call failed between the two (`handed' is empty then):
\* GetAssignedConfig must clear the flag before it reads the policy, or an
\* update between the two would go unnoticed.
PulledIsCurrent ==
    \A d \in Devices :
        device[d].known /\ ~device[d].pull /\ ~(\E c \in Callers : Unanswered(c) /\ Dev(c) = d)
            => handed[d] \subseteq {policy[d]}

\* No action is swallowed: one that is not pending has been put into an answer,
\* or was cancelled for a newer one of its type.  An action that arrives
\* between the listing of a heartbeat and its marking stays pending.  Whether
\* that answer arrives is another matter: the code marks before it answers.
NoActionSwallowed ==
    \A i \in DOMAIN actions :
        \/ actions[i].status = "pending"
        \/ i \in listed
        \/ /\ actions[i].status = "cancelled"
           /\ \E j \in DOMAIN actions \ {i} :
                /\ actions[j].device = actions[i].device /\ actions[j].type = actions[i].type
                /\ actions[j].at >= actions[i].at

\* The console never takes a device for offline that has reported lately, nor
\* one for online that has been silent too long, by more than the difference of
\* the clocks: heartbeats bring the device's clock, the other reports the
\* server's, and either may come last.
OnlineStateTimely ==
    \A d \in Devices :
        device[d].known =>
            IF OnlineState(d) = "offline"
            THEN now - heard[d] > OfflineAfter - Skew
            ELSE now - heard[d] <= OfflineAfter + Skew
=============================================================================
