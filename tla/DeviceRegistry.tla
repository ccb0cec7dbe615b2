--------------------------- MODULE DeviceRegistry ---------------------------
(***************************************************************************)
(* The device tables of the database: device_registry, device_policy,      *)
(* device_actions and device_diagnostics, and the statements and           *)
(* transactions of db.DeviceRegistry over them.  Each is one step, because *)
(* the database has one connection.                                        *)
(*                                                                         *)
(* Of a text column only whether it is empty is kept, of a policy its      *)
(* identity.  The names, versions and counters that a device reports and   *)
(* the console shows are left out.                                         *)
(***************************************************************************)
EXTENDS Integers, FiniteSetsExt

CONSTANTS
    Devices,
    Policies,         \* assigned configurations an administrator may set
    NoPolicy,         \* no row in device_policy: the default configuration
    DefaultRevision,  \* control_plane.default_policy_revision
    ActionTypes,
    ActionIds,        \* random identifiers, compared as the database does
    DiagnosticIds,
    KeepLatest,       \* control_plane.diagnostics_keep_latest
    ListLimit,        \* the LIMIT of a listing of actions
    OfflineAfter,     \* three heartbeat intervals, at least 45 seconds
    Skew,             \* bound: how far a device's clock may be off
    MaxRevision,      \* bound on policy revisions
    MaxTime           \* bound on the clock

ASSUME RegistryAssumption ==
    /\ NoPolicy \notin Policies
    /\ DefaultRevision \in Nat \ {0} /\ MaxRevision \in Nat /\ DefaultRevision <= MaxRevision
    /\ ActionIds \subseteq Nat /\ DiagnosticIds \subseteq Nat
    /\ KeepLatest \in Nat \ {0} /\ ListLimit \in Nat \ {0}
    /\ Skew \in Nat /\ OfflineAfter \in Nat /\ MaxTime \in Nat /\ Skew + 1 < MaxTime

VARIABLES
    device,       \* device_registry:    device -> row
    policy,       \* device_policy:      device -> policy, or NoPolicy
    actions,      \* device_actions:     action_id -> row
    diagnostics,  \* device_diagnostics: diagnostics_id -> row
    now           \* the server's clock

regVars == <<device, policy, actions, diagnostics>>

-----------------------------------------------------------------------------
(* Rows *)

MountStates == {"", "mounted", "unmounted", "error"}
DeviceRow ==
    [known : BOOLEAN, rev : 0..MaxRevision, pull : BOOLEAN, provider : BOOLEAN,
     overlay : BOOLEAN, grpc : BOOLEAN, error : BOOLEAN, syncError : BOOLEAN,
     mount : MountStates, seen : Nat]
NoDevice ==
    [known |-> FALSE, rev |-> 0, pull |-> FALSE, provider |-> FALSE,
     overlay |-> FALSE, grpc |-> FALSE, error |-> FALSE, syncError |-> FALSE,
     mount |-> "", seen |-> 0]
ActionRow ==
    [device : Devices, type : ActionTypes, at : Nat, status : {"pending", "delivered", "cancelled"}]
DiagnosticRow == [device : Devices, at : Nat]

\* The rows with a further one.
With(rows, id, row) == [i \in (DOMAIN rows) \cup {id} |-> IF i = id THEN row ELSE rows[i]]

\* ORDER BY at DESC, id DESC LIMIT n, of the rows S.
Latest(rows, S, n) ==
    {i \in S : Cardinality({j \in S : \/ rows[j].at > rows[i].at
                                      \/ rows[j].at = rows[i].at /\ j > i}) < n}

-----------------------------------------------------------------------------
(* The device row *)

\* A device that registers again keeps its revision and its pull flag.
Register(d, provider) ==
    /\ device' = [device EXCEPT ![d] =
            [(IF @.known THEN @ ELSE [NoDevice EXCEPT !.rev = DefaultRevision, !.pull = TRUE])
                EXCEPT !.known = TRUE, !.provider = provider, !.overlay = TRUE,
                       !.grpc = TRUE, !.seen = now]]
    /\ UNCHANGED <<policy, actions, diagnostics>>

\* last_seen_at_unix is the device's own clock.
UpdateHeartbeat(d, b) ==
    /\ device' = [device EXCEPT ![d] =
            [@ EXCEPT !.overlay = b.overlay, !.grpc = b.grpc, !.error = b.error,
                      !.mount = b.mount, !.seen = now + b.skew]]
    /\ UNCHANGED <<policy, actions, diagnostics>>

\* An error stays in last_error until a heartbeat without one.
UpdateSyncState(d, err) ==
    /\ device' = [device EXCEPT ![d] =
            [@ EXCEPT !.syncError = err, !.error = @ \/ err, !.grpc = TRUE, !.seen = now]]
    /\ UNCHANGED <<policy, actions, diagnostics>>

UpdateMountState(d, mounted, err) ==
    /\ device' = [device EXCEPT ![d] =
            [@ EXCEPT !.mount = IF mounted THEN "mounted" ELSE IF err THEN "error" ELSE "unmounted",
                      !.error = @ \/ err, !.seen = now]]
    /\ UNCHANGED <<policy, actions, diagnostics>>

MarkPolicyPulled(d) ==
    /\ device' = [device EXCEPT ![d].pull = FALSE]
    /\ UNCHANGED <<policy, actions, diagnostics>>

-----------------------------------------------------------------------------
(* Policies *)

\* GetPolicy: the row of device_policies, or NoPolicy when there is none and the
\* default configuration is assigned.
GetPolicyRow(d) == policy[d]

\* Mutant: the device is not told to pull.
UpsertWithoutPull(d, p, r) ==
    /\ p # NoPolicy
    /\ policy' = [policy EXCEPT ![d] = p]
    /\ device' = [device EXCEPT ![d].rev = r]
    /\ UNCHANGED <<actions, diagnostics>>

UpsertPolicy(d, p, r) ==
    /\ p # NoPolicy
    /\ policy' = [policy EXCEPT ![d] = p]
    /\ device' = [device EXCEPT ![d].rev = r, ![d].pull = TRUE]
    /\ UNCHANGED <<actions, diagnostics>>

ResetPolicy(d, r) ==
    /\ policy' = [policy EXCEPT ![d] = NoPolicy]
    /\ device' = [device EXCEPT ![d].rev = r, ![d].pull = TRUE]
    /\ UNCHANGED <<actions, diagnostics>>

-----------------------------------------------------------------------------
(* Actions and diagnostics *)

EnqueueAction(d, type, replace, id) ==
    LET Similar(i) ==
            replace /\ actions[i].device = d /\ actions[i].type = type /\ actions[i].status = "pending"
        cancelled == [i \in DOMAIN actions |->
            IF Similar(i) THEN [actions[i] EXCEPT !.status = "cancelled"] ELSE actions[i]]
    IN
    /\ id \in ActionIds \ DOMAIN actions
    /\ actions' = With(cancelled, id, [device |-> d, type |-> type, at |-> now, status |-> "pending"])
    /\ UNCHANGED <<device, policy, diagnostics>>

Pending(d) == {i \in DOMAIN actions : actions[i].device = d /\ actions[i].status = "pending"}

ListPendingActions(d) == Latest(actions, Pending(d), ListLimit)

\* Mutant: all actions of the devices concerned.
MarkAllDelivered(ids) ==
    /\ actions' = [i \in DOMAIN actions |->
            IF actions[i].status = "pending" /\ \E j \in ids : actions[j].device = actions[i].device
            THEN [actions[i] EXCEPT !.status = "delivered"] ELSE actions[i]]
    /\ UNCHANGED <<device, policy, diagnostics>>

MarkActionsDelivered(ids) ==
    /\ actions' = [i \in DOMAIN actions |->
            IF i \in ids /\ actions[i].status = "pending"
            THEN [actions[i] EXCEPT !.status = "delivered"] ELSE actions[i]]
    /\ UNCHANGED <<device, policy, diagnostics>>

InsertDiagnostic(d, id) ==
    LET rows == With(diagnostics, id, [device |-> d, at |-> now])
        own == {i \in DOMAIN rows : rows[i].device = d}
        kept == (DOMAIN rows \ own) \cup Latest(rows, own, KeepLatest)
    IN
    /\ id \in DiagnosticIds \ DOMAIN diagnostics
    /\ diagnostics' = [i \in kept |-> rows[i]]
    /\ UNCHANGED <<device, policy, actions>>

-----------------------------------------------------------------------------
(* What the console shows *)

\* Mutant: a device that has reported no error counts as online.
OnlineUnlessError(d) ==
    IF device[d].error \/ device[d].syncError THEN "degraded" ELSE "online"

\* deviceOnlineState.
OnlineState(d) ==
    LET r == device[d] IN
    CASE r.seen = 0 -> "unknown"
      [] r.seen # 0 /\ now - r.seen > OfflineAfter -> "offline"
      [] r.seen # 0 /\ now - r.seen <= OfflineAfter ->
            IF ~r.grpc \/ (r.provider /\ ~r.overlay) \/ r.error \/ r.syncError
            THEN "degraded" ELSE "online"

\* The server starts with a database in which some devices registered long ago.
RegisteredRow ==
    [NoDevice EXCEPT !.known = TRUE, !.rev = DefaultRevision, !.pull = TRUE,
                     !.overlay = TRUE, !.grpc = TRUE, !.seen = 1]
RegistryInit ==
    /\ device \in [Devices -> {NoDevice, RegisteredRow}]
    /\ policy = [d \in Devices |-> NoPolicy]
    /\ actions = << >>
    /\ diagnostics = << >>
    /\ now = Skew + 2

RegistryTypeOK ==
    /\ device \in [Devices -> DeviceRow]
    /\ policy \in [Devices -> Policies \cup {NoPolicy}]
    /\ DOMAIN actions \subseteq ActionIds /\ \A i \in DOMAIN actions : actions[i] \in ActionRow
    /\ DOMAIN diagnostics \subseteq DiagnosticIds
    /\ \A i \in DOMAIN diagnostics : diagnostics[i] \in DiagnosticRow
    /\ now \in Skew + 2 .. MaxTime
=============================================================================
