SPECIFICATION Spec
CONSTANTS
    d1 = d1
    p1 = p1
    p2 = p2
    resync = resync
    Devices = {d1}
    Policies = {p1, p2}
    NoPolicy = NoPolicy
    DefaultRevision = 1
    ActionTypes = {resync}
    ActionIds <- MCIds
    DiagnosticIds <- MCIds
    KeepLatest = 1
    ListLimit = 1
    OfflineAfter = 1
    Skew = 1
    MaxRevision = 4
    MaxTime = 4
    Admins = {a1, a2}
    Sessions = {s1, s2}
    AdminRequests <- MCAdminRequests
    DeviceRequests <- MCDeviceRequests
    MaxCalls = 4
    MaxFaults = 1
INVARIANTS
    RevisionNamesPolicy
    PulledIsCurrent
    NoActionSwallowed
    OnlineStateTimely
CONSTRAINT CallsBound
SYMMETRY CallerSymmetry
CHECK_DEADLOCK FALSE
