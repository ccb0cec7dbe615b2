--------------------------- MODULE MCControlPlane ---------------------------
(* One device, administrators that set, reset and queue, and the device's    *)
(* calls; two calls may be under way at a time.                              *)
EXTENDS ControlPlane, TLC

CONSTANTS d1, p1, p2, resync

Healthy == [skew |-> 0, overlay |-> TRUE, grpc |-> TRUE, error |-> FALSE, mount |-> ""]
Behind == [skew |-> -1, overlay |-> FALSE, grpc |-> TRUE, error |-> FALSE, mount |-> ""]

SetPolicy(p, expected) == [op |-> "update", device |-> d1, policy |-> p, expected |-> expected]
Queue(replace) == [op |-> "action", device |-> d1, type |-> resync, replace |-> replace]

MCAdminRequests == {SetPolicy(p1, 0), SetPolicy(p2, 2), SetPolicy(NoPolicy, 0), Queue(TRUE), Queue(FALSE)}
MCDeviceRequests ==
    {[op |-> "register", device |-> d1, provider |-> TRUE],
     [op |-> "heartbeat", device |-> d1, beat |-> Healthy],
     [op |-> "heartbeat", device |-> d1, beat |-> Behind],
     [op |-> "config", device |-> d1], [op |-> "upload", device |-> d1],
     [op |-> "sync", device |-> d1, error |-> FALSE],
     [op |-> "mount", device |-> d1, mounted |-> TRUE, error |-> FALSE]}
MCIds == 1..2

\* Bound of the exploration: calls under way at a time.
MaxUnderWay == 2
CallsBound == Cardinality({c \in Callers : pc[c] # "idle"}) <= MaxUnderWay

CallerSymmetry == Permutations(Sessions) \cup Permutations(Admins)
=============================================================================
