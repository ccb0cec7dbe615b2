---------------------------- MODULE LockManager ----------------------------
(***************************************************************************)
(* lock.Manager behind LockService: advisory locks on paths with an expiry *)
(* time.  The manager forgets nothing when a lock expires: an expired      *)
(* entry stays until somebody takes it over, its owner renews or releases  *)
(* it, or CleanupExpired removes it.                                       *)
(*                                                                         *)
(* Each call runs under the manager's mutex and is one action.  view is    *)
(* what the clients know: the expire_at, in whole seconds, of the last     *)
(* successful answer to each.                                              *)
(***************************************************************************)
EXTENDS Integers

CONSTANTS
    Paths, Clients,
    TicksPerSecond, \* resolution of time.Time against expire_at's seconds
    DefaultTTL,     \* in ticks
    TtlSeconds,     \* the ttl_seconds clients send
    Width,          \* a time.Duration wraps at Width ticks
    LastTime,       \* bound: the last moment
    Nobody

ASSUME LockAssumption ==
    /\ TicksPerSecond \in Nat \ {0} /\ DefaultTTL \in Nat \ {0}
    /\ TtlSeconds \subseteq Int /\ Width \in Nat \ {0} /\ DefaultTTL <= Width
    /\ LastTime \in Nat /\ Nobody \notin Clients

VARIABLES
    time,   \* the manager's clock
    locks,  \* path -> LockInfo; the owner Nobody for a path that is not in the map
    view    \* client -> path -> the second at which its lock expires, 0 for none
lockVars == <<time, locks, view>>

LockInfo == [owner : Clients \cup {Nobody}, expireAt : 0..(LastTime + Width)]
NoLock == [owner |-> Nobody, expireAt |-> 0]
LockTypeOK ==
    /\ time \in 0..LastTime
    /\ locks \in [Paths -> LockInfo]
    /\ view \in [Clients -> [Paths -> 0..(LastTime + Width)]]

Unix(t) == t \div TicksPerSecond

\* time.Duration(ttl_seconds) * time.Second, in a signed width; what is not
\* positive means the default.
Duration(s) == ((s * TicksPerSecond + Width) % (2 * Width)) - Width
TTL(s) == IF Duration(s) <= 0 THEN DefaultTTL ELSE Duration(s)

LockInit ==
    /\ time = 0
    /\ locks = [p \in Paths |-> NoLock]
    /\ view = [c \in Clients |-> [p \in Paths |-> 0]]

Expired(p) == time > locks[p].expireAt

Granted(c, p, t) ==
    /\ locks' = [locks EXCEPT ![p] = [owner |-> c, expireAt |-> t]]
    /\ view' = [view EXCEPT ![c][p] = Unix(t)]
    /\ UNCHANGED time

Acquire(c, p, s) ==
    /\ locks[p].owner = Nobody \/ Expired(p)
    /\ Granted(c, p, time + TTL(s))

\* The owner may renew also after the lock has expired, if nobody took it.
Renew(c, p, s) ==
    /\ locks[p].owner = c
    /\ Granted(c, p, time + TTL(s))

\* Mutant: a release that does not ask who holds the lock.
ReleaseAny(c, p) ==
    /\ locks' = [locks EXCEPT ![p] = NoLock]
    /\ view' = [view EXCEPT ![c][p] = 0]
    /\ UNCHANGED time

\* The client forgets its lock when it asks for the release, whatever the
\* answer is.
Release(c, p) ==
    /\ locks' = [locks EXCEPT ![p] = IF @.owner = c THEN NoLock ELSE @]
    /\ view' = [view EXCEPT ![c][p] = 0]
    /\ UNCHANGED time

\* Removes the entries that have expired.  The server does not call it.
CleanupExpired ==
    /\ locks' = [p \in Paths |-> IF Expired(p) THEN NoLock ELSE locks[p]]
    /\ UNCHANGED <<time, view>>

TimePasses == time < LastTime /\ time' = time + 1 /\ UNCHANGED <<locks, view>>

LockNext ==
    \/ \E c \in Clients, p \in Paths, s \in TtlSeconds : Acquire(c, p, s) \/ Renew(c, p, s)
    \/ \E c \in Clients, p \in Paths : Release(c, p)
    \/ CleanupExpired \/ TimePasses
LockSpec == LockInit /\ [][LockNext]_lockVars

----------------------------------------------------------------------------
(* Properties.                                                             *)

Relies(c, p) == Unix(time) < view[c][p]

\* A client that goes by the expire_at it was given has the lock: whatever
\* happened since, the manager still holds the path for it until then (Acquire,
\* Renew and Release of others, and the rounding of expire_at to seconds).
ViewIsHeld ==
    \A c \in Clients, p \in Paths :
        Relies(c, p) => locks[p].owner = c /\ time <= locks[p].expireAt

\* So no two clients believe that they have the same path.
OneHolder ==
    \A c, d \in Clients, p \in Paths : Relies(c, p) /\ Relies(d, p) => c = d
============================================================================
