----------------------------- MODULE SharedMutex ------------------------------
(***************************************************************************)
(* std::shared_mutex: w is the set of the threads that hold it exclusively *)
(* (at most one), r the set of those that share it.                        *)
(***************************************************************************)
EXTENDS Integers

Unlocked == [w |-> {}, r |-> {}]

CanLock(m)       == m.w = {} /\ m.r = {}
CanLockShared(m) == m.w = {}

Lock(t)            == [w |-> {t}, r |-> {}]
LockShared(m, t)   == [m EXCEPT !.r = @ \cup {t}]
UnlockShared(m, t) == [m EXCEPT !.r = @ \ {t}]
=============================================================================
