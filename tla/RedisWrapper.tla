----------------------------- MODULE RedisWrapper ------------------------------
(***************************************************************************)
(* The Redis commands on counters, lists and sets, with expiry             *)
(* (src/src/redis_wrapper/redis_wrapper.cpp), called by several threads    *)
(* under one reader/writer lock, redis_mtx.                                *)
(*                                                                         *)
(* The engine below is the map that put, get and remove make of it as long *)
(* as its memtable has not been flushed. Each key is used with one type. A *)
(* command that writes is two steps under the exclusive lock: acquire it   *)
(* and read, then write and release it (SREM: four). A command that first  *)
(* looks whether its key has expired does so under the shared lock.        *)
(***************************************************************************)
EXTENDS Integers, SequencesExt, SharedMutex

CONSTANTS
  Thread,
  Counter, List, Set,   \* keys, by the type of their values
  Other,                \* keys of other types: see RedisCollections
  Elem,                 \* elements of sets
  Command,              \* the commands in use
  None,                 \* an empty optional
  MaxNow,               \* bound on the clock
  MaxCalls              \* bound on the number of calls

Key == Counter \cup List \cup Set \cup Other

ASSUME RedisAssumption ==
  /\ Counter \cap List = {} /\ Counter \cap Set = {} /\ List \cap Set = {}
  /\ Other \cap (Counter \cup List \cup Set) = {}
  /\ None \notin Int /\ MaxNow \in Nat /\ MaxCalls \in Nat

VARIABLES
  str,        \* the value of each counter
  list,       \* the value of each list; empty: there is none
  members,    \* the elements of each set, a key of the engine each
  card,       \* the value of each set: its size
  ttl,        \* the time of expiry of each key
  now,
  redis_mtx,
  pc, cmd,    \* per thread: next step, its command [op, key, elem]
  seen,       \* per thread: what it has read
  calls,
  \* history: what each counter should be, the number of elements pushed
  \* (they are 1, 2, ...), those popped, those dropped with their list
  sum, pushed, popped, dropped

data    == <<str, list, members, card, ttl>>
history == <<sum, pushed, popped, dropped>>
vars == <<data, now, redis_mtx, pc, cmd, seen, calls, history>>

At(t, l)   == pc[t] = l

\* The next step of a command; idle: it has returned.
NoCommand  == [op |-> None, key |-> None, elem |-> None]
Goto(t, l) ==
  /\ pc' = [pc EXCEPT ![t] = l]
  /\ cmd' = IF l = "idle" THEN [cmd EXCEPT ![t] = NoCommand] ELSE cmd

Op(t)  == cmd[t].op
Big(t) == cmd[t].key

\* is_expired
Expired(k) == ttl[k] # None /\ ttl[k] < now

-----------------------------------------------------------------------------
(* Commands that take the exclusive lock at once: SET, INCR, DECR, DEL,    *)
(* EXPIRE; and the others when they have found their key not expired.      *)

Plus(n, d) == IF n = None THEN d ELSE n + d

\* What the command reads: the value of a counter or a list. SREM: which of
\* its elements are not there.
Read(t) ==
  LET k == Big(t)
  IN  CASE k \in Counter -> str[k]
        [] k \in List -> list[k]
        [] k \in Set -> [absent |-> {cmd[t].elem} \ members[k], size |-> None]
        [] OTHER -> None

\* Mutant of acquire: the lock is shared.
acquire_shared(t) ==
  /\ At(t, "acquire") /\ CanLockShared(redis_mtx)
  /\ redis_mtx' = LockShared(redis_mtx, t)
  /\ seen' = [seen EXCEPT ![t] = Read(t)]
  /\ Goto(t, "apply")
  /\ UNCHANGED <<data, now, calls, history>>

acquire(t) ==
  /\ At(t, "acquire") /\ CanLock(redis_mtx)
  /\ redis_mtx' = Lock(t)
  /\ seen' = [seen EXCEPT ![t] = Read(t)]
  /\ Goto(t, "apply")
  /\ UNCHANGED <<data, now, calls, history>>

\* The end of a command that holds the lock exclusively.
Release(t) ==
  /\ redis_mtx' = Unlocked /\ Goto(t, "idle")
  /\ seen' = [seen EXCEPT ![t] = None]
  /\ UNCHANGED <<now, calls>>

Applies(t, op) == At(t, "apply") /\ Op(t) = op

WriteCounter(t, x, total) ==
  /\ str' = [str EXCEPT ![Big(t)] = x]
  /\ sum' = [sum EXCEPT ![Big(t)] = total]
  /\ UNCHANGED <<list, members, card, pushed, popped, dropped>>

\* A put, and the key no longer expires.
set(t) ==
  /\ Applies(t, "SET") /\ WriteCounter(t, 0, 0)
  /\ ttl' = [ttl EXCEPT ![Big(t)] = None]
  /\ Release(t)

incr(t) ==
  /\ Applies(t, "INCR")
  /\ WriteCounter(t, Plus(seen[t], 1), Plus(sum[Big(t)], 1))
  /\ UNCHANGED ttl /\ Release(t)

\* Without a value it writes -1 and then throws.
decr(t) ==
  /\ Applies(t, "DECR")
  /\ WriteCounter(t, Plus(seen[t], -1), Plus(sum[Big(t)], -1))
  /\ UNCHANGED ttl /\ Release(t)

\* Both keys of k, its value and its time of expiry, leave the engine; the
\* elements of a set are keys of their own, and stay.
Erase(k) ==
  /\ ttl' = [ttl EXCEPT ![k] = None]
  /\ str'  = [c \in Counter |-> IF c = k THEN None ELSE str[c]]
  /\ sum'  = [c \in Counter |-> IF c = k THEN None ELSE sum[c]]
  /\ list' = [l \in List |-> IF l = k THEN <<>> ELSE list[l]]
  /\ card' = [s \in Set |-> IF s = k THEN None ELSE card[s]]
  /\ dropped' = dropped \cup (IF k \in List THEN ToSet(list[k]) ELSE {})
  /\ UNCHANGED <<members, pushed, popped>>

del(t) == Applies(t, "DEL") /\ Erase(Big(t)) /\ Release(t)

\* EXPIRE key 0: the key expires when the clock moves on.
expire(t) ==
  /\ Applies(t, "EXPIRE")
  /\ ttl' = [ttl EXCEPT ![Big(t)] = now]
  /\ UNCHANGED <<str, list, members, card, history>>
  /\ Release(t)

\* A list in one string, its elements apart by '#'.
Push(t, op, s) ==
  /\ Applies(t, op)
  /\ list' = [list EXCEPT ![Big(t)] = s]
  /\ pushed' = pushed + 1
  /\ UNCHANGED <<str, members, card, ttl, sum, popped, dropped>>
  /\ Release(t)

lpush(t) == Push(t, "LPUSH", <<pushed + 1>> \o seen[t])
rpush(t) == Push(t, "RPUSH", Append(seen[t], pushed + 1))

Pop(t, s, e) ==
  /\ list' = [list EXCEPT ![Big(t)] = s]
  /\ popped' = popped \o e
  /\ UNCHANGED <<str, members, card, ttl, sum, pushed, dropped>>
  /\ Release(t)

\* Mutant of lpop: it takes the front of an empty list too.
lpop_unchecked(t) ==
  /\ Applies(t, "LPOP")
  /\ IF seen[t] = <<>> THEN Pop(t, <<>>, <<None>>)
     ELSE Pop(t, Tail(seen[t]), <<Head(seen[t])>>)

lpop(t) ==
  /\ Applies(t, "LPOP")
  /\ IF seen[t] = <<>> THEN Pop(t, <<>>, <<>>)
     ELSE Pop(t, Tail(seen[t]), <<Head(seen[t])>>)

rpop(t) ==
  /\ Applies(t, "RPOP")
  /\ IF seen[t] = <<>> THEN Pop(t, <<>>, <<>>)
     ELSE Pop(t, Front(seen[t]), <<Last(seen[t])>>)

WriteSet(t, n, S) ==
  /\ card' = [card EXCEPT ![Big(t)] = n]
  /\ members' = [members EXCEPT ![Big(t)] = S]
  /\ UNCHANGED <<str, list, ttl, history>>

(* SREM reads the size, writes it less the number of the elements that were *)
(* not there, and removes these. SADD, without a lock, may come between.    *)

srem_size(t) ==
  /\ Applies(t, "SREM") /\ Goto(t, "srem_put")
  /\ seen' = [seen EXCEPT ![t].size = Plus(card[Big(t)], -Cardinality(seen[t].absent))]
  /\ UNCHANGED <<data, now, redis_mtx, calls, history>>

srem_put(t) ==
  /\ At(t, "srem_put") /\ Goto(t, "srem_remove")
  /\ WriteSet(t, seen[t].size, members[Big(t)])
  /\ UNCHANGED <<now, redis_mtx, seen, calls>>

srem_remove(t) ==
  /\ At(t, "srem_remove")
  /\ WriteSet(t, card[Big(t)], members[Big(t)] \ seen[t].absent)
  /\ Release(t)

-----------------------------------------------------------------------------
(* GET and TTL read under the shared lock. GET of an expired key gives the *)
(* lock back, takes it exclusively and removes what it finds then.         *)

peek(t) ==
  /\ At(t, "peek") /\ CanLockShared(redis_mtx)
  /\ Goto(t, IF Op(t) = "GET" /\ str[Big(t)] # None /\ Expired(Big(t))
             THEN "clean" ELSE "idle")
  /\ UNCHANGED <<data, now, redis_mtx, seen, calls, history>>

(* The list and set commands: expire_list_clean, expire_set_clean.         *)

ListReader == {"LLEN", "LRANGE"}

SetReader == {"SISMEMBER", "SCARD", "SMEMBERS"}

\* The readers of hashes and sorted sets.
OtherReader == {"HGET", "HKEYS", "ZRANGE", "ZSCORE", "ZCARD", "ZRANK"}

\* Without a time of expiry, value() throws.
check_throws(t) ==
  /\ At(t, "check") /\ CanLockShared(redis_mtx) /\ ttl[Big(t)] = None
  /\ Goto(t, "idle")
  /\ UNCHANGED <<data, now, redis_mtx, seen, calls, history>>

check(t) ==
  /\ At(t, "check") /\ CanLockShared(redis_mtx) /\ ttl[Big(t)] # None
  /\ redis_mtx' = LockShared(redis_mtx, t)
  /\ Goto(t, IF Expired(Big(t)) THEN "unlock_clean" ELSE "unlock")
  /\ UNCHANGED <<data, now, seen, calls, history>>

After(t) == IF Op(t) \in ListReader \cup SetReader \cup OtherReader THEN "idle"
            ELSE IF Op(t) = "SADD" THEN "sadd" ELSE "acquire"

\* Mutant of unlock: the shared lock is kept while the exclusive one is
\* waited for.
unlock_late(t) ==
  /\ At(t, "unlock") /\ Goto(t, After(t))
  /\ redis_mtx' = IF After(t) = "idle" THEN UnlockShared(redis_mtx, t) ELSE redis_mtx
  /\ UNCHANGED <<data, now, seen, calls, history>>

\* A command that only reads does it now; the others give the lock back.
unlock(t) ==
  /\ At(t, "unlock") /\ Goto(t, After(t))
  /\ redis_mtx' = UnlockShared(redis_mtx, t)
  /\ UNCHANGED <<data, now, seen, calls, history>>

unlock_clean(t) ==
  /\ At(t, "unlock_clean") /\ Goto(t, "clean")
  /\ redis_mtx' = UnlockShared(redis_mtx, t)
  /\ UNCHANGED <<data, now, seen, calls, history>>

\* The key goes, whatever it is by now. The members of a set stay: a range
\* query of the engine leaves the memtable out.
clean(t) ==
  /\ At(t, "clean") /\ CanLock(redis_mtx)
  /\ Erase(Big(t))
  /\ Goto(t, IF Op(t) \in {"LPUSH", "RPUSH"} THEN "acquire"
             ELSE IF Op(t) = "SADD" THEN "sadd" ELSE "idle")
  /\ UNCHANGED <<now, redis_mtx, seen, calls>>

-----------------------------------------------------------------------------
(* SADD reads and writes without the lock: which elements are new, the     *)
(* size, and one batch of both.                                            *)

sadd_elem(t) ==
  /\ At(t, "sadd")
  /\ Goto(t, IF cmd[t].elem \in members[Big(t)] THEN "sadd_old" ELSE "sadd_new")
  /\ UNCHANGED <<data, now, redis_mtx, seen, calls, history>>

sadd_size(t) ==
  /\ pc[t] \in {"sadd_old", "sadd_new"}
  /\ seen' = [seen EXCEPT ![t] =
       Plus(Plus(card[Big(t)], 0), IF At(t, "sadd_new") THEN 1 ELSE 0)]
  /\ Goto(t, "sadd_put")
  /\ UNCHANGED <<data, now, redis_mtx, calls, history>>

sadd_put(t) ==
  /\ At(t, "sadd_put")
  /\ WriteSet(t, seen[t], members[Big(t)] \cup {cmd[t].elem})
  /\ seen' = [seen EXCEPT ![t] = None]
  /\ Goto(t, "idle")
  /\ UNCHANGED <<now, redis_mtx, calls>>

-----------------------------------------------------------------------------
\* Where a command on a key begins.
Begin(op, k) ==
  CASE op = "GET" -> IF k \in Counter THEN {"peek"} ELSE {}
    [] op = "TTL" -> {"peek"}
    [] op \in {"SET", "INCR", "DECR"} -> IF k \in Counter THEN {"acquire"} ELSE {}
    [] op \in {"DEL", "EXPIRE"} -> {"acquire"}
    [] op \in ListReader \cup {"LPUSH", "RPUSH", "LPOP", "RPOP"} ->
         IF k \in List THEN {"check"} ELSE {}
    [] OTHER -> IF k \in Set THEN {"check"} ELSE {}

Call(t) ==
  /\ At(t, "idle") /\ calls < MaxCalls
  /\ calls' = calls + 1
  /\ \E op \in Command, k \in Key, e \in Elem : \E l \in Begin(op, k) :
       /\ op \notin {"SADD", "SREM", "SISMEMBER"} => e = CHOOSE x \in Elem : TRUE
       /\ cmd' = [cmd EXCEPT ![t] = [op |-> op, key |-> k, elem |-> e]]
       /\ pc' = [pc EXCEPT ![t] = l]
  /\ UNCHANGED <<data, now, redis_mtx, seen, history>>

Tick == now < MaxNow /\ now' = now + 1
        /\ UNCHANGED <<data, redis_mtx, pc, cmd, seen, calls, history>>

Init ==
  /\ str = [c \in Counter |-> None] /\ sum = str
  /\ list = [l \in List |-> <<>>]
  /\ members = [s \in Set |-> {}] /\ card = [s \in Set |-> None]
  /\ ttl = [k \in Key |-> None] /\ now = 0
  /\ redis_mtx = Unlocked
  /\ pc = [t \in Thread |-> "idle"]
  /\ cmd = [t \in Thread |-> NoCommand]
  /\ seen = [t \in Thread |-> None]
  /\ calls = 0 /\ pushed = 0 /\ popped = <<>> /\ dropped = {}

Step(t) ==
  \/ acquire(t) \/ set(t) \/ incr(t) \/ decr(t) \/ del(t) \/ expire(t)
  \/ lpush(t) \/ rpush(t) \/ lpop(t) \/ rpop(t)
  \/ srem_size(t) \/ srem_put(t) \/ srem_remove(t)
  \/ peek(t) \/ check_throws(t) \/ check(t) \/ unlock(t) \/ unlock_clean(t) \/ clean(t)
  \/ sadd_elem(t) \/ sadd_size(t) \/ sadd_put(t)

Done == calls = MaxCalls /\ (\A t \in Thread : At(t, "idle")) /\ UNCHANGED vars

Next == (\E t \in Thread : Step(t) \/ Call(t)) \/ Tick \/ Done

Spec == Init /\ [][Next]_vars

\* A thread that can take the next step of its command takes it.
FairSpec == Spec /\ \A t \in Thread : WF_vars(Step(t))
-----------------------------------------------------------------------------
(* Properties.                                                             *)

Label == {"idle", "acquire", "apply", "peek", "check", "unlock", "unlock_clean",
          "clean", "srem_put", "srem_remove", "sadd", "sadd_old", "sadd_new", "sadd_put"}

\* Every variable has its type; in particular only elements that were pushed
\* are in a list or come out of one (redis_wrapper.cpp, lpop).
TypeOK ==
  /\ str \in [Counter -> Int \cup {None}] /\ list \in [List -> Seq(1 .. pushed)]
  /\ members \in [Set -> SUBSET Elem] /\ card \in [Set -> Int \cup {None}]
  /\ ttl \in [Key -> Nat \cup {None}] /\ now \in 0 .. MaxNow
  /\ redis_mtx \in [w : SUBSET Thread, r : SUBSET Thread]
  /\ pc \in [Thread -> Label]
  /\ pushed \in Nat /\ popped \in Seq(1 .. pushed)

\* INCR and DECR are atomic (redis_wrapper.cpp, incr): none is lost between
\* the read and the write of another.
CounterExact == str = sum

\* A list neither loses nor doubles an element: each that was pushed is still
\* in its list, was popped once, or went with the whole list, never two of it.
ListConserved ==
  LET in == UNION {ToSet(list[l]) : l \in List}
  IN  /\ \A l \in List : IsInjective(list[l])
      /\ IsInjective(popped)
      /\ in \cup ToSet(popped) \cup dropped = 1 .. pushed
      /\ in \cap ToSet(popped) = {} /\ in \cap dropped = {}
      /\ ToSet(popped) \cap dropped = {}

\* Every command returns: a thread gives the shared lock back before it waits
\* for the exclusive one.
CommandsReturn == \A t \in Thread : pc[t] # "idle" ~> pc[t] = "idle"
=============================================================================
