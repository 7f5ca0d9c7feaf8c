----------------------------- MODULE Transaction ------------------------------
(***************************************************************************)
(* Transactions (src/src/engine/transaction.cpp): the manager that hands   *)
(* out ids and keeps them in a file, and the contexts that read and write  *)
(* through the engine, one per thread, each at an isolation level.         *)
(*                                                                         *)
(* The engine is the map of versions of VersionMap.tla, under the locks of *)
(* its memtable taken as one, as long as nothing has been flushed. It is   *)
(* empty at each start: the file of the ids lies apart from its directory, *)
(* and an engine does not open the SSTs of an earlier one.                 *)
(***************************************************************************)
EXTENDS VersionMap, Sequences, SharedMutex

CONSTANTS
  Thread,
  Deleted,    \* the empty value, which marks a removed key
  Absent,     \* an empty optional, where None is an entry that is missing
  MaxTranc,   \* bound on the ids given
  MaxCalls    \* bound on the calls of contexts

ASSUME TransactionAssumption ==
  /\ MaxTranc \in Nat \ {0} /\ MaxCalls \in Nat
  /\ Tranc = 0 .. MaxTranc /\ Deleted \in Value
  /\ None \notin Value \cup Nat \cup (Value \X Tranc) \cup [len : Nat, next : Nat]
  /\ Absent \notin Value \cup {None}

VARIABLES
  phase,          \* of the manager: down, up, or what its destructor writes
  next_tranc_id, mutex_,
  file,           \* of the ids: None, or how many of its numbers it has, and the first
  mem_mtx,        \* frozen_mtx and cur_mtx
  pc,
  id, level,      \* of the context of each thread
  temp_map, read_map, rollback_map,
  todo,           \* the keys a loop of the context has still to visit
  seen,           \* what was read in a step before
  calls,
  \* history: the ids given since the last crash; what the context should
  \* see of each key, and what it was answered last
  given, sees, reply

manager == <<phase, next_tranc_id, mutex_, file>>
maps    == <<temp_map, read_map, rollback_map>>
context == <<id, level, maps, todo, sees, reply>>
vars    == <<map, manager, mem_mtx, pc, context, seen, calls, given>>

\* The constructor of a context does not initialise isolation_level_; a value
\* that is none of the four levels behaves like RepeatableRead, except that
\* commit does not look for conflicts.
Level == {"ReadUncommitted", "ReadCommitted", "RepeatableRead", "Serializable", "other"}

Uncommitted(t) == level[t] = "ReadUncommitted"
Validates(t)   == level[t] \in {"RepeatableRead", "Serializable"}

At(t, l)   == pc[t] = l
Goto(t, l) == pc' = [pc EXCEPT ![t] = l]

NoEntry == [k \in Key |-> None]

\* LSMEngine::get: the value and the id of the newest version a reader may see.
Engine(k, tr) ==
  LET r == Read(map, k, tr)
  IN  IF r = None THEN Absent ELSE IF map[r] = Deleted THEN Absent ELSE <<map[r], r[2]>>

\* The keys with an entry in one of the maps of a context.
Entries(m) == {k \in Key : m[k] # None}
-----------------------------------------------------------------------------
(* The manager.                                                            *)

\* A file that is there is read, which throws if it has not all its numbers.
Start ==
  /\ phase = "down"
  /\ \/ file = None /\ next_tranc_id' = 1 /\ file' = [len |-> 0, next |-> 0]
     \/ file # None /\ file.len = 3 /\ next_tranc_id' = file.next /\ file' = file
  /\ phase' = "up"
  /\ UNCHANGED <<map, mutex_, mem_mtx, pc, context, seen, calls, given>>

\* The manager goes when no context holds it any more.
Stop ==
  /\ phase = "up" /\ \A t \in Thread : At(t, "idle")
  /\ phase' = "stop" /\ map' = Empty
  /\ UNCHANGED <<next_tranc_id, mutex_, file, mem_mtx, pc, context, seen, calls, given>>

\* The destructor writes three numbers, each on its own; the first is the
\* next id.
write_tranc_id_file ==
  /\ phase = "stop" /\ phase' = "stop2"
  /\ file' = [len |-> IF file.len = 0 THEN 1 ELSE file.len, next |-> next_tranc_id]
  /\ UNCHANGED <<map, next_tranc_id, mutex_, mem_mtx, pc, context, seen, calls, given>>

write_tranc_id_rest ==
  /\ phase = "stop2"
  /\ file' = [file EXCEPT !.len = IF @ < 3 THEN @ + 1 ELSE 3]
  /\ phase' = IF file'.len = 3 THEN "down" ELSE "stop2"
  /\ UNCHANGED <<map, next_tranc_id, mutex_, mem_mtx, pc, context, seen, calls, given>>

\* The process ends: what is in memory is lost.
Die ==
  /\ phase' = "down" /\ map' = Empty /\ given' = <<>>
  /\ mutex_' = {} /\ mem_mtx' = Unlocked
  /\ pc' = [t \in Thread |-> "idle"]
  /\ temp_map' = [t \in Thread |-> NoEntry] /\ read_map' = temp_map'
  /\ rollback_map' = temp_map' /\ sees' = temp_map'
  /\ todo' = [t \in Thread |-> {}]
  /\ reply' = [t \in Thread |-> None] /\ seen' = reply'
  /\ id' = reply' /\ level' = reply'
  /\ UNCHANGED <<next_tranc_id, file, calls>>

Crash == phase # "down" /\ Die

\* new_tranc: get_next_tranc_id reads and writes next_tranc_id_ under mutex_.
new_tranc(t) ==
  /\ phase = "up" /\ At(t, "idle") /\ next_tranc_id <= MaxTranc /\ mutex_ = {}
  /\ mutex_' = {t} /\ Goto(t, "new_read")
  /\ UNCHANGED <<map, phase, next_tranc_id, file, mem_mtx, context, seen, calls, given>>

\* Mutant of get_next_tranc_id: the mutex is given back before the id is
\* incremented.
get_next_unlocked(t) ==
  /\ At(t, "new_read")
  /\ seen' = [seen EXCEPT ![t] = next_tranc_id]
  /\ mutex_' = {} /\ Goto(t, "new_write")
  /\ UNCHANGED <<map, phase, next_tranc_id, file, mem_mtx, context, calls, given>>

get_next_tranc_id(t) ==
  /\ At(t, "new_read")
  /\ seen' = [seen EXCEPT ![t] = next_tranc_id]
  /\ Goto(t, "new_write")
  /\ UNCHANGED <<map, manager, mem_mtx, context, calls, given>>

TranContext(t) ==
  /\ At(t, "new_write")
  /\ next_tranc_id' = seen[t] + 1 /\ mutex_' = {}
  /\ id' = [id EXCEPT ![t] = seen[t]]
  /\ given' = Append(given, seen[t])
  /\ \E l \in Level : level' = [level EXCEPT ![t] = l]
  /\ seen' = [seen EXCEPT ![t] = None]
  /\ Goto(t, "open")
  /\ UNCHANGED <<map, phase, file, mem_mtx, maps, todo, sees, reply, calls>>
-----------------------------------------------------------------------------
(* Contexts. ReadUncommitted writes to the engine, every other level to    *)
(* temp_map_.                                                              *)

Calls(t) == At(t, "open") /\ calls < MaxCalls /\ calls' = calls + 1

\* What the context has just written it sees; its last answer is over.
Sees(t, k, x) ==
  /\ sees' = [sees EXCEPT ![t][k] = x] /\ reply' = [reply EXCEPT ![t] = None]

\* put looks a key up before it writes over it, and forgets what it finds.
put(t, k, x) ==
  /\ Calls(t)
  /\ IF Uncommitted(t)
     THEN CanLock(mem_mtx) /\ Write(<<k, id[t]>>, x) /\ UNCHANGED temp_map
     ELSE temp_map' = [temp_map EXCEPT ![t][k] = x] /\ UNCHANGED map
  /\ Sees(t, k, x)
  /\ UNCHANGED <<manager, mem_mtx, pc, id, level, read_map, rollback_map, todo, seen, given>>

remove_temp(t, k) ==
  /\ Calls(t) /\ ~ Uncommitted(t)
  /\ temp_map' = [temp_map EXCEPT ![t][k] = Deleted]
  /\ Sees(t, k, Deleted)
  /\ UNCHANGED <<map, manager, mem_mtx, pc, id, level, read_map, rollback_map, todo, seen, given>>

\* The state of the key before is kept the first time only.
remove_save(t, k) ==
  /\ Calls(t) /\ Uncommitted(t) /\ CanLockShared(mem_mtx)
  /\ rollback_map' = [rollback_map EXCEPT ![t][k] = IF @ = None THEN Engine(k, id[t]) ELSE @]
  /\ seen' = [seen EXCEPT ![t] = k]
  /\ Goto(t, "remove")
  /\ UNCHANGED <<map, manager, mem_mtx, id, level, temp_map, read_map, todo, sees, reply, given>>

remove(t) ==
  /\ At(t, "remove") /\ CanLock(mem_mtx)
  /\ Write(<<seen[t], id[t]>>, Deleted)
  /\ Sees(t, seen[t], Deleted)
  /\ seen' = [seen EXCEPT ![t] = None]
  /\ Goto(t, "open")
  /\ UNCHANGED <<manager, mem_mtx, id, level, maps, todo, calls, given>>

Answer(t, k, a) ==
  /\ reply' = [reply EXCEPT ![t] = <<k, a>>]
  /\ sees' = [sees EXCEPT ![t][k] = IF @ = None THEN a ELSE @]
  /\ UNCHANGED <<map, manager, mem_mtx, pc, id, level, temp_map, rollback_map, todo, seen, given>>

ValueOf(q) == IF q = Absent THEN Absent ELSE q[1]

get_own(t, k) ==
  /\ Calls(t) /\ temp_map[t][k] # None
  /\ Answer(t, k, temp_map[t][k]) /\ UNCHANGED read_map

\* 0 sees every version.
get_engine(t, k) ==
  /\ Calls(t) /\ temp_map[t][k] = None /\ CanLockShared(mem_mtx)
  /\ level[t] \in {"ReadUncommitted", "ReadCommitted"}
  /\ Answer(t, k, ValueOf(Engine(k, IF Uncommitted(t) THEN 0 ELSE id[t])))
  /\ UNCHANGED read_map

\* Mutant of get_read: what is read is not kept.
get_afresh(t, k) ==
  /\ Calls(t) /\ temp_map[t][k] = None /\ CanLockShared(mem_mtx)
  /\ level[t] \notin {"ReadUncommitted", "ReadCommitted"}
  /\ Answer(t, k, ValueOf(Engine(k, id[t])))
  /\ UNCHANGED read_map

get_read(t, k) ==
  LET q == IF read_map[t][k] # None THEN read_map[t][k] ELSE Engine(k, id[t]) IN
  /\ Calls(t) /\ temp_map[t][k] = None
  /\ level[t] \notin {"ReadUncommitted", "ReadCommitted"}
  /\ read_map[t][k] = None => CanLockShared(mem_mtx)
  /\ read_map' = [read_map EXCEPT ![t][k] = q]
  /\ Answer(t, k, ValueOf(q))

\* commit takes both locks of the memtable, except for ReadUncommitted.
commit(t) ==
  /\ Calls(t)
  /\ IF Uncommitted(t) THEN Goto(t, "wal") /\ UNCHANGED <<mem_mtx, todo>>
     ELSE /\ CanLock(mem_mtx) /\ mem_mtx' = Lock(t)
          /\ todo' = [todo EXCEPT ![t] = IF Validates(t) THEN Entries(temp_map[t]) ELSE {}]
          /\ Goto(t, "validate")
  /\ UNCHANGED <<map, manager, id, level, maps, sees, reply, seen, given>>

\* A newer version than the transaction's own in memory.
Conflict(t, k) == Read(map, k, 0) # None /\ Read(map, k, 0)[2] > id[t]

\* One key of temp_map_, in any order. A conflict returns false. SSTs are not
\* looked at, since max_flushed_tranc_id_ stays 0.
validate(t) ==
  /\ At(t, "validate")
  /\ \E k \in todo[t] :
       IF Conflict(t, k)
       THEN /\ todo' = [todo EXCEPT ![t] = {}]
            /\ mem_mtx' = Unlocked /\ Goto(t, "open")
       ELSE /\ todo' = [todo EXCEPT ![t] = @ \ {k}]
            /\ UNCHANGED <<mem_mtx, pc>>
  /\ UNCHANGED <<map, manager, id, level, maps, sees, reply, seen, calls, given>>

\* Mutant of validated: the locks are given back before the log is written.
validated_unlocks(t) ==
  /\ At(t, "validate") /\ todo[t] = {} /\ Goto(t, "wal")
  /\ mem_mtx' = Unlocked
  /\ UNCHANGED <<map, manager, context, seen, calls, given>>

validated(t) ==
  /\ At(t, "validate") /\ todo[t] = {} /\ Goto(t, "wal")
  /\ UNCHANGED <<map, manager, mem_mtx, context, seen, calls, given>>

\* wal_ is a null pointer: init_new_wal throws before it sets it, as it lists
\* the directory "".
write_to_wal(t) == At(t, "wal") /\ Die

\* abort visits rollback_map_, which stays, as the context does.
abort(t) ==
  /\ Calls(t)
  /\ IF Uncommitted(t) /\ Entries(rollback_map[t]) # {}
     THEN todo' = [todo EXCEPT ![t] = Entries(rollback_map[t])] /\ Goto(t, "abort")
     ELSE UNCHANGED <<todo, pc>>
  /\ UNCHANGED <<map, manager, mem_mtx, id, level, maps, sees, reply, seen, given>>

\* A key that had a version gets that version again, under its own id.
restore(t) ==
  /\ At(t, "abort") /\ CanLock(mem_mtx)
  /\ \E k \in todo[t] :
       LET before == rollback_map[t][k] IN
       /\ IF before = Absent THEN Write(<<k, id[t]>>, Deleted)
          ELSE Write(<<k, before[2]>>, before[1])
       /\ todo' = [todo EXCEPT ![t] = @ \ {k}]
  /\ Goto(t, IF todo'[t] = {} THEN "open" ELSE "abort")
  /\ UNCHANGED <<manager, mem_mtx, id, level, maps, sees, reply, seen, calls, given>>

\* The context goes, without a commit or an abort.
Drop(t) ==
  /\ At(t, "open") /\ Goto(t, "idle")
  /\ id' = [id EXCEPT ![t] = None] /\ level' = [level EXCEPT ![t] = None]
  /\ temp_map' = [temp_map EXCEPT ![t] = NoEntry]
  /\ read_map' = [read_map EXCEPT ![t] = NoEntry]
  /\ rollback_map' = [rollback_map EXCEPT ![t] = NoEntry]
  /\ sees' = [sees EXCEPT ![t] = NoEntry] /\ reply' = [reply EXCEPT ![t] = None]
  /\ UNCHANGED <<map, manager, mem_mtx, todo, seen, calls, given>>

\* A client of the engine itself writes under id 0.
PutPlain(k, x) ==
  /\ phase = "up" /\ CanLock(mem_mtx) /\ calls < MaxCalls /\ calls' = calls + 1
  /\ Write(<<k, 0>>, x)
  /\ UNCHANGED <<manager, mem_mtx, pc, context, seen, given>>
-----------------------------------------------------------------------------
Init ==
  /\ map = Empty
  /\ phase = "down" /\ next_tranc_id = 1 /\ mutex_ = {} /\ file = None
  /\ mem_mtx = Unlocked
  /\ pc = [t \in Thread |-> "idle"]
  /\ id = [t \in Thread |-> None] /\ level = [t \in Thread |-> None]
  /\ temp_map = [t \in Thread |-> NoEntry] /\ read_map = [t \in Thread |-> NoEntry]
  /\ rollback_map = [t \in Thread |-> NoEntry]
  /\ todo = [t \in Thread |-> {}] /\ seen = [t \in Thread |-> None]
  /\ calls = 0
  /\ given = <<>> /\ sees = [t \in Thread |-> NoEntry] /\ reply = [t \in Thread |-> None]

\* A step inside a call.
Step(t) ==
  \/ get_next_tranc_id(t) \/ TranContext(t) \/ remove(t)
  \/ validate(t) \/ validated(t) \/ write_to_wal(t) \/ restore(t)

Call(t) ==
  \/ new_tranc(t) \/ commit(t) \/ abort(t) \/ Drop(t)
  \/ \E k \in Key :
       \/ \E x \in Value \ {Deleted} : put(t, k, x)
       \/ remove_temp(t, k) \/ remove_save(t, k)
       \/ get_own(t, k) \/ get_engine(t, k) \/ get_read(t, k)

Manage == Start \/ Stop \/ write_tranc_id_file \/ write_tranc_id_rest \/ Crash

Next ==
  \/ \E t \in Thread : Step(t) \/ Call(t)
  \/ Manage
  \/ \E k \in Key, x \in Value \ {Deleted} : PutPlain(k, x)

Spec == Init /\ [][Next]_vars
-----------------------------------------------------------------------------
(* Properties.                                                             *)

\* Between two crashes no id is given twice, to whatever threads and over
\* however many orderly restarts, and never 0, which sees everything
\* (transaction.cpp, new_tranc, write_tranc_id_file and read_tranc_id_file).
IdsUnique == \A i, j \in DOMAIN given :
  given[i] # 0 /\ (given[i] = given[j] => i = j)

\* From RepeatableRead on, a get answers what its transaction wrote last to
\* the key, and else what it read first, whatever the others write and
\* however a commit or an abort of its own has gone (transaction.cpp, get).
RepeatableReads ==
  \A t \in Thread :
    reply[t] # None /\ level[t] \notin {"ReadUncommitted", "ReadCommitted"} =>
      reply[t][2] = sees[t][reply[t][1]]

\* When a validating commit writes the log no key it changes has a newer
\* version in memory, also not one that was written since the key was looked
\* at (transaction.cpp, commit holds both locks).
CommitUnconflicted ==
  \A t \in Thread : At(t, "wal") /\ Validates(t) =>
    \A k \in Entries(temp_map[t]) : ~ Conflict(t, k)
=============================================================================
