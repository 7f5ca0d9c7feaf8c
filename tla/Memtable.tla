------------------------------- MODULE Memtable -------------------------------
(***************************************************************************)
(* The in-memory part of the engine (src/src/memtable/memtable.cpp): one   *)
(* writable skip list, current_table, and the list frozen_tables of frozen *)
(* ones (front = newest), shared by threads that call put, put_batch,      *)
(* remove, remove_batch, get, get_batch, frozen_cur_table, flush_last,     *)
(* clear and get_total_size under two reader/writer locks, cur_mtx and     *)
(* frozen_mtx.                                                             *)
(*                                                                         *)
(* A skip list is what its put and get promise (SkipList.tla checks that   *)
(* the linked structure keeps it): a map from versions <<key, tranc_id>>   *)
(* to values, with the byte count the list keeps.                          *)
(*                                                                         *)
(* A call is a walk of pc[t] from one label to the next; a step is what a  *)
(* thread does between two points at which another thread can be observed. *)
(* ret[t] is the label a finished call goes on to: "idle" here, a label of *)
(* the engine in LSMEngine.tla.                                            *)
(***************************************************************************)
EXTENDS Integers, Sequences, SharedMutex

CONSTANTS
  Thread,       \* the threads that call the memtable
  Key, Value,   \* keys, and the non-empty values a put stores
  Tombstone,    \* the empty string, which remove stores
  None,         \* no version: a miss, a null iterator, a null SST
  MaxTranc,     \* transaction ids are 0..MaxTranc; 0 = outside a transaction
  NodeBytes,    \* key bytes plus the 8 bytes of the transaction id
  ValueBytes,   \* length of each value
  Batch,        \* argument vectors of put, put_batch, remove, remove_batch
  KeyList,      \* argument vectors of get and get_batch
  MaxCalls      \* bound on the number of calls made in a behaviour

Tranc   == 0 .. MaxTranc
Version == Key \X Tranc
Val     == Value \cup {Tombstone}

ASSUME MemtableAssumption ==
  /\ None \notin Val /\ Tombstone \notin Value
  /\ MaxTranc \in Nat /\ MaxCalls \in Nat
  /\ NodeBytes \in Nat \ {0}
  /\ ValueBytes \in [Value -> Nat \ {0}]
  /\ Batch \subseteq Seq(Key \X Val)
  /\ KeyList \subseteq Seq(Key)

VARIABLES
  current,        \* current_table
  frozen,         \* frozen_tables, newest first
  frozen_bytes,
  cur_mtx, frozen_mtx,
  pc, ret,        \* per thread: next label, label to return to
  arg,            \* per thread: what is left of the call's arguments
  res,            \* per thread: the answers a get has collected so far
  size,           \* per thread: what get_total_size has added up so far
  calls,
  \* history: the value last written to each version, the content of the
  \* SSTs built so far, whether a build threw away entries, and what a
  \* reader is owed
  store, flushed, build_failed, snap

memory  == <<current, frozen, frozen_bytes>>
locks   == <<cur_mtx, frozen_mtx>>
history == <<store, flushed, build_failed, snap>>
vars == <<memory, locks, pc, ret, arg, res, size, calls, history>>

-----------------------------------------------------------------------------
(* Skip lists.                                                             *)

Table == [kv : [Version -> Val \cup {None}], bytes : Int]

EmptyTable == [kv |-> [v \in Version |-> None], bytes |-> 0]

Bytes(val) == IF val = Tombstone THEN 0 ELSE ValueBytes[val]

\* SkipList::put: a version that is there is overwritten in place.
TablePut(tab, v, val) ==
  [kv    |-> [tab.kv EXCEPT ![v] = val],
   bytes |-> tab.bytes + (IF tab.kv[v] = None
                          THEN NodeBytes + Bytes(val)
                          ELSE Bytes(val) - Bytes(tab.kv[v]))]

\* SkipList::get: the newest version a reader with id tr may see; 0 sees all.
Visible(tab, k, tr) ==
  {r \in Tranc : tab.kv[<<k, r>>] # None /\ (tr = 0 \/ r <= tr)}

TableGet(tab, k, tr) ==
  IF Visible(tab, k, tr) = {} THEN None
  ELSE LET r == CHOOSE r \in Visible(tab, k, tr) :
                  \A q \in Visible(tab, k, tr) : q <= r
       IN  [tranc |-> r, val |-> tab.kv[<<k, r>>]]

\* frozen_get_: the first frozen table, from the newest, with an answer.
FrozenGet(fs, k, tr) ==
  LET hits == {i \in DOMAIN fs : TableGet(fs[i], k, tr) # None}
  IN  IF hits = {} THEN None
      ELSE TableGet(fs[CHOOSE i \in hits : \A j \in hits : i <= j], k, tr)

\* get_: the active table first, then the frozen ones.
MemGet(k, tr) ==
  IF TableGet(current, k, tr) # None THEN TableGet(current, k, tr)
  ELSE FrozenGet(frozen, k, tr)

-----------------------------------------------------------------------------
(* The control of a call.                                                  *)

NoArg == [kvs |-> <<>>, keys |-> <<>>, tranc |-> 0]

At(t, l)    == pc[t] = l
Goto(t, l)  == pc' = [pc EXCEPT ![t] = l]
Return(t)   == Goto(t, ret[t])

\* A thread enters a memtable call at label l and will go on to label back.
Enter(t, l, back, a) ==
  /\ pc'  = [pc EXCEPT ![t] = l]
  /\ ret' = [ret EXCEPT ![t] = back]
  /\ arg' = [arg EXCEPT ![t] = a]
  /\ res' = [res EXCEPT ![t] = <<>>]

-----------------------------------------------------------------------------
(* put, put_batch, remove, remove_batch: cur_mtx exclusively.              *)

\* Mutant of PutLock: writers do not wait for readers.
PutLockBesideReaders(t) ==
  /\ At(t, "put_lock") /\ CanLockShared(cur_mtx)
  /\ cur_mtx' = Lock(t)
  /\ Goto(t, "put_apply")
  /\ UNCHANGED <<memory, frozen_mtx, ret, arg, res, size, calls, history>>

PutLock(t) ==
  /\ At(t, "put_lock") /\ CanLock(cur_mtx)
  /\ cur_mtx' = Lock(t)
  /\ Goto(t, "put_apply")
  /\ UNCHANGED <<memory, frozen_mtx, ret, arg, res, size, calls, history>>

PutApply(t) ==
  /\ At(t, "put_apply") /\ arg[t].kvs # <<>>
  /\ LET kv == Head(arg[t].kvs)
         v  == <<kv[1], arg[t].tranc>>
     IN  /\ current' = TablePut(current, v, kv[2])
         /\ store' = [store EXCEPT ![v] = kv[2]]
  /\ arg' = [arg EXCEPT ![t].kvs = Tail(@)]
  /\ UNCHANGED <<frozen, frozen_bytes, locks, pc, ret, res, size, calls,
                 flushed, build_failed, snap>>

PutUnlock(t) ==
  /\ At(t, "put_apply") /\ arg[t].kvs = <<>>
  /\ cur_mtx' = Unlocked
  /\ Return(t)
  /\ UNCHANGED <<memory, frozen_mtx, ret, arg, res, size, calls, history>>

(* get, get_batch: both locks shared, frozen_mtx first.                    *)

GetLockFrozen(t) ==
  /\ At(t, "get_lock_frozen") /\ CanLockShared(frozen_mtx)
  /\ frozen_mtx' = LockShared(frozen_mtx, t)
  /\ Goto(t, "get_lock_cur")
  /\ UNCHANGED <<memory, cur_mtx, ret, arg, res, size, calls, history>>

GetLockCur(t) ==
  /\ At(t, "get_lock_cur") /\ CanLockShared(cur_mtx)
  /\ cur_mtx' = LockShared(cur_mtx, t)
  /\ Goto(t, "get_cur")
  /\ snap' = [snap EXCEPT ![t] =
       [i \in 1 .. Len(arg[t].keys) |-> MemGet(arg[t].keys[i], arg[t].tranc)]]
  /\ UNCHANGED <<memory, frozen_mtx, ret, arg, res, size, calls,
                 store, flushed, build_failed>>

\* One key of the call is answered with r.
Answer(t, r) ==
  /\ res' = [res EXCEPT ![t] = Append(@, r)]
  /\ arg' = [arg EXCEPT ![t].keys = Tail(@)]

GetCur(t) ==
  /\ At(t, "get_cur") /\ arg[t].keys # <<>>
  /\ LET r == TableGet(current, Head(arg[t].keys), arg[t].tranc)
     IN  \/ r # None /\ Answer(t, r) /\ UNCHANGED pc
         \/ r = None /\ Goto(t, "get_frozen") /\ UNCHANGED <<arg, res>>
  /\ UNCHANGED <<memory, locks, ret, size, calls, history>>

GetFrozen(t) ==
  /\ At(t, "get_frozen")
  /\ Answer(t, FrozenGet(frozen, Head(arg[t].keys), arg[t].tranc))
  /\ Goto(t, "get_cur")
  /\ UNCHANGED <<memory, locks, ret, size, calls, history>>

GetUnlock(t) ==
  /\ At(t, "get_cur") /\ arg[t].keys = <<>>
  /\ cur_mtx' = UnlockShared(cur_mtx, t)
  /\ frozen_mtx' = UnlockShared(frozen_mtx, t)
  /\ Return(t)
  /\ UNCHANGED <<memory, ret, arg, res, size, calls, history>>

(* get_total_size: two reads, each under its own lock, with a gap between. *)

SizeCur(t) ==
  /\ At(t, "size_cur") /\ CanLockShared(cur_mtx)
  /\ size' = [size EXCEPT ![t] = current.bytes]
  /\ Goto(t, "size_frozen")
  /\ UNCHANGED <<memory, locks, ret, arg, res, calls, history>>

SizeFrozen(t) ==
  /\ At(t, "size_frozen") /\ CanLockShared(frozen_mtx)
  /\ size' = [size EXCEPT ![t] = @ + frozen_bytes]
  /\ Return(t)
  /\ UNCHANGED <<memory, locks, ret, arg, res, calls, history>>

-----------------------------------------------------------------------------
(* frozen_cur_table, clear, flush_last: frozen_mtx exclusively, then       *)
(* cur_mtx exclusively.                                                    *)

\* Mutant of FreezeCurrent: the table is moved out and no new one is made.
FreezeLeavesNull ==
  /\ frozen' = <<current>> \o frozen
  /\ frozen_bytes' = frozen_bytes + current.bytes
  /\ current' = None

\* frozen_cur_table_: the active table becomes the newest frozen one.
FreezeCurrent ==
  /\ frozen' = <<current>> \o frozen
  /\ frozen_bytes' = frozen_bytes + current.bytes
  /\ current' = EmptyTable

\* Mutant of LockFrozen: frozen_mtx is taken in shared mode.
LockFrozenShared(t, from, to) ==
  /\ At(t, from) /\ CanLockShared(frozen_mtx)
  /\ frozen_mtx' = LockShared(frozen_mtx, t)
  /\ Goto(t, to)
  /\ UNCHANGED <<memory, cur_mtx, ret, arg, res, size, calls, history>>

LockFrozen(t, from, to) ==
  /\ At(t, from) /\ CanLock(frozen_mtx)
  /\ frozen_mtx' = Lock(t)
  /\ Goto(t, to)
  /\ UNCHANGED <<memory, cur_mtx, ret, arg, res, size, calls, history>>

FreezeLock(t) == LockFrozen(t, "freeze_lock_frozen", "freeze_lock_cur")

\* cur_mtx is taken and given back within the step.
Freeze(t) ==
  /\ At(t, "freeze_lock_cur") /\ CanLock(cur_mtx)
  /\ FreezeCurrent
  /\ frozen_mtx' = Unlocked
  /\ Return(t)
  /\ UNCHANGED <<cur_mtx, ret, arg, res, size, calls, history>>

ClearLock(t) == LockFrozen(t, "clear_lock_frozen", "clear_lock_cur")

\* Mutant of Clear: frozen_bytes is not reset.
ClearKeepsBytes(t) ==
  /\ At(t, "clear_lock_cur") /\ CanLock(cur_mtx)
  /\ current' = EmptyTable /\ frozen' = <<>>
  /\ store' = flushed
  /\ frozen_mtx' = Unlocked
  /\ Return(t)
  /\ UNCHANGED <<frozen_bytes, cur_mtx, ret, arg, res, size, calls, flushed,
                 build_failed, snap>>

Clear(t) ==
  /\ At(t, "clear_lock_cur") /\ CanLock(cur_mtx)
  /\ current' = EmptyTable /\ frozen' = <<>> /\ frozen_bytes' = 0
  /\ store' = flushed
  /\ frozen_mtx' = Unlocked
  /\ Return(t)
  /\ UNCHANGED <<cur_mtx, ret, arg, res, size, calls, flushed, build_failed, snap>>

\* flush_last freezes the active table only when nothing is frozen.
FlushLock(t) ==
  LockFrozen(t, "flush_lock_frozen",
             IF frozen = <<>> THEN "flush_lock_cur" ELSE "flush_build")

FlushNothing(t) ==
  /\ At(t, "flush_lock_cur") /\ CanLock(cur_mtx) /\ current.bytes = 0
  /\ frozen_mtx' = Unlocked
  /\ Return(t)
  /\ UNCHANGED <<memory, cur_mtx, ret, arg, res, size, calls, history>>

FlushFreeze(t) ==
  /\ At(t, "flush_lock_cur") /\ CanLock(cur_mtx) /\ current.bytes # 0
  /\ FreezeCurrent
  /\ Goto(t, "flush_build")
  /\ UNCHANGED <<locks, ret, arg, res, size, calls, history>>

Oldest == frozen[Len(frozen)]

\* Mutant of PopOldest: pop_front.
PopNewest ==
  /\ frozen' = Tail(frozen)
  /\ frozen_bytes' = frozen_bytes - Head(frozen).bytes

\* The oldest frozen table leaves the memtable before the SST is built.
PopOldest ==
  /\ frozen' = SubSeq(frozen, 1, Len(frozen) - 1)
  /\ frozen_bytes' = frozen_bytes - Oldest.bytes

FlushBuild(t) ==
  /\ At(t, "flush_build") /\ Oldest.kv # EmptyTable.kv
  /\ PopOldest
  /\ flushed' = [v \in Version |->
                   IF Oldest.kv[v] # None THEN Oldest.kv[v] ELSE flushed[v]]
  /\ frozen_mtx' = Unlocked
  /\ Return(t)
  /\ UNCHANGED <<current, cur_mtx, ret, arg, res, size, calls,
                 store, build_failed, snap>>

\* SSTBuilder::build throws: always on a table without entries, and when the
\* file cannot be created. The locks unwind, the exception leaves the engine
\* call too, and the table popped before is gone.
FlushFail(t) ==
  /\ At(t, "flush_build")
  /\ PopOldest
  /\ build_failed' = (build_failed \/ Oldest.kv # EmptyTable.kv)
  /\ frozen_mtx' = Unlocked
  /\ Goto(t, "idle")
  /\ UNCHANGED <<current, cur_mtx, ret, arg, res, size, calls, store, flushed, snap>>

-----------------------------------------------------------------------------
Init ==
  /\ current = EmptyTable /\ frozen = <<>> /\ frozen_bytes = 0
  /\ cur_mtx = Unlocked /\ frozen_mtx = Unlocked
  /\ pc  = [t \in Thread |-> "idle"]
  /\ ret = [t \in Thread |-> "idle"]
  /\ arg = [t \in Thread |-> NoArg]
  /\ res = [t \in Thread |-> <<>>]
  /\ size = [t \in Thread |-> 0]
  /\ calls = 0
  /\ store = [v \in Version |-> None]
  /\ flushed = [v \in Version |-> None]
  /\ build_failed = FALSE
  /\ snap = [t \in Thread |-> <<>>]

\* An idle thread makes a call.
Call(t, l, a) ==
  /\ At(t, "idle") /\ calls < MaxCalls
  /\ calls' = calls + 1
  /\ Enter(t, l, "idle", a)
  /\ UNCHANGED <<memory, locks, size, history>>

CallWrite(t) == \E b \in Batch, tr \in Tranc :
                  Call(t, "put_lock", [NoArg EXCEPT !.kvs = b, !.tranc = tr])
CallGet(t)   == \E ks \in KeyList, tr \in Tranc :
                  Call(t, "get_lock_frozen", [NoArg EXCEPT !.keys = ks, !.tranc = tr])
CallFreeze(t) == Call(t, "freeze_lock_frozen", NoArg)
CallFlush(t)  == Call(t, "flush_lock_frozen", NoArg)
CallClear(t)  == Call(t, "clear_lock_frozen", NoArg)
CallSize(t)   == Call(t, "size_cur", NoArg)

Step(t) ==
  \/ PutLock(t) \/ PutApply(t) \/ PutUnlock(t)
  \/ GetLockFrozen(t) \/ GetLockCur(t) \/ GetCur(t) \/ GetFrozen(t) \/ GetUnlock(t)
  \/ SizeCur(t) \/ SizeFrozen(t)
  \/ FreezeLock(t) \/ Freeze(t)
  \/ ClearLock(t) \/ Clear(t)
  \/ FlushLock(t) \/ FlushNothing(t) \/ FlushFreeze(t) \/ FlushBuild(t) \/ FlushFail(t)

CallAny(t) ==
  CallWrite(t) \/ CallGet(t) \/ CallFreeze(t) \/ CallFlush(t) \/ CallClear(t) \/ CallSize(t)

\* The behaviour is over: every call of the budget has been made and returned.
Done == calls = MaxCalls /\ (\A t \in Thread : At(t, "idle")) /\ UNCHANGED vars

Next == (\E t \in Thread : Step(t) \/ CallAny(t)) \/ Done

Spec == Init /\ [][Next]_vars

-----------------------------------------------------------------------------
(* Properties.                                                             *)

HoldsCur(t)          == pc[t] = "put_apply"
HoldsCurShared(t)    == pc[t] \in {"get_cur", "get_frozen"}
HoldsFrozen(t)       == pc[t] \in {"freeze_lock_cur", "clear_lock_cur",
                                   "flush_lock_cur", "flush_build"}
HoldsFrozenShared(t) == pc[t] \in {"get_lock_cur", "get_cur", "get_frozen"}

Label == {"idle", "put_lock", "put_apply", "get_lock_frozen", "get_lock_cur",
          "get_cur", "get_frozen", "size_cur", "size_frozen",
          "freeze_lock_frozen", "freeze_lock_cur", "clear_lock_frozen",
          "clear_lock_cur", "flush_lock_frozen", "flush_lock_cur", "flush_build"}

Mutex == [w : SUBSET Thread, r : SUBSET Thread]

\* The type of every variable the proofs need.
TypeOK ==
  /\ current \in Table /\ frozen \in Seq(Table) /\ frozen_bytes \in Int
  /\ cur_mtx \in Mutex /\ frozen_mtx \in Mutex
  /\ pc \in [Thread -> Label] /\ ret \in [Thread -> {"idle"}]
  /\ arg \in [Thread -> [kvs : Seq(Key \X Val), keys : Seq(Key), tranc : Tranc]]
  /\ size \in [Thread -> Int] /\ calls \in Nat
  /\ store \in [Version -> Val \cup {None}]
  /\ flushed \in [Version -> Val \cup {None}]
  /\ build_failed \in BOOLEAN

\* The mutexes do their work in this protocol: nobody reads or moves a table
\* while a batch is being written into it, no two threads change the list of
\* frozen tables, and no thread reads the list while another changes it.
Exclusion ==
  \A t, u \in Thread : t # u =>
    /\ HoldsCur(t)    => ~HoldsCur(u) /\ ~HoldsCurShared(u)
    /\ HoldsFrozen(t) => ~HoldsFrozen(u) /\ ~HoldsFrozenShared(u)

\* A get or get_batch answers every key from the one state of memory at the
\* moment it had both locks: it never misses an entry on its way from
\* current_table to frozen_tables, and never sees half of a batch.
ReadsAreSnapshots ==
  \A t \in Thread : HoldsCurShared(t) =>
    /\ Len(snap[t]) = Len(res[t]) + Len(arg[t].keys)
    /\ \A i \in 1 .. Len(res[t]) : res[t][i] = snap[t][i]

\* The tables of memory, newest first.
Layers == <<current>> \o frozen

\* The newest table of L that holds version v holds val, or no table does and
\* the SSTs built hold val.
FoundIn(L, built, v, val) ==
  \/ \E i \in DOMAIN L : /\ L[i].kv[v] # None
                         /\ L[i].kv[v] = val
                         /\ \A j \in 1 .. i - 1 : L[j].kv[v] = None
  \/ /\ \A i \in DOMAIN L : L[i].kv[v] = None
     /\ built[v] = val

\* As long as no build has thrown away the entries of a table, freezing and flushing neither
\* lose a write, nor bring back an overwritten or cleared one: a table must
\* be frozen whole, popped from the old end, and built before any newer one.
NoEntryLost ==
  ~build_failed => \A v \in Version : FoundIn(Layers, flushed, v, store[v])

SumBytes(fs) ==
  LET sum[i \in 0 .. Len(fs)] == IF i = 0 THEN 0 ELSE sum[i - 1] + fs[i].bytes
  IN  sum[Len(fs)]

\* frozen_bytes is the sum of the sizes of the frozen tables (so the size_t
\* never wraps), and a table is empty exactly when its size is 0, the test
\* flush_last makes before it freezes the active table.
BytesExact ==
  /\ frozen_bytes = SumBytes(frozen)
  /\ \A i \in DOMAIN Layers :
       /\ Layers[i].bytes >= 0
       /\ Layers[i].bytes = 0 <=> Layers[i].kv = EmptyTable.kv

\* Of the versions of a key a reader may see, the one with the largest
\* tranc_id is the one it gets (skiplist.h, operator<: the larger transaction
\* id has the higher priority).
NewestVersionWins ==
  \A t \in Thread : At(t, "get_cur") /\ arg[t].keys # <<>> =>
    LET k    == Head(arg[t].keys)
        tr   == arg[t].tranc
        seen == UNION {Visible(Layers[i], k, tr) : i \in DOMAIN Layers}
    IN  seen # {} => \A r \in seen : r <= MemGet(k, tr).tranc
=============================================================================
