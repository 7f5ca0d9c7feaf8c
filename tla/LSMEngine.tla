------------------------------ MODULE LSMEngine -------------------------------
(***************************************************************************)
(* LSMEngine (src/src/engine/engine.cpp) on top of its Memtable: writes    *)
(* that flush when a threshold is reached, the level-0 index of SSTs, the  *)
(* files, get, clear, the destructor that drains the memtable, and the     *)
(* constructor that opens a directory again.                               *)
(*                                                                         *)
(* Each memtable call is the one of Memtable.tla, step for step, with the  *)
(* engine's own state beside it. put, flush, clear and full_compact touch  *)
(* level_sst_ids and ssts without ssts_mtx (only the constructor takes it  *)
(* exclusively, so the shared locks of get never wait and are not          *)
(* modelled): every access to one of the two containers is a step.         *)
(*                                                                         *)
(* An entry fits into a block of an SST, and a version that an SST holds   *)
(* is in its file once the file is written.                                *)
(***************************************************************************)
EXTENDS Memtable, FiniteSets

CONSTANTS
  Writer,      \* the threads that write, clear and destroy
  Limit,       \* LSM_TOTAL_MEM_SIZE_LIMIT
  Ratio,       \* LSM_SST_LEVEL_RATIO
  MaxId,       \* ids of SSTs are 0..MaxId (EngineTypeOK: never more)
  Garbage      \* what undefined behaviour reads

ASSUME EngineAssumption ==
  /\ Writer \subseteq Thread
  /\ Limit \in Nat \ {0} /\ Ratio \in Nat /\ MaxId \in Nat
  /\ Garbage \notin Val \cup {None}

Id == 0 .. MaxId

VARIABLES
  level0,     \* level_sst_ids[0], front first
  ssts,       \* the id -> SST map; Absent: no entry, None: a null pointer
  files,      \* the files sst_<id> of data_dir
  new_id,     \* per thread: new_sst_id of the flush it is in
  new_sst,    \* per thread: what flush_last returned to it
  node,       \* per thread: the node the iterator of its get points to
  reply,      \* per thread: what its last get was asked and returned
  phase       \* the life of the engine object

index == <<level0, ssts>>
reader == <<node, reply>>
engine == <<index, files, new_id, new_sst, reader, phase>>
allvars == <<vars, engine>>

Absent  == [kv |-> None, bytes |-> 0]
NoReply == [key |-> None, tranc |-> 0, val |-> None]
Throws  == "throws"

\* A null pointer or no entry is not an SST, a null iterator not an entry.
ASSUME SstAssumption ==
  /\ None \notin Table /\ Absent \notin Table
  /\ \A r \in Tranc, x \in Val : None # [tranc |-> r, val |-> x]

NoNode  == [v |-> None, val |-> None, live |-> FALSE]

-----------------------------------------------------------------------------
(* The memtable's steps inside the engine.                                 *)

\* Steps that neither move a table nor finish a search.
MemStep(t) ==
  /\ \/ PutLock(t) \/ PutUnlock(t) \/ GetLockFrozen(t) \/ GetLockCur(t)
     \/ GetUnlock(t) \/ SizeCur(t) \/ SizeFrozen(t) \/ ClearLock(t)
     \/ FlushLock(t)
  /\ UNCHANGED engine

\* An iterator keeps pointing into the active table after get has unlocked
\* it, so an overwrite in place shows through it, or is read half done.
MemPut(t) ==
  /\ PutApply(t)
  /\ LET kv == Head(arg[t].kvs)
         v  == <<kv[1], arg[t].tranc>>
     IN  \E seen \in {kv[2], Garbage} :
           node' = [u \in Thread |->
                      IF node[u].live /\ node[u].v = v
                      THEN [node[u] EXCEPT !.val =
                              IF At(u, "get_reply") THEN seen ELSE kv[2]]
                      ELSE node[u]]
  /\ UNCHANGED <<index, files, new_id, new_sst, reply, phase>>

NodeOf(t, r, live) ==
  IF r = None THEN NoNode
  ELSE [v |-> <<Head(arg[t].keys), r.tranc>>, val |-> r.val, live |-> live]

MemGetCur(t) ==
  /\ GetCur(t)
  /\ node' = [node EXCEPT ![t] =
       NodeOf(t, TableGet(current, Head(arg[t].keys), arg[t].tranc), TRUE)]
  /\ UNCHANGED <<index, files, new_id, new_sst, reply, phase>>

MemGetFrozen(t) ==
  /\ GetFrozen(t)
  /\ node' = [node EXCEPT ![t] =
       NodeOf(t, FrozenGet(frozen, Head(arg[t].keys), arg[t].tranc), FALSE)]
  /\ UNCHANGED <<index, files, new_id, new_sst, reply, phase>>

\* The nodes of a table that is no longer the active one are not written.
Retire == node' = [u \in Thread |-> [node[u] EXCEPT !.live = FALSE]]

MemClear(t) ==
  /\ Clear(t) /\ Retire
  /\ UNCHANGED <<index, files, new_id, new_sst, reply, phase>>

MemFlushNothing(t) ==
  /\ FlushNothing(t)
  /\ new_sst' = [new_sst EXCEPT ![t] = None]
  /\ UNCHANGED <<index, files, new_id, reader, phase>>

MemFlushFreeze(t) ==
  /\ FlushFreeze(t) /\ Retire
  /\ UNCHANGED <<index, files, new_id, new_sst, reply, phase>>

MemFlushBuild(t) ==
  /\ FlushBuild(t)
  /\ new_sst' = [new_sst EXCEPT ![t] = Oldest]
  /\ files' = [files EXCEPT ![new_id[t]] = Oldest]
  /\ UNCHANGED <<index, new_id, reader, phase>>

\* An exception that leaves the destructor ends the process.
Unwind(t) ==
  phase' = IF phase = "closing" THEN "terminated" ELSE phase

MemFlushFail(t) ==
  /\ FlushFail(t) /\ Unwind(t)
  /\ UNCHANGED <<index, files, new_id, new_sst, reader>>

-----------------------------------------------------------------------------
(* put, put_batch, remove, remove_batch.                                   *)

\* Mutant of LimitCur: a table of exactly the limit is not flushed.
LimitCurStrict(t) ==
  /\ At(t, "limit_cur") /\ CanLockShared(cur_mtx)
  /\ Goto(t, IF current.bytes > Limit THEN "flush" ELSE "idle")
  /\ UNCHANGED <<memory, locks, ret, arg, res, size, calls, history, engine>>

\* put, remove, remove_batch: get_cur_size.
LimitCur(t) ==
  /\ At(t, "limit_cur") /\ CanLockShared(cur_mtx)
  /\ Goto(t, IF current.bytes >= Limit THEN "flush" ELSE "idle")
  /\ UNCHANGED <<memory, locks, ret, arg, res, size, calls, history, engine>>

\* get_total_size, called from label `from`, its sum read at label `to`.
TotalSize(t, from, to) ==
  /\ At(t, from)
  /\ Goto(t, "size_cur") /\ ret' = [ret EXCEPT ![t] = to]
  /\ UNCHANGED <<memory, locks, arg, res, size, calls, history, engine>>

\* put_batch
BatchSize(t) == TotalSize(t, "batch_size", "limit_total")

LimitTotal(t) ==
  /\ At(t, "limit_total")
  /\ Goto(t, IF size[t] >= Limit THEN "flush" ELSE "idle")
  /\ UNCHANGED <<memory, locks, ret, arg, res, size, calls, history, engine>>

-----------------------------------------------------------------------------
(* flush.                                                                  *)

Caller == IF phase = "closing" THEN "destroy" ELSE "idle"

FlushSize(t) == TotalSize(t, "flush", "flush_id")

FlushNone(t) ==
  /\ At(t, "flush_id") /\ size[t] = 0
  /\ Goto(t, Caller)
  /\ UNCHANGED <<memory, locks, ret, arg, res, size, calls, history, engine>>

\* The SSTs of the index that are null pointers: flush_last had nothing to
\* build, or a clear has come between the two steps of an index update.
NullAt == {i \in DOMAIN level0 : ssts[level0[i]] \in {None, Absent}}

\* Mutant of FlushCompact: flush is tried again.
FlushCompactRetries(t) ==
  /\ At(t, "flush_id") /\ size[t] # 0 /\ Len(level0) > Ratio /\ NullAt = {}
  /\ Goto(t, "flush")
  /\ UNCHANGED <<phase, memory, locks, ret, arg, res, size, calls, history,
                 index, files, new_id, new_sst, reader>>

\* full_compact(0) of a full level throws before it changes anything: the
\* iterators that SST::begin returns point into no block, and the merge compares
\* the top of a heap left empty with the entry of such an iterator, which
\* throws ("Block iterator in Sstiterator is null"). A compiler that evaluates
\* the top first ends the process instead (Crash).
FlushCompact(t) ==
  /\ At(t, "flush_id") /\ size[t] # 0 /\ Len(level0) > Ratio /\ NullAt = {}
  /\ Goto(t, "idle") /\ Unwind(t)
  /\ UNCHANGED <<memory, locks, ret, arg, res, size, calls, history,
                 index, files, new_id, new_sst, reader>>

\* The rest of FlushId, once the id is known.
TakeId(t, id) ==
  /\ new_id' = [new_id EXCEPT ![t] = id]
  /\ Goto(t, "flush_lock_frozen") /\ ret' = [ret EXCEPT ![t] = "index_store"]
  /\ UNCHANGED <<memory, locks, arg, res, size, calls, history,
                 index, files, new_sst, reader, phase>>

NextId == IF level0 = <<>> THEN 0 ELSE Head(level0) + 1

\* Mutant of FlushId: a full level 0 is not noticed.
FlushIdUnbounded(t) == At(t, "flush_id") /\ size[t] # 0 /\ TakeId(t, NextId)

\* Mutant of FlushId: the newest id is used again.
FlushIdAgain(t) ==
  /\ At(t, "flush_id") /\ size[t] # 0 /\ Len(level0) <= Ratio
  /\ TakeId(t, IF level0 = <<>> THEN 0 ELSE Head(level0))

FlushId(t) ==
  /\ At(t, "flush_id") /\ size[t] # 0 /\ Len(level0) <= Ratio
  /\ TakeId(t, NextId)

IndexStore(t) ==
  /\ At(t, "index_store")
  /\ ssts' = [ssts EXCEPT ![new_id[t]] = new_sst[t]]
  /\ Goto(t, "index_push")
  /\ UNCHANGED <<memory, locks, ret, arg, res, size, calls, history,
                 level0, files, new_id, new_sst, reader, phase>>

\* Mutant of IndexPush: push_back.
IndexPushBack(t) ==
  /\ At(t, "index_push")
  /\ level0' = level0 \o <<new_id[t]>>
  /\ new_sst' = [new_sst EXCEPT ![t] = None]
  /\ Goto(t, Caller)
  /\ UNCHANGED <<memory, locks, ret, arg, res, size, calls, history,
                 ssts, files, new_id, reader, phase>>

IndexPush(t) ==
  /\ At(t, "index_push")
  /\ level0' = <<new_id[t]>> \o level0
  /\ new_sst' = [new_sst EXCEPT ![t] = None]
  /\ Goto(t, Caller)
  /\ UNCHANGED <<memory, locks, ret, arg, res, size, calls, history,
                 ssts, files, new_id, reader, phase>>

-----------------------------------------------------------------------------
(* get: the iterator's node is read after the memtable has been unlocked.  *)

Reply(t, r) ==
  /\ reply' = [reply EXCEPT ![t].val = r]
  /\ node' = [node EXCEPT ![t] = NoNode]
  /\ Goto(t, "idle")
  /\ UNCHANGED <<memory, locks, ret, arg, res, size, calls, history,
                 index, files, new_id, new_sst, phase>>

\* Mutant of GetHit: a deletion mark is returned as a value.
GetHitRaw(t) ==
  /\ At(t, "get_reply") /\ node[t] # NoNode
  /\ Reply(t, node[t].val)

GetHit(t) ==
  /\ At(t, "get_reply") /\ node[t] # NoNode
  /\ Reply(t, IF node[t].val = Tombstone THEN None ELSE node[t].val)

GetNowhere(t) ==
  /\ At(t, "get_reply") /\ node[t] = NoNode /\ level0 = <<>>
  /\ Reply(t, None)

\* What a search of the first SST with an id takes for the answer: the version
\* it comes upon, if it makes out that none is visible.
AnyVersion(t) ==
  IF reply[t].tranc = 0 THEN {}
  ELSE {ssts[level0[1]].kv[v] : v \in {w \in Version : w[1] = reply[t].key}}
         \ {None, Tombstone}

\* An iterator that found nothing never equals end(), and an iterator of a
\* block never finds a visible key that is there: its value, an empty optional,
\* is read all the same.
GetSst(t) ==
  /\ At(t, "get_reply") /\ node[t] = NoNode /\ level0 # <<>> /\ 1 \notin NullAt
  /\ \E r \in {None, Garbage, Throws} \cup AnyVersion(t) : Reply(t, r)

\* get looks into the first SST only, and a null pointer there ends the process.
\* So may a compaction (FlushCompact).
Crash(t) ==
  /\ \/ At(t, "get_reply") /\ node[t] = NoNode /\ 1 \in NullAt
     \/ At(t, "flush_id") /\ size[t] # 0 /\ Len(level0) > Ratio
  /\ phase' = "terminated" /\ Goto(t, "idle")
  /\ UNCHANGED <<memory, locks, ret, arg, res, size, calls, history,
                 index, files, new_id, new_sst, reader>>

-----------------------------------------------------------------------------
(* clear, after memtable.clear: the files stay.                            *)

InMemory(v) == \E i \in DOMAIN Layers : Layers[i].kv[v] # None

ClearLevels(t) ==
  /\ At(t, "clear_levels")
  /\ level0' = <<>>
  /\ store' = [v \in Version |-> IF InMemory(v) THEN store[v] ELSE None]
  /\ flushed' = [v \in Version |-> None]
  /\ Goto(t, "clear_ssts")
  /\ UNCHANGED <<memory, locks, ret, arg, res, size, calls, build_failed, snap,
                 ssts, files, new_id, new_sst, reader, phase>>

ClearSsts(t) ==
  /\ At(t, "clear_ssts")
  /\ ssts' = [i \in Id |-> Absent]
  /\ Goto(t, "idle")
  /\ UNCHANGED <<memory, locks, ret, arg, res, size, calls, history,
                 level0, files, new_id, new_sst, reader, phase>>

-----------------------------------------------------------------------------
(* The destructor, and the constructor of the next engine.                 *)

Quiet == \A t \in Thread : At(t, "idle")

Close(t) ==
  /\ phase = "open" /\ Quiet
  /\ phase' = "closing" /\ Goto(t, "destroy")
  /\ UNCHANGED <<memory, locks, ret, arg, res, size, calls, history,
                 index, files, new_id, new_sst, reader>>

DestroySize(t) == TotalSize(t, "destroy", "drained")

\* Mutant of Drained: what is below the limit stays in memory.
DrainedToLimit(t) ==
  /\ At(t, "drained")
  /\ \/ /\ size[t] >= Limit
        /\ Goto(t, "flush") /\ UNCHANGED phase
     \/ /\ size[t] < Limit
        /\ Goto(t, "idle") /\ phase' = "closed"
  /\ UNCHANGED <<memory, locks, ret, arg, res, size, calls, history,
                 index, files, new_id, new_sst, reader>>

Drained(t) ==
  /\ At(t, "drained")
  /\ \/ /\ size[t] > 0
        /\ Goto(t, "flush") /\ UNCHANGED phase
     \/ /\ size[t] = 0
        /\ Goto(t, "idle") /\ phase' = "closed"
  /\ UNCHANGED <<memory, locks, ret, arg, res, size, calls, history,
                 index, files, new_id, new_sst, reader>>

\* SST::open throws on every file build has written: the bloom and meta
\* offsets it reads have been overwritten by max_tranc_id_.
Reopen(t) ==
  /\ phase = "closed" /\ t \in Writer
  /\ \/ /\ \E i \in Id : files[i] # Absent
        /\ phase' = "failed" /\ UNCHANGED index
     \/ /\ \A i \in Id : files[i] = Absent
        /\ phase' = "open" /\ level0' = <<>> /\ ssts' = [i \in Id |-> Absent]
  /\ UNCHANGED <<vars, files, new_id, new_sst, reader>>

-----------------------------------------------------------------------------
EngineInit ==
  /\ Init
  /\ level0 = <<>> /\ ssts = [i \in Id |-> Absent] /\ files = [i \in Id |-> Absent]
  /\ new_id = [t \in Thread |-> 0] /\ new_sst = [t \in Thread |-> None]
  /\ node = [t \in Thread |-> NoNode] /\ reply = [t \in Thread |-> NoReply]
  /\ phase = "open"

CallEngine(t, l, back, a) ==
  /\ phase = "open" /\ At(t, "idle") /\ calls < MaxCalls
  /\ calls' = calls + 1
  /\ Enter(t, l, back, a)
  /\ reply' = [reply EXCEPT ![t] =
       IF a.keys = <<>> THEN NoReply
       ELSE [key |-> Head(a.keys), tranc |-> a.tranc, val |-> None]]
  /\ UNCHANGED <<memory, locks, size, history,
                 index, files, new_id, new_sst, node, phase>>

\* put, remove and remove_batch go on to get_cur_size, put_batch to
\* get_total_size.
Sizer(b) ==
  {"batch_size"} \cup
  {l \in {"limit_cur"} : Len(b) = 1 \/ \A i \in DOMAIN b : b[i][2] = Tombstone}

CallPut(t) ==
  \E b \in Batch, tr \in Tranc : \E back \in Sizer(b) :
    CallEngine(t, "put_lock", back, [NoArg EXCEPT !.kvs = b, !.tranc = tr])

CallLookup(t) ==
  \E k \in Key, tr \in Tranc :
    CallEngine(t, "get_lock_frozen", "get_reply",
               [NoArg EXCEPT !.keys = <<k>>, !.tranc = tr])

CallErase(t) == CallEngine(t, "clear_lock_frozen", "clear_levels", NoArg)

EngineStep(t) ==
  /\ phase # "terminated"
  /\ \/ MemStep(t) \/ MemPut(t) \/ MemGetCur(t) \/ MemGetFrozen(t) \/ MemClear(t)
     \/ MemFlushNothing(t) \/ MemFlushFreeze(t) \/ MemFlushBuild(t) \/ MemFlushFail(t)
     \/ LimitCur(t) \/ BatchSize(t) \/ LimitTotal(t)
     \/ FlushSize(t) \/ FlushNone(t) \/ FlushCompact(t) \/ FlushId(t)
     \/ IndexStore(t) \/ IndexPush(t)
     \/ GetHit(t) \/ GetNowhere(t) \/ GetSst(t) \/ Crash(t)
     \/ ClearLevels(t) \/ ClearSsts(t)
     \/ DestroySize(t) \/ Drained(t)

EngineCall(t) ==
  \/ CallLookup(t)
  \/ t \in Writer /\ (CallPut(t) \/ CallErase(t) \/ Close(t) \/ Reopen(t))

EngineDone ==
  /\ \/ Quiet /\ (calls = MaxCalls \/ phase # "open")
     \/ phase = "terminated"
  /\ UNCHANGED allvars

EngineNext == (\E t \in Thread : EngineStep(t) \/ EngineCall(t)) \/ EngineDone

EngineSpec == EngineInit /\ [][EngineNext]_allvars

EngineFairSpec == EngineSpec /\ \A t \in Thread : WF_allvars(EngineStep(t))
-----------------------------------------------------------------------------
(* Properties.                                                             *)

EngineLabel == Label \cup
  {"limit_cur", "batch_size", "limit_total", "flush", "flush_id", "index_store",
   "index_push", "get_reply", "clear_levels", "clear_ssts", "destroy", "drained"}

Sst == Table \cup {None}

EngineTypeOK ==
  /\ level0 \in Seq(Id) /\ new_id \in [Thread -> Id]
  /\ ssts \in [Id -> Sst \cup {Absent}] /\ files \in [Id -> Table \cup {Absent}]
  /\ new_sst \in [Thread -> Sst]
  /\ pc \in [Thread -> EngineLabel] /\ ret \in [Thread -> EngineLabel]
  /\ phase \in {"open", "closing", "closed", "terminated", "failed"}

\* The SST a flush has built and not yet put into the index.
Pending == {t \in Thread : pc[t] \in {"index_store", "index_push"} /\ new_sst[t] # None}
InFlight == IF Pending = {} THEN <<>> ELSE <<new_sst[CHOOSE t \in Pending : TRUE]>>

Indexed == [i \in DOMAIN level0 |-> ssts[level0[i]]]
Nothing == [v \in Version |-> None]

\* With one writer, from the moment a put is applied until a clear or a build
\* that threw, its version is in the memtable, in the SST being indexed or in
\* an SST of the index, and no newer table there holds an older write.
EngineNoEntryLost ==
  ~build_failed =>
    \A v \in Version : FoundIn(Layers \o InFlight \o Indexed, Nothing, v, store[v])

\* With one writer, ids fall from the front of the index (engine.cpp: the
\* smaller an sst_id, the older the file), and an id in the index is that of
\* an SST, with its own content in the file, also after a clear has let the
\* ids start again beside the old files.
IndexSound ==
  \A i \in DOMAIN level0 :
    /\ \A j \in 1 .. i - 1 : level0[j] > level0[i]
    /\ ssts[level0[i]] \notin {None, Absent}
    /\ files[level0[i]] = ssts[level0[i]]

\* With one writer, a put, put_batch or remove that has returned leaves less
\* than the limit in memory, unless level 0 is full and flush threw.
MemoryBounded ==
  Quiet /\ phase = "open" /\ Len(level0) <= Ratio
    => current.bytes + frozen_bytes < Limit

\* The destructor leaves every version in a file the index names.
ClosedIsDrained ==
  phase = "closed" /\ ~build_failed =>
    \A v \in Version :
      FoundIn([i \in DOMAIN level0 |-> files[level0[i]]], Nothing, v, store[v])

\* Level 0 outgrows the compaction threshold by at most one SST per thread
\* that flushes, though the check and the push are apart.
Level0Bounded == Len(level0) <= Ratio + Cardinality(Writer)

\* Every call and the destructor return, by an exception if need be, unless
\* the process has ended.
EngineCallsReturn ==
  \A t \in Thread : pc[t] # "idle" ~> pc[t] = "idle" \/ phase = "terminated"

\* What t is told when its get ends in memory, or with no SST to go on to.
GetsPut(t) ==
  At(t, "get_reply") /\ pc'[t] = "idle" /\ ~build_failed =>
    LET seen == {r \in Tranc :
                   /\ store[<<reply[t].key, r>>] # None
                   /\ reply[t].tranc = 0 \/ r <= reply[t].tranc
                   /\ level0 = <<>> \/ InMemory(<<reply[t].key, r>>)}
        r    == CHOOSE r \in seen : \A q \in seen : q <= r
        val  == store[<<reply[t].key, r>>]
    IN  node[t] # NoNode \/ level0 = <<>> =>
          reply'[t].val = IF seen = {} \/ val = Tombstone THEN None ELSE val

\* What the writer of an engine has put last is what it gets, until a search
\* has to go on to an SST: nothing older than memory holds, nothing erased, no
\* deleted value. The node is read after the locks are gone.
GetFindsPut == [][\A t \in Writer : GetsPut(t)]_allvars
=============================================================================
