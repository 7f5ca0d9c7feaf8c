----------------------------- MODULE EngineProof ------------------------------
(***************************************************************************)
(* What Memtable.tla and LSMEngine.tla promise, proved for every number of *)
(* threads, keys, values, transaction ids, calls, limits and ratios. How   *)
(* far level 0 may outgrow its ratio is proved for any number of writers;  *)
(* the theorems about what the engine holds are for one writer beside any  *)
(* number of readers, since put, flush and clear change the index under no *)
(* lock. The memtable alone comes first, the engine around it after.       *)
(***************************************************************************)
EXTENDS LSMEngine, ListLemmas

-----------------------------------------------------------------------------
(* The memtable.                                                           *)

\* The locks agree with what each thread is doing, and nobody shares a lock
\* held exclusively.
LockInv ==
  /\ \A t \in Thread : /\ t \in cur_mtx.w    <=> HoldsCur(t)
                       /\ t \in cur_mtx.r    <=> HoldsCurShared(t)
                       /\ t \in frozen_mtx.w <=> HoldsFrozen(t)
                       /\ t \in frozen_mtx.r <=> HoldsFrozenShared(t)
  /\ cur_mtx.w = {} \/ cur_mtx.r = {}
  /\ frozen_mtx.w = {} \/ frozen_mtx.r = {}
  /\ \A t, u \in cur_mtx.w : t = u
  /\ \A t, u \in frozen_mtx.w : t = u

\* A flusher that builds has a table to build from, a reader that looks into
\* the frozen tables has a key to look for.
StageInv == \A t \in Thread :
  /\ At(t, "flush_build") => frozen # <<>>
  /\ At(t, "get_frozen")  => arg[t].keys # <<>>

Inv == TypeOK /\ LockInv /\ StageInv

-----------------------------------------------------------------------------
LEMMA EmptyTableType == EmptyTable \in Table
  BY DEF EmptyTable, Table

LEMMA TablePutType ==
  ASSUME NEW tab \in Table, NEW v \in Version, NEW val \in Val
  PROVE  TablePut(tab, v, val) \in Table
  <1>1. \A x \in Val : Bytes(x) \in Int
    BY MemtableAssumption DEF Bytes, Val
  <1>2. tab.bytes \in Int /\ tab.kv \in [Version -> Val \cup {None}]
    BY DEF Table
  <1>3. tab.kv[v] # None => tab.kv[v] \in Val
    BY <1>2
  <1>4. [tab.kv EXCEPT ![v] = val] \in [Version -> Val \cup {None}]
    BY <1>2
  <1>5. tab.bytes + (IF tab.kv[v] = None THEN NodeBytes + Bytes(val)
                     ELSE Bytes(val) - Bytes(tab.kv[v])) \in Int
    BY <1>1, <1>2, <1>3, MemtableAssumption
  <1>6. QED
    BY <1>4, <1>5 DEF TablePut, Table

\* The lists of frozen tables the actions build.
LEMMA FrozenType ==
  ASSUME NEW tab \in Table, NEW fs \in Seq(Table)
  PROVE  /\ <<tab>> \o fs \in Seq(Table)
         /\ <<tab>> \o fs # <<>>
         /\ fs # <<>> => /\ Len(fs) \in Nat \ {0}
                         /\ fs[Len(fs)] \in Table
                         /\ SubSeq(fs, 1, Len(fs) - 1) \in Seq(Table)
  <1>1. <<tab>> \in Seq(Table) /\ Len(<<tab>>) = 1
    OBVIOUS
  <1>2. <<tab>> \o fs \in Seq(Table) /\ Len(<<tab>> \o fs) = 1 + Len(fs)
    BY <1>1, ConcatProperties
  <1>3. <<tab>> \o fs # <<>>
    BY <1>2, EmptySeq, LenProperties
  <1>4. ASSUME fs # <<>>
        PROVE  /\ Len(fs) \in Nat \ {0} /\ fs[Len(fs)] \in Table
               /\ SubSeq(fs, 1, Len(fs) - 1) \in Seq(Table)
    <2>1. Len(fs) \in Nat \ {0}
      BY <1>4, EmptySeq
    <2>2. fs[Len(fs)] \in Table
      BY <2>1, ElementOfSeq
    <2>3. \A i \in 1 .. Len(fs) - 1 : fs[i] \in Table
      BY <2>1, ElementOfSeq
    <2>4. SubSeq(fs, 1, Len(fs) - 1) \in Seq(Table)
      BY <2>1, <2>3, SubSeqProperties
    <2>5. QED
      BY <2>1, <2>2, <2>4
  <1>5. QED
    BY <1>2, <1>3, <1>4

-----------------------------------------------------------------------------
(* Type correctness.                                                       *)

LEMMA InitInv == Init => Inv
  <1> SUFFICES ASSUME Init PROVE Inv
    OBVIOUS
  <1>1. TypeOK
    <2>1. current \in Table /\ frozen \in Seq(Table) /\ frozen_bytes \in Int
      BY EmptyTableType, EmptySeq DEF Init
    <2>2. NoArg \in [kvs : Seq(Key \X Val), keys : Seq(Key), tranc : Tranc]
      BY MemtableAssumption, EmptySeq DEF NoArg, Tranc
    <2>3. QED
      BY <2>1, <2>2 DEF Init, TypeOK, Mutex, Unlocked, Label
  <1>2. LockInv
    BY DEF Init, LockInv, Unlocked, HoldsCur, HoldsCurShared, HoldsFrozen,
           HoldsFrozenShared
  <1>3. StageInv
    BY DEF Init, StageInv, At
  <1>4. QED
    BY <1>1, <1>2, <1>3 DEF Inv

\* Argument vectors shrink to argument vectors.
LEMMA ArgType ==
  ASSUME NEW S, NEW s \in Seq(S), s # <<>>
  PROVE  Head(s) \in S /\ Tail(s) \in Seq(S)
  BY HeadTailProperties

LEMMA TypeStep == Inv /\ [Next]_vars => TypeOK'
  <1> SUFFICES ASSUME Inv, [Next]_vars PROVE TypeOK'
    OBVIOUS
  <1> USE DEF Inv, TypeOK, memory, locks, history
  <1> DEFINE Arg == [kvs : Seq(Key \X Val), keys : Seq(Key), tranc : Tranc]
  <1>1. ASSUME NEW t \in Thread, PutLock(t) PROVE TypeOK'
    BY <1>1 DEF PutLock, At, Goto, Lock, Mutex, Label
  <1>2. ASSUME NEW t \in Thread, PutApply(t) PROVE TypeOK'
    <2> DEFINE kv == Head(arg[t].kvs)
    <2>1. arg[t] \in Arg /\ arg[t].kvs # <<>>
      BY <1>2 DEF PutApply
    <2>2. kv \in Key \X Val /\ Tail(arg[t].kvs) \in Seq(Key \X Val)
      BY <2>1, ArgType
    <2>3. <<kv[1], arg[t].tranc>> \in Version /\ kv[2] \in Val
      BY <2>1, <2>2 DEF Version
    <2>4. current' \in Table
      BY <1>2, <2>3, TablePutType DEF PutApply
    <2>5. arg' \in [Thread -> Arg]
      BY <1>2, <2>1, <2>2 DEF PutApply
    <2>6. store' \in [Version -> Val \cup {None}]
      BY <1>2, <2>3 DEF PutApply
    <2>7. QED
      BY <1>2, <2>4, <2>5, <2>6 DEF PutApply
  <1>3. ASSUME NEW t \in Thread, PutUnlock(t) PROVE TypeOK'
    BY <1>3 DEF PutUnlock, At, Goto, Return, Unlocked, Mutex, Label
  <1>4. ASSUME NEW t \in Thread, GetLockFrozen(t) PROVE TypeOK'
    BY <1>4 DEF GetLockFrozen, At, Goto, LockShared, Mutex, Label
  <1>5. ASSUME NEW t \in Thread, GetLockCur(t) PROVE TypeOK'
    BY <1>5 DEF GetLockCur, At, Goto, LockShared, Mutex, Label
  <1>6. ASSUME NEW t \in Thread, GetCur(t) PROVE TypeOK'
    <2>1. arg[t] \in Arg /\ arg[t].keys # <<>>
      BY <1>6 DEF GetCur
    <2>2. Tail(arg[t].keys) \in Seq(Key)
      BY <2>1, ArgType
    <2>3. arg' = arg \/ arg' = [arg EXCEPT ![t].keys = Tail(@)]
      BY <1>6 DEF GetCur, Answer
    <2>6. arg' \in [Thread -> Arg]
      <3>1. CASE arg' = arg
        BY <3>1
      <3>2. CASE arg' = [arg EXCEPT ![t].keys = Tail(@)]
        BY <2>1, <2>2, <3>2
      <3>3. QED
        BY <2>3, <3>1, <3>2
    <2>4. pc' \in [Thread -> Label]
      BY <1>6 DEF GetCur, Goto, Label
    <2>5. QED
      BY <1>6, <2>4, <2>6 DEF GetCur
  <1>7. ASSUME NEW t \in Thread, GetFrozen(t) PROVE TypeOK'
    <2>1. arg[t] \in Arg /\ arg[t].keys # <<>>
      BY <1>7 DEF GetFrozen, StageInv
    <2>2. Tail(arg[t].keys) \in Seq(Key)
      BY <2>1, ArgType
    <2>3. arg' \in [Thread -> Arg]
      BY <1>7, <2>1, <2>2 DEF GetFrozen, Answer
    <2>4. pc' \in [Thread -> Label]
      BY <1>7 DEF GetFrozen, Goto, Label
    <2>5. QED
      BY <1>7, <2>3, <2>4 DEF GetFrozen
  <1>8. ASSUME NEW t \in Thread, GetUnlock(t) PROVE TypeOK'
    BY <1>8 DEF GetUnlock, At, Goto, Return, UnlockShared, Mutex, Label
  <1>9. ASSUME NEW t \in Thread, SizeCur(t) PROVE TypeOK'
    BY <1>9 DEF SizeCur, At, Goto, Label, Table
  <1>10. ASSUME NEW t \in Thread, SizeFrozen(t) PROVE TypeOK'
    BY <1>10 DEF SizeFrozen, At, Goto, Return, Label
  <1>11. ASSUME NEW t \in Thread, FreezeLock(t) \/ ClearLock(t) \/ FlushLock(t)
         PROVE  TypeOK'
    <2>1. PICK from, to \in Label : LockFrozen(t, from, to)
      BY <1>11 DEF FreezeLock, ClearLock, FlushLock, Label
    <2>2. pc' \in [Thread -> Label]
      BY <2>1 DEF LockFrozen, Goto
    <2>3. QED
      BY <2>1, <2>2 DEF LockFrozen, Lock, Mutex
  <1>12. ASSUME NEW t \in Thread, Freeze(t) \/ FlushFreeze(t) PROVE TypeOK'
    <2>1. FreezeCurrent
      BY <1>12 DEF Freeze, FlushFreeze
    <2>2. current' \in Table /\ frozen' \in Seq(Table)
      BY <2>1, EmptyTableType, FrozenType DEF FreezeCurrent
    <2>3. frozen_bytes' \in Int
      BY <2>1 DEF FreezeCurrent, Table
    <2>4. pc' \in [Thread -> Label]
      BY <1>12 DEF Freeze, FlushFreeze, Goto, Return, Label
    <2>5. frozen_mtx' \in Mutex /\ cur_mtx' \in Mutex
      BY <1>12 DEF Freeze, FlushFreeze, Unlocked, Mutex
    <2>6. UNCHANGED <<ret, arg, calls, size, store, flushed, build_failed>>
      BY <1>12 DEF Freeze, FlushFreeze
    <2>7. QED
      BY <2>2, <2>3, <2>4, <2>5, <2>6
  <1>13. ASSUME NEW t \in Thread, Clear(t) PROVE TypeOK'
    BY <1>13, EmptyTableType, EmptySeq DEF Clear, Goto, Return, Unlocked, Mutex, Label
  <1>14. ASSUME NEW t \in Thread, FlushNothing(t) PROVE TypeOK'
    BY <1>14 DEF FlushNothing, Goto, Return, Unlocked, Mutex, Label
  <1>15. ASSUME NEW t \in Thread, FlushBuild(t) \/ FlushFail(t) PROVE TypeOK'
    <2>1. frozen # <<>> /\ PopOldest
      BY <1>15 DEF FlushBuild, FlushFail, StageInv
    <2>2. Oldest \in Table /\ frozen' \in Seq(Table)
      BY <2>1, FrozenType DEF PopOldest, Oldest
    <2>3. frozen_bytes' \in Int
      BY <2>1, <2>2 DEF PopOldest, Table
    <2>4. flushed' \in [Version -> Val \cup {None}]
      BY <1>15, <2>2 DEF FlushBuild, FlushFail, Table
    <2>5. pc' \in [Thread -> Label]
      BY <1>15 DEF FlushBuild, FlushFail, Goto, Return, Label
    <2>6. frozen_mtx' = Unlocked /\ cur_mtx' = cur_mtx
      BY <1>15 DEF FlushBuild, FlushFail
    <2>7. build_failed' \in BOOLEAN
      BY <1>15 DEF FlushBuild, FlushFail
    <2>8. Unlocked \in Mutex
      BY DEF Unlocked, Mutex
    <2>9. UNCHANGED <<current, ret, arg, calls, size, store>>
      BY <1>15 DEF FlushBuild, FlushFail
    <2>10. QED
      BY <2>2, <2>3, <2>4, <2>5, <2>6, <2>7, <2>8, <2>9
  <1>16. ASSUME NEW t \in Thread, CallAny(t) PROVE TypeOK'
    <2>1. PICK l \in Label, a \in Arg : Call(t, l, a)
      <3>1. NoArg \in Arg
        BY MemtableAssumption, EmptySeq DEF NoArg, Tranc
      <3>2. \A b \in Batch, tr \in Tranc :
              [NoArg EXCEPT !.kvs = b, !.tranc = tr] \in Arg
        BY <3>1, MemtableAssumption DEF NoArg
      <3>3. \A ks \in KeyList, tr \in Tranc :
              [NoArg EXCEPT !.keys = ks, !.tranc = tr] \in Arg
        BY <3>1, MemtableAssumption DEF NoArg
      <3>4. QED
        BY <1>16, <3>1, <3>2, <3>3
           DEF CallAny, CallWrite, CallGet, CallFreeze, CallFlush, CallClear,
               CallSize, Label
    <2>2. QED
      BY <2>1 DEF Call, Enter, Label
  <1>17. CASE UNCHANGED vars
    BY <1>17 DEF vars
  <1>18. QED
    BY <1>1, <1>2, <1>3, <1>4, <1>5, <1>6, <1>7, <1>8, <1>9, <1>10, <1>11,
       <1>12, <1>13, <1>14, <1>15, <1>16, <1>17 DEF Next, Step, Done

-----------------------------------------------------------------------------
(* Lock discipline.                                                        *)

LEMMA LockStep == Inv /\ [Next]_vars => LockInv'
  <1> SUFFICES ASSUME Inv, [Next]_vars PROVE LockInv'
    OBVIOUS
  <1>0. /\ pc \in [Thread -> Label] /\ \A t \in Thread : ret[t] = "idle"
        /\ cur_mtx \in Mutex /\ frozen_mtx \in Mutex /\ LockInv
    BY DEF Inv, TypeOK
  <1> USE <1>0 DEF LockInv, HoldsCur, HoldsCurShared, HoldsFrozen,
                   HoldsFrozenShared, At, Goto, Mutex
  <1>1. ASSUME NEW t \in Thread, PutLock(t) PROVE LockInv'
    BY <1>1 DEF PutLock, CanLock, Lock
  <1>2. ASSUME NEW t \in Thread, PutUnlock(t) PROVE LockInv'
    BY <1>2 DEF PutUnlock, Return, Unlocked
  <1>3. ASSUME NEW t \in Thread, GetLockFrozen(t) PROVE LockInv'
    BY <1>3 DEF GetLockFrozen, CanLockShared, LockShared
  <1>4. ASSUME NEW t \in Thread, GetLockCur(t) PROVE LockInv'
    BY <1>4 DEF GetLockCur, CanLockShared, LockShared
  <1>5. ASSUME NEW t \in Thread, GetCur(t) PROVE LockInv'
    <2>1. pc' = pc \/ (At(t, "get_cur") /\ pc' = [pc EXCEPT ![t] = "get_frozen"])
      BY <1>5 DEF GetCur
    <2>2. UNCHANGED <<cur_mtx, frozen_mtx>>
      BY <1>5 DEF GetCur, locks
    <2>3. QED
      BY <2>1, <2>2
  <1>6. ASSUME NEW t \in Thread, GetFrozen(t) PROVE LockInv'
    BY <1>6 DEF GetFrozen, locks
  <1>7. ASSUME NEW t \in Thread, GetUnlock(t) PROVE LockInv'
    BY <1>7 DEF GetUnlock, Return, UnlockShared
  <1>8. ASSUME NEW t \in Thread, SizeCur(t) \/ SizeFrozen(t) PROVE LockInv'
    BY <1>8 DEF SizeCur, SizeFrozen, Return, locks
  <1>9. ASSUME NEW t \in Thread, FreezeLock(t) \/ ClearLock(t) \/ FlushLock(t)
        PROVE  LockInv'
    <2>1. PICK from \in {"freeze_lock_frozen", "clear_lock_frozen", "flush_lock_frozen"},
               to \in {"freeze_lock_cur", "clear_lock_cur", "flush_lock_cur", "flush_build"} :
             LockFrozen(t, from, to)
      BY <1>9 DEF FreezeLock, ClearLock, FlushLock
    <2>2. QED
      BY <2>1 DEF LockFrozen, CanLock, Lock
  <1>10. ASSUME NEW t \in Thread,
                \/ Freeze(t) \/ Clear(t) \/ FlushNothing(t)
                \/ FlushBuild(t) \/ FlushFail(t)
         PROVE  LockInv'
    <2>1. /\ HoldsFrozen(t) /\ pc' = [pc EXCEPT ![t] = "idle"]
          /\ frozen_mtx' = Unlocked /\ cur_mtx' = cur_mtx
      BY <1>10 DEF Freeze, Clear, FlushNothing, FlushBuild, FlushFail, Return
    <2>2. QED
      BY <2>1 DEF Unlocked
  <1>11. ASSUME NEW t \in Thread, FlushFreeze(t) PROVE LockInv'
    BY <1>11 DEF FlushFreeze, locks
  <1>12. ASSUME NEW t \in Thread, PutApply(t) PROVE LockInv'
    BY <1>12 DEF PutApply, locks
  <1>13. ASSUME NEW t \in Thread, CallAny(t) PROVE LockInv'
    <2>1. PICK l \in {"put_lock", "get_lock_frozen", "freeze_lock_frozen",
                      "flush_lock_frozen", "clear_lock_frozen", "size_cur"} :
            /\ At(t, "idle") /\ pc' = [pc EXCEPT ![t] = l] /\ UNCHANGED locks
      BY <1>13 DEF CallAny, CallWrite, CallGet, CallFreeze, CallFlush, CallClear,
                   CallSize, Call, Enter
    <2>2. QED
      BY <2>1 DEF locks
  <1>14. CASE UNCHANGED vars
    BY <1>14 DEF vars, locks
  <1>15. QED
    BY <1>1, <1>2, <1>3, <1>4, <1>5, <1>6, <1>7, <1>8, <1>9, <1>10, <1>11,
       <1>12, <1>13, <1>14 DEF Next, Step, Done

LEMMA StageStep == Inv /\ [Next]_vars => StageInv'
  <1> SUFFICES ASSUME Inv, [Next]_vars PROVE StageInv'
    OBVIOUS
  <1>0. /\ pc \in [Thread -> Label] /\ \A t \in Thread : ret[t] = "idle"
        /\ frozen \in Seq(Table) /\ current \in Table
        /\ arg \in [Thread -> [kvs : Seq(Key \X Val), keys : Seq(Key), tranc : Tranc]]
        /\ LockInv /\ StageInv
    BY DEF Inv, TypeOK
  <1> USE <1>0 DEF StageInv, At, Goto
  <1>1. ASSUME NEW t \in Thread,
               \/ PutLock(t) \/ PutUnlock(t) \/ GetLockFrozen(t) \/ GetLockCur(t)
               \/ GetUnlock(t) \/ SizeCur(t) \/ SizeFrozen(t) \/ FlushNothing(t)
        PROVE  StageInv'
    <2>1. PICK l \in {"put_apply", "idle", "get_lock_cur", "get_cur", "size_frozen"} :
            pc' = [pc EXCEPT ![t] = l]
      BY <1>1 DEF PutLock, PutUnlock, GetLockFrozen, GetLockCur, GetUnlock,
                  SizeCur, SizeFrozen, FlushNothing, Return
    <2>2. frozen' = frozen /\ arg' = arg
      BY <1>1 DEF PutLock, PutUnlock, GetLockFrozen, GetLockCur, GetUnlock,
                  SizeCur, SizeFrozen, FlushNothing, memory
    <2>3. QED
      BY <2>1, <2>2
  <1>2. ASSUME NEW t \in Thread, PutApply(t) PROVE StageInv'
    BY <1>2 DEF PutApply
  <1>3. ASSUME NEW t \in Thread, GetCur(t) PROVE StageInv'
    <2>1. \/ pc' = pc /\ At(t, "get_cur") /\ arg' = [arg EXCEPT ![t].keys = Tail(@)]
          \/ /\ pc' = [pc EXCEPT ![t] = "get_frozen"]
             /\ arg' = arg /\ arg[t].keys # <<>>
      BY <1>3 DEF GetCur, Answer
    <2>2. frozen' = frozen
      BY <1>3 DEF GetCur, memory
    <2>3. QED
      BY <2>1, <2>2
  <1>4. ASSUME NEW t \in Thread, GetFrozen(t) PROVE StageInv'
    BY <1>4 DEF GetFrozen, Answer, memory
  <1>5. ASSUME NEW t \in Thread, FreezeLock(t) \/ ClearLock(t) PROVE StageInv'
    BY <1>5 DEF FreezeLock, ClearLock, LockFrozen, memory
  <1>6. ASSUME NEW t \in Thread, FlushLock(t) PROVE StageInv'
    BY <1>6 DEF FlushLock, LockFrozen, memory
  <1>7. ASSUME NEW t \in Thread, Freeze(t) \/ FlushFreeze(t) PROVE StageInv'
    <2>1. frozen' # <<>>
      BY <1>7, FrozenType DEF Freeze, FlushFreeze, FreezeCurrent
    <2>2. /\ arg' = arg
          /\ \E l \in {"idle", "flush_build"} : pc' = [pc EXCEPT ![t] = l]
      BY <1>7 DEF Freeze, FlushFreeze, Return
    <2>3. QED
      BY <2>1, <2>2
  <1>8. ASSUME NEW t \in Thread, Clear(t) \/ FlushBuild(t) \/ FlushFail(t)
        PROVE  StageInv'
    <2>1. HoldsFrozen(t) /\ arg' = arg /\ pc' = [pc EXCEPT ![t] = "idle"]
      BY <1>8 DEF Clear, FlushBuild, FlushFail, Return, HoldsFrozen
    <2>2. \A u \in Thread : u # t => ~HoldsFrozen(u)
      BY <2>1 DEF LockInv
    <2>3. QED
      BY <2>1, <2>2 DEF HoldsFrozen
  <1>9. ASSUME NEW t \in Thread, CallAny(t) PROVE StageInv'
    <2>1. PICK l \in {"put_lock", "get_lock_frozen", "freeze_lock_frozen",
                      "flush_lock_frozen", "clear_lock_frozen", "size_cur"} :
            \E a : /\ pc' = [pc EXCEPT ![t] = l] /\ arg' = [arg EXCEPT ![t] = a]
                   /\ frozen' = frozen
      BY <1>9 DEF CallAny, CallWrite, CallGet, CallFreeze, CallFlush, CallClear,
                  CallSize, Call, Enter, memory
    <2>2. QED
      BY <2>1
  <1>10. CASE UNCHANGED vars
    BY <1>10 DEF vars, memory
  <1>11. QED
    BY <1>1, <1>2, <1>3, <1>4, <1>5, <1>6, <1>7, <1>8, <1>9, <1>10
       DEF Next, Step, Done

THEOREM Invariance == Spec => []Inv
  <1>1. Init => Inv
    BY InitInv
  <1>2. Inv /\ [Next]_vars => Inv'
    BY TypeStep, LockStep, StageStep DEF Inv
  <1>3. QED
    BY <1>1, <1>2, PTL DEF Spec

\* Every state of the memtable is well typed.
THEOREM TypeCorrect == Spec => []TypeOK
  <1>1. Inv => TypeOK
    BY DEF Inv
  <1>2. QED
    BY <1>1, Invariance, PTL

\* cur_mtx and frozen_mtx exclude writers of a table, and changes of the list
\* of frozen tables, from each other and from readers.
THEOREM LocksExclude == Spec => []Exclusion
  <1>1. Inv => Exclusion
    BY DEF Inv, LockInv, Exclusion
  <1>2. QED
    BY <1>1, Invariance, PTL

-----------------------------------------------------------------------------
(* No write is lost between the tables.                                    *)

LEMMA LayersOf ==
  ASSUME NEW tab \in Table, NEW fs \in Seq(Table)
  PROVE  /\ DOMAIN (<<tab>> \o fs) = 1 .. Len(fs) + 1
         /\ (<<tab>> \o fs)[1] = tab
         /\ \A i \in 2 .. Len(fs) + 1 : (<<tab>> \o fs)[i] = fs[i - 1]
         /\ Len(fs) \in Nat
  <1>1. <<tab>> \in Seq(Table) /\ Len(<<tab>>) = 1 /\ <<tab>>[1] = tab
    OBVIOUS
  <1>2. /\ <<tab>> \o fs \in Seq(Table)
        /\ Len(<<tab>> \o fs) = 1 + Len(fs)
        /\ Len(fs) \in Nat
    BY <1>1, ConcatProperties, LenProperties
  <1>3. \A i \in 1 .. 1 + Len(fs) :
          (<<tab>> \o fs)[i] = IF i <= 1 THEN <<tab>>[i] ELSE fs[i - 1]
    BY <1>1, ConcatProperties
  <1>4. DOMAIN (<<tab>> \o fs) = 1 .. Len(fs) + 1
    BY <1>2, LenProperties
  <1>5. QED
    BY <1>1, <1>2, <1>3, <1>4

\* A write is found in the table it is made to, and hides no other version.
LEMMA PutFound ==
  ASSUME NEW tab \in Table, NEW fs \in Seq(Table), NEW built,
         NEW v \in Version, NEW x \in Val
  PROVE  /\ FoundIn(<<TablePut(tab, v, x)>> \o fs, built, v, x)
         /\ \A w \in Version \ {v} : \A y : FoundIn(<<tab>> \o fs, built, w, y) =>
              FoundIn(<<TablePut(tab, v, x)>> \o fs, built, w, y)
  <1> DEFINE new == TablePut(tab, v, x)
             L1  == <<tab>> \o fs
             L2  == <<new>> \o fs
  <1>1. new \in Table
    BY TablePutType
  <1>2. new.kv[v] = x /\ \A w \in Version \ {v} : new.kv[w] = tab.kv[w]
    BY DEF TablePut, Table
  <1>3. x # None
    BY MemtableAssumption
  <1>4. FoundIn(L2, built, v, x)
    <2>1. 1 \in DOMAIN L2 /\ L2[1] = new
      BY <1>1, LayersOf
    <2>2. QED
      BY <1>2, <1>3, <2>1 DEF FoundIn
  <1>5. ASSUME NEW w \in Version \ {v}, NEW y, FoundIn(L1, built, w, y)
        PROVE  FoundIn(L2, built, w, y)
    <2>1. DOMAIN L1 = DOMAIN L2 /\ DOMAIN L1 = 1 .. Len(fs) + 1 /\ Len(fs) \in Nat
      BY <1>1, LayersOf
    <2>2. \A i \in DOMAIN L1 : L1[i].kv[w] = L2[i].kv[w]
      BY <1>1, <1>2, LayersOf
    <2>3. QED
      BY <1>5, <2>1, <2>2 DEF FoundIn
  <1>6. QED
    BY <1>4, <1>5

\* Freezing adds an empty table in front.
LEMMA FreezeFound ==
  ASSUME NEW tab \in Table, NEW fs \in Seq(Table), NEW built,
         NEW v \in Version, NEW y, FoundIn(<<tab>> \o fs, built, v, y)
  PROVE  FoundIn(<<EmptyTable>> \o (<<tab>> \o fs), built, v, y)
  <1> DEFINE L1 == <<tab>> \o fs
             L2 == <<EmptyTable>> \o L1
             n  == Len(fs) + 1
  <1>1. n \in Nat /\ DOMAIN L1 = 1 .. n /\ L1 \in Seq(Table) /\ Len(L1) = n
    BY LayersOf, FrozenType, LenProperties
  <1>2. /\ DOMAIN L2 = 1 .. n + 1
        /\ L2[1] = EmptyTable
        /\ \A i \in 2 .. n + 1 : L2[i] = L1[i - 1]
    BY <1>1, EmptyTableType, LayersOf
  <1>3. L2[1].kv[v] = None
    BY <1>2 DEF EmptyTable
  <1>4. CASE \E i \in DOMAIN L1 : /\ L1[i].kv[v] # None /\ L1[i].kv[v] = y
                                  /\ \A j \in 1 .. i - 1 : L1[j].kv[v] = None
    <2>1. PICK i \in 1 .. n : /\ L1[i].kv[v] # None /\ L1[i].kv[v] = y
                              /\ \A j \in 1 .. i - 1 : L1[j].kv[v] = None
      BY <1>1, <1>4
    <2>2. i + 1 \in DOMAIN L2 /\ L2[i + 1] = L1[i]
      BY <1>1, <1>2
    <2>3. \A j \in 1 .. i : L2[j].kv[v] = None
      <3>1. SUFFICES ASSUME NEW j \in 1 .. i PROVE L2[j].kv[v] = None
        OBVIOUS
      <3>2. CASE j = 1
        BY <1>3, <3>2
      <3>3. CASE j # 1
        BY <1>1, <1>2, <2>1, <3>3
      <3>4. QED
        BY <3>2, <3>3
    <2>4. /\ i + 1 \in DOMAIN L2
          /\ L2[i + 1].kv[v] # None /\ L2[i + 1].kv[v] = y
          /\ \A j \in 1 .. (i + 1) - 1 : L2[j].kv[v] = None
      BY <1>1, <2>1, <2>2, <2>3
    <2>5. \E m \in DOMAIN L2 : /\ L2[m].kv[v] # None /\ L2[m].kv[v] = y
                               /\ \A j \in 1 .. m - 1 : L2[j].kv[v] = None
      BY ONLY <2>4
    <2>6. QED
      BY <2>5 DEF FoundIn
  <1>5. CASE (\A i \in DOMAIN L1 : L1[i].kv[v] = None) /\ built[v] = y
    <2>1. \A i \in DOMAIN L2 : L2[i].kv[v] = None
      BY <1>1, <1>2, <1>3, <1>5
    <2>2. QED
      BY <1>5, <2>1 DEF FoundIn
  <1>6. QED
    BY <1>4, <1>5 DEF FoundIn

\* What the oldest frozen table holds, building an SST from it keeps.
LEMMA BuildFound ==
  ASSUME NEW tab \in Table, NEW fs \in Seq(Table), fs # <<>>,
         NEW built, NEW next,
         next = [v \in Version |-> IF fs[Len(fs)].kv[v] # None
                                   THEN fs[Len(fs)].kv[v] ELSE built[v]],
         NEW v \in Version, NEW y, FoundIn(<<tab>> \o fs, built, v, y)
  PROVE  FoundIn(<<tab>> \o SubSeq(fs, 1, Len(fs) - 1), next, v, y)
  <1> DEFINE n  == Len(fs)
             gs == SubSeq(fs, 1, n - 1)
             L1 == <<tab>> \o fs
             L2 == <<tab>> \o gs
  <1>1. n \in Nat \ {0} /\ gs \in Seq(Table)
    BY FrozenType
  <1>2. Len(gs) = n - 1 /\ \A i \in 1 .. n - 1 : gs[i] = fs[i]
    BY <1>1, SubSeqProperties
  <1>3. /\ DOMAIN L1 = 1 .. n + 1 /\ DOMAIN L2 = 1 .. n
        /\ L1[1] = tab /\ L2[1] = tab
        /\ \A i \in 2 .. n + 1 : L1[i] = fs[i - 1]
        /\ \A i \in 2 .. n : L2[i] = gs[i - 1]
    BY <1>1, <1>2, LayersOf
  <1>4. \A i \in 1 .. n : L2[i] = L1[i]
    BY <1>1, <1>2, <1>3
  <1>5. L1[n + 1] = fs[n]
    BY <1>1, <1>3
  <1>6. CASE \E i \in DOMAIN L1 : /\ L1[i].kv[v] # None /\ L1[i].kv[v] = y
                                  /\ \A j \in 1 .. i - 1 : L1[j].kv[v] = None
    <2>1. PICK i \in 1 .. n + 1 : /\ L1[i].kv[v] # None /\ L1[i].kv[v] = y
                                  /\ \A j \in 1 .. i - 1 : L1[j].kv[v] = None
      BY <1>3, <1>6
    <2>2. CASE i \in 1 .. n
      <3>1. i \in DOMAIN L2 /\ L2[i] = L1[i]
        BY <1>3, <1>4, <2>2
      <3>2. ASSUME NEW j \in 1 .. i - 1 PROVE L2[j].kv[v] = None
        <4>1. j \in 1 .. n
          BY <1>1, <2>2
        <4>2. QED
          BY <1>4, <2>1, <4>1
      <3>3. /\ L2[i].kv[v] # None /\ L2[i].kv[v] = y
            /\ \A j \in 1 .. i - 1 : L2[j].kv[v] = None
        BY <2>1, <3>1, <3>2
      <3>4. QED
        BY <3>1, <3>3 DEF FoundIn
    <2>3. CASE i = n + 1
      <3>1. next[v] = y
        BY <1>5, <2>1, <2>3
      <3>2. \A j \in DOMAIN L2 : L2[j].kv[v] = None
        <4>1. SUFFICES ASSUME NEW j \in 1 .. n PROVE L2[j].kv[v] = None
          BY <1>3
        <4>2. j \in 1 .. i - 1
          BY <1>1, <2>3
        <4>3. QED
          BY <1>4, <2>1, <4>2
      <3>3. QED
        BY <3>1, <3>2 DEF FoundIn
    <2>4. QED
      BY <1>1, <2>1, <2>2, <2>3
  <1>7. CASE (\A i \in DOMAIN L1 : L1[i].kv[v] = None) /\ built[v] = y
    <2>1. \A i \in DOMAIN L2 : L2[i].kv[v] = None
      BY <1>1, <1>3, <1>4, <1>7
    <2>2. next[v] = y
      BY <1>1, <1>3, <1>5, <1>7
    <2>3. QED
      BY <2>1, <2>2 DEF FoundIn
  <1>8. QED
    BY <1>6, <1>7 DEF FoundIn

LEMMA LossInit == Init => NoEntryLost
  <1> SUFFICES ASSUME Init, NEW v \in Version
               PROVE  FoundIn(Layers, flushed, v, store[v])
    BY DEF NoEntryLost
  <1>1. /\ DOMAIN Layers = 1 .. Len(frozen) + 1 /\ Len(frozen) = 0
        /\ Layers[1] = EmptyTable
    BY EmptyTableType, EmptySeq, LayersOf DEF Init, Layers
  <1>2. \A i \in DOMAIN Layers : Layers[i].kv[v] = None
    BY <1>1 DEF EmptyTable
  <1>3. QED
    BY <1>2 DEF FoundIn, Init

LEMMA LossStep == Inv /\ NoEntryLost /\ [Next]_vars => NoEntryLost'
  <1> SUFFICES ASSUME Inv, NoEntryLost, [Next]_vars PROVE NoEntryLost'
    OBVIOUS
  <1>0. /\ current \in Table /\ frozen \in Seq(Table)
        /\ arg \in [Thread -> [kvs : Seq(Key \X Val), keys : Seq(Key), tranc : Tranc]]
        /\ store \in [Version -> Val \cup {None}]
    BY DEF Inv, TypeOK
  <1>1. ASSUME UNCHANGED <<current, frozen, store, flushed, build_failed>>
        PROVE  NoEntryLost'
    BY <1>1 DEF NoEntryLost, FoundIn, Layers
  <1>2. ASSUME NEW t \in Thread, PutApply(t) PROVE NoEntryLost'
    <2> DEFINE kv == Head(arg[t].kvs)
               w  == <<kv[1], arg[t].tranc>>
    <2>1. kv \in Key \X Val
      BY <1>0, <1>2, ArgType DEF PutApply
    <2>2. w \in Version /\ kv[2] \in Val
      BY <1>0, <2>1 DEF Version
    <2>3. /\ current' = TablePut(current, w, kv[2])
          /\ store' = [store EXCEPT ![w] = kv[2]]
          /\ frozen' = frozen /\ flushed' = flushed /\ build_failed' = build_failed
      BY <1>2 DEF PutApply
    <2>4. ASSUME ~build_failed, NEW v \in Version
          PROVE  FoundIn(<<current'>> \o frozen, flushed, v, store'[v])
      <3>1. FoundIn(<<current>> \o frozen, flushed, v, store[v])
        BY <2>4 DEF NoEntryLost, Layers
      <3>2. CASE v = w
        BY <1>0, <2>2, <2>3, <3>2, PutFound
      <3>3. CASE v # w
        BY <1>0, <2>2, <2>3, <3>1, <3>3, PutFound
      <3>4. QED
        BY <3>2, <3>3
    <2>5. QED
      BY <2>3, <2>4 DEF NoEntryLost, Layers
  <1>3. ASSUME NEW t \in Thread, Freeze(t) \/ FlushFreeze(t) PROVE NoEntryLost'
    <2>1. /\ current' = EmptyTable /\ frozen' = <<current>> \o frozen
          /\ UNCHANGED <<store, flushed, build_failed>>
      BY <1>3 DEF Freeze, FlushFreeze, FreezeCurrent, history
    <2>2. ASSUME ~build_failed, NEW v \in Version
          PROVE  FoundIn(<<EmptyTable>> \o (<<current>> \o frozen), flushed, v, store[v])
      BY <1>0, <2>2, FreezeFound DEF NoEntryLost, Layers
    <2>3. QED
      BY <2>1, <2>2 DEF NoEntryLost, Layers
  <1>4. ASSUME NEW t \in Thread, Clear(t) PROVE NoEntryLost'
    <2>1. /\ current' = EmptyTable /\ frozen' = <<>> /\ store' = flushed
          /\ flushed' = flushed
      BY <1>4 DEF Clear
    <2>2. ASSUME NEW v \in Version
          PROVE  FoundIn(<<EmptyTable>> \o <<>>, flushed, v, flushed[v])
      <3>1. /\ DOMAIN (<<EmptyTable>> \o <<>>) = 1 .. 1
            /\ (<<EmptyTable>> \o <<>>)[1] = EmptyTable
        BY EmptyTableType, EmptySeq, LayersOf
      <3>2. \A i \in DOMAIN (<<EmptyTable>> \o <<>>) :
              (<<EmptyTable>> \o <<>>)[i].kv[v] = None
        BY <3>1 DEF EmptyTable
      <3>3. QED
        BY <3>2 DEF FoundIn
    <2>3. QED
      BY <2>1, <2>2 DEF NoEntryLost, Layers
  <1>5. ASSUME NEW t \in Thread, FlushBuild(t) PROVE NoEntryLost'
    <2>1. frozen # <<>>
      BY <1>5 DEF FlushBuild, Inv, StageInv
    <2>2. /\ current' = current /\ frozen' = SubSeq(frozen, 1, Len(frozen) - 1)
          /\ flushed' = [v \in Version |-> IF frozen[Len(frozen)].kv[v] # None
                                           THEN frozen[Len(frozen)].kv[v]
                                           ELSE flushed[v]]
          /\ store' = store /\ build_failed' = build_failed
      BY <1>5 DEF FlushBuild, PopOldest, Oldest
    <2>3. ASSUME ~build_failed, NEW v \in Version
          PROVE  FoundIn(<<current>> \o frozen', flushed', v, store[v])
      <3>1. FoundIn(<<current>> \o frozen, flushed, v, store[v])
        BY <2>3 DEF NoEntryLost, Layers
      <3>2. QED
        BY <1>0, <2>1, <2>2, <3>1, BuildFound
    <2>4. QED
      BY <2>2, <2>3 DEF NoEntryLost, Layers
  <1>6. ASSUME NEW t \in Thread, FlushFail(t) PROVE NoEntryLost'
    <2>1. frozen # <<>> /\ frozen[Len(frozen)] \in Table
      BY <1>0, <1>6, FrozenType DEF FlushFail, Inv, StageInv
    <2>2. /\ current' = current /\ frozen' = SubSeq(frozen, 1, Len(frozen) - 1)
          /\ build_failed' = (build_failed \/ frozen[Len(frozen)].kv # EmptyTable.kv)
          /\ store' = store /\ flushed' = flushed
      BY <1>6 DEF FlushFail, PopOldest, Oldest
    <2>3. ASSUME ~build_failed', NEW v \in Version
          PROVE  FoundIn(<<current>> \o frozen', flushed, v, store[v])
      <3>1. FoundIn(<<current>> \o frozen, flushed, v, store[v])
        BY <2>2, <2>3 DEF NoEntryLost, Layers
      <3>2. flushed = [x \in Version |-> IF frozen[Len(frozen)].kv[x] # None
                                        THEN frozen[Len(frozen)].kv[x]
                                        ELSE flushed[x]]
        <4>1. frozen[Len(frozen)].kv = [x \in Version |-> None]
          BY <2>2, <2>3 DEF EmptyTable
        <4>2. flushed \in [Version -> Val \cup {None}]
          BY DEF Inv, TypeOK
        <4>3. QED
          BY <4>1, <4>2
      <3>3. QED
        BY <1>0, <2>1, <2>2, <3>1, <3>2, BuildFound
    <2>4. QED
      BY <2>2, <2>3 DEF NoEntryLost, Layers
  <1>7. ASSUME NEW t \in Thread,
               \/ PutLock(t) \/ PutUnlock(t) \/ GetLockFrozen(t) \/ GetLockCur(t)
               \/ GetCur(t) \/ GetFrozen(t) \/ GetUnlock(t) \/ SizeCur(t)
               \/ SizeFrozen(t) \/ FlushNothing(t) \/ FreezeLock(t) \/ ClearLock(t)
               \/ FlushLock(t) \/ CallAny(t)
        PROVE  NoEntryLost'
    <2>1. UNCHANGED <<current, frozen, store, flushed, build_failed>>
      BY <1>7 DEF PutLock, PutUnlock, GetLockFrozen, GetLockCur, GetCur, GetFrozen,
                  GetUnlock, SizeCur, SizeFrozen, FlushNothing, FreezeLock, ClearLock,
                  FlushLock, LockFrozen, CallAny, CallWrite, CallGet, CallFreeze,
                  CallFlush, CallClear, CallSize, Call, memory, history
    <2>2. QED
      BY <1>1, <2>1
  <1>8. CASE UNCHANGED vars
    BY <1>1, <1>8 DEF vars, memory, history
  <1>9. QED
    BY <1>2, <1>3, <1>4, <1>5, <1>6, <1>7, <1>8 DEF Next, Step, Done

\* Whatever threads write, freeze, flush and clear in whatever order, as long
\* as no build has thrown away a table's entries, every version reads back, newest table
\* first, as it was last written.
THEOREM NothingLost == Spec => []NoEntryLost
  <1>1. Inv /\ NoEntryLost /\ [Next]_vars => NoEntryLost'
    BY LossStep
  <1>2. QED
    BY <1>1, LossInit, Invariance, PTL DEF Spec
-----------------------------------------------------------------------------
(* A get answers from one state of memory.                                 *)

Keys(t) == arg[t].keys

Answers == {MemGet(k, tr) : k \in Key, tr \in Tranc}

\* A reader under its locks has answered its first keys as memory had them when
\* it locked, and memory still has them so for the keys that are left.
ReadOf(t) ==
  /\ pc[t] \in {"get_lock_frozen", "get_lock_cur"} => res[t] = <<>>
  /\ HoldsCurShared(t) =>
       /\ res[t] \in Seq(Answers)
       /\ Len(snap[t]) = Len(res[t]) + Len(Keys(t))
       /\ \A i \in 1 .. Len(res[t]) : res[t][i] = snap[t][i]
       /\ \A i \in 1 .. Len(Keys(t)) :
             snap[t][Len(res[t]) + i] = MemGet(Keys(t)[i], arg[t].tranc)
  /\ At(t, "get_frozen") => TableGet(current, Head(Keys(t)), arg[t].tranc) = None

ReadInv == \A t \in Thread : ReadOf(t)

ReadTyped ==
  /\ pc \in [Thread -> Label] /\ \A t \in Thread : ret[t] = "idle"
  /\ arg \in [Thread -> [kvs : Seq(Key \X Val), keys : Seq(Key), tranc : Tranc]]
  /\ DOMAIN res = Thread /\ DOMAIN snap = Thread

\* A reader for which nothing changes.
LEMMA ReadKept ==
  ASSUME ReadInv, NEW u \in Thread, UNCHANGED <<current, frozen>>,
         arg'[u] = arg[u], res'[u] = res[u], snap'[u] = snap[u], pc'[u] = pc[u]
  PROVE  ReadOf(u)'
  <1>1. Answers' = Answers
    BY DEF Answers, MemGet
  <1>2. ReadOf(u)
    BY DEF ReadInv
  <1>3. \A k, tr : MemGet(k, tr) = IF TableGet(current', k, tr) # None
                                   THEN TableGet(current', k, tr)
                                   ELSE FrozenGet(frozen', k, tr)
    BY DEF MemGet
  <1> QED
    BY <1>1, <1>2 DEF ReadOf, HoldsCurShared, At, Keys, MemGet

\* A thread that is not reading.
LEMMA NotReading ==
  ASSUME ReadInv, NEW u \in Thread,
         \/ pc'[u] \notin {"get_frozen", "get_cur", "get_lock_frozen", "get_lock_cur"}
         \/ /\ pc'[u] = "get_lock_cur" /\ pc[u] = "get_lock_frozen"
            /\ res'[u] = res[u]
         \/ pc[u] = pc'[u] /\ ~HoldsCurShared(u) /\ res'[u] = res[u]
  PROVE  ReadOf(u)'
  BY DEF ReadInv, ReadOf, HoldsCurShared, At

\* One key is answered.
LEMMA AnswerRead ==
  ASSUME ReadTyped, ReadInv, NEW t \in Thread, HoldsCurShared(t), Keys(t) # <<>>,
         Answer(t, MemGet(Head(Keys(t)), arg[t].tranc)), snap' = snap,
         pc' = [pc EXCEPT ![t] = "get_cur"], UNCHANGED <<current, frozen>>
  PROVE  ReadInv'
  <1> DEFINE ks == Keys(t)
             a  == MemGet(Head(ks), arg[t].tranc)
             n  == Len(res[t])
  <1>1. /\ arg[t].tranc \in Tranc /\ ks \in Seq(Key) /\ pc'[t] = "get_cur"
        /\ res'[t] = Append(res[t], a) /\ Keys(t)' = Tail(ks)
        /\ arg'[t].tranc = arg[t].tranc /\ snap'[t] = snap[t]
        /\ \A u \in Thread : u # t => pc'[u] = pc[u] /\ arg'[u] = arg[u] /\ res'[u] = res[u]
    BY DEF ReadTyped, Answer, Keys
  <1>2. /\ Head(ks) \in Key /\ Head(ks) = ks[1] /\ Tail(ks) \in Seq(Key)
        /\ Len(ks) \in Nat \ {0} /\ Len(Tail(ks)) = Len(ks) - 1
        /\ \A i \in 1 .. Len(ks) - 1 : Tail(ks)[i] = ks[i + 1]
    BY <1>1, HeadTailProperties, EmptySeq, LenProperties
  <1>3. a \in Answers
    BY <1>1, <1>2 DEF Answers
  <1>4. /\ res[t] \in Seq(Answers)
        /\ Len(snap[t]) = n + Len(ks)
        /\ \A i \in 1 .. n : res[t][i] = snap[t][i]
        /\ \A i \in 1 .. Len(ks) : snap[t][n + i] = MemGet(ks[i], arg[t].tranc)
    BY DEF ReadInv, ReadOf
  <1>5. n \in Nat
    BY <1>4, LenProperties
  <1> DEFINE new == Append(res[t], a)
  <1>6. /\ new \in Seq(Answers) /\ Len(new) = n + 1
        /\ \A i \in 1 .. n : new[i] = res[t][i]
        /\ new[n + 1] = a
    BY <1>3, <1>4, AppendProperties
  <1>7. snap[t][n + 1] = a
    BY <1>2, <1>4
  <1>8. Answers' = Answers
    BY DEF Answers, MemGet
  <1> HIDE DEF new, n, a
  <1>9. /\ Len(snap[t]) = Len(new) + Len(Tail(ks))
        /\ \A i \in 1 .. Len(new) : new[i] = snap[t][i]
    <2>1. Len(snap[t]) = n + Len(ks)
      BY <1>4 DEF n
    <2>2. Len(snap[t]) = Len(new) + Len(Tail(ks))
      BY <2>1, <1>2, <1>5, <1>6
    <2>3. ASSUME NEW i \in 1 .. Len(new) PROVE new[i] = snap[t][i]
      <3>1. CASE i = n + 1
        BY <3>1, <1>6, <1>7
      <3>2. CASE i # n + 1
        <4>1. i \in 1 .. n
          BY <3>2, <1>5, <1>6
        <4> QED
          BY <4>1, <1>4, <1>6
      <3> QED
        BY <3>1, <3>2
    <2> QED
      BY <2>2, <2>3
  <1>10. ASSUME NEW i \in 1 .. Len(Tail(ks))
         PROVE  snap[t][Len(new) + i] = MemGet(Tail(ks)[i], arg[t].tranc)
    <2>1. i + 1 \in 1 .. Len(ks) /\ Tail(ks)[i] = ks[i + 1] /\ Len(new) + i = n + (i + 1)
      BY <1>2, <1>5, <1>6
    <2> QED
      BY <2>1, <1>4 DEF n
  <1>11. ReadOf(t)'
    <2>1. res'[t] = new
      BY <1>1 DEF new, a
    <2>2. ASSUME NEW i \in 1 .. Len(Tail(ks))
          PROVE  snap'[t][Len(new) + i] = MemGet(Keys(t)[i], arg[t].tranc)'
      BY <1>1, <1>10 DEF MemGet
    <2>3. Len(snap'[t]) = Len(new) + Len(Tail(ks))
      BY <1>1, <1>9
    <2>4. \A i \in 1 .. Len(new) : new[i] = snap'[t][i]
      BY <1>1, <1>9
    <2> HIDE DEF ks
    <2> QED
      BY <1>1, <1>6, <1>8, <2>1, <2>2, <2>3, <2>4 DEF ReadOf, At
  <1>12. ASSUME NEW u \in Thread, u # t PROVE ReadOf(u)'
    BY <1>1, <1>12, ReadKept
  <1> QED
    BY <1>11, <1>12 DEF ReadInv

LEMMA ReadStep == Inv /\ ReadTyped /\ ReadInv /\ [Next]_vars => ReadInv'
  <1> SUFFICES ASSUME Inv, ReadTyped, ReadInv, [Next]_vars PROVE ReadInv'
    OBVIOUS
  <1>1. /\ pc \in [Thread -> Label] /\ \A t \in Thread : ret[t] = "idle"
        /\ arg \in [Thread -> [kvs : Seq(Key \X Val), keys : Seq(Key), tranc : Tranc]]
        /\ DOMAIN res = Thread /\ DOMAIN snap = Thread
        /\ LockInv /\ StageInv
    BY DEF Inv, ReadTyped
  <1>2. ASSUME UNCHANGED <<current, frozen, arg, res, snap>>,
               \E t \in Thread, l \in Label \ {"get_frozen", "get_cur", "get_lock_frozen"} :
                  /\ l = "get_lock_cur" => At(t, "get_lock_frozen")
                  /\ pc' = [pc EXCEPT ![t] = l]
        PROVE  ReadInv'
    <2>1. PICK t \in Thread, l \in Label \ {"get_frozen", "get_cur", "get_lock_frozen"} :
                  /\ l = "get_lock_cur" => At(t, "get_lock_frozen")
                  /\ pc' = [pc EXCEPT ![t] = l]
      BY <1>2
    <2>2. ReadOf(t)'
      BY <1>1, <1>2, <2>1, NotReading DEF At
    <2>3. ASSUME NEW u \in Thread, u # t PROVE ReadOf(u)'
      BY <1>1, <1>2, <2>1, <2>3, ReadKept
    <2> QED
      BY <2>2, <2>3 DEF ReadInv
  <1>3. ASSUME \A t \in Thread : ~HoldsCurShared(t), UNCHANGED <<arg, res, snap>>,
               \E t \in Thread, l \in {"idle", "put_apply", "flush_build"} :
                  pc' = pc \/ pc' = [pc EXCEPT ![t] = l]
        PROVE  ReadInv'
    <2>1. ASSUME NEW u \in Thread PROVE ReadOf(u)'
      BY <1>1, <1>3, <2>1, NotReading
    <2> QED
      BY <2>1 DEF ReadInv
  <1>4. ASSUME NEW t \in Thread,
               \/ PutLock(t) \/ PutUnlock(t) \/ GetLockFrozen(t) \/ GetUnlock(t)
               \/ SizeCur(t) \/ SizeFrozen(t) \/ FlushNothing(t)
        PROVE  ReadInv'
    <2>1. PICK l \in Label \ {"get_frozen", "get_cur", "get_lock_frozen"} :
            /\ l = "get_lock_cur" => At(t, "get_lock_frozen")
            /\ pc' = [pc EXCEPT ![t] = l]
      BY <1>1, <1>4 DEF PutLock, PutUnlock, GetLockFrozen, GetUnlock, SizeCur, SizeFrozen,
                  FlushNothing, Goto, Return, Label
    <2>2. UNCHANGED <<current, frozen, arg, res, snap>>
      BY <1>4 DEF PutLock, PutUnlock, GetLockFrozen, GetUnlock, SizeCur, SizeFrozen,
                  FlushNothing, memory, history
    <2> QED
      BY <2>1, <2>2, <1>2
  <1>5. ASSUME NEW t \in Thread, FreezeLock(t) \/ ClearLock(t) \/ FlushLock(t)
        PROVE  ReadInv'
    <2>1. PICK l \in {"freeze_lock_cur", "clear_lock_cur", "flush_lock_cur", "flush_build"} :
            pc' = [pc EXCEPT ![t] = l]
      BY <1>5 DEF FreezeLock, ClearLock, FlushLock, LockFrozen, Goto
    <2>2. UNCHANGED <<current, frozen, arg, res, snap>>
      BY <1>5 DEF FreezeLock, ClearLock, FlushLock, LockFrozen, memory, history
    <2> QED
      BY <2>1, <2>2, <1>2 DEF Label
  <1>6. ASSUME NEW t \in Thread, PutApply(t) PROVE ReadInv'
    <2>1. \A u \in Thread : ~HoldsCurShared(u)
      BY <1>1, <1>6 DEF PutApply, At, LockInv, HoldsCur
    <2>2. pc' = pc /\ res' = res
      BY <1>6 DEF PutApply
    <2> QED
      BY <2>1, <2>2, NotReading DEF ReadInv
  <1>7. ASSUME NEW t \in Thread, Freeze(t) \/ Clear(t) \/ FlushFreeze(t) PROVE ReadInv'
    <2>1. \A u \in Thread : ~HoldsCurShared(u)
      BY <1>1, <1>7 DEF Freeze, Clear, FlushFreeze, CanLock, LockInv
    <2>2. UNCHANGED <<arg, res, snap>>
      BY <1>7 DEF Freeze, Clear, FlushFreeze, history
    <2>3. PICK l \in {"idle", "put_apply", "flush_build"} : pc' = [pc EXCEPT ![t] = l]
      BY <1>1, <1>7 DEF Freeze, Clear, FlushFreeze, Goto, Return
    <2> QED
      BY <2>1, <2>2, <2>3, <1>3
  <1>8. ASSUME NEW t \in Thread, FlushBuild(t) \/ FlushFail(t) PROVE ReadInv'
    <2>1. HoldsFrozen(t)
      BY <1>8 DEF FlushBuild, FlushFail, At, HoldsFrozen
    <2>2. \A u \in Thread : ~HoldsCurShared(u)
      BY <2>1, <1>1 DEF LockInv, HoldsFrozenShared, HoldsCurShared
    <2>3. UNCHANGED <<arg, res, snap>>
      BY <1>8 DEF FlushBuild, FlushFail
    <2>4. PICK l \in {"idle", "put_apply", "flush_build"} : pc' = [pc EXCEPT ![t] = l]
      BY <1>1, <1>8 DEF FlushBuild, FlushFail, Goto, Return
    <2> QED
      BY <2>2, <2>3, <2>4, <1>3
  <1>9. ASSUME NEW t \in Thread, GetLockCur(t) PROVE ReadInv'
    <2> DEFINE ks == Keys(t)
               sn == [i \in 1 .. Len(ks) |-> MemGet(ks[i], arg[t].tranc)]
    <2>1. /\ ks \in Seq(Key) /\ Len(ks) \in Nat /\ res[t] = <<>> /\ pc'[t] = "get_cur"
          /\ snap'[t] = sn /\ UNCHANGED <<current, frozen, arg, res>>
          /\ \A u \in Thread : u # t => pc'[u] = pc[u] /\ snap'[u] = snap[u]
      BY <1>1, <1>9, LenProperties DEF GetLockCur, At, Goto, Keys, ReadInv, ReadOf, memory
    <2>2. /\ Len(sn) = Len(ks)
          /\ \A i \in 1 .. Len(ks) : sn[i] = MemGet(ks[i], arg[t].tranc)
      BY <2>1
    <2>3. ReadOf(t)'
      <3>1. Answers' = Answers
        BY <2>1 DEF Answers, MemGet
      <3>2. <<>> \in Seq(Answers) /\ Len(<<>>) = 0
        BY EmptySeq
      <3>3. Keys(t)' = ks /\ res'[t] = <<>> /\ snap'[t] = sn /\ pc'[t] = "get_cur"
        BY <2>1 DEF Keys
      <3>4. ASSUME NEW i \in 1 .. Len(ks)
            PROVE  snap'[t][i] = MemGet(Keys(t)[i], arg[t].tranc)'
        BY <2>1, <2>2, <3>3 DEF MemGet
      <3> HIDE DEF sn, ks
      <3>5. Len(res'[t]) = 0 /\ res'[t] \in Seq(Answers')
        BY <3>1, <3>2, <3>3
      <3>6. /\ Len(snap'[t]) = Len(res'[t]) + Len(Keys(t)')
            /\ \A i \in 1 .. Len(res'[t]) : res'[t][i] = snap'[t][i]
        BY <2>1, <2>2, <3>3, <3>5
      <3>7. ASSUME NEW i \in 1 .. Len(Keys(t)')
            PROVE  snap'[t][Len(res'[t]) + i] = MemGet(Keys(t)[i], arg[t].tranc)'
        <4>1. i \in 1 .. Len(ks) /\ Len(res'[t]) + i = i
          BY <2>1, <3>3, <3>5
        <4> QED
          BY <4>1, <3>4
      <3> QED
        BY <3>3, <3>5, <3>6, <3>7 DEF ReadOf, At
    <2>4. ASSUME NEW u \in Thread, u # t PROVE ReadOf(u)'
      BY <2>1, <2>4, ReadKept
    <2> QED
      BY <2>3, <2>4 DEF ReadInv
  <1>10. ASSUME NEW t \in Thread, GetCur(t) PROVE ReadInv'
    <2>1. HoldsCurShared(t) /\ Keys(t) # <<>> /\ snap' = snap /\ UNCHANGED <<current, frozen>>
      BY <1>10 DEF GetCur, At, HoldsCurShared, Keys, history, memory
    <2> DEFINE r == TableGet(current, Head(Keys(t)), arg[t].tranc)
    <2>2. CASE r # None /\ Answer(t, r) /\ UNCHANGED pc
      <3>1. r = MemGet(Head(Keys(t)), arg[t].tranc)
        BY <2>2 DEF MemGet
      <3>2. pc' = [pc EXCEPT ![t] = "get_cur"]
        BY <1>1, <1>10, <2>2 DEF GetCur, At
      <3> QED
        BY <2>1, <2>2, <3>1, <3>2, AnswerRead
    <2>3. CASE r = None /\ Goto(t, "get_frozen") /\ UNCHANGED <<arg, res>>
      <3>1. pc[t] = "get_cur" /\ pc' = [pc EXCEPT ![t] = "get_frozen"]
        BY <1>10, <2>3 DEF GetCur, At, Goto
      <3> QED
        <4>1. ReadOf(t)'
          <5>1. Answers' = Answers
            BY <2>1 DEF Answers, MemGet
          <5>2. /\ arg' = arg /\ res' = res /\ snap' = snap /\ current' = current
                /\ frozen' = frozen /\ pc'[t] = "get_frozen"
            BY <1>1, <2>1, <2>3, <3>1
          <5>3. ReadOf(t)
            BY DEF ReadInv
          <5> QED
            BY <2>1, <2>3, <3>1, <5>1, <5>2, <5>3 DEF ReadOf, HoldsCurShared, At, Keys, MemGet
        <4>2. ASSUME NEW u \in Thread, u # t PROVE ReadOf(u)'
          BY <1>1, <2>1, <2>3, <3>1, <4>2, ReadKept
        <4> QED
          BY <4>1, <4>2 DEF ReadInv
    <2> QED
      BY <1>10, <2>2, <2>3 DEF GetCur, Keys
  <1>11. ASSUME NEW t \in Thread, GetFrozen(t) PROVE ReadInv'
    <2>1. HoldsCurShared(t) /\ Keys(t) # <<>> /\ snap' = snap /\ UNCHANGED <<current, frozen>>
      BY <1>1, <1>11 DEF GetFrozen, At, HoldsCurShared, StageInv, Keys, history, memory
    <2>2. FrozenGet(frozen, Head(Keys(t)), arg[t].tranc) = MemGet(Head(Keys(t)), arg[t].tranc)
      BY <1>11 DEF GetFrozen, ReadInv, ReadOf, MemGet, Keys
    <2>3. pc' = [pc EXCEPT ![t] = "get_cur"]
      BY <1>11 DEF GetFrozen, Goto
    <2>4. Answer(t, FrozenGet(frozen, Head(Keys(t)), arg[t].tranc))
      BY <1>11 DEF GetFrozen, Keys
    <2> QED
      BY <2>1, <2>2, <2>3, <2>4, AnswerRead
  <1>12. ASSUME NEW t \in Thread, CallAny(t) PROVE ReadInv'
    <2>1. PICK l \in {"put_lock", "get_lock_frozen", "freeze_lock_frozen",
                      "flush_lock_frozen", "clear_lock_frozen", "size_cur"} :
            \E a : Call(t, l, a)
      BY <1>12 DEF CallAny, CallWrite, CallGet, CallFreeze, CallFlush, CallClear, CallSize
    <2>2. /\ pc'[t] = l /\ res'[t] = <<>> /\ UNCHANGED <<current, frozen, snap>>
          /\ \A u \in Thread : u # t => pc'[u] = pc[u] /\ arg'[u] = arg[u] /\ res'[u] = res[u]
      BY <1>1, <2>1 DEF Call, Enter, memory, history
    <2>3. ReadOf(t)'
      BY <2>2 DEF ReadOf, HoldsCurShared, At
    <2>4. ASSUME NEW u \in Thread, u # t PROVE ReadOf(u)'
      BY <2>2, <2>4, ReadKept
    <2> QED
      BY <2>3, <2>4 DEF ReadInv
  <1>13. CASE UNCHANGED vars
    BY <1>13, ReadKept DEF vars, memory, history, ReadInv
  <1> QED
    BY <1>4, <1>5, <1>6, <1>7, <1>8, <1>9, <1>10, <1>11, <1>12, <1>13
       DEF Next, Step, Done

LEMMA ReadTypes == Inv /\ ReadTyped /\ [Next]_vars => ReadTyped'
  <1> SUFFICES ASSUME Inv, ReadTyped, [Next]_vars PROVE ReadTyped'
    OBVIOUS
  <1>1. TypeOK'
    BY TypeStep
  <1>2. DOMAIN res' = Thread /\ DOMAIN snap' = Thread
    <2>1. DOMAIN res = Thread /\ DOMAIN snap = Thread
      BY DEF ReadTyped
    <2>2. ASSUME NEW t \in Thread, Step(t) PROVE DOMAIN res' = Thread /\ DOMAIN snap' = Thread
      BY <2>1, <2>2 DEF Step, PutLock, PutApply, PutUnlock, GetLockFrozen, GetLockCur,
         GetCur, GetFrozen, Answer, GetUnlock, SizeCur, SizeFrozen, FreezeLock, ClearLock,
         FlushLock, LockFrozen, Freeze, Clear, FlushNothing, FlushFreeze, FlushBuild,
         FlushFail, history
    <2>3. ASSUME NEW t \in Thread, CallAny(t)
          PROVE  DOMAIN res' = Thread /\ DOMAIN snap' = Thread
      BY <2>1, <2>3 DEF CallAny, CallWrite, CallGet, CallFreeze, CallFlush, CallClear,
         CallSize, Call, Enter, history
    <2>4. CASE UNCHANGED vars
      BY <2>1, <2>4 DEF vars, history
    <2> QED
      BY <2>2, <2>3, <2>4 DEF Next, Done
  <1> QED
    BY <1>1, <1>2 DEF ReadTyped, TypeOK

\* A get or get_batch (memtable.cpp) answers each of its keys as memory had it
\* when the call had both locks, whatever the other threads do meanwhile.
THEOREM ReadsSnapshot == Spec => []ReadsAreSnapshots
  <1>1. Init => ReadTyped /\ ReadInv
    <2> SUFFICES ASSUME Init PROVE ReadTyped /\ ReadInv
      OBVIOUS
    <2>1. TypeOK
      BY InitInv DEF Inv
    <2> QED
      BY <2>1 DEF Init, ReadTyped, TypeOK, ReadInv, ReadOf, HoldsCurShared, At
  <1>2. ReadInv => ReadsAreSnapshots
    BY DEF ReadInv, ReadOf, ReadsAreSnapshots, Keys
  <1>3. Inv /\ (ReadTyped /\ ReadInv) /\ [Next]_vars => (ReadTyped /\ ReadInv)'
    BY ReadStep, ReadTypes
  <1> QED
    BY <1>1, <1>2, <1>3, Invariance, PTL DEF Spec
-----------------------------------------------------------------------------
(* The byte counts. A sum over a list is the last of its partial sums; the  *)
(* size of a table is a sum over a set of versions, one that a put of a     *)
(* version updates where the version is in the set.                         *)

\* f adds up the sizes of the tables fs.
Sums(f, fs) ==
  /\ f \in [0 .. Len(fs) -> Int] /\ f[0] = 0
  /\ \A i \in 1 .. Len(fs) : f[i] = f[i - 1] + fs[i].bytes

LEMMA SumBytesIs ==
  ASSUME NEW fs \in Seq(Table), NEW f, Sums(f, fs)
  PROVE  SumBytes(fs) = f[Len(fs)]
  <1> DEFINE Recur(h) == h = [i \in 0 .. Len(fs) |->
                                IF i = 0 THEN 0 ELSE h[i - 1] + fs[i].bytes]
             g == CHOOSE h : Recur(h)
             T == {i \in 0 .. Len(fs) : f[i] # g[i]}
  <1>1. Len(fs) \in Nat
    BY LenProperties
  <1>2. Recur(f)
    <2>1. f = [i \in 0 .. Len(fs) |-> f[i]]
      BY DEF Sums
    <2>2. \A i \in 0 .. Len(fs) : f[i] = IF i = 0 THEN 0 ELSE f[i - 1] + fs[i].bytes
      BY <1>1 DEF Sums
    <2> QED
      BY <2>1, <2>2
  <1>3. Recur(g)
    <2> HIDE DEF Recur
    <2> QED
      BY <1>2
  <1>4. SumBytes(fs) = g[Len(fs)]
    BY DEF SumBytes
  <1> HIDE DEF g
  <1>5. \A i \in 0 .. Len(fs) : g[i] = IF i = 0 THEN 0 ELSE g[i - 1] + fs[i].bytes
    BY ONLY <1>3, Zenon
  <1>6. ASSUME T # {} PROVE FALSE
    <2>1. T \in SUBSET Nat
      BY <1>1
    <2>2. PICK i \in T : \A m \in T : i <= m
      <3> HIDE DEF T
      <3> QED
        BY <1>6, <2>1, NatMin
    <2>3. i \in 1 .. Len(fs)
      BY <2>2, <1>1, <1>5 DEF Sums
    <2>4. i - 1 \in 0 .. Len(fs) /\ i - 1 \notin T
      BY <1>1, <2>2, <2>3
    <2> QED
      BY <1>5, <2>2, <2>3, <2>4 DEF Sums
  <1> QED
    BY <1>1, <1>4, <1>6

\* freezing a table adds its size in front.
LEMMA SumPush ==
  ASSUME NEW fs \in Seq(Table), NEW tab \in Table, NEW f, Sums(f, fs)
  PROVE  \E g : Sums(g, <<tab>> \o fs)
                /\ g[Len(<<tab>> \o fs)] = f[Len(fs)] + tab.bytes
  <1> DEFINE new == <<tab>> \o fs
             g   == [i \in 0 .. Len(fs) + 1 |-> IF i = 0 THEN 0 ELSE tab.bytes + f[i - 1]]
  <1>1. /\ Len(fs) \in Nat /\ Len(new) = Len(fs) + 1 /\ new[1] = tab
        /\ \A i \in 2 .. Len(fs) + 1 : new[i] = fs[i - 1]
    BY PushFront, LenProperties
  <1> HIDE DEF new
  <1>2. tab.bytes \in Int /\ \A i \in 0 .. Len(fs) : f[i] \in Int
    BY DEF Table, Sums
  <1>3. g \in [0 .. Len(new) -> Int] /\ g[0] = 0
    BY <1>1, <1>2
  <1>4. ASSUME NEW i \in 1 .. Len(new) PROVE g[i] = g[i - 1] + new[i].bytes
    <2>1. CASE i = 1
      BY <1>1, <1>2, <2>1 DEF Sums
    <2>2. CASE i # 1
      <3>1. i - 1 \in 1 .. Len(fs) /\ i - 2 \in 0 .. Len(fs) /\ i \in 2 .. Len(fs) + 1
        BY <1>1, <2>2
      <3>2. f[i - 1] = f[i - 2] + fs[i - 1].bytes /\ f[i - 2] \in Int
        BY <1>2, <3>1 DEF Sums
      <3>3. g[i] = tab.bytes + f[i - 1] /\ g[i - 1] = tab.bytes + f[i - 2]
        BY <1>1, <3>1
      <3>4. fs[i - 1].bytes \in Int
        <4>1. fs[i - 1] \in Table
          BY <3>1, ElementOfSeq
        <4> QED
          BY <4>1 DEF Table
      <3> QED
        BY <1>1, <1>2, <3>1, <3>2, <3>3, <3>4
    <2> QED
      BY <2>1, <2>2
  <1>5. Sums(g, new)
    BY <1>3, <1>4 DEF Sums
  <1>6. g[Len(new)] = f[Len(fs)] + tab.bytes
    BY <1>1, <1>2
  <1> HIDE DEF g
  <1> QED
    BY <1>5, <1>6 DEF new

\* Popping the oldest table takes its size off.
LEMMA SumPop ==
  ASSUME NEW fs \in Seq(Table), fs # <<>>, NEW f, Sums(f, fs)
  PROVE  \E g : /\ Sums(g, SubSeq(fs, 1, Len(fs) - 1))
                /\ g[Len(SubSeq(fs, 1, Len(fs) - 1))] = f[Len(fs)] - fs[Len(fs)].bytes
  <1> DEFINE new == SubSeq(fs, 1, Len(fs) - 1)
             g   == [i \in 0 .. Len(fs) - 1 |-> f[i]]
  <1>1. /\ Len(fs) \in Nat \ {0} /\ Len(new) = Len(fs) - 1 
        /\ \A i \in 1 .. Len(fs) - 1 : new[i] = fs[i]
    BY PopBack, LenProperties, EmptySeq DEF Front
  <1> HIDE DEF new
  <1>2. Sums(g, new)
    <2> DEFINE n == Len(fs) - 1
    <2>1. n \in Nat /\ Len(new) = n /\ 0 .. n \subseteq 0 .. Len(fs) /\ 0 \in 0 .. n
      BY <1>1
    <2>2. g = [i \in 0 .. n |-> f[i]]
      OBVIOUS
    <2> HIDE DEF n, g
    <2>3. g \in [0 .. n -> Int] /\ g[0] = 0
      BY <2>1, <2>2 DEF Sums
    <2>4. ASSUME NEW i \in 1 .. n
          PROVE  g[i] = g[i - 1] + new[i].bytes
      <3>1. i \in 0 .. n /\ i - 1 \in 0 .. n /\ i \in 1 .. Len(fs) /\ i \in 1 .. Len(fs) - 1
        BY <2>1 DEF n
      <3>2. g[i] = f[i] /\ g[i - 1] = f[i - 1]
        BY <2>2, <3>1
      <3>3. f[i] = f[i - 1] + fs[i].bytes
        BY <3>1 DEF Sums
      <3> QED
        BY <1>1, <3>1, <3>2, <3>3
    <2> QED
      BY <2>1, <2>3, <2>4 DEF Sums
  <1>3. g[Len(new)] = f[Len(fs)] - fs[Len(fs)].bytes
    <2>1. f[Len(fs)] = f[Len(fs) - 1] + fs[Len(fs)].bytes /\ f[Len(fs) - 1] \in Int
      BY <1>1 DEF Sums
    <2>2. fs[Len(fs)].bytes \in Int
      <3>1. fs[Len(fs)] \in Table
        BY <1>1, ElementOfSeq
      <3> QED
        BY <3>1 DEF Table
    <2> QED
      BY <1>1, <2>1, <2>2
  <1> HIDE DEF g
  <1> QED
    BY <1>2, <1>3 DEF new
\* What a version adds to the size of a table.
Weight(tab, v) == IF tab.kv[v] = None THEN 0 ELSE NodeBytes + Bytes(tab.kv[v])

\* g adds up the weights over every set of versions.
Weighs(g, tab) ==
  /\ g \in [SUBSET Version -> Nat]
  /\ \A U \in SUBSET Version : \A v \in U : g[U] = Weight(tab, v) + g[U \ {v}]

\* The size of a table is the sum of its weights.
Measured(tab) ==
  /\ tab.kv = EmptyTable.kv => tab.bytes = 0
  /\ \E g : Weighs(g, tab) /\ g[Version] = tab.bytes

LEMMA EmptyMeasured == Measured(EmptyTable)
  <1> DEFINE g == [U \in SUBSET Version |-> 0]
  <1>1. Weighs(g, EmptyTable) /\ g[Version] = 0
    BY DEF Weighs, Weight, EmptyTable
  <1> HIDE DEF g
  <1> QED
    BY <1>1 DEF Measured, EmptyTable

LEMMA WeightType ==
  ASSUME NEW tab \in Table, NEW v \in Version
  PROVE  /\ Weight(tab, v) \in Nat /\ (tab.kv[v] # None => Weight(tab, v) > 0)
         /\ (tab.kv[v] = None => Weight(tab, v) = 0)
  <1>1. tab.kv[v] \in Val \cup {None}
    BY DEF Table
  <1>2. \A x \in Val : Bytes(x) \in Nat
    BY MemtableAssumption DEF Bytes, Val
  <1> QED
    BY <1>1, <1>2, MemtableAssumption DEF Weight

LEMMA PutMeasured ==
  ASSUME NEW tab \in Table, Measured(tab), NEW v \in Version, NEW val \in Val
  PROVE  Measured(TablePut(tab, v, val))
  <1> DEFINE new == TablePut(tab, v, val)
  <1>1. new \in Table
    BY TablePutType
  <1>2. /\ new.kv[v] = val /\ val # None
        /\ \A u \in Version \ {v} : new.kv[u] = tab.kv[u]
        /\ new.bytes = tab.bytes + (IF tab.kv[v] = None THEN NodeBytes + Bytes(val)
                                    ELSE Bytes(val) - Bytes(tab.kv[v]))
    BY MemtableAssumption DEF TablePut, Table
  <1>3. Bytes(val) \in Nat /\ NodeBytes \in Nat
    BY MemtableAssumption DEF Bytes, Val
  <1>4. tab.kv[v] # None => Bytes(tab.kv[v]) \in Nat
    BY MemtableAssumption DEF Bytes, Val, Table
  <1>5. tab.bytes \in Int
    BY DEF Table
  <1> HIDE DEF new
  <1>6. /\ Weight(new, v) = NodeBytes + Bytes(val)
        /\ new.bytes = tab.bytes - Weight(tab, v) + Weight(new, v)
        /\ Weight(new, v) \in Nat
    BY <1>2, <1>3, <1>4, <1>5 DEF Weight
  <1>7. \A u \in Version \ {v} : Weight(new, u) = Weight(tab, u)
    BY <1>2 DEF Weight
  <1>8. PICK g : Weighs(g, tab) /\ g[Version] = tab.bytes
    BY DEF Measured
  <1> DEFINE h == [U \in SUBSET Version |->
                     IF v \in U THEN Weight(new, v) + g[U \ {v}] ELSE g[U]]
  <1>9. h \in [SUBSET Version -> Nat]
    BY <1>6, <1>8 DEF Weighs
  <1>10. ASSUME NEW U \in SUBSET Version, NEW u \in U
         PROVE  h[U] = Weight(new, u) + h[U \ {u}]
    <2>1. U \ {u} \in SUBSET Version /\ U \ {v} \in SUBSET Version
      OBVIOUS
    <2>2. CASE u = v
      BY <2>1, <2>2
    <2>3. CASE u # v /\ v \notin U
      BY <2>1, <2>3, <1>7, <1>8 DEF Weighs
    <2>4. CASE u # v /\ v \in U
      <3>1. g[(U \ {v}) \ {u}] = g[(U \ {u}) \ {v}]
        <4>1. (U \ {v}) \ {u} = (U \ {u}) \ {v}
          OBVIOUS
        <4> QED
          BY <4>1, Zenon
      <3>2. g[U \ {v}] = Weight(tab, u) + g[(U \ {v}) \ {u}]
        BY <2>1, <2>4, <1>8 DEF Weighs
      <3>3. h[U] = Weight(new, v) + g[U \ {v}]
        BY <2>4
      <3>4. h[U \ {u}] = Weight(new, v) + g[(U \ {u}) \ {v}]
        BY <2>1, <2>4
      <3>5. Weight(tab, u) = Weight(new, u) /\ Weight(tab, u) \in Nat
        BY <1>7, <2>4, WeightType
      <3>6. g[(U \ {u}) \ {v}] \in Nat
        BY <1>8 DEF Weighs
      <3> HIDE DEF h
      <3> QED
        BY <3>1, <3>2, <3>3, <3>4, <3>5, <3>6, <1>6
    <2> QED
      BY <2>2, <2>3, <2>4
  <1>11. h[Version] = new.bytes
    <2>1. h[Version] = Weight(new, v) + g[Version \ {v}]
      OBVIOUS
    <2>2. g[Version] = Weight(tab, v) + g[Version \ {v}] /\ g[Version \ {v}] \in Nat
      BY <1>8 DEF Weighs
    <2>3. Weight(tab, v) \in Nat
      BY WeightType
    <2> QED
      BY <2>1, <2>2, <2>3, <1>6, <1>8
  <1>12. new.kv # EmptyTable.kv
    BY <1>2 DEF EmptyTable
  <1> HIDE DEF h
  <1> QED
    BY <1>9, <1>10, <1>11, <1>12 DEF Measured, Weighs, new

LEMMA MeasuredExact ==
  ASSUME NEW tab \in Table, Measured(tab)
  PROVE  /\ tab.bytes >= 0
         /\ tab.bytes = 0 <=> tab.kv = EmptyTable.kv
  <1>1. PICK g : Weighs(g, tab) /\ g[Version] = tab.bytes
    BY DEF Measured
  <1>2. g[Version] \in Nat /\ \A v \in Version : g[Version] >= Weight(tab, v)
    <2>1. ASSUME NEW v \in Version PROVE g[Version] >= Weight(tab, v)
      <3>1. g[Version] = Weight(tab, v) + g[Version \ {v}] /\ g[Version \ {v}] \in Nat
        BY <1>1 DEF Weighs
      <3>2. Weight(tab, v) \in Nat
        BY WeightType
      <3> QED
        BY <3>1, <3>2
    <2>2. g[Version] \in Nat
      BY <1>1 DEF Weighs
    <2> QED
      BY <2>1, <2>2
  <1>3. ASSUME tab.bytes = 0 PROVE tab.kv = EmptyTable.kv
    <2>1. \A v \in Version : tab.kv[v] = None
      BY <1>1, <1>2, <1>3, WeightType
    <2> QED
      BY <2>1 DEF EmptyTable, Table
  <1> QED
    BY <1>1, <1>2, <1>3 DEF Measured

Summed(fs, n) == \E f : Sums(f, fs) /\ f[Len(fs)] = n

AllMeasured(fs) == \A i \in 1 .. Len(fs) : Measured(fs[i])

BytesInv == Summed(frozen, frozen_bytes) /\ Measured(current) /\ AllMeasured(frozen)

LEMMA NothingSummed == Summed(<<>>, 0) /\ AllMeasured(<<>>)
  <1> DEFINE f == [i \in 0 .. 0 |-> 0]
  <1>1. Sums(f, <<>>) /\ f[Len(<<>>)] = 0
    BY DEF Sums
  <1> HIDE DEF f
  <1> QED
    BY <1>1 DEF Summed, AllMeasured

LEMMA PushSummed ==
  ASSUME NEW fs \in Seq(Table), NEW tab \in Table, NEW n, Summed(fs, n),
         AllMeasured(fs), Measured(tab)
  PROVE  Summed(<<tab>> \o fs, n + tab.bytes) /\ AllMeasured(<<tab>> \o fs)
  <1>1. Summed(<<tab>> \o fs, n + tab.bytes)
    BY SumPush DEF Summed
  <1> DEFINE new == <<tab>> \o fs
  <1>2. /\ Len(fs) \in Nat /\ Len(new) = Len(fs) + 1 /\ new[1] = tab
        /\ \A i \in 2 .. Len(fs) + 1 : new[i] = fs[i - 1]
    BY PushFront, LenProperties
  <1> HIDE DEF new
  <1>3. ASSUME NEW i \in 1 .. Len(new) PROVE Measured(new[i])
    <2>1. CASE i = 1
      BY <1>2, <2>1
    <2>2. CASE i # 1
      <3>1. i \in 2 .. Len(fs) + 1 /\ i - 1 \in 1 .. Len(fs)
        BY <1>2, <2>2
      <3> QED
        BY <3>1, <1>2 DEF AllMeasured
    <2> QED
      BY <2>1, <2>2
  <1> QED
    BY <1>1, <1>3 DEF AllMeasured, new

LEMMA PopSummed ==
  ASSUME NEW fs \in Seq(Table), fs # <<>>, NEW n, Summed(fs, n), AllMeasured(fs)
  PROVE  /\ Summed(SubSeq(fs, 1, Len(fs) - 1), n - fs[Len(fs)].bytes)
         /\ AllMeasured(SubSeq(fs, 1, Len(fs) - 1))
  <1>1. Summed(SubSeq(fs, 1, Len(fs) - 1), n - fs[Len(fs)].bytes)
    BY SumPop DEF Summed
  <1> DEFINE new == SubSeq(fs, 1, Len(fs) - 1)
  <1>2. /\ Len(fs) \in Nat \ {0} /\ Len(new) = Len(fs) - 1
        /\ \A i \in 1 .. Len(fs) - 1 : new[i] = fs[i]
    BY PopBack, LenProperties, EmptySeq DEF Front
  <1> HIDE DEF new
  <1>3. AllMeasured(new)
    BY <1>2 DEF AllMeasured
  <1> QED
    BY <1>1, <1>3 DEF new

\* What a step of a thread does to the byte counts, whoever the callers are.
LEMMA BytesKept ==
  ASSUME current \in Table, frozen \in Seq(Table),
         arg \in [Thread -> [kvs : Seq(Key \X Val), keys : Seq(Key), tranc : Tranc]],
         BytesInv, NEW t \in Thread, Step(t), At(t, "flush_build") => frozen # <<>>
  PROVE  BytesInv'
  <1>0. Summed(frozen, frozen_bytes) /\ Measured(current) /\ AllMeasured(frozen)
    BY DEF BytesInv
  <1>1. ASSUME UNCHANGED memory PROVE BytesInv'
    BY <1>0, <1>1 DEF BytesInv, memory
  <1>2. ASSUME PutApply(t) PROVE BytesInv'
    <2> DEFINE kv == Head(arg[t].kvs)
               w  == <<kv[1], arg[t].tranc>>
    <2>1. kv \in Key \X Val
      BY <1>2, ArgType DEF PutApply
    <2>2. w \in Version /\ kv[2] \in Val
      BY <2>1 DEF Version
    <2>3. /\ current' = TablePut(current, w, kv[2])
          /\ frozen' = frozen /\ frozen_bytes' = frozen_bytes
      BY <1>2 DEF PutApply
    <2>4. Measured(TablePut(current, w, kv[2]))
      BY <1>0, <2>2, PutMeasured
    <2> HIDE DEF w, kv
    <2> QED
      BY <1>0, <2>3, <2>4 DEF BytesInv
  <1>3. ASSUME FreezeCurrent PROVE BytesInv'
    <2>1. Summed(frozen', frozen_bytes') /\ AllMeasured(frozen')
      BY <1>0, <1>3, PushSummed DEF FreezeCurrent
    <2>2. Measured(current')
      BY <1>3, EmptyMeasured DEF FreezeCurrent
    <2> QED
      BY <2>1, <2>2 DEF BytesInv
  <1>4. ASSUME Clear(t) PROVE BytesInv'
    <2>1. current' = EmptyTable /\ frozen' = <<>> /\ frozen_bytes' = 0
      BY <1>4 DEF Clear
    <2> QED
      BY <2>1, EmptyMeasured, NothingSummed DEF BytesInv
  <1>5. ASSUME FlushBuild(t) \/ FlushFail(t) PROVE BytesInv'
    <2>1. frozen # <<>>
      BY <1>5 DEF FlushBuild, FlushFail
    <2>2. /\ current' = current /\ frozen' = SubSeq(frozen, 1, Len(frozen) - 1)
          /\ frozen_bytes' = frozen_bytes - frozen[Len(frozen)].bytes
      BY <1>5 DEF FlushBuild, FlushFail, PopOldest, Oldest
    <2>3. Summed(frozen', frozen_bytes') /\ AllMeasured(frozen')
      BY <1>0, <2>1, <2>2, PopSummed
    <2> QED
      BY <1>0, <2>2, <2>3 DEF BytesInv
  <1>6. ASSUME \/ PutLock(t) \/ PutUnlock(t) \/ GetLockFrozen(t) \/ GetLockCur(t)
               \/ GetCur(t) \/ GetFrozen(t) \/ GetUnlock(t) \/ SizeCur(t)
               \/ SizeFrozen(t) \/ FlushNothing(t) \/ FreezeLock(t) \/ ClearLock(t)
               \/ FlushLock(t)
        PROVE  UNCHANGED memory
    BY <1>6 DEF PutLock, PutUnlock, GetLockFrozen, GetLockCur, GetCur, GetFrozen,
                GetUnlock, SizeCur, SizeFrozen, FlushNothing, FreezeLock, ClearLock,
                FlushLock, LockFrozen, memory
  <1> QED
    BY <1>1, <1>2, <1>3, <1>4, <1>5, <1>6 DEF Step, Freeze, FlushFreeze

LEMMA BytesStep == Inv /\ BytesInv /\ [Next]_vars => BytesInv'
  <1> SUFFICES ASSUME Inv, BytesInv, [Next]_vars PROVE BytesInv'
    OBVIOUS
  <1>1. ASSUME NEW t \in Thread, Step(t) PROVE BytesInv'
    <2>1. /\ current \in Table /\ frozen \in Seq(Table)
          /\ arg \in [Thread -> [kvs : Seq(Key \X Val), keys : Seq(Key), tranc : Tranc]]
          /\ At(t, "flush_build") => frozen # <<>>
      BY DEF Inv, TypeOK, StageInv
    <2> QED
      BY <1>1, <2>1, BytesKept
  <1>2. ASSUME UNCHANGED memory PROVE BytesInv'
    BY <1>2 DEF BytesInv, memory
  <1>3. ASSUME NEW t \in Thread, CallAny(t) PROVE UNCHANGED memory
    BY <1>3 DEF CallAny, CallWrite, CallGet, CallFreeze, CallFlush, CallClear, CallSize,
                Call, memory
  <1>4. CASE UNCHANGED vars
    BY <1>2, <1>4 DEF vars
  <1> QED
    BY <1>1, <1>2, <1>3, <1>4 DEF Next, Done

LEMMA BytesAgree == Inv /\ BytesInv => BytesExact
  <1> SUFFICES ASSUME Inv, BytesInv PROVE BytesExact
    OBVIOUS
  <1>0. /\ current \in Table /\ frozen \in Seq(Table)
        /\ Summed(frozen, frozen_bytes) /\ Measured(current) /\ AllMeasured(frozen)
    BY DEF Inv, TypeOK, BytesInv
  <1>1. frozen_bytes = SumBytes(frozen)
    BY <1>0, SumBytesIs DEF Summed
  <1>2. ASSUME NEW i \in DOMAIN Layers
        PROVE  /\ Layers[i].bytes >= 0
               /\ Layers[i].bytes = 0 <=> Layers[i].kv = EmptyTable.kv
    <2>1. Layers[i] \in Table /\ Measured(Layers[i])
      <3>1. /\ Len(frozen) \in Nat /\ Len(Layers) = Len(frozen) + 1 /\ Layers[1] = current
            /\ \A j \in 2 .. Len(frozen) + 1 : Layers[j] = frozen[j - 1]
            /\ Layers \in Seq(Table)
        BY <1>0, PushFront, LenProperties DEF Layers
      <3>2. i \in 1 .. Len(frozen) + 1
        BY <3>1, LenProperties
      <3>3. CASE i = 1
        BY <1>0, <3>1, <3>3
      <3>4. CASE i # 1
        <4>1. i \in 2 .. Len(frozen) + 1 /\ i - 1 \in 1 .. Len(frozen)
          BY <3>1, <3>2, <3>4
        <4> QED
          BY <1>0, <3>1, <4>1, ElementOfSeq DEF AllMeasured
      <3> QED
        BY <3>3, <3>4
    <2> QED
      BY <2>1, MeasuredExact
  <1> QED
    BY <1>1, <1>2 DEF BytesExact

\* The byte counts of memory (memtable.cpp, skiplist.cpp) are exact: that of
\* the frozen tables is the sum of theirs, and no table has a size without an
\* entry or an entry without a size, after any puts, overwrites, freezes and
\* flushes.
THEOREM SizesExact == Spec => []BytesExact
  <1>1. Init => BytesInv
    BY EmptyMeasured, NothingSummed DEF Init, BytesInv
  <1> QED
    BY <1>1, BytesStep, BytesAgree, Invariance, PTL DEF Spec

-----------------------------------------------------------------------------
(* The engine.                                                             *)

GetLabel   == {"get_lock_frozen", "get_lock_cur", "get_cur", "get_frozen"}
SizeLabel  == {"size_cur", "size_frozen"}
FlushLabel == {"flush_lock_frozen", "flush_lock_cur", "flush_build"}
IndexLabel == {"index_store", "index_push"}

\* A thread at label l inside a memtable call goes back, at label r, to the
\* engine call that made it; only writers write, flush, clear and destroy.
Fits(t, l, r) ==
  /\ l \in {"put_lock", "put_apply"} => r \in {"batch_size", "limit_cur"}
  /\ l \in GetLabel => r = "get_reply"
  /\ l \in SizeLabel => r \in {"limit_total", "flush_id", "drained"}
  /\ l \in {"clear_lock_frozen", "clear_lock_cur"} => r = "clear_levels"
  /\ l \in FlushLabel => r = "index_store"
  /\ l \notin {"freeze_lock_frozen", "freeze_lock_cur"}
  /\ t \notin Writer => l \in GetLabel \cup {"idle", "get_reply"}

Control ==
  /\ pc \in [Thread -> EngineLabel] /\ ret \in [Thread -> EngineLabel]
  /\ \A t \in Thread : Fits(t, pc[t], ret[t])

\* Thread t moves, and nobody else does.
Moves(t) ==
  \E l, r \in EngineLabel :
    /\ pc' = [pc EXCEPT ![t] = l] /\ ret' = [ret EXCEPT ![t] = r]
    /\ Fits(t, l, r)

-----------------------------------------------------------------------------
(* The walk of a call from label to label, for any number of writers.      *)

LEMMA MoveTo ==
  ASSUME Control, NEW t \in Thread, NEW l \in EngineLabel, Goto(t, l), ret' = ret,
         Fits(t, l, ret[t])
  PROVE  Moves(t)
  <1>1. ret' = [ret EXCEPT ![t] = ret[t]] /\ ret[t] \in EngineLabel
    BY DEF Control
  <1> QED
    BY <1>1 DEF Moves, Goto

LEMMA Stays ==
  ASSUME Control, NEW t \in Thread, pc' = pc, ret' = ret
  PROVE  Moves(t)
  <1>1. pc' = [pc EXCEPT ![t] = pc[t]] /\ pc[t] \in EngineLabel /\ Fits(t, pc[t], ret[t])
    BY DEF Control
  <1> QED
    BY <1>1, MoveTo DEF Goto

LEMMA MemMoves ==
  ASSUME Control, NEW t \in Thread,
         \/ MemStep(t) \/ MemPut(t) \/ MemGetCur(t) \/ MemGetFrozen(t) \/ MemClear(t)
         \/ MemFlushNothing(t) \/ MemFlushFreeze(t) \/ MemFlushBuild(t)
         \/ MemFlushFail(t)
  PROVE  Moves(t)
  <1>1. Fits(t, pc[t], ret[t]) /\ ret[t] \in EngineLabel
    BY DEF Control
  <1>2. ASSUME NEW l \in EngineLabel, NEW k \in Label, At(t, k), Goto(t, l), ret' = ret,
               Fits(t, k, ret[t]) => Fits(t, l, ret[t])
        PROVE  Moves(t)
    BY <1>1, <1>2, MoveTo DEF At
  <1>3. CASE PutLock(t)
    <2>1. Goto(t, "put_apply") /\ ret' = ret /\ At(t, "put_lock")
      BY <1>3 DEF PutLock
    <2> QED
      BY <1>2, <2>1 DEF EngineLabel, Label, Fits, GetLabel, SizeLabel, FlushLabel
  <1>4. CASE GetLockFrozen(t) \/ GetLockCur(t)
    <2>1. PICK l \in {"get_lock_cur", "get_cur"} :
            Goto(t, l) /\ ret' = ret /\ (At(t, "get_lock_frozen") \/ At(t, "get_lock_cur"))
      BY <1>4 DEF GetLockFrozen, GetLockCur
    <2> QED
      BY <1>2, <2>1 DEF EngineLabel, Label, Fits, GetLabel, SizeLabel, FlushLabel
  <1>5. CASE PutUnlock(t) \/ GetUnlock(t) \/ SizeFrozen(t) \/ Clear(t) \/ FlushNothing(t)
             \/ FlushBuild(t)
    <2>1. Goto(t, ret[t]) /\ ret' = ret
      BY <1>5 DEF PutUnlock, GetUnlock, SizeFrozen, Clear, FlushNothing, FlushBuild, Return
    <2>2. pc[t] \in {"put_apply", "get_cur", "size_frozen", "clear_lock_cur",
                     "flush_lock_cur", "flush_build"}
      BY <1>5 DEF PutUnlock, GetUnlock, SizeFrozen, Clear, FlushNothing, FlushBuild, At
    <2>3. Fits(t, ret[t], ret[t])
      BY <1>1, <2>2 DEF Fits, GetLabel, SizeLabel, FlushLabel
    <2> QED
      BY <1>1, <2>1, <2>3, MoveTo
  <1>6. CASE SizeCur(t) \/ ClearLock(t)
    <2>1. PICK k \in {"size_cur", "clear_lock_frozen"} :
            /\ At(t, k) /\ ret' = ret
            /\ Goto(t, IF k = "size_cur" THEN "size_frozen" ELSE "clear_lock_cur")
      BY <1>6 DEF SizeCur, ClearLock, LockFrozen
    <2> QED
      BY <1>2, <2>1 DEF EngineLabel, Label, Fits, GetLabel, SizeLabel, FlushLabel
  <1>7. CASE FlushLock(t) \/ FlushFreeze(t)
    <2>1. PICK k \in {"flush_lock_frozen", "flush_lock_cur"},
               l \in {"flush_lock_cur", "flush_build"} :
            At(t, k) /\ ret' = ret /\ Goto(t, l)
      BY <1>7 DEF FlushLock, FlushFreeze, LockFrozen
    <2> QED
      BY <1>2, <2>1 DEF EngineLabel, Label, Fits, GetLabel, SizeLabel, FlushLabel
  <1>8. CASE PutApply(t)
    BY <1>8, Stays DEF PutApply
  <1>9. CASE GetCur(t)
    <2>1. CASE pc' = pc
      BY <1>9, <2>1, Stays DEF GetCur
    <2>2. CASE Goto(t, "get_frozen")
      <3>1. At(t, "get_cur") /\ ret' = ret
        BY <1>9 DEF GetCur
      <3> QED
        BY <1>2, <2>2, <3>1 DEF EngineLabel, Label, Fits, GetLabel, SizeLabel, FlushLabel
    <2> QED
      BY <1>9, <2>1, <2>2 DEF GetCur
  <1>10. CASE GetFrozen(t)
    <2>1. At(t, "get_frozen") /\ ret' = ret /\ Goto(t, "get_cur")
      BY <1>10 DEF GetFrozen
    <2> QED
      BY <1>2, <2>1 DEF EngineLabel, Label, Fits, GetLabel, SizeLabel, FlushLabel
  <1>11. CASE FlushFail(t)
    <2>1. ret' = ret /\ Goto(t, "idle")
      BY <1>11 DEF FlushFail
    <2> QED
      BY <1>1, <2>1, MoveTo DEF EngineLabel, Label, Fits, GetLabel, SizeLabel, FlushLabel
  <1> QED
    BY <1>3, <1>4, <1>5, <1>6, <1>7, <1>8, <1>9, <1>10, <1>11
       DEF MemStep, MemPut, MemGetCur, MemGetFrozen, MemClear, MemFlushNothing,
           MemFlushFreeze, MemFlushBuild, MemFlushFail

LEMMA OwnMoves ==
  ASSUME Control, NEW t \in Thread,
         \/ LimitCur(t) \/ BatchSize(t) \/ LimitTotal(t)
         \/ FlushSize(t) \/ FlushNone(t) \/ FlushCompact(t) \/ FlushId(t)
         \/ IndexStore(t) \/ IndexPush(t)
         \/ GetHit(t) \/ GetNowhere(t) \/ GetSst(t) \/ Crash(t)
         \/ ClearLevels(t) \/ ClearSsts(t) \/ DestroySize(t) \/ Drained(t)
  PROVE  Moves(t)
  <1>1. Fits(t, pc[t], ret[t]) /\ ret[t] \in EngineLabel
    BY DEF Control
  <1>2. Fits(t, "idle", ret[t]) /\ "idle" \in EngineLabel
    BY DEF Fits, EngineLabel, Label, GetLabel, SizeLabel, FlushLabel
  <1>3. ASSUME Goto(t, "idle"), ret' = ret PROVE Moves(t)
    BY <1>2, <1>3, MoveTo
  <1>4. CASE FlushCompact(t) \/ GetHit(t) \/ GetNowhere(t) \/ GetSst(t) \/ Crash(t)
             \/ ClearSsts(t)
    BY <1>3, <1>4 DEF FlushCompact, GetHit, GetNowhere, GetSst, Reply, Crash, ClearSsts
  <1>5. ASSUME NEW l \in {"flush", "destroy", "index_push", "clear_ssts"}, t \in Writer,
               Goto(t, l), ret' = ret
        PROVE  Moves(t)
    <2>1. Fits(t, l, ret[t]) /\ l \in EngineLabel
      BY <1>5 DEF Fits, EngineLabel, Label, GetLabel, SizeLabel, FlushLabel
    <2> QED
      BY <1>5, <2>1, MoveTo
  <1>6. pc[t] \notin GetLabel \cup {"idle", "get_reply"} => t \in Writer
    BY <1>1 DEF Fits
  <1>7. CASE LimitCur(t) \/ LimitTotal(t) \/ Drained(t)
    <2>1. PICK l \in {"flush", "idle"} : Goto(t, l) /\ ret' = ret
      BY <1>7 DEF LimitCur, LimitTotal, Drained
    <2>2. t \in Writer
      BY <1>6, <1>7 DEF LimitCur, LimitTotal, Drained, At, GetLabel
    <2> QED
      BY <1>3, <1>5, <2>1, <2>2
  <1>8. CASE FlushNone(t) \/ IndexPush(t)
    <2>1. PICK l \in {"destroy", "idle"} : Goto(t, l) /\ ret' = ret
      BY <1>8 DEF FlushNone, IndexPush, Caller
    <2>2. t \in Writer
      BY <1>6, <1>8 DEF FlushNone, IndexPush, At, GetLabel
    <2> QED
      BY <1>3, <1>5, <2>1, <2>2
  <1>9. CASE IndexStore(t) \/ ClearLevels(t)
    <2>1. PICK l \in {"index_push", "clear_ssts"} : Goto(t, l) /\ ret' = ret
      BY <1>9 DEF IndexStore, ClearLevels
    <2>2. t \in Writer
      BY <1>6, <1>9 DEF IndexStore, ClearLevels, At, GetLabel
    <2> QED
      BY <1>3, <1>5, <2>1, <2>2
  <1>10. CASE BatchSize(t) \/ FlushSize(t) \/ DestroySize(t)
    <2>1. PICK r \in {"limit_total", "flush_id", "drained"} :
            pc' = [pc EXCEPT ![t] = "size_cur"] /\ ret' = [ret EXCEPT ![t] = r]
      BY <1>10 DEF BatchSize, FlushSize, DestroySize, TotalSize, Goto
    <2>2. t \in Writer
      BY <1>6, <1>10 DEF BatchSize, FlushSize, DestroySize, TotalSize, At, GetLabel
    <2>3. "size_cur" \in EngineLabel /\ r \in EngineLabel /\ Fits(t, "size_cur", r)
      BY <2>1, <2>2 DEF EngineLabel, Label, Fits, GetLabel, SizeLabel, FlushLabel
    <2> QED
      BY <2>1, <2>3 DEF Moves
  <1>11. CASE FlushId(t)
    <2>1. /\ pc' = [pc EXCEPT ![t] = "flush_lock_frozen"]
          /\ ret' = [ret EXCEPT ![t] = "index_store"]
      BY <1>11 DEF FlushId, TakeId, Goto
    <2>2. t \in Writer
      BY <1>6, <1>11 DEF FlushId, At, GetLabel
    <2>3. /\ "flush_lock_frozen" \in EngineLabel /\ "index_store" \in EngineLabel
          /\ Fits(t, "flush_lock_frozen", "index_store")
      BY <2>2 DEF EngineLabel, Label, Fits, GetLabel, SizeLabel, FlushLabel
    <2> QED
      BY <2>1, <2>3 DEF Moves
  <1> QED
    BY <1>4, <1>7, <1>8, <1>9, <1>10, <1>11

LEMMA CallMoves ==
  ASSUME Control, NEW t \in Thread, EngineCall(t)
  PROVE  Moves(t)
  <1>1. ASSUME NEW l, NEW r, NEW a, CallEngine(t, l, r, a), Fits(t, l, r),
               l \in EngineLabel, r \in EngineLabel
        PROVE  Moves(t)
    BY <1>1 DEF CallEngine, Enter, Moves
  <1>2. CASE CallLookup(t)
    <2>1. PICK a : CallEngine(t, "get_lock_frozen", "get_reply", a)
      BY <1>2 DEF CallLookup
    <2> QED
      BY <1>1, <2>1 DEF Fits, EngineLabel, Label, GetLabel, SizeLabel, FlushLabel
  <1>3. CASE t \in Writer /\ CallPut(t)
    <2>1. PICK b \in Batch, tr \in Tranc : \E r \in Sizer(b) :
            CallEngine(t, "put_lock", r, [NoArg EXCEPT !.kvs = b, !.tranc = tr])
      BY <1>3, Zenon DEF CallPut
    <2>2. PICK r \in Sizer(b) :
            CallEngine(t, "put_lock", r, [NoArg EXCEPT !.kvs = b, !.tranc = tr])
      BY <2>1
    <2>3. r \in {"batch_size", "limit_cur"}
      BY DEF Sizer
    <2> QED
      BY <1>1, <1>3, <2>2, <2>3 DEF Fits, EngineLabel, Label, GetLabel, SizeLabel, FlushLabel
  <1>4. CASE t \in Writer /\ CallErase(t)
    BY <1>1, <1>4 DEF CallErase, Fits, EngineLabel, Label, GetLabel, SizeLabel, FlushLabel
  <1>5. CASE t \in Writer /\ Close(t)
    <2>1. Goto(t, "destroy") /\ ret' = ret
      BY <1>5 DEF Close
    <2>2. Fits(t, "destroy", ret[t]) /\ "destroy" \in EngineLabel
      BY <1>5 DEF Fits, EngineLabel, Label, GetLabel, SizeLabel, FlushLabel
    <2> QED
      BY <2>1, <2>2, MoveTo
  <1>6. CASE Reopen(t)
    BY <1>6, Stays DEF Reopen, vars
  <1> QED
    BY <1>2, <1>3, <1>4, <1>5, <1>6 DEF EngineCall

\* Every step is one of a thread that moves, or nothing happens.
LEMMA Steps ==
  ASSUME Control, [EngineNext]_allvars
  PROVE  \/ UNCHANGED allvars
         \/ \E t \in Thread : Moves(t) /\ (EngineStep(t) \/ EngineCall(t))
  <1>1. ASSUME NEW t \in Thread, EngineStep(t) PROVE Moves(t)
    BY <1>1, MemMoves, OwnMoves DEF EngineStep
  <1> QED
    BY <1>1, CallMoves DEF EngineNext, EngineDone

LEMMA ControlStep == Control /\ [EngineNext]_allvars => Control'
  <1> SUFFICES ASSUME Control, [EngineNext]_allvars PROVE Control'
    OBVIOUS
  <1>1. ASSUME NEW t \in Thread, Moves(t) PROVE Control'
    BY <1>1 DEF Control, Moves, Fits
  <1>2. CASE UNCHANGED allvars
    BY <1>2 DEF allvars, vars, Control, Fits
  <1> QED
    BY <1>1, <1>2, Steps

LEMMA ControlInit == EngineInit => Control
  BY DEF EngineInit, Init, Control, Fits, EngineLabel, Label, GetLabel, SizeLabel, FlushLabel
-----------------------------------------------------------------------------
(* Level 0, for any number of writers.                                     *)

\* The flushes that have looked at level 0 and not yet pushed their SST.
Pushing == {t \in Thread : pc[t] \in FlushLabel \cup IndexLabel}

\* Each of them pushes one SST onto a level that had room when it looked.
Room ==
  /\ level0 \in Seq(Nat) /\ new_id \in [Thread -> Nat]
  /\ Len(level0) + Cardinality(Pushing) <= Ratio + Cardinality(Writer)

LEMMA PushersWrite == 
  ASSUME Control, IsFiniteSet(Writer)
  PROVE  /\ Pushing \subseteq Writer /\ IsFiniteSet(Pushing)
         /\ Cardinality(Pushing) \in Nat /\ Cardinality(Writer) \in Nat
         /\ Cardinality(Pushing) <= Cardinality(Writer)
  <1>1. Pushing \subseteq Writer
    BY DEF Pushing, Control, Fits, FlushLabel, IndexLabel, GetLabel
  <1> QED
    BY <1>1, FS_Subset, FS_CardinalityType

LEMMA RoomStep ==
  ASSUME IsFiniteSet(Writer)
  PROVE  Control /\ Room /\ [EngineNext]_allvars => Room'
  <1> SUFFICES ASSUME Control, Room, [EngineNext]_allvars PROVE Room'
    OBVIOUS
  <1>0. Control'
    BY ControlStep
  <1>1. /\ IsFiniteSet(Pushing) /\ IsFiniteSet(Pushing')
        /\ Cardinality(Pushing) \in Nat /\ Cardinality(Pushing') \in Nat
        /\ Cardinality(Writer) \in Nat /\ Cardinality(Pushing') <= Cardinality(Writer)
        /\ Len(level0) \in Nat /\ level0 \in Seq(Nat) /\ new_id \in [Thread -> Nat]
        /\ Ratio \in Nat
    <2>1. Control' /\ IsFiniteSet(Writer) =>
              IsFiniteSet(Pushing') /\ Cardinality(Pushing') \in Nat
              /\ Cardinality(Pushing') <= Cardinality(Writer)
      <3>1. (Control /\ IsFiniteSet(Writer) =>
               IsFiniteSet(Pushing) /\ Cardinality(Pushing) \in Nat
               /\ Cardinality(Pushing) <= Cardinality(Writer))'
        BY PushersWrite, PTL
      <3> QED
        BY <3>1
    <2> QED
      BY <1>0, <2>1, PushersWrite, LenProperties, EngineAssumption DEF Room
  \* A step that pushes nothing and does not join those that will.
  <1>2. ASSUME level0' = level0 \/ level0' = <<>>, new_id' = new_id,
               Pushing' \subseteq Pushing
        PROVE  Room'
    <2>1. Cardinality(Pushing') <= Cardinality(Pushing)
      BY <1>1, <1>2, FS_Subset
    <2>2. level0' \in Seq(Nat) /\ Len(level0') \in Nat /\ Len(level0') <= Len(level0)
      <3>1. <<>> \in Seq(Nat) /\ Len(<<>>) = 0
        BY EmptySeq
      <3>2. CASE level0' = level0
        BY <1>1, <3>2
      <3>3. CASE level0' = <<>>
        <4>1. level0' \in Seq(Nat) /\ Len(level0') = 0
          BY ONLY <3>1, <3>3, Zenon
        <4> QED
          BY <1>1, <4>1
      <3> QED
        BY <1>2, <3>2, <3>3
    <2> QED
      BY <1>1, <1>2, <2>1, <2>2 DEF Room
  <1>3. ASSUME NEW t \in Thread, FlushId(t) PROVE Room'
    <2>1. Len(level0) <= Ratio /\ level0' = level0
      BY <1>3 DEF FlushId, TakeId, index
    <2>2. NextId \in Nat
      BY <1>1, HeadTailProperties DEF NextId
    <2>3. new_id' \in [Thread -> Nat]
      BY <1>1, <1>3, <2>2 DEF FlushId, TakeId
    <2> QED
      BY <1>1, <2>1, <2>3 DEF Room
  <1>4. ASSUME NEW t \in Thread, IndexPush(t) PROVE Room'
    <2>1. level0' = <<new_id[t]>> \o level0 /\ new_id' = new_id
      BY <1>4 DEF IndexPush
    <2>2. level0' \in Seq(Nat) /\ Len(level0') = Len(level0) + 1
      BY <1>1, <2>1, PushFront
    <2>3. Pushing' = Pushing \ {t} /\ t \in Pushing
      <3>1. /\ pc' = [pc EXCEPT ![t] = Caller] /\ pc[t] = "index_push"
            /\ Caller \in {"destroy", "idle"} /\ pc \in [Thread -> EngineLabel]
        BY <1>4 DEF IndexPush, Goto, At, Caller, Control
      <3> QED
        BY <3>1 DEF Pushing, FlushLabel, IndexLabel
    <2>4. Cardinality(Pushing') = Cardinality(Pushing) - 1
      BY <1>1, <2>3, FS_RemoveElement
    <2> QED
      BY <1>1, <2>1, <2>2, <2>4 DEF Room
  <1>5. ASSUME NEW t \in Thread, Moves(t),
               pc[t] \in FlushLabel \cup IndexLabel \/
               pc'[t] \notin FlushLabel \cup IndexLabel
        PROVE  Pushing' \subseteq Pushing
    BY <1>5 DEF Pushing, Moves, Control
  <1>6. ASSUME NEW t \in Thread, Moves(t), MemStep(t) \/ MemPut(t) \/ MemGetCur(t)
               \/ MemGetFrozen(t) \/ MemClear(t) \/ MemFlushNothing(t)
               \/ MemFlushFreeze(t) \/ MemFlushBuild(t) \/ MemFlushFail(t)
        PROVE  Room'
    <2>1. level0' = level0 /\ new_id' = new_id
      BY <1>6 DEF MemStep, MemPut, MemGetCur, MemGetFrozen, MemClear, MemFlushNothing,
         MemFlushFreeze, MemFlushBuild, MemFlushFail, engine, index
    <2>2. pc[t] \in FlushLabel \cup IndexLabel \/ pc'[t] \notin FlushLabel \cup IndexLabel
      <3>1. Fits(t, pc[t], ret[t]) /\ pc \in [Thread -> EngineLabel]
        BY DEF Control
      <3>2. CASE pc[t] \notin FlushLabel
        BY <1>6, <3>1, <3>2 DEF MemStep, MemPut, MemGetCur, MemGetFrozen, MemClear,
           MemFlushNothing, MemFlushFreeze, MemFlushBuild, MemFlushFail, PutLock, PutUnlock,
           GetLockFrozen, GetLockCur, GetUnlock, SizeCur, SizeFrozen, ClearLock, FlushLock,
           PutApply, GetCur, GetFrozen, Clear, FlushNothing, FlushFreeze, FlushBuild,
           FlushFail, LockFrozen, Goto, Return, At, Fits, FlushLabel, IndexLabel,
           GetLabel, SizeLabel
      <3> QED
        BY <3>2
    <2> QED
      BY <1>2, <1>5, <1>6, <2>1, <2>2
  <1>7. ASSUME NEW t \in Thread, Moves(t), LimitCur(t) \/ BatchSize(t) \/ LimitTotal(t)
               \/ FlushSize(t) \/ FlushNone(t) \/ FlushCompact(t) \/ IndexStore(t)
               \/ GetHit(t) \/ GetNowhere(t) \/ GetSst(t) \/ Crash(t)
               \/ ClearLevels(t) \/ ClearSsts(t) \/ DestroySize(t) \/ Drained(t)
        PROVE  Room'
    <2>1. (level0' = level0 \/ level0' = <<>>) /\ new_id' = new_id
      BY <1>7 DEF LimitCur, BatchSize, LimitTotal, FlushSize, FlushNone, FlushCompact,
         IndexStore, GetHit, GetNowhere, GetSst, Reply, Crash, ClearLevels, ClearSsts,
         DestroySize, Drained, TotalSize, engine, index
    <2>2. pc[t] \in IndexLabel \/ pc'[t] \notin FlushLabel \cup IndexLabel
      BY <1>7 DEF LimitCur, BatchSize, LimitTotal, FlushSize, FlushNone, FlushCompact,
         IndexStore, GetHit, GetNowhere, GetSst, Reply, Crash, ClearLevels, ClearSsts,
         DestroySize, Drained, TotalSize, Goto, At, Caller, Control, FlushLabel, IndexLabel
    <2> QED
      BY <1>2, <1>5, <1>7, <2>1, <2>2
  <1>8. ASSUME NEW t \in Thread, Moves(t), EngineCall(t) PROVE Room'
    <2>1. (level0' = level0 \/ level0' = <<>>) /\ new_id' = new_id
      BY <1>8 DEF EngineCall, CallLookup, CallPut, CallErase, Close, Reopen, CallEngine,
         index
    <2>2. pc'[t] = pc[t] \/ pc'[t] \notin FlushLabel \cup IndexLabel
      BY <1>8 DEF EngineCall, CallLookup, CallPut, CallErase, Close, Reopen, CallEngine,
         Enter, Goto, vars, Control, FlushLabel, IndexLabel
    <2> QED
      BY <1>2, <1>5, <1>8, <2>1, <2>2
  <1>9. CASE UNCHANGED allvars
    BY <1>2, <1>9 DEF allvars, vars, engine, index, Pushing
  <1> QED
    BY <1>3, <1>4, <1>6, <1>7, <1>8, <1>9, Steps DEF EngineStep

\* However many writers flush at the same time, with nothing between the check
\* of level 0's size and the push of the new id (engine.cpp, flush), the level
\* never has more than one SST per writer above the ratio.
THEOREM Level0InBounds ==
  ASSUME IsFiniteSet(Writer)
  PROVE  EngineSpec => []Level0Bounded
  <1>1. EngineInit => Room
    <2> SUFFICES ASSUME EngineInit PROVE Room
      OBVIOUS
    <2>1. Pushing = {}
      BY DEF EngineInit, Init, Pushing, FlushLabel, IndexLabel
    <2>2. Cardinality(Pushing) = 0 /\ Cardinality(Writer) \in Nat
      BY <2>1, FS_EmptySet, FS_CardinalityType
    <2> QED
      BY <2>2, EmptySeq, EngineAssumption DEF EngineInit, Room
  <1>2. Control /\ Room => Level0Bounded
    BY PushersWrite, LenProperties, EngineAssumption DEF Room, Level0Bounded
  <1>3. Control /\ [EngineNext]_allvars => Control'
    BY ControlStep
  <1>4. Control /\ Room /\ [EngineNext]_allvars => Room'
    BY RoomStep
  <1> QED
    BY <1>1, <1>2, <1>3, <1>4, ControlInit, PTL DEF EngineSpec
-----------------------------------------------------------------------------
(* What one writer w keeps.                                                *)

ReadLabel == GetLabel \cup {"idle", "get_reply"}

MemTypes ==
  /\ current \in Table /\ frozen \in Seq(Table) /\ frozen_bytes \in Int
  /\ arg \in [Thread -> [kvs : Seq(Key \X Val), keys : Seq(Key), tranc : Tranc]]
  /\ size \in [Thread -> Int] /\ build_failed \in BOOLEAN
  /\ store \in [Version -> Val \cup {None}] /\ flushed \in [Version -> Val \cup {None}]
  /\ \A t \in Thread : At(t, "get_frozen") => arg[t].keys # <<>>

\* A table is frozen only while its SST is built, a flush has something to
\* build from, and what get_total_size returned is still so when it is used.
MemInv(w) ==
  /\ Len(frozen) = IF pc[w] = "flush_build" THEN 1 ELSE 0
  /\ pc[w] \in IndexLabel \cup {"flush_build", "clear_levels", "clear_ssts"} =>
       current = EmptyTable
  /\ pc[w] \in {"flush_lock_frozen", "flush_lock_cur"} => current.bytes # 0
  /\ pc[w] = "flush_build" => frozen[1].bytes # 0
  /\ pc[w] \in {"size_frozen", "limit_total", "flush_id", "drained"} =>
       size[w] = current.bytes

IndexTypes ==
  /\ level0 \in Seq(Id) /\ new_id \in [Thread -> Id]
  /\ ssts \in [Id -> Sst \cup {Absent}] /\ files \in [Id -> Table \cup {Absent}]
  /\ new_sst \in [Thread -> Sst]

\* The ids of the index are n - 1, ..., 0: the next one is its length. The
\* SST of a flush is in its file before it is in the index.
IndexInv(w) ==
  /\ Len(level0) <= Ratio + 1
  /\ \A i \in 1 .. Len(level0) :
       /\ level0[i] = Len(level0) - i
       /\ ssts[level0[i]] \in Table /\ files[level0[i]] = ssts[level0[i]]
  /\ pc[w] \in FlushLabel \cup IndexLabel =>
       new_id[w] = Len(level0) /\ Len(level0) <= Ratio
  /\ pc[w] \in IndexLabel => new_sst[w] \in Table /\ files[new_id[w]] = new_sst[w]
  /\ pc[w] = "index_push" => ssts[new_id[w]] = new_sst[w]
  /\ pc[w] = "clear_ssts" => level0 = <<>>

\* What the destructor leaves, and what a call leaves.
PhaseInv(w) ==
  /\ phase \in {"open", "closing", "closed", "terminated", "failed"}
  /\ pc[w] \in {"destroy", "drained"} \/ (pc[w] \in SizeLabel /\ ret[w] = "drained")
       => phase = "closing"
  /\ phase = "closing" => \A t \in Thread \ {w} : pc[t] = "idle"
  /\ phase \in {"closed", "failed"} => pc[w] = "idle"
  /\ phase = "closed" => current.kv = EmptyTable.kv
  /\ phase = "open" /\ Len(level0) <= Ratio /\ pc[w] \in ReadLabel =>
       current.bytes < Limit

Flight(w) == IF pc[w] \in IndexLabel THEN <<new_sst[w]>> ELSE <<>>

\* The SSTs, newest first, and all tables.
Stored(w) == Flight(w) \o Indexed
Held(w)   == <<current>> \o (frozen \o Stored(w))

\* The tables hold what was written, the SSTs what was built.
HoldInv(w) ==
  /\ ~build_failed => \A v \in Version : FoundIn(Held(w), Nothing, v, store[v])
  /\ \A v \in Version : FoundIn(Stored(w), Nothing, v, flushed[v])

EngineInv(w) ==
  /\ Control /\ MemTypes /\ BytesInv /\ MemInv(w)
  /\ IndexTypes /\ IndexInv(w) /\ PhaseInv(w) /\ HoldInv(w)

-----------------------------------------------------------------------------
(* A get changes nothing that these invariants are about.                  *)

held == <<memory, store, flushed, build_failed, index, files, new_id, new_sst>>

Reads(t) ==
  /\ UNCHANGED held /\ Moves(t) /\ size' = size
  /\ pc[t] \in ReadLabel /\ pc'[t] \in ReadLabel
  /\ \/ phase' = phase /\ (pc[t] = "idle" => phase = "open")
     \/ phase' = "terminated" /\ pc[t] = "get_reply"
  /\ \/ arg' = arg
     \/ \E k \in Key, tr \in Tranc :
          arg' = [arg EXCEPT ![t] = [NoArg EXCEPT !.keys = <<k>>, !.tranc = tr]]
     \/ arg' = [arg EXCEPT ![t].keys = Tail(@)] /\ arg[t].keys # <<>>
  /\ At(t, "get_frozen")' => arg'[t].keys # <<>>

\* The steps of a thread at a label of get.
Lookup(t) ==
  \/ MemStep(t) /\ (GetLockFrozen(t) \/ GetLockCur(t) \/ GetUnlock(t))
  \/ MemGetCur(t) \/ MemGetFrozen(t) \/ GetHit(t) \/ GetNowhere(t) \/ GetSst(t)
  \/ Crash(t) /\ At(t, "get_reply")
  \/ CallLookup(t)

LEMMA LookupReads ==
  ASSUME Control, MemTypes, NEW t \in Thread, Lookup(t) PROVE Reads(t)
  <1>0. pc \in [Thread -> EngineLabel]
    BY DEF Control
  <1>1. Moves(t)
    BY MemMoves, OwnMoves, CallMoves DEF Lookup, EngineCall
  <1>2. CASE MemStep(t) /\ (GetLockFrozen(t) \/ GetLockCur(t) \/ GetUnlock(t))
    <2>1. UNCHANGED held /\ size' = size /\ phase' = phase /\ arg' = arg
      BY <1>2 DEF MemStep, GetLockFrozen, GetLockCur, GetUnlock, engine, history, held
    <2>2. pc[t] \in GetLabel /\ pc'[t] \in GetLabel \cup {"get_reply"} /\ pc'[t] # "get_frozen"
      <3>1. Fits(t, pc[t], ret[t])
        BY DEF Control
      <3> QED
        BY <1>0, <1>2, <3>1 DEF GetLockFrozen, GetLockCur, GetUnlock, At, Goto, Return, Fits,
           GetLabel
    <2> QED
      BY <1>1, <2>1, <2>2 DEF Reads, ReadLabel, GetLabel, At
  <1>3. CASE MemGetCur(t) \/ MemGetFrozen(t)
    <2>1. UNCHANGED held /\ size' = size /\ phase' = phase
      BY <1>3 DEF MemGetCur, MemGetFrozen, GetCur, GetFrozen, history, held
    <2>2. /\ pc[t] \in {"get_cur", "get_frozen"} /\ pc'[t] \in {"get_cur", "get_frozen"}
          /\ pc'[t] = "get_frozen" => arg' = arg
          /\ arg[t].keys # <<>>
          /\ arg' = arg \/ arg' = [arg EXCEPT ![t].keys = Tail(@)]
      BY <1>0, <1>3 DEF MemGetCur, MemGetFrozen, GetCur, GetFrozen, At, Goto, Answer, MemTypes
    <2> QED
      BY <1>1, <2>1, <2>2 DEF Reads, ReadLabel, GetLabel, At
  <1>4. CASE GetHit(t) \/ GetNowhere(t) \/ GetSst(t)
    <2>1. UNCHANGED held /\ size' = size /\ phase' = phase /\ arg' = arg
      BY <1>4 DEF GetHit, GetNowhere, GetSst, Reply, history, held
    <2>2. pc[t] = "get_reply" /\ pc'[t] = "idle"
      BY <1>0, <1>4 DEF GetHit, GetNowhere, GetSst, Reply, At, Goto
    <2> QED
      BY <1>1, <2>1, <2>2 DEF Reads, ReadLabel, At
  <1>5. CASE Crash(t) /\ At(t, "get_reply")
    <2>1. UNCHANGED held /\ size' = size /\ phase' = "terminated" /\ arg' = arg
      BY <1>5 DEF Crash, history, held
    <2>2. pc[t] = "get_reply" /\ pc'[t] = "idle"
      BY <1>0, <1>5 DEF Crash, At, Goto
    <2> QED
      BY <1>1, <2>1, <2>2 DEF Reads, ReadLabel, At
  <1>6. CASE CallLookup(t)
    <2>1. PICK k \in Key, tr \in Tranc :
            CallEngine(t, "get_lock_frozen", "get_reply",
                       [NoArg EXCEPT !.keys = <<k>>, !.tranc = tr])
      BY <1>6 DEF CallLookup
    <2>2. UNCHANGED held /\ size' = size /\ phase' = phase /\ phase = "open"
      BY <2>1 DEF CallEngine, history, held
    <2>3. /\ pc[t] = "idle" /\ pc'[t] = "get_lock_frozen"
          /\ arg' = [arg EXCEPT ![t] = [NoArg EXCEPT !.keys = <<k>>, !.tranc = tr]]
      BY <1>0, <2>1 DEF CallEngine, At, Enter
    <2> QED
      BY <1>1, <2>2, <2>3 DEF Reads, ReadLabel, GetLabel, At
  <1> QED
    BY <1>2, <1>3, <1>4, <1>5, <1>6 DEF Lookup

\* Whoever is no writer only looks up.
LEMMA OthersLookUp ==
  ASSUME Control, NEW w \in Thread, Writer = {w}, NEW t \in Thread, t # w,
         EngineStep(t) \/ EngineCall(t)
  PROVE  Lookup(t)
  <1>1. pc[t] \in ReadLabel
    BY DEF Control, Fits, ReadLabel
  <1>2. CASE EngineCall(t)
    BY <1>2 DEF EngineCall, Lookup
  <1>3. CASE EngineStep(t)
    BY <1>1, <1>3 DEF EngineStep, Lookup, ReadLabel, GetLabel, MemStep, PutLock, PutUnlock,
       SizeCur, SizeFrozen, ClearLock, FlushLock, LockFrozen, MemPut, PutApply, MemClear,
       Clear, MemFlushNothing, FlushNothing, MemFlushFreeze, FlushFreeze, MemFlushBuild,
       FlushBuild, MemFlushFail, FlushFail, LimitCur, BatchSize, LimitTotal, FlushSize,
       FlushNone, FlushCompact, FlushId, IndexStore, IndexPush, Crash, ClearLevels,
       ClearSsts, DestroySize, Drained, TotalSize, At
  <1> QED
    BY <1>2, <1>3

\* What a reader does keeps every invariant of the writer.
LEMMA ReadsKeep ==
  ASSUME NEW w \in Thread, Writer = {w}, EngineInv(w), NEW t \in Thread, Reads(t), Control'
  PROVE  EngineInv(w)'
  <1>1. /\ UNCHANGED held /\ size' = size
        /\ \/ pc[w] \in ReadLabel /\ pc'[w] \in ReadLabel
           \/ pc'[w] = pc[w] /\ ret'[w] = ret[w]
        /\ pc'[w] # pc[w] => t = w
        /\ pc \in [Thread -> EngineLabel]
        /\ \A u \in Thread : u # t => pc'[u] = pc[u]
    <2>1. /\ pc \in [Thread -> EngineLabel] /\ ret \in [Thread -> EngineLabel]
          /\ UNCHANGED held /\ size' = size /\ pc[t] \in ReadLabel /\ pc'[t] \in ReadLabel
      BY DEF Reads, EngineInv, Control
    <2>2. PICK l, r \in EngineLabel :
            pc' = [pc EXCEPT ![t] = l] /\ ret' = [ret EXCEPT ![t] = r]
      BY DEF Reads, Moves
    <2>3. \A u \in Thread : u # t => pc'[u] = pc[u] /\ ret'[u] = ret[u]
      BY <2>1, <2>2
    <2>4. CASE t = w
      BY <2>1, <2>3, <2>4
    <2>5. CASE t # w
      BY <2>1, <2>3, <2>5
    <2> QED
      BY <2>4, <2>5
  <1>2. /\ current' = current /\ frozen' = frozen /\ frozen_bytes' = frozen_bytes
        /\ store' = store /\ flushed' = flushed /\ build_failed' = build_failed
        /\ level0' = level0 /\ ssts' = ssts /\ files' = files
        /\ new_id' = new_id /\ new_sst' = new_sst
    BY <1>1 DEF held, memory, index
  <1>3. MemTypes'
    <2>1. arg' \in [Thread -> [kvs : Seq(Key \X Val), keys : Seq(Key), tranc : Tranc]]
      <3>1. arg \in [Thread -> [kvs : Seq(Key \X Val), keys : Seq(Key), tranc : Tranc]]
        BY DEF EngineInv, MemTypes
      <3>2. ASSUME NEW k \in Key, NEW tr \in Tranc
            PROVE  [NoArg EXCEPT !.keys = <<k>>, !.tranc = tr]
                     \in [kvs : Seq(Key \X Val), keys : Seq(Key), tranc : Tranc]
        <4>1. <<k>> \in Seq(Key) /\ <<>> \in Seq(Key \X Val)
          OBVIOUS
        <4> QED
          BY <4>1 DEF NoArg
      <3>3. arg[t].keys # <<>> => Tail(arg[t].keys) \in Seq(Key)
        BY <3>1, HeadTailProperties
      <3>4. ASSUME NEW k \in Key, NEW tr \in Tranc,
                   arg' = [arg EXCEPT ![t] = [NoArg EXCEPT !.keys = <<k>>, !.tranc = tr]]
            PROVE  arg' \in [Thread -> [kvs : Seq(Key \X Val), keys : Seq(Key),
                                        tranc : Tranc]]
        BY <3>1, <3>2, <3>4
      <3>5. CASE arg[t].keys # <<>> /\ arg' = [arg EXCEPT ![t].keys = Tail(@)]
        BY <3>1, <3>3, <3>5
      <3> QED
        BY <3>1, <3>4, <3>5 DEF Reads
    <2>2. \A u \in Thread : At(u, "get_frozen")' => arg'[u].keys # <<>>
      <3>1. ASSUME NEW u \in Thread, u # t PROVE arg'[u] = arg[u]
        BY <3>1 DEF Reads, EngineInv, MemTypes
      <3> QED
        BY <1>1, <3>1 DEF Reads, EngineInv, MemTypes, At
    <2> QED
      BY <1>1, <1>2, <2>1, <2>2 DEF MemTypes, EngineInv
  <1>4. BytesInv'
    BY <1>2 DEF BytesInv, EngineInv
  <1>5. MemInv(w)'
    BY <1>1, <1>2 DEF MemInv, EngineInv, IndexLabel, ReadLabel, GetLabel
  <1>6. IndexTypes' /\ IndexInv(w)'
    BY <1>1, <1>2 DEF IndexTypes, IndexInv, EngineInv, IndexLabel, FlushLabel, ReadLabel,
       GetLabel
  <1>7. PhaseInv(w)'
    <2>1. PhaseInv(w) /\ Reads(t)
      BY DEF EngineInv
    <2>2. phase = "closing" => t = w
      BY <1>1, <2>1 DEF PhaseInv, Reads
    <2>3. phase \in {"closed", "failed"} => pc'[w] = pc[w] \/ phase' = "terminated"
      BY <1>1, <2>1 DEF PhaseInv, Reads
    <2> QED
      BY <1>1, <1>2, <2>1, <2>2, <2>3 DEF PhaseInv, Reads, ReadLabel, GetLabel, SizeLabel
  <1>8. HoldInv(w)'
    <2>1. Flight(w)' = Flight(w)
      BY <1>1, <1>2 DEF Flight, IndexLabel, ReadLabel, GetLabel
    <2>2. Indexed' = Indexed
      BY <1>2 DEF Indexed
    <2>3. Held(w)' = Held(w) /\ Stored(w)' = Stored(w)
      BY <1>2, <2>1, <2>2 DEF Held, Stored
    <2>4. \A L, b, v, val : FoundIn(L, b, v, val)' = FoundIn(L, b, v, val)
      BY DEF FoundIn
    <2> QED
      BY <1>2, <2>3 DEF HoldInv, EngineInv
  <1> QED
    BY <1>3, <1>4, <1>5, <1>6, <1>7, <1>8 DEF EngineInv
-----------------------------------------------------------------------------
(* The steps of the writer that move no table and no SST.                  *)

\* Where such a step leads, and what it has seen.
Walk(w, k, l) ==
  /\ pc[w] = k /\ pc'[w] = l /\ UNCHANGED held
  /\ k \notin IndexLabel \cup {"flush_build", "clear_levels", "clear_ssts"}
  /\ l \notin IndexLabel \cup {"flush_build", "clear_levels", "clear_ssts", "get_frozen"}
  /\ \A t \in Thread \ {w} : pc'[t] = pc[t] /\ arg'[t] = arg[t]
  /\ arg' \in [Thread -> [kvs : Seq(Key \X Val), keys : Seq(Key), tranc : Tranc]]
  /\ size' \in [Thread -> Int]

LEMMA WalkKeeps ==
  ASSUME NEW w \in Thread, EngineInv(w), NEW k, NEW l, Walk(w, k, l), Control',
         MemInv(w)', IndexInv(w)', PhaseInv(w)'
  PROVE  EngineInv(w)'
  <1>1. /\ current' = current /\ frozen' = frozen /\ frozen_bytes' = frozen_bytes
        /\ store' = store /\ flushed' = flushed /\ build_failed' = build_failed
        /\ level0' = level0 /\ ssts' = ssts /\ files' = files
        /\ new_id' = new_id /\ new_sst' = new_sst
    BY DEF Walk, held, memory, index
  <1>2. MemTypes'
    BY <1>1 DEF MemTypes, EngineInv, Walk, At
  <1>3. BytesInv' /\ IndexTypes'
    BY <1>1 DEF BytesInv, IndexTypes, EngineInv
  <1>4. HoldInv(w)'
    <2>1. Flight(w)' = Flight(w)
      BY DEF Flight, Walk
    <2>2. Indexed' = Indexed
      BY <1>1 DEF Indexed
    <2>3. Held(w)' = Held(w) /\ Stored(w)' = Stored(w)
      BY <1>1, <2>1, <2>2 DEF Held, Stored
    <2> QED
      BY <1>1, <2>3 DEF HoldInv, EngineInv
  <1> QED
    BY <1>2, <1>3, <1>4 DEF EngineInv

\* With nothing frozen, nothing is counted as frozen.
LEMMA NoneFrozen ==
  ASSUME frozen \in Seq(Table), BytesInv, Len(frozen) = 0
  PROVE  frozen = <<>> /\ frozen_bytes = 0
  <1>1. frozen = <<>>
    BY EmptySeq
  <1> QED
    BY <1>1 DEF BytesInv, Summed, Sums

\* The sizes as the writer reads them.
LEMMA Sizes ==
  ASSUME NEW w \in Thread, EngineInv(w), pc[w] # "flush_build"
  PROVE  /\ frozen = <<>> /\ frozen_bytes = 0 /\ Len(frozen) = 0
         /\ current.bytes \in Int /\ current.bytes >= 0 /\ size[w] \in Int
         /\ current.bytes = 0 <=> current.kv = EmptyTable.kv
  <1>1. Len(frozen) = 0
    BY DEF EngineInv, MemInv
  <1>2. Measured(current) /\ current \in Table /\ size[w] \in Int
    BY DEF EngineInv, BytesInv, MemTypes
  <1>3. current.bytes \in Int
    BY <1>2 DEF Table
  <1> QED
    BY <1>1, <1>2, <1>3, NoneFrozen, MeasuredExact DEF EngineInv, MemTypes

\* Walks that leave the phase alone.
LEMMA WalkOpen ==
  ASSUME NEW w \in Thread, Writer = {w}, EngineInv(w), Control',
         NEW k, NEW l, Walk(w, k, l), phase' = phase,
         MemInv(w)', l \in FlushLabel => k \in FlushLabel,
         phase = "open" /\ Len(level0) <= Ratio /\ l \in ReadLabel =>
            current.bytes < Limit,
         l \in {"destroy", "drained"} \/ (l \in SizeLabel /\ ret'[w] = "drained")
            => phase = "closing",
         k # "idle" \/ phase = "open"
  PROVE  EngineInv(w)'
  <1>1. /\ current' = current /\ level0' = level0 /\ ssts' = ssts /\ files' = files
        /\ new_id' = new_id /\ new_sst' = new_sst /\ pc[w] = k /\ pc'[w] = l
    BY DEF Walk, held, memory, index
  <1>2. IndexInv(w)'
    BY <1>1 DEF IndexInv, EngineInv, Walk, FlushLabel, IndexLabel
  <1>3. PhaseInv(w)'
    <2>1. PhaseInv(w) /\ \A t \in Thread \ {w} : pc'[t] = pc[t]
      BY DEF EngineInv, Walk
    <2>2. phase \notin {"closed", "failed"}
      BY <1>1, <2>1 DEF PhaseInv
    <2> QED
      BY <1>1, <2>1, <2>2 DEF PhaseInv
  <1> QED
    BY <1>2, <1>3, WalkKeeps

LEMMA WriterMem ==
  ASSUME NEW w \in Thread, Writer = {w}, EngineInv(w), Control',
         MemStep(w), ~Lookup(w)
  PROVE  EngineInv(w)'
  <1>0. /\ pc \in [Thread -> EngineLabel] /\ ret \in [Thread -> EngineLabel]
        /\ Fits(w, pc[w], ret[w]) /\ size \in [Thread -> Int]
        /\ arg \in [Thread -> [kvs : Seq(Key \X Val), keys : Seq(Key), tranc : Tranc]]
        /\ phase' = phase /\ ret' = ret /\ arg' = arg /\ UNCHANGED held
    BY DEF EngineInv, Control, MemTypes, MemStep, Lookup, engine, PutLock, PutUnlock, SizeCur,
       SizeFrozen, ClearLock, FlushLock, LockFrozen, held, history
  <1>1. current' = current /\ frozen' = frozen /\ MemInv(w) /\ PhaseInv(w)
    BY <1>0 DEF held, memory, EngineInv
  <1>2. CASE PutLock(w) \/ PutUnlock(w) \/ ClearLock(w)
    <2>1. PICK l \in {"put_apply", "batch_size", "limit_cur", "clear_lock_cur"} :
            pc' = [pc EXCEPT ![w] = l]
      BY <1>0, <1>2 DEF PutLock, PutUnlock, ClearLock, LockFrozen, Goto, Return, At, Fits
    <2>2. pc[w] \in {"put_lock", "put_apply", "clear_lock_frozen"} /\ size' = size
      BY <1>2 DEF PutLock, PutUnlock, ClearLock, LockFrozen, At
    <2>3. Walk(w, pc[w], l)
      BY <1>0, <2>1, <2>2 DEF Walk, IndexLabel
    <2>4. MemInv(w)'
      BY <1>0, <1>1, <2>1, <2>2 DEF MemInv, IndexLabel
    <2> QED
      BY <1>0, <2>1, <2>2, <2>3, <2>4, WalkOpen DEF FlushLabel, ReadLabel, GetLabel, SizeLabel
  <1>3. CASE SizeCur(w) \/ SizeFrozen(w)
    <2>1. CASE SizeCur(w)
      <3>1. /\ pc' = [pc EXCEPT ![w] = "size_frozen"] /\ pc[w] = "size_cur"
            /\ size' = [size EXCEPT ![w] = current.bytes] /\ current.bytes \in Int
        BY <2>1, Sizes DEF SizeCur, At, Goto
      <3>2. Walk(w, "size_cur", "size_frozen")
        BY <1>0, <3>1 DEF Walk, IndexLabel
      <3>3. MemInv(w)'
        BY <1>0, <1>1, <3>1 DEF MemInv, IndexLabel
      <3>4. ret[w] = "drained" => phase = "closing"
        BY <1>1, <3>1 DEF PhaseInv, SizeLabel
      <3> QED
        BY <1>0, <3>2, <3>3, <3>4, WalkOpen DEF FlushLabel, ReadLabel, GetLabel, SizeLabel
    <2>2. CASE SizeFrozen(w)
      <3>1. /\ pc' = [pc EXCEPT ![w] = ret[w]] /\ pc[w] = "size_frozen"
            /\ size' = [size EXCEPT ![w] = size[w] + frozen_bytes] /\ frozen_bytes = 0
            /\ size[w] \in Int
        BY <2>2, Sizes DEF SizeFrozen, At, Goto, Return
      <3>2. ret[w] \in {"limit_total", "flush_id", "drained"}
        BY <1>0, <3>1 DEF Fits, SizeLabel
      <3>3. Walk(w, "size_frozen", ret[w])
        BY <1>0, <3>1, <3>2 DEF Walk, IndexLabel
      <3>4. MemInv(w)'
        BY <1>0, <1>1, <3>1, <3>2 DEF MemInv, IndexLabel
      <3>5. ret[w] = "drained" => phase = "closing"
        BY <1>1, <3>1 DEF PhaseInv, SizeLabel
      <3> QED
        BY <1>0, <3>2, <3>3, <3>4, <3>5, WalkOpen DEF FlushLabel, ReadLabel, GetLabel, SizeLabel
    <2> QED
      BY <1>3, <2>1, <2>2
  <1>4. CASE FlushLock(w)
    <2>1. /\ pc' = [pc EXCEPT ![w] = "flush_lock_cur"] /\ pc[w] = "flush_lock_frozen"
          /\ size' = size
      BY <1>4, Sizes DEF FlushLock, LockFrozen, At, Goto
    <2>2. Walk(w, "flush_lock_frozen", "flush_lock_cur")
      BY <1>0, <2>1 DEF Walk, IndexLabel
    <2>3. MemInv(w)'
      BY <1>0, <1>1, <2>1 DEF MemInv, IndexLabel
    <2> QED
      BY <1>0, <2>2, <2>3, WalkOpen DEF FlushLabel, ReadLabel, GetLabel, SizeLabel
  <1> QED
    BY <1>2, <1>3, <1>4 DEF MemStep, Lookup

\* Walks of the engine's own labels.
LEMMA WriterWalks ==
  ASSUME NEW w \in Thread, Writer = {w}, EngineInv(w), Control',
         \/ LimitCur(w) \/ BatchSize(w) \/ LimitTotal(w) \/ FlushSize(w)
         \/ FlushNone(w) \/ DestroySize(w) \/ CallPut(w) \/ CallErase(w)
  PROVE  EngineInv(w)'
  <1>0. /\ pc \in [Thread -> EngineLabel] /\ ret \in [Thread -> EngineLabel]
        /\ size \in [Thread -> Int]
        /\ arg \in [Thread -> [kvs : Seq(Key \X Val), keys : Seq(Key), tranc : Tranc]]
        /\ phase' = phase /\ UNCHANGED held /\ size' = size
    BY DEF EngineInv, Control, MemTypes, held, LimitCur, BatchSize, LimitTotal, FlushSize,
       FlushNone, DestroySize, TotalSize, CallPut, CallErase, CallEngine, engine, history
  <1>1. current' = current /\ frozen' = frozen /\ MemInv(w) /\ PhaseInv(w)
    BY <1>0 DEF held, memory, EngineInv
  <1>2. CASE LimitCur(w) \/ LimitTotal(w) \/ FlushNone(w)
    <2>1. PICK l \in {"flush", "idle", "destroy"} :
            /\ pc' = [pc EXCEPT ![w] = l]
            /\ l = "destroy" => phase = "closing"
            /\ l = "idle" => \/ LimitCur(w) /\ current.bytes < Limit
                             \/ LimitTotal(w) /\ size[w] < Limit
                             \/ FlushNone(w) /\ size[w] = 0
      <3>1. current.bytes \in Int /\ size[w] \in Int /\ Limit \in Nat
        <4>1. pc[w] # "flush_build"
          BY <1>2 DEF LimitCur, LimitTotal, FlushNone, At
        <4> QED
          BY <4>1, Sizes, EngineAssumption
      <3> QED
        BY <1>2, <3>1 DEF LimitCur, LimitTotal, FlushNone, Goto, Caller
    <2>2. pc[w] \in {"limit_cur", "limit_total", "flush_id"} /\ arg' = arg /\ ret' = ret
      BY <1>2 DEF LimitCur, LimitTotal, FlushNone, At
    <2>3. Walk(w, pc[w], l)
      BY <1>0, <2>1, <2>2 DEF Walk, IndexLabel
    <2>4. MemInv(w)'
      BY <1>0, <1>1, <2>1, <2>2 DEF MemInv, IndexLabel
    <2>5. l = "idle" => current.bytes < Limit
      <3>1. /\ pc[w] \in {"limit_total", "flush_id"} => size[w] = current.bytes
        BY <1>1 DEF MemInv
      <3>2. LimitTotal(w) \/ FlushNone(w) => pc[w] \in {"limit_total", "flush_id"}
        BY DEF LimitTotal, FlushNone, At
      <3> QED
        BY <2>1, <3>1, <3>2, EngineAssumption
    <2> QED
      BY <1>0, <2>1, <2>2, <2>3, <2>4, <2>5, WalkOpen
         DEF FlushLabel, ReadLabel, GetLabel, SizeLabel
  <1>3. CASE BatchSize(w) \/ FlushSize(w) \/ DestroySize(w)
    <2>1. PICK r \in {"limit_total", "flush_id", "drained"} :
            /\ pc' = [pc EXCEPT ![w] = "size_cur"] /\ ret' = [ret EXCEPT ![w] = r]
            /\ r = "drained" => pc[w] = "destroy"
      BY <1>3 DEF BatchSize, FlushSize, DestroySize, TotalSize, Goto, At
    <2>2. pc[w] \in {"batch_size", "flush", "destroy"} /\ arg' = arg
      BY <1>3 DEF BatchSize, FlushSize, DestroySize, TotalSize, At
    <2>3. Walk(w, pc[w], "size_cur")
      BY <1>0, <2>1, <2>2 DEF Walk, IndexLabel
    <2>4. MemInv(w)'
      BY <1>0, <1>1, <2>1, <2>2 DEF MemInv, IndexLabel
    <2>5. r = "drained" => phase = "closing"
      BY <1>1, <2>1 DEF PhaseInv
    <2> QED
      BY <1>0, <2>1, <2>2, <2>3, <2>4, <2>5, WalkOpen
         DEF FlushLabel, ReadLabel, GetLabel, SizeLabel
  <1>4. CASE CallPut(w) \/ CallErase(w)
    <2> DEFINE Arg == [kvs : Seq(Key \X Val), keys : Seq(Key), tranc : Tranc]
    <2>0. <<>> \in Seq(Key) /\ <<>> \in Seq(Key \X Val)
      OBVIOUS
    <2>1. PICK l \in {"put_lock", "clear_lock_frozen"}, a \in Arg :
            \E back : CallEngine(w, l, back, a)
      <3>1. CASE CallPut(w)
        <4>1. PICK b \in Batch, tr \in Tranc : \E back \in Sizer(b) :
                CallEngine(w, "put_lock", back, [NoArg EXCEPT !.kvs = b, !.tranc = tr])
          BY <3>1, Zenon DEF CallPut
        <4>2. b \in Seq(Key \X Val)
          BY MemtableAssumption
        <4>3. [NoArg EXCEPT !.kvs = b, !.tranc = tr] \in Arg
          BY <2>0, <4>2 DEF NoArg
        <4> QED
          BY <4>1, <4>3
      <3>2. CASE CallErase(w)
        <4>1. 0 \in Tranc
          BY MemtableAssumption DEF Tranc
        <4>2. NoArg \in Arg
          BY <2>0, <4>1 DEF NoArg
        <4> QED
          BY <3>2, <4>2 DEF CallErase
      <3> QED
        BY <1>4, <3>1, <3>2
    <2>2. /\ pc[w] = "idle" /\ phase = "open" /\ pc' = [pc EXCEPT ![w] = l]
          /\ arg' = [arg EXCEPT ![w] = a]
      BY <2>1 DEF CallEngine, Enter, At
    <2>3. arg' \in [Thread -> Arg]
      BY <1>0, <2>1, <2>2
    <2>4. Walk(w, "idle", l)
      BY <1>0, <2>1, <2>2, <2>3 DEF Walk, IndexLabel
    <2>5. MemInv(w)'
      BY <1>0, <1>1, <2>1, <2>2 DEF MemInv, IndexLabel
    <2> QED
      BY <1>0, <2>1, <2>2, <2>4, <2>5, WalkOpen DEF FlushLabel, ReadLabel, GetLabel, SizeLabel
  <1> QED
    BY <1>2, <1>3, <1>4

\* Walks that may change the phase.
LEMMA WriterPhase ==
  ASSUME NEW w \in Thread, Writer = {w}, EngineInv(w), Control',
         \/ FlushCompact(w) \/ (Crash(w) /\ ~At(w, "get_reply")) \/ Drained(w) \/ Close(w)
  PROVE  EngineInv(w)'
  <1>0. /\ pc \in [Thread -> EngineLabel] /\ ret \in [Thread -> EngineLabel]
        /\ size \in [Thread -> Int] /\ size' = size /\ ret' = ret /\ arg' = arg
        /\ arg \in [Thread -> [kvs : Seq(Key \X Val), keys : Seq(Key), tranc : Tranc]]
        /\ UNCHANGED held
    BY DEF EngineInv, Control, MemTypes, held, FlushCompact, Crash, Drained, Close, history
  <1>1. /\ current' = current /\ frozen' = frozen /\ level0' = level0 /\ ssts' = ssts
        /\ files' = files /\ new_id' = new_id /\ new_sst' = new_sst
        /\ MemInv(w) /\ PhaseInv(w) /\ IndexInv(w)
    BY <1>0 DEF held, memory, index, EngineInv
  <1>2. PICK l \in {"idle", "flush", "destroy"} : pc' = [pc EXCEPT ![w] = l]
    BY DEF FlushCompact, Crash, Drained, Close, Goto
  <1>3. pc[w] \in {"flush_id", "drained", "idle"}
    BY DEF FlushCompact, Crash, Drained, Close, At, Quiet
  <1>4. Walk(w, pc[w], l)
    BY <1>0, <1>2, <1>3 DEF Walk, IndexLabel
  <1>5. MemInv(w)'
    BY <1>0, <1>1, <1>2, <1>3 DEF MemInv, IndexLabel
  <1>6. IndexInv(w)'
    BY <1>0, <1>1, <1>2, <1>3 DEF IndexInv, FlushLabel, IndexLabel
  <1>7. PhaseInv(w)'
    <2>1. CASE FlushCompact(w)
      <3>1. /\ pc'[w] = "idle" /\ pc[w] = "flush_id" /\ Len(level0) > Ratio
            /\ phase' = IF phase = "closing" THEN "terminated" ELSE phase
        BY <1>0, <2>1 DEF FlushCompact, Goto, At, Unwind
      <3>2. ~(Len(level0) <= Ratio)
        <4>1. Len(level0) \in Nat
          BY LenProperties DEF EngineInv, IndexTypes
        <4> QED
          BY <3>1, <4>1, EngineAssumption
      <3> QED
        BY <1>1, <3>1, <3>2 DEF PhaseInv, SizeLabel
    <2>2. CASE Crash(w)
      <3>1. pc'[w] = "idle" /\ phase' = "terminated"
        BY <1>0, <2>2 DEF Crash, Goto
      <3> QED
        BY <3>1 DEF PhaseInv, SizeLabel
    <2>3. CASE Drained(w)
      <3>1. pc[w] = "drained" /\ phase = "closing" /\ size[w] = current.bytes
        BY <1>1, <2>3 DEF Drained, At, PhaseInv, MemInv
      <3>2. CASE pc' = [pc EXCEPT ![w] = "flush"] /\ phase' = phase
        <4>1. pc'[w] = "flush" /\ \A t \in Thread \ {w} : pc'[t] = pc[t]
          BY <1>0, <3>2
        <4> QED
          BY <1>1, <3>1, <3>2, <4>1 DEF PhaseInv, SizeLabel, ReadLabel, GetLabel
      <3>3. CASE size[w] = 0 /\ pc' = [pc EXCEPT ![w] = "idle"] /\ phase' = "closed"
        <4>1. pc'[w] = "idle" /\ current.kv = EmptyTable.kv
          BY <1>0, <3>1, <3>3, Sizes
        <4> QED
          BY <1>1, <3>3, <4>1 DEF PhaseInv, SizeLabel
      <3> QED
        BY <2>3, <3>2, <3>3 DEF Drained, Goto
    <2>4. CASE Close(w)
      <3>1. /\ pc'[w] = "destroy" /\ phase' = "closing"
            /\ \A t \in Thread \ {w} : pc'[t] = "idle"
        BY <1>0, <2>4 DEF Close, Goto, Quiet, At
      <3> QED
        BY <3>1 DEF PhaseInv, SizeLabel
    <2> QED
      BY <2>1, <2>2, <2>3, <2>4
  <1> QED
    BY <1>4, <1>5, <1>6, <1>7, WalkKeeps
-----------------------------------------------------------------------------
(* The steps that move tables.                                             *)

\* A table in front of others.
LEMMA FrontFound ==
  ASSUME NEW tab \in Table, NEW L \in Seq(Table), NEW built, NEW v \in Version, NEW y,
         \/ tab.kv[v] # None /\ y = tab.kv[v]
         \/ tab.kv[v] = None /\ FoundIn(L, built, v, y)
  PROVE  FoundIn(<<tab>> \o L, built, v, y)
  <1> DEFINE new == <<tab>> \o L
  <1>1. /\ DOMAIN new = 1 .. Len(L) + 1 /\ new[1] = tab /\ Len(L) \in Nat
        /\ \A i \in 2 .. Len(L) + 1 : new[i] = L[i - 1]
        /\ DOMAIN L = 1 .. Len(L)
    BY LayersOf, LenProperties
  <1> HIDE DEF new
  <1>2. CASE tab.kv[v] # None /\ y = tab.kv[v]
    <2>1. 1 \in DOMAIN new /\ \A j \in 1 .. 1 - 1 : new[j].kv[v] = None
      BY <1>1
    <2> QED
      BY <1>1, <1>2, <2>1 DEF FoundIn, new
  <1>3. ASSUME tab.kv[v] = None, NEW i \in DOMAIN L, L[i].kv[v] # None, L[i].kv[v] = y,
               \A j \in 1 .. i - 1 : L[j].kv[v] = None
        PROVE  FoundIn(new, built, v, y)
    <2>1. i + 1 \in DOMAIN new /\ new[i + 1] = L[i]
      BY <1>1, <1>3
    <2>2. ASSUME NEW j \in 1 .. (i + 1) - 1 PROVE new[j].kv[v] = None
      BY <1>1, <1>3
    <2> QED
      BY <1>3, <2>1, <2>2 DEF FoundIn
  <1>4. CASE tab.kv[v] = None /\ (\A i \in DOMAIN L : L[i].kv[v] = None) /\ built[v] = y
    <2>1. ASSUME NEW i \in DOMAIN new PROVE new[i].kv[v] = None
      BY <1>1, <1>4
    <2> QED
      BY <1>4, <2>1 DEF FoundIn
  <1> QED
    BY <1>2, <1>3, <1>4 DEF FoundIn, new

\* Behind a table that does not hold the version.
LEMMA RestFound ==
  ASSUME NEW tab \in Table, NEW L \in Seq(Table), NEW built, NEW v \in Version, NEW y,
         tab.kv[v] = None, FoundIn(<<tab>> \o L, built, v, y)
  PROVE  FoundIn(L, built, v, y)
  <1> DEFINE new == <<tab>> \o L
  <1>1. /\ DOMAIN new = 1 .. Len(L) + 1 /\ new[1] = tab /\ Len(L) \in Nat
        /\ \A i \in 2 .. Len(L) + 1 : new[i] = L[i - 1]
        /\ DOMAIN L = 1 .. Len(L)
    BY LayersOf, LenProperties
  <1>2. FoundIn(new, built, v, y)
    OBVIOUS
  <1> HIDE DEF new
  <1>3. ASSUME NEW i \in DOMAIN new, new[i].kv[v] # None, new[i].kv[v] = y,
               \A j \in 1 .. i - 1 : new[j].kv[v] = None
        PROVE  FoundIn(L, built, v, y)
    <2>1. i \in 2 .. Len(L) + 1
      BY <1>1, <1>3
    <2>2. i - 1 \in DOMAIN L /\ new[i] = L[i - 1]
      BY <1>1, <2>1
    <2>3. ASSUME NEW j \in 1 .. (i - 1) - 1 PROVE L[j].kv[v] = None
      <3>1. j + 1 \in 1 .. i - 1 /\ j + 1 \in 2 .. Len(L) + 1 /\ (j + 1) - 1 = j
        BY <1>1, <2>1
      <3> QED
        BY <1>1, <1>3, <3>1
    <2> QED
      BY <1>3, <2>2, <2>3 DEF FoundIn
  <1>4. CASE (\A i \in DOMAIN new : new[i].kv[v] = None) /\ built[v] = y
    <2>1. ASSUME NEW i \in DOMAIN L PROVE L[i].kv[v] = None
      <3>1. i + 1 \in DOMAIN new /\ new[i + 1] = L[i]
        BY <1>1
      <3> QED
        BY <1>4, <3>1
    <2> QED
      BY <1>4, <2>1 DEF FoundIn
  <1> QED
    BY <1>2, <1>3, <1>4 DEF FoundIn

LEMMA StoredType ==
  ASSUME NEW w \in Thread, EngineInv(w)
  PROVE  /\ Indexed \in Seq(Table) /\ Flight(w) \in Seq(Table) /\ Stored(w) \in Seq(Table)
         /\ frozen \o Stored(w) \in Seq(Table)
         /\ Len(Indexed) = Len(level0) /\ Len(level0) \in Nat
  <1>1. Len(level0) \in Nat /\ DOMAIN level0 = 1 .. Len(level0)
    BY LenProperties DEF EngineInv, IndexTypes
  <1>2. \A i \in 1 .. Len(level0) : ssts[level0[i]] \in Table
    BY DEF EngineInv, IndexInv
  <1>3. Indexed \in [1 .. Len(level0) -> Table]
    BY <1>1, <1>2 DEF Indexed
  <1>4. Indexed \in Seq(Table) /\ Len(Indexed) = Len(level0)
    BY <1>1, <1>3, SeqDef, LenProperties, IsASeq
  <1>5. Flight(w) \in Seq(Table)
    <2>1. <<>> \in Seq(Table) /\ (new_sst[w] \in Table => <<new_sst[w]>> \in Seq(Table))
      OBVIOUS
    <2> QED
      BY <2>1 DEF Flight, EngineInv, IndexInv
  <1>6. Stored(w) \in Seq(Table)
    BY <1>4, <1>5, ConcatProperties DEF Stored
  <1> QED
    BY <1>1, <1>4, <1>5, <1>6, ConcatProperties DEF EngineInv, MemTypes

LEMMA OneFrozen ==
  ASSUME frozen \in Seq(Table), Len(frozen) = 1
  PROVE  /\ frozen[1] \in Table /\ frozen = <<frozen[1]>> /\ frozen # <<>>
         /\ SubSeq(frozen, 1, Len(frozen) - 1) = <<>>
  <1>1. frozen[1] \in Table
    BY ElementOfSeq
  <1>2. <<frozen[1]>> \in Seq(Table) /\ Len(<<frozen[1]>>) = 1 /\ <<frozen[1]>>[1] = frozen[1]
    BY <1>1
  <1>3. frozen = <<frozen[1]>>
    BY <1>2, SeqEqual
  <1>4. SubSeq(frozen, 1, Len(frozen) - 1) = <<>>
    BY SubSeqEmpty
  <1> QED
    BY <1>1, <1>3, <1>4, EmptySeq

LEMMA WriterPut ==
  ASSUME NEW w \in Thread, Writer = {w}, EngineInv(w), Control', MemPut(w)
  PROVE  EngineInv(w)'
  <1> DEFINE kv == Head(arg[w].kvs)
             v  == <<kv[1], arg[w].tranc>>
  <1>0. /\ current \in Table /\ frozen \in Seq(Table)
        /\ arg \in [Thread -> [kvs : Seq(Key \X Val), keys : Seq(Key), tranc : Tranc]]
        /\ MemInv(w) /\ IndexInv(w) /\ PhaseInv(w) /\ HoldInv(w) /\ BytesInv
        /\ MemTypes /\ IndexTypes
    BY DEF EngineInv, MemTypes
  <1>1. /\ pc[w] = "put_apply" /\ pc' = pc /\ ret' = ret /\ phase' = phase
        /\ arg[w].kvs # <<>> /\ arg' = [arg EXCEPT ![w].kvs = Tail(@)]
        /\ frozen' = frozen /\ frozen_bytes' = frozen_bytes /\ size' = size
        /\ flushed' = flushed /\ build_failed' = build_failed
        /\ level0' = level0 /\ ssts' = ssts /\ files' = files
        /\ new_id' = new_id /\ new_sst' = new_sst
        /\ current' = TablePut(current, v, kv[2])
        /\ store' = [store EXCEPT ![v] = kv[2]]
    BY DEF MemPut, PutApply, At, index
  <1>2. kv \in Key \X Val /\ Tail(arg[w].kvs) \in Seq(Key \X Val)
    BY <1>0, <1>1, ArgType
  <1>3. v \in Version /\ kv[2] \in Val
    BY <1>0, <1>2 DEF Version
  <1> HIDE DEF v, kv
  <1>4. BytesInv'
    <2>1. Step(w) /\ (At(w, "flush_build") => frozen # <<>>)
      BY <1>1 DEF MemPut, Step, At
    <2> QED
      BY <1>0, <2>1, BytesKept
  <1>5. MemTypes'
    <2>1. current' \in Table
      BY <1>0, <1>1, <1>3, TablePutType
    <2>2. store' \in [Version -> Val \cup {None}]
      BY <1>0, <1>1, <1>3 DEF MemTypes
    <2>3. /\ arg' \in [Thread -> [kvs : Seq(Key \X Val), keys : Seq(Key), tranc : Tranc]]
          /\ \A t \in Thread : arg'[t].keys = arg[t].keys
      BY <1>0, <1>1, <1>2
    <2> QED
      BY <1>0, <1>1, <2>1, <2>2, <2>3 DEF MemTypes, At
  <1>6. MemInv(w)' /\ IndexTypes' /\ IndexInv(w)'
    BY <1>0, <1>1 DEF MemInv, IndexTypes, IndexInv, IndexLabel, FlushLabel
  <1>7. PhaseInv(w)'
    <2>1. phase \notin {"closed", "failed"}
      BY <1>0, <1>1 DEF PhaseInv
    <2> QED
      BY <1>0, <1>1, <2>1 DEF PhaseInv, ReadLabel, GetLabel
  <1>8. HoldInv(w)'
    <2>1. Flight(w)' = Flight(w) /\ Indexed' = Indexed
      BY <1>1 DEF Flight, Indexed
    <2>2. Stored(w)' = Stored(w)
      BY <2>1 DEF Stored
    <2> DEFINE fs == frozen \o Stored(w)
    <2>3. Held(w)' = <<current'>> \o fs /\ Held(w) = <<current>> \o fs /\ fs \in Seq(Table)
      BY <1>1, <2>2, StoredType DEF Held
    <2> HIDE DEF fs
    <2>4. ASSUME ~build_failed, NEW u \in Version
          PROVE  FoundIn(<<current'>> \o fs, Nothing, u, store'[u])
      <3>1. FoundIn(<<current>> \o fs, Nothing, u, store[u])
        BY <1>0, <2>3, <2>4 DEF HoldInv
      <3>2. store \in [Version -> Val \cup {None}]
        BY <1>0 DEF MemTypes
      <3>3. CASE u = v
        BY <1>0, <1>1, <1>3, <2>3, <3>2, <3>3, PutFound
      <3>4. CASE u # v
        BY <1>0, <1>1, <1>3, <2>3, <3>1, <3>2, <3>4, PutFound
      <3> QED
        BY <3>3, <3>4
    <2> QED
      BY <1>0, <1>1, <2>2, <2>3, <2>4 DEF HoldInv, Nothing
  <1> QED
    BY <1>4, <1>5, <1>6, <1>7, <1>8 DEF EngineInv

LEMMA WriterClear ==
  ASSUME NEW w \in Thread, Writer = {w}, EngineInv(w), Control', MemClear(w)
  PROVE  EngineInv(w)'
  <1>0. /\ current \in Table /\ frozen \in Seq(Table)
        /\ arg \in [Thread -> [kvs : Seq(Key \X Val), keys : Seq(Key), tranc : Tranc]]
        /\ MemInv(w) /\ IndexInv(w) /\ PhaseInv(w) /\ HoldInv(w) /\ BytesInv
        /\ MemTypes /\ IndexTypes /\ Fits(w, pc[w], ret[w]) /\ pc \in [Thread -> EngineLabel]
    BY DEF EngineInv, MemTypes, Control
  <1>1. /\ pc[w] = "clear_lock_cur" /\ pc'[w] = "clear_levels"
        /\ \A t \in Thread \ {w} : pc'[t] = pc[t]
        /\ phase' = phase /\ arg' = arg
        /\ frozen' = <<>> /\ size' = size /\ current' = EmptyTable /\ frozen_bytes' = 0
        /\ flushed' = flushed /\ build_failed' = build_failed /\ store' = flushed
        /\ level0' = level0 /\ ssts' = ssts /\ files' = files
        /\ new_id' = new_id /\ new_sst' = new_sst
    BY <1>0 DEF MemClear, Clear, At, Goto, Return, index, Fits
  <1>2. BytesInv'
    <2>1. Step(w) /\ (At(w, "flush_build") => frozen # <<>>)
      BY <1>1 DEF MemClear, Step, At
    <2> QED
      BY <1>0, <2>1, BytesKept
  <1>3. MemTypes'
    <2>1. EmptyTable \in Table /\ <<>> \in Seq(Table)
      BY EmptyTableType
    <2> QED
      BY <1>0, <1>1, <2>1 DEF MemTypes, At
  <1>4. MemInv(w)'
    <2>1. Len(frozen') = 0
      BY <1>1
    <2> QED
      BY <1>1, <2>1 DEF MemInv, IndexLabel
  <1>5. IndexTypes' /\ IndexInv(w)'
    BY <1>0, <1>1 DEF IndexTypes, IndexInv, IndexLabel, FlushLabel
  <1>6. PhaseInv(w)'
    <2>1. phase \notin {"closed", "failed"}
      BY <1>0, <1>1 DEF PhaseInv
    <2> QED
      BY <1>0, <1>1, <2>1 DEF PhaseInv, ReadLabel, GetLabel, SizeLabel
  <1>7. HoldInv(w)'
    <2>1. Flight(w)' = Flight(w) /\ Indexed' = Indexed
      BY <1>1 DEF Flight, Indexed, IndexLabel
    <2>2. Stored(w)' = Stored(w) /\ Stored(w) \in Seq(Table)
      BY <2>1, StoredType DEF Stored
    <2>3. Held(w)' = <<EmptyTable>> \o Stored(w)
      BY <1>1, <2>2, ConcatEmptySeq DEF Held
    <2>4. ASSUME NEW v \in Version
          PROVE  FoundIn(<<EmptyTable>> \o Stored(w), Nothing, v, flushed[v])
      <3>1. FoundIn(Stored(w), Nothing, v, flushed[v])
        BY <1>0 DEF HoldInv
      <3>2. EmptyTable.kv[v] = None
        BY DEF EmptyTable
      <3> QED
        BY <2>2, <3>1, <3>2, FrontFound, EmptyTableType
    <2> QED
      BY <1>0, <1>1, <2>2, <2>3, <2>4 DEF HoldInv, Nothing
  <1> QED
    BY <1>2, <1>3, <1>4, <1>5, <1>6, <1>7 DEF EngineInv

LEMMA WriterFreeze ==
  ASSUME NEW w \in Thread, Writer = {w}, EngineInv(w), Control', MemFlushFreeze(w)
  PROVE  EngineInv(w)'
  <1>0. /\ current \in Table /\ frozen \in Seq(Table)
        /\ arg \in [Thread -> [kvs : Seq(Key \X Val), keys : Seq(Key), tranc : Tranc]]
        /\ MemInv(w) /\ IndexInv(w) /\ PhaseInv(w) /\ HoldInv(w) /\ BytesInv
        /\ MemTypes /\ IndexTypes /\ pc \in [Thread -> EngineLabel]
    BY DEF EngineInv, MemTypes, Control
  <1>1. /\ pc[w] = "flush_lock_cur" /\ pc'[w] = "flush_build"
        /\ \A t \in Thread \ {w} : pc'[t] = pc[t]
        /\ phase' = phase /\ arg' = arg /\ size' = size
        /\ frozen' = <<current>> \o frozen /\ current' = EmptyTable
        /\ frozen_bytes' = frozen_bytes + current.bytes /\ current.bytes # 0
        /\ flushed' = flushed /\ build_failed' = build_failed /\ store' = store
        /\ level0' = level0 /\ ssts' = ssts /\ files' = files
        /\ new_id' = new_id /\ new_sst' = new_sst
    BY <1>0 DEF MemFlushFreeze, FlushFreeze, FreezeCurrent, At, Goto, index, history
  <1>2. /\ frozen = <<>> /\ frozen' = <<current>> /\ Len(frozen') = 1
        /\ frozen'[1] = current /\ frozen' \in Seq(Table) /\ frozen_bytes' \in Int
    <2>1. frozen = <<>> /\ frozen_bytes = 0 /\ current.bytes \in Int
      BY <1>1, Sizes
    <2>2. <<current>> \in Seq(Table) /\ Len(<<current>>) = 1 /\ <<current>>[1] = current
      BY <1>0
    <2>3. frozen' = <<current>>
      BY <1>1, <2>1, <2>2, ConcatEmptySeq
    <2> QED
      BY <1>1, <2>1, <2>2, <2>3
  <1>3. BytesInv'
    <2>1. Step(w) /\ (At(w, "flush_build") => frozen # <<>>)
      BY <1>1 DEF MemFlushFreeze, Step, At
    <2> QED
      BY <1>0, <2>1, BytesKept
  <1>4. MemTypes'
    BY <1>0, <1>1, <1>2, EmptyTableType DEF MemTypes, At
  <1>5. MemInv(w)'
    BY <1>1, <1>2 DEF MemInv, IndexLabel
  <1>6. IndexTypes' /\ IndexInv(w)'
    BY <1>0, <1>1 DEF IndexTypes, IndexInv, IndexLabel, FlushLabel
  <1>7. PhaseInv(w)'
    <2>1. phase \notin {"closed", "failed"}
      BY <1>0, <1>1 DEF PhaseInv
    <2> QED
      BY <1>0, <1>1, <2>1 DEF PhaseInv, ReadLabel, GetLabel, SizeLabel
  <1>8. HoldInv(w)'
    <2>1. Flight(w)' = Flight(w) /\ Indexed' = Indexed
      BY <1>1 DEF Flight, Indexed, IndexLabel
    <2>2. Stored(w)' = Stored(w) /\ Stored(w) \in Seq(Table)
      BY <2>1, StoredType DEF Stored
    <2>3. Held(w)' = <<EmptyTable>> \o (<<current>> \o Stored(w))
      BY <1>1, <1>2, <2>2 DEF Held
    <2>4. Held(w) = <<current>> \o Stored(w)
      BY <1>2, <2>2, ConcatEmptySeq DEF Held
    <2>5. ASSUME ~build_failed, NEW v \in Version
          PROVE  FoundIn(<<EmptyTable>> \o (<<current>> \o Stored(w)), Nothing, v, store[v])
      <3>1. FoundIn(<<current>> \o Stored(w), Nothing, v, store[v])
        BY <1>0, <2>4, <2>5 DEF HoldInv
      <3> QED
        BY <1>0, <2>2, <3>1, FreezeFound
    <2> QED
      BY <1>0, <1>1, <2>2, <2>3, <2>5 DEF HoldInv, Nothing
  <1> QED
    BY <1>3, <1>4, <1>5, <1>6, <1>7, <1>8 DEF EngineInv

LEMMA WriterBuild ==
  ASSUME NEW w \in Thread, Writer = {w}, EngineInv(w), Control', MemFlushBuild(w),
         Ratio <= MaxId
  PROVE  EngineInv(w)'
  <1> DEFINE tab == frozen[1]
             n   == Len(level0)
  <1>0. /\ current \in Table /\ frozen \in Seq(Table)
        /\ arg \in [Thread -> [kvs : Seq(Key \X Val), keys : Seq(Key), tranc : Tranc]]
        /\ MemInv(w) /\ IndexInv(w) /\ PhaseInv(w) /\ HoldInv(w) /\ BytesInv
        /\ MemTypes /\ IndexTypes /\ Fits(w, pc[w], ret[w]) /\ pc \in [Thread -> EngineLabel]
    BY DEF EngineInv, MemTypes, Control
  <1>1. /\ pc[w] = "flush_build" /\ Len(frozen) = 1
        /\ tab \in Table /\ frozen = <<tab>> /\ frozen # <<>>
        /\ SubSeq(frozen, 1, Len(frozen) - 1) = <<>>
    <2>1. pc[w] = "flush_build" /\ Len(frozen) = 1
      BY <1>0 DEF MemFlushBuild, FlushBuild, At, MemInv
    <2> QED
      BY <1>0, <2>1, OneFrozen
  <1>2. Oldest = tab
    BY <1>1 DEF Oldest
  <1> HIDE DEF tab
  <1>3. /\ pc'[w] = "index_store" /\ \A t \in Thread \ {w} : pc'[t] = pc[t]
        /\ phase' = phase /\ arg' = arg /\ size' = size
        /\ frozen' = <<>> /\ current' = current /\ current = EmptyTable
        /\ frozen_bytes' = frozen_bytes - tab.bytes
        /\ flushed' = [v \in Version |-> IF tab.kv[v] # None THEN tab.kv[v] ELSE flushed[v]]
        /\ build_failed' = build_failed /\ store' = store
        /\ level0' = level0 /\ ssts' = ssts /\ new_id' = new_id
        /\ new_sst' = [new_sst EXCEPT ![w] = tab]
        /\ files' = [files EXCEPT ![new_id[w]] = tab]
    <2>1. Fits(w, "flush_build", ret[w]) /\ FlushBuild(w)
      BY <1>0, <1>1 DEF MemFlushBuild
    <2>2. ret[w] = "index_store"
      BY <2>1 DEF Fits, FlushLabel
    <2> QED
      BY <1>0, <1>1, <1>2, <2>1, <2>2
         DEF MemFlushBuild, FlushBuild, PopOldest, Goto, Return, index, MemInv
  <1>4. new_id[w] = n /\ n \in Nat /\ n <= Ratio /\ n \in Id
    <2>1. n \in Nat
      BY <1>0, LenProperties DEF IndexTypes
    <2>2. new_id[w] = n /\ n <= Ratio
      BY <1>0, <1>1 DEF IndexInv, FlushLabel
    <2> QED
      BY <2>1, <2>2, EngineAssumption DEF Id
  <1>5. BytesInv'
    <2>1. Step(w) /\ (At(w, "flush_build") => frozen # <<>>)
      BY <1>1 DEF MemFlushBuild, Step
    <2> QED
      BY <1>0, <2>1, BytesKept
  <1>6. MemTypes'
    <2>1. frozen_bytes' \in Int
      BY <1>0, <1>1, <1>3 DEF MemTypes, Table
    <2>2. flushed' \in [Version -> Val \cup {None}]
      BY <1>0, <1>1, <1>3 DEF MemTypes, Table
    <2>3. frozen' \in Seq(Table)
      BY <1>3
    <2> QED
      BY <1>0, <1>3, <2>1, <2>2, <2>3 DEF MemTypes, At
  <1>7. MemInv(w)'
    <2>1. Len(frozen') = 0
      BY <1>3
    <2> QED
      BY <1>3, <2>1 DEF MemInv, IndexLabel
  <1>8. new_sst' \in [Thread -> Sst] /\ new_sst'[w] = tab /\ files'[n] = tab
        /\ files' \in [Id -> Table \cup {Absent}]
        /\ \A i \in Id \ {n} : files'[i] = files[i]
    BY <1>0, <1>1, <1>3, <1>4 DEF IndexTypes, Sst
  <1>9. IndexTypes' /\ IndexInv(w)'
    <2>1. IndexTypes'
      BY <1>0, <1>3, <1>8 DEF IndexTypes
    <2>2. ASSUME NEW i \in 1 .. n
          PROVE  /\ level0[i] = n - i
                 /\ ssts[level0[i]] \in Table /\ files'[level0[i]] = ssts[level0[i]]
      <3>1. /\ level0[i] = n - i
            /\ ssts[level0[i]] \in Table /\ files[level0[i]] = ssts[level0[i]]
        BY <1>0 DEF IndexInv
      <3>2. level0[i] \in Id \ {n}
        BY <1>4, <3>1, EngineAssumption DEF Id
      <3> QED
        BY <1>8, <3>1, <3>2
    <2> QED
      BY <1>1, <1>3, <1>4, <1>8, <2>1, <2>2, EngineAssumption DEF IndexInv, IndexLabel, FlushLabel
  <1>10. PhaseInv(w)'
    <2>1. phase \notin {"closed", "failed"}
      BY <1>0, <1>1 DEF PhaseInv
    <2> QED
      BY <1>0, <1>1, <1>3, <2>1 DEF PhaseInv, ReadLabel, GetLabel, SizeLabel
  <1>11. HoldInv(w)'
    <2>1. /\ Indexed' = Indexed /\ Indexed \in Seq(Table)
          /\ <<tab>> \o Indexed \in Seq(Table)
      <3>1. Indexed' = Indexed /\ Indexed \in Seq(Table)
        BY <1>3, StoredType DEF Indexed
      <3> QED
        BY <1>1, <3>1, PushFront
    <2>2. Stored(w) = Indexed
      <3>1. Flight(w) = <<>>
        BY <1>1 DEF Flight, IndexLabel
      <3> QED
        BY <2>1, <3>1, ConcatEmptySeq DEF Stored
    <2>3. Stored(w)' = <<tab>> \o Indexed
      <3>1. Flight(w)' = <<tab>>
        BY <1>3, <1>8 DEF Flight, IndexLabel
      <3> QED
        BY <2>1, <3>1 DEF Stored
    <2>4. Held(w)' = Held(w)
      <3>1. Held(w)' = <<current>> \o (<<>> \o (<<tab>> \o Indexed))
        BY <1>3, <2>3 DEF Held
      <3>2. <<>> \o (<<tab>> \o Indexed) = <<tab>> \o Indexed
        BY <2>1, ConcatEmptySeq
      <3> QED
        BY <1>1, <2>2, <3>1, <3>2 DEF Held
    <2>5. ASSUME NEW v \in Version
          PROVE  FoundIn(<<tab>> \o Indexed, Nothing, v, flushed'[v])
      <3>1. FoundIn(Indexed, Nothing, v, flushed[v])
        BY <1>0, <2>2 DEF HoldInv
      <3>2. flushed'[v] = IF tab.kv[v] # None THEN tab.kv[v] ELSE flushed[v]
        BY <1>3
      <3> QED
        BY <1>1, <2>1, <3>1, <3>2, FrontFound
    <2> QED
      BY <1>0, <1>3, <2>3, <2>4, <2>5 DEF HoldInv, Nothing
  <1> QED
    BY <1>5, <1>6, <1>7, <1>9, <1>10, <1>11 DEF EngineInv

LEMMA WriterFail ==
  ASSUME NEW w \in Thread, Writer = {w}, EngineInv(w), Control', MemFlushFail(w)
  PROVE  EngineInv(w)'
  <1> DEFINE tab == frozen[1]
  <1>0. /\ current \in Table /\ frozen \in Seq(Table)
        /\ arg \in [Thread -> [kvs : Seq(Key \X Val), keys : Seq(Key), tranc : Tranc]]
        /\ MemInv(w) /\ IndexInv(w) /\ PhaseInv(w) /\ HoldInv(w) /\ BytesInv
        /\ MemTypes /\ IndexTypes /\ pc \in [Thread -> EngineLabel]
    BY DEF EngineInv, MemTypes, Control
  <1>1. /\ pc[w] = "flush_build" /\ Len(frozen) = 1
        /\ tab \in Table /\ frozen = <<tab>> /\ frozen # <<>>
        /\ SubSeq(frozen, 1, Len(frozen) - 1) = <<>>
    <2>1. pc[w] = "flush_build" /\ Len(frozen) = 1
      BY <1>0 DEF MemFlushFail, FlushFail, At, MemInv
    <2> QED
      BY <1>0, <2>1, OneFrozen
  <1>2. Oldest = tab /\ tab.kv # EmptyTable.kv
    <2>1. tab.bytes # 0 /\ Measured(tab)
      BY <1>0, <1>1 DEF MemInv, BytesInv, AllMeasured
    <2> QED
      BY <1>1, <2>1, MeasuredExact DEF Oldest
  <1> HIDE DEF tab
  <1>3. /\ pc'[w] = "idle" /\ \A t \in Thread \ {w} : pc'[t] = pc[t]
        /\ phase' = IF phase = "closing" THEN "terminated" ELSE phase
        /\ arg' = arg /\ size' = size
        /\ frozen' = <<>> /\ current' = current /\ current = EmptyTable
        /\ frozen_bytes' = frozen_bytes - tab.bytes
        /\ flushed' = flushed /\ build_failed' = TRUE /\ store' = store
        /\ level0' = level0 /\ ssts' = ssts /\ new_id' = new_id
        /\ new_sst' = new_sst /\ files' = files
    BY <1>0, <1>1, <1>2 DEF MemFlushFail, FlushFail, PopOldest, Goto, Unwind, index, MemInv
  <1>4. BytesInv'
    <2>1. Step(w) /\ (At(w, "flush_build") => frozen # <<>>)
      BY <1>1 DEF MemFlushFail, Step
    <2> QED
      BY <1>0, <2>1, BytesKept
  <1>5. MemTypes'
    <2>1. frozen_bytes' \in Int
      BY <1>0, <1>1, <1>3 DEF MemTypes, Table
    <2>2. frozen' \in Seq(Table)
      BY <1>3
    <2> QED
      BY <1>0, <1>3, <2>1, <2>2 DEF MemTypes, At
  <1>6. MemInv(w)'
    <2>1. Len(frozen') = 0
      BY <1>3
    <2> QED
      BY <1>3, <2>1 DEF MemInv, IndexLabel
  <1>7. IndexTypes' /\ IndexInv(w)'
    BY <1>0, <1>3 DEF IndexTypes, IndexInv, IndexLabel, FlushLabel
  <1>8. PhaseInv(w)'
    <2>1. phase \notin {"closed", "failed"}
      BY <1>0, <1>1 DEF PhaseInv
    <2>2. current.bytes < Limit
      BY <1>3, EngineAssumption DEF EmptyTable
    <2> QED
      BY <1>0, <1>1, <1>3, <2>1, <2>2 DEF PhaseInv, SizeLabel
  <1>9. HoldInv(w)'
    <2>1. Flight(w)' = Flight(w) /\ Indexed' = Indexed
      BY <1>1, <1>3 DEF Flight, Indexed, IndexLabel
    <2>2. Stored(w)' = Stored(w)
      BY <2>1 DEF Stored
    <2> QED
      BY <1>0, <1>3, <2>2 DEF HoldInv, Nothing
  <1> QED
    BY <1>4, <1>5, <1>6, <1>7, <1>8, <1>9 DEF EngineInv

-----------------------------------------------------------------------------
(* The steps that change the index.                                        *)

\* These leave the tables of memory alone.
LEMMA IndexKeeps ==
  ASSUME NEW w \in Thread, EngineInv(w), UNCHANGED <<memory, arg, size, build_failed>>,
         \A t \in Thread : At(t, "get_frozen")' => At(t, "get_frozen"),
         store' \in [Version -> Val \cup {None}], flushed' \in [Version -> Val \cup {None}]
  PROVE  MemTypes' /\ BytesInv'
  <1>1. /\ current' = current /\ frozen' = frozen /\ frozen_bytes' = frozen_bytes
        /\ arg' = arg /\ size' = size /\ build_failed' = build_failed
    BY DEF memory
  <1> QED
    BY <1>1 DEF EngineInv, MemTypes, BytesInv

\* An index without entries.
LEMMA NoIndex ==
  ASSUME level0 = <<>>
  PROVE  Indexed = <<>> /\ Len(level0) = 0 /\ DOMAIN level0 = {}
  <1>1. Len(level0) = 0 /\ DOMAIN level0 = 1 .. 0
    BY EmptySeq, LenProperties
  <1>2. Indexed \in [1 .. 0 -> {}]
    BY <1>1 DEF Indexed
  <1>3. Indexed \in Seq({}) /\ Len(Indexed) = 0
    BY <1>2, SeqDef, LenProperties, IsASeq
  <1> QED
    BY <1>1, <1>3, EmptySeq

LEMMA WriterId ==
  ASSUME NEW w \in Thread, Writer = {w}, EngineInv(w), Control', FlushId(w), Ratio <= MaxId
  PROVE  EngineInv(w)'
  <1> DEFINE n == Len(level0)
  <1>0. /\ MemInv(w) /\ IndexInv(w) /\ PhaseInv(w) /\ HoldInv(w)
        /\ MemTypes /\ IndexTypes /\ pc \in [Thread -> EngineLabel] /\ n \in Nat
    BY LenProperties DEF EngineInv, IndexTypes, Control
  <1>1. NextId = n
    <2>1. CASE level0 = <<>>
      BY <2>1, EmptySeq DEF NextId
    <2>2. CASE level0 # <<>>
      <3>1. n \in Nat \ {0} /\ Head(level0) = level0[1]
        BY <1>0, <2>2, EmptySeq, HeadTailProperties DEF IndexTypes
      <3>2. level0[1] = n - 1
        BY <1>0, <3>1 DEF IndexInv
      <3> QED
        BY <2>2, <3>1, <3>2 DEF NextId
    <2> QED
      BY <2>1, <2>2
  <1>2. /\ pc[w] = "flush_id" /\ pc'[w] = "flush_lock_frozen"
        /\ \A t \in Thread \ {w} : pc'[t] = pc[t]
        /\ size[w] # 0 /\ n <= Ratio /\ new_id' = [new_id EXCEPT ![w] = n]
        /\ phase' = phase /\ arg' = arg /\ size' = size /\ UNCHANGED memory
        /\ current' = current /\ frozen' = frozen
        /\ flushed' = flushed /\ build_failed' = build_failed /\ store' = store
        /\ level0' = level0 /\ ssts' = ssts /\ new_sst' = new_sst /\ files' = files
    BY <1>0, <1>1 DEF FlushId, TakeId, At, Goto, memory, history, index
  <1>3. MemTypes' /\ BytesInv'
    <2>1. \A t \in Thread : At(t, "get_frozen")' => At(t, "get_frozen")
      BY <1>2 DEF At
    <2>2. store' \in [Version -> Val \cup {None}] /\ flushed' \in [Version -> Val \cup {None}]
      BY <1>0, <1>2 DEF MemTypes
    <2> QED
      BY <1>2, <2>1, <2>2, IndexKeeps
  <1>4. MemInv(w)'
    BY <1>0, <1>2 DEF MemInv, IndexLabel
  <1>5. n \in Id /\ new_id'[w] = n /\ new_id' \in [Thread -> Id]
    <2>1. n \in Id
      BY <1>0, <1>2, EngineAssumption DEF Id
    <2> QED
      BY <1>0, <1>2, <2>1 DEF IndexTypes
  <1>6. IndexTypes' /\ IndexInv(w)'
    BY <1>0, <1>2, <1>5 DEF IndexTypes, IndexInv, IndexLabel, FlushLabel
  <1>7. PhaseInv(w)'
    <2>1. phase \notin {"closed", "failed"}
      BY <1>0, <1>2 DEF PhaseInv
    <2> QED
      BY <1>0, <1>2, <2>1 DEF PhaseInv, ReadLabel, GetLabel, SizeLabel
  <1>8. HoldInv(w)'
    <2>1. Flight(w)' = Flight(w) /\ Indexed' = Indexed
      BY <1>2 DEF Flight, Indexed, IndexLabel
    <2>2. Held(w)' = Held(w) /\ Stored(w)' = Stored(w)
      BY <1>2, <2>1 DEF Stored, Held
    <2> QED
      BY <1>0, <1>2, <2>2 DEF HoldInv, Nothing
  <1> QED
    BY <1>3, <1>4, <1>6, <1>7, <1>8 DEF EngineInv

LEMMA WriterStore ==
  ASSUME NEW w \in Thread, Writer = {w}, EngineInv(w), Control', IndexStore(w), Ratio <= MaxId
  PROVE  EngineInv(w)'
  <1> DEFINE n == Len(level0)
  <1>0. /\ MemInv(w) /\ IndexInv(w) /\ PhaseInv(w) /\ HoldInv(w)
        /\ MemTypes /\ IndexTypes /\ pc \in [Thread -> EngineLabel]
        /\ n \in Nat /\ DOMAIN level0 = 1 .. n
    BY LenProperties DEF EngineInv, IndexTypes, Control
  <1>1. /\ pc[w] = "index_store" /\ pc'[w] = "index_push"
        /\ \A t \in Thread \ {w} : pc'[t] = pc[t]
        /\ ssts' = [ssts EXCEPT ![new_id[w]] = new_sst[w]]
        /\ phase' = phase /\ arg' = arg /\ size' = size /\ UNCHANGED memory
        /\ current' = current /\ frozen' = frozen /\ new_id' = new_id
        /\ flushed' = flushed /\ build_failed' = build_failed /\ store' = store
        /\ level0' = level0 /\ new_sst' = new_sst /\ files' = files
    BY <1>0 DEF IndexStore, At, Goto, memory, history
  <1>2. new_id[w] = n /\ n <= Ratio /\ n \in Id /\ new_sst[w] \in Table /\ files[n] = new_sst[w]
    <2>1. new_id[w] = n /\ n <= Ratio /\ new_sst[w] \in Table /\ files[new_id[w]] = new_sst[w]
      BY <1>0, <1>1 DEF IndexInv, IndexLabel
    <2> QED
      BY <1>0, <2>1, EngineAssumption DEF Id
  <1>3. MemTypes' /\ BytesInv'
    <2>1. \A t \in Thread : At(t, "get_frozen")' => At(t, "get_frozen")
      BY <1>1 DEF At
    <2>2. store' \in [Version -> Val \cup {None}] /\ flushed' \in [Version -> Val \cup {None}]
      BY <1>0, <1>1 DEF MemTypes
    <2> QED
      BY <1>1, <2>1, <2>2, IndexKeeps
  <1>4. MemInv(w)'
    BY <1>0, <1>1 DEF MemInv, IndexLabel
  <1>5. /\ ssts' \in [Id -> Sst \cup {Absent}] /\ ssts'[n] = new_sst[w]
        /\ \A i \in Id \ {n} : ssts'[i] = ssts[i]
    BY <1>0, <1>1, <1>2 DEF IndexTypes
  <1>6. ASSUME NEW i \in 1 .. n
        PROVE  /\ level0[i] = n - i /\ ssts'[level0[i]] = ssts[level0[i]]
               /\ ssts[level0[i]] \in Table /\ files[level0[i]] = ssts[level0[i]]
    <2>1. /\ level0[i] = n - i
          /\ ssts[level0[i]] \in Table /\ files[level0[i]] = ssts[level0[i]]
      BY <1>0 DEF IndexInv
    <2>2. level0[i] \in Id \ {n}
      BY <1>2, <2>1, EngineAssumption DEF Id
    <2> QED
      BY <1>5, <2>1, <2>2
  <1>7. IndexTypes' /\ IndexInv(w)'
    <2>1. IndexTypes'
      BY <1>0, <1>1, <1>5 DEF IndexTypes
    <2>2. \A i \in 1 .. n : /\ level0[i] = n - i
                            /\ ssts'[level0[i]] \in Table /\ files[level0[i]] = ssts'[level0[i]]
      BY <1>6
    <2> QED
      BY <1>0, <1>1, <1>2, <1>5, <2>1, <2>2 DEF IndexInv, IndexLabel, FlushLabel
  <1>8. PhaseInv(w)'
    <2>1. phase \notin {"closed", "failed"}
      BY <1>0, <1>1 DEF PhaseInv
    <2> QED
      BY <1>0, <1>1, <2>1 DEF PhaseInv, ReadLabel, GetLabel, SizeLabel
  <1>9. HoldInv(w)'
    <2>1. Flight(w)' = Flight(w)
      BY <1>1 DEF Flight, IndexLabel
    <2>2. Indexed' = Indexed
      BY <1>0, <1>1, <1>6 DEF Indexed
    <2>3. Held(w)' = Held(w) /\ Stored(w)' = Stored(w)
      BY <1>1, <2>1, <2>2 DEF Stored, Held
    <2> QED
      BY <1>0, <1>1, <2>3 DEF HoldInv, Nothing
  <1> QED
    BY <1>3, <1>4, <1>7, <1>8, <1>9 DEF EngineInv

LEMMA WriterPush ==
  ASSUME NEW w \in Thread, Writer = {w}, EngineInv(w), Control', IndexPush(w), Ratio <= MaxId
  PROVE  EngineInv(w)'
  <1> DEFINE n    == Len(level0)
             tab  == new_sst[w]
             more == <<n>> \o level0
  <1>0. /\ MemInv(w) /\ IndexInv(w) /\ PhaseInv(w) /\ HoldInv(w)
        /\ MemTypes /\ IndexTypes /\ pc \in [Thread -> EngineLabel]
        /\ n \in Nat /\ level0 \in Seq(Id)
    BY LenProperties DEF EngineInv, IndexTypes, Control
  <1>1. /\ pc[w] = "index_push" /\ pc'[w] = Caller
        /\ \A t \in Thread \ {w} : pc'[t] = pc[t]
        /\ level0' = <<new_id[w]>> \o level0 /\ new_sst' = [new_sst EXCEPT ![w] = None]
        /\ phase' = phase /\ arg' = arg /\ size' = size /\ UNCHANGED memory
        /\ current' = current /\ frozen' = frozen /\ new_id' = new_id
        /\ flushed' = flushed /\ build_failed' = build_failed /\ store' = store
        /\ ssts' = ssts /\ files' = files
    BY <1>0 DEF IndexPush, At, Goto, memory, history
  <1>2. /\ new_id[w] = n /\ n <= Ratio /\ n \in Id
        /\ tab \in Table /\ files[n] = tab /\ ssts[n] = tab
    <2>1. /\ new_id[w] = n /\ n <= Ratio
          /\ tab \in Table /\ files[new_id[w]] = tab /\ ssts[new_id[w]] = tab
      BY <1>0, <1>1 DEF IndexInv, IndexLabel
    <2> QED
      BY <1>0, <2>1, EngineAssumption DEF Id
  <1>3. /\ level0' = more /\ more \in Seq(Id) /\ Len(more) = n + 1 /\ more[1] = n
        /\ \A i \in 2 .. n + 1 : more[i] = level0[i - 1]
        /\ DOMAIN more = 1 .. n + 1 /\ DOMAIN level0 = 1 .. n
    <2>1. level0' = more
      BY <1>1, <1>2
    <2> QED
      BY <1>0, <1>2, <2>1, PushFront, LenProperties
  <1>4. Caller = (IF phase = "closing" THEN "destroy" ELSE "idle")
    BY DEF Caller
  <1> HIDE DEF more
  <1>5. MemTypes' /\ BytesInv'
    <2>1. \A t \in Thread : At(t, "get_frozen")' => At(t, "get_frozen")
      BY <1>0, <1>1, <1>4 DEF At
    <2>2. store' \in [Version -> Val \cup {None}] /\ flushed' \in [Version -> Val \cup {None}]
      BY <1>0, <1>1 DEF MemTypes
    <2> QED
      BY <1>1, <2>1, <2>2, IndexKeeps
  <1>6. MemInv(w)'
    BY <1>0, <1>1, <1>4 DEF MemInv, IndexLabel
  <1>7. ASSUME NEW i \in 1 .. n + 1
        PROVE  /\ more[i] = n + 1 - i /\ ssts[more[i]] \in Table
               /\ files[more[i]] = ssts[more[i]]
               /\ i = 1 => ssts[more[i]] = tab
               /\ i # 1 => i - 1 \in 1 .. n /\ ssts[more[i]] = ssts[level0[i - 1]]
    <2>1. CASE i = 1
      BY <1>0, <1>2, <1>3, <2>1
    <2>2. CASE i # 1
      <3>1. i \in 2 .. n + 1 /\ i - 1 \in 1 .. n /\ n - (i - 1) = n + 1 - i
        BY <1>0, <2>2
      <3>2. /\ level0[i - 1] = n - (i - 1) /\ ssts[level0[i - 1]] \in Table
            /\ files[level0[i - 1]] = ssts[level0[i - 1]]
        BY <1>0, <3>1 DEF IndexInv
      <3>3. more[i] = level0[i - 1]
        BY <1>3, <3>1
      <3> QED
        BY <2>2, <3>1, <3>2, <3>3
    <2> QED
      BY <2>1, <2>2
  <1>8. IndexTypes'
    BY <1>0, <1>1, <1>3 DEF IndexTypes, Sst
  <1>9. IndexInv(w)'
    <2>1. \A i \in 1 .. n + 1 : /\ more[i] = n + 1 - i /\ ssts[more[i]] \in Table
                                /\ files[more[i]] = ssts[more[i]]
      BY <1>7
    <2>2. pc'[w] \notin FlushLabel \cup IndexLabel \cup {"clear_ssts"}
      BY <1>1, <1>4 DEF FlushLabel, IndexLabel
    <2>3. n + 1 <= Ratio + 1 /\ Len(level0') = n + 1
      BY <1>0, <1>2, <1>3, EngineAssumption
    <2> QED
      BY <1>1, <1>3, <2>1, <2>2, <2>3 DEF IndexInv, IndexLabel
  <1>10. PhaseInv(w)'
    <2>1. phase \notin {"closed", "failed"}
      BY <1>0, <1>1 DEF PhaseInv
    <2>2. current = EmptyTable /\ current.bytes < Limit
      BY <1>0, <1>1, EngineAssumption DEF MemInv, IndexLabel, EmptyTable
    <2> QED
      BY <1>0, <1>1, <1>4, <2>1, <2>2 DEF PhaseInv, SizeLabel
  <1>11. HoldInv(w)'
    <2>1. Indexed \in Seq(Table) /\ Len(Indexed) = n /\ \A i \in 1 .. n :
            Indexed[i] = ssts[level0[i]]
      BY <1>3, StoredType DEF Indexed
    <2>2. /\ <<tab>> \o Indexed \in Seq(Table) /\ Len(<<tab>> \o Indexed) = n + 1
          /\ (<<tab>> \o Indexed)[1] = tab
          /\ \A i \in 2 .. n + 1 : (<<tab>> \o Indexed)[i] = Indexed[i - 1]
      BY <1>2, <2>1, PushFront
    <2>3. /\ Indexed' \in Seq(Table) /\ Len(Indexed') = n + 1
          /\ \A i \in 1 .. n + 1 : Indexed'[i] = ssts[more[i]]
      <3>1. Indexed' = [i \in 1 .. n + 1 |-> ssts[more[i]]]
        BY <1>1, <1>3 DEF Indexed
      <3>2. Indexed' \in [1 .. n + 1 -> Table]
        BY <1>7, <3>1
      <3> QED
        BY <1>0, <3>1, <3>2, SeqDef, LenProperties, IsASeq
    <2>4. Indexed' = <<tab>> \o Indexed
      <3>1. ASSUME NEW i \in 1 .. n + 1 PROVE Indexed'[i] = (<<tab>> \o Indexed)[i]
        <4>1. CASE i = 1
          BY <1>7, <2>2, <2>3, <4>1
        <4>2. CASE i # 1
          <5>1. i \in 2 .. n + 1 /\ i - 1 \in 1 .. n
            BY <1>0, <4>2
          <5>2. ssts[more[i]] = ssts[level0[i - 1]]
            BY <1>7, <4>2
          <5>3. (<<tab>> \o Indexed)[i] = Indexed[i - 1]
            BY <2>2, <5>1
          <5>4. Indexed[i - 1] = ssts[level0[i - 1]]
            BY <2>1, <5>1
          <5> QED
            BY <2>3, <5>2, <5>3, <5>4
        <4> QED
          BY <4>1, <4>2
      <3> QED
        BY <2>2, <2>3, <3>1, SeqEqual
    <2>5. Stored(w)' = Stored(w)
      <3>1. Flight(w) = <<tab>> /\ Flight(w)' = <<>>
        BY <1>1, <1>4 DEF Flight, IndexLabel
      <3>2. Stored(w) = <<tab>> \o Indexed /\ Stored(w)' = <<>> \o (<<tab>> \o Indexed)
        BY <2>4, <3>1 DEF Stored
      <3> QED
        BY <2>2, <3>2, ConcatEmptySeq
    <2>6. Held(w)' = Held(w)
      BY <1>1, <2>5 DEF Held
    <2> QED
      BY <1>0, <1>1, <2>5, <2>6 DEF HoldInv, Nothing
  <1> QED
    BY <1>5, <1>6, <1>8, <1>9, <1>10, <1>11 DEF EngineInv

LEMMA WriterErase ==
  ASSUME NEW w \in Thread, Writer = {w}, EngineInv(w), Control', ClearLevels(w)
  PROVE  EngineInv(w)'
  <1>0. /\ MemInv(w) /\ IndexInv(w) /\ PhaseInv(w) /\ HoldInv(w)
        /\ MemTypes /\ IndexTypes /\ pc \in [Thread -> EngineLabel]
    BY DEF EngineInv, Control
  <1>1. /\ pc[w] = "clear_levels" /\ pc'[w] = "clear_ssts"
        /\ \A t \in Thread \ {w} : pc'[t] = pc[t]
        /\ level0' = <<>> /\ flushed' = [v \in Version |-> None]
        /\ store' = [v \in Version |-> IF InMemory(v) THEN store[v] ELSE None]
        /\ phase' = phase /\ arg' = arg /\ size' = size /\ UNCHANGED memory
        /\ current' = current /\ frozen' = frozen /\ new_id' = new_id
        /\ build_failed' = build_failed
        /\ ssts' = ssts /\ new_sst' = new_sst /\ files' = files
    BY <1>0 DEF ClearLevels, At, Goto, memory
  <1>2. current = EmptyTable /\ frozen = <<>> /\ <<EmptyTable>> \in Seq(Table)
    <2>1. frozen = <<>> /\ current = EmptyTable
      BY <1>0, <1>1, Sizes DEF MemInv
    <2> QED
      BY <2>1, EmptyTableType
  <1>3. store' = [v \in Version |-> None]
    <2>1. Layers = <<EmptyTable>>
      BY <1>2, ConcatEmptySeq DEF Layers
    <2>2. DOMAIN Layers = {1} /\ Layers[1] = EmptyTable
      BY <2>1
    <2>3. \A v \in Version : ~InMemory(v)
      BY <2>2 DEF EmptyTable, InMemory
    <2> QED
      BY <1>1, <2>3
  <1>4. MemTypes' /\ BytesInv'
    <2>1. \A t \in Thread : At(t, "get_frozen")' => At(t, "get_frozen")
      BY <1>0, <1>1 DEF At
    <2>2. store' \in [Version -> Val \cup {None}] /\ flushed' \in [Version -> Val \cup {None}]
      BY <1>1, <1>3
    <2> QED
      BY <1>1, <2>1, <2>2, IndexKeeps
  <1>5. MemInv(w)'
    BY <1>0, <1>1 DEF MemInv, IndexLabel
  <1>6. Indexed' = <<>> /\ Len(level0') = 0 /\ level0' \in Seq(Id)
    <2>1. (level0 = <<>>)' => Indexed' = <<>> /\ Len(level0') = 0
      <3>1. (level0 = <<>> => Indexed = <<>> /\ Len(level0) = 0)'
        BY NoIndex, PTL
      <3> QED
        BY <3>1
    <2> QED
      BY <1>1, <2>1
  <1>7. IndexTypes' /\ IndexInv(w)'
    <2>1. 1 .. Len(level0') = {}
      BY <1>6
    <2> QED
      BY <1>0, <1>1, <1>6, <2>1, EngineAssumption DEF IndexTypes, IndexInv, IndexLabel, FlushLabel
  <1>8. PhaseInv(w)'
    <2>1. phase \notin {"closed", "failed"}
      BY <1>0, <1>1 DEF PhaseInv
    <2> QED
      BY <1>0, <1>1, <2>1 DEF PhaseInv, ReadLabel, GetLabel, SizeLabel
  <1>9. HoldInv(w)'
    <2>1. Stored(w)' = <<>>
      <3>1. Flight(w)' = <<>>
        BY <1>1 DEF Flight, IndexLabel
      <3> QED
        BY <1>6, <3>1, ConcatEmptySeq DEF Stored
    <2>2. Held(w)' = <<EmptyTable>>
      BY <1>1, <1>2, <2>1, ConcatEmptySeq DEF Held
    <2>3. ASSUME NEW v \in Version
          PROVE  FoundIn(<<>>, Nothing, v, None) /\ FoundIn(<<EmptyTable>>, Nothing, v, None)
      BY <2>3 DEF FoundIn, Nothing, EmptyTable
    <2> QED
      BY <1>1, <1>3, <2>1, <2>2, <2>3 DEF HoldInv, Nothing
  <1> QED
    BY <1>4, <1>5, <1>7, <1>8, <1>9 DEF EngineInv

LEMMA WriterForget ==
  ASSUME NEW w \in Thread, Writer = {w}, EngineInv(w), Control', ClearSsts(w)
  PROVE  EngineInv(w)'
  <1>0. /\ MemInv(w) /\ IndexInv(w) /\ PhaseInv(w) /\ HoldInv(w)
        /\ MemTypes /\ IndexTypes /\ pc \in [Thread -> EngineLabel]
    BY DEF EngineInv, Control
  <1>1. /\ pc[w] = "clear_ssts" /\ pc'[w] = "idle"
        /\ \A t \in Thread \ {w} : pc'[t] = pc[t]
        /\ ssts' = [i \in Id |-> Absent] /\ level0' = level0 /\ level0 = <<>>
        /\ phase' = phase /\ arg' = arg /\ size' = size /\ UNCHANGED memory
        /\ current' = current /\ frozen' = frozen /\ new_id' = new_id
        /\ build_failed' = build_failed /\ store' = store /\ flushed' = flushed
        /\ new_sst' = new_sst /\ files' = files
    BY <1>0 DEF ClearSsts, At, Goto, memory, history, IndexInv
  <1>2. MemTypes' /\ BytesInv'
    <2>1. \A t \in Thread : At(t, "get_frozen")' => At(t, "get_frozen")
      BY <1>0, <1>1 DEF At
    <2>2. store' \in [Version -> Val \cup {None}] /\ flushed' \in [Version -> Val \cup {None}]
      BY <1>0, <1>1 DEF MemTypes
    <2> QED
      BY <1>1, <2>1, <2>2, IndexKeeps
  <1>3. MemInv(w)'
    BY <1>0, <1>1 DEF MemInv, IndexLabel
  <1>4. Len(level0) = 0 /\ DOMAIN level0 = {}
    BY <1>1, NoIndex
  <1>5. IndexTypes' /\ IndexInv(w)'
    <2>1. 1 .. Len(level0) = {}
      BY <1>4
    <2> QED
      BY <1>0, <1>1, <1>4, <2>1, EngineAssumption
         DEF IndexTypes, IndexInv, IndexLabel, FlushLabel
  <1>6. PhaseInv(w)'
    <2>1. phase \notin {"closed", "failed"}
      BY <1>0, <1>1 DEF PhaseInv
    <2>2. current.bytes < Limit
      BY <1>0, <1>1, EngineAssumption DEF MemInv, EmptyTable
    <2> QED
      BY <1>0, <1>1, <2>1, <2>2 DEF PhaseInv, SizeLabel
  <1>7. HoldInv(w)'
    <2>1. Flight(w)' = Flight(w)
      BY <1>1 DEF Flight, IndexLabel
    <2>2. Indexed' = Indexed
      BY <1>1, <1>4 DEF Indexed
    <2>3. Held(w)' = Held(w) /\ Stored(w)' = Stored(w)
      BY <1>1, <2>1, <2>2 DEF Stored, Held
    <2> QED
      BY <1>0, <1>1, <2>3 DEF HoldInv, Nothing
  <1> QED
    BY <1>2, <1>3, <1>5, <1>6, <1>7 DEF EngineInv

\* A directory without SSTs is that of an engine whose index is empty.
LEMMA WriterReopen ==
  ASSUME NEW w \in Thread, Writer = {w}, EngineInv(w), Control', Reopen(w)
  PROVE  EngineInv(w)'
  <1>0. /\ MemInv(w) /\ IndexInv(w) /\ PhaseInv(w) /\ HoldInv(w)
        /\ MemTypes /\ IndexTypes /\ pc \in [Thread -> EngineLabel]
        /\ level0 \in Seq(Id) /\ Len(level0) \in Nat
    BY LenProperties DEF EngineInv, Control, IndexTypes
  <1>1. /\ phase = "closed" /\ pc[w] = "idle" /\ pc' = pc /\ ret' = ret
        /\ arg' = arg /\ size' = size /\ UNCHANGED memory
        /\ current' = current /\ frozen' = frozen /\ new_id' = new_id
        /\ build_failed' = build_failed /\ store' = store /\ flushed' = flushed
        /\ new_sst' = new_sst /\ files' = files
    BY <1>0 DEF Reopen, vars, memory, history, PhaseInv
  <1>2. MemTypes' /\ BytesInv'
    <2>1. \A t \in Thread : At(t, "get_frozen")' => At(t, "get_frozen")
      BY <1>1 DEF At
    <2>2. store' \in [Version -> Val \cup {None}] /\ flushed' \in [Version -> Val \cup {None}]
      BY <1>0, <1>1 DEF MemTypes
    <2> QED
      BY <1>1, <2>1, <2>2, IndexKeeps
  <1>3. MemInv(w)'
    BY <1>0, <1>1 DEF MemInv, IndexLabel
  <1>4. current.bytes < Limit
    BY <1>0, <1>1, Sizes, EngineAssumption DEF PhaseInv
  <1>5. Flight(w)' = Flight(w)
    BY <1>1 DEF Flight, IndexLabel
  <1>6. ASSUME Indexed' = Indexed PROVE HoldInv(w)'
    <2>1. Held(w)' = Held(w) /\ Stored(w)' = Stored(w)
      BY <1>1, <1>5, <1>6 DEF Stored, Held
    <2> QED
      BY <1>0, <1>1, <2>1 DEF HoldInv, Nothing
  <1>7. CASE phase' = "failed" /\ UNCHANGED index
    <2>1. level0' = level0 /\ ssts' = ssts
      BY <1>7 DEF index
    <2>2. Indexed' = Indexed
      BY <2>1 DEF Indexed
    <2>3. IndexTypes' /\ IndexInv(w)'
      BY <1>0, <1>1, <2>1 DEF IndexTypes, IndexInv, IndexLabel, FlushLabel
    <2>4. PhaseInv(w)'
      BY <1>1, <1>7 DEF PhaseInv, SizeLabel
    <2> QED
      BY <1>2, <1>3, <1>6, <2>2, <2>3, <2>4 DEF EngineInv
  <1>8. CASE /\ \A i \in Id : files[i] = Absent
             /\ phase' = "open" /\ level0' = <<>> /\ ssts' = [i \in Id |-> Absent]
    <2>1. level0 = <<>>
      <3>1. ASSUME Len(level0) # 0 PROVE FALSE
        <4>1. /\ 1 \in 1 .. Len(level0) /\ ssts[level0[1]] \in Table
              /\ files[level0[1]] = ssts[level0[1]]
          BY <1>0, <3>1 DEF IndexInv
        <4>2. level0[1] \in Id
          BY <1>0, <4>1, ElementOfSeq
        <4> QED
          BY <1>8, <4>1, <4>2, SstAssumption
      <3> QED
        BY <1>0, <3>1, EmptySeq
    <2>2. level0' = level0 /\ Len(level0) = 0 /\ DOMAIN level0 = {}
      BY <1>8, <2>1, NoIndex
    <2>3. Indexed' = Indexed
      BY <2>2 DEF Indexed
    <2>4. IndexTypes' /\ IndexInv(w)'
      <3>1. 1 .. Len(level0) = {}
        BY <2>2
      <3> QED
        BY <1>0, <1>1, <1>8, <2>2, <3>1, EngineAssumption
           DEF IndexTypes, IndexInv, IndexLabel, FlushLabel
    <2>5. PhaseInv(w)'
      BY <1>1, <1>4, <1>8 DEF PhaseInv, SizeLabel
    <2> QED
      BY <1>2, <1>3, <1>6, <2>3, <2>4, <2>5 DEF EngineInv
  <1> QED
    BY <1>7, <1>8 DEF Reopen

-----------------------------------------------------------------------------
(* The invariant of an engine with one writer.                             *)

LEMMA EngineInitial ==
  ASSUME NEW w \in Thread, EngineInit PROVE EngineInv(w)
  <1>1. /\ current = EmptyTable /\ frozen = <<>> /\ frozen_bytes = 0
        /\ pc = [t \in Thread |-> "idle"] /\ arg = [t \in Thread |-> NoArg]
        /\ size = [t \in Thread |-> 0] /\ build_failed = FALSE
        /\ store = [v \in Version |-> None] /\ flushed = [v \in Version |-> None]
        /\ level0 = <<>> /\ ssts = [i \in Id |-> Absent] /\ files = [i \in Id |-> Absent]
        /\ new_id = [t \in Thread |-> 0] /\ new_sst = [t \in Thread |-> None]
        /\ phase = "open"
    BY DEF EngineInit, Init
  <1>2. MemTypes
    <2>1. NoArg \in [kvs : Seq(Key \X Val), keys : Seq(Key), tranc : Tranc]
      <3>1. 0 \in Tranc /\ <<>> \in Seq(Key \X Val) /\ <<>> \in Seq(Key)
        BY MemtableAssumption DEF Tranc
      <3> QED
        BY <3>1 DEF NoArg
    <2>2. \A t \in Thread : ~At(t, "get_frozen")
      BY <1>1 DEF At
    <2>3. frozen \in Seq(Table) /\ frozen_bytes \in Int /\ size \in [Thread -> Int]
      BY <1>1
    <2>4. store \in [Version -> Val \cup {None}] /\ flushed \in [Version -> Val \cup {None}]
      BY <1>1
    <2>5. arg \in [Thread -> [kvs : Seq(Key \X Val), keys : Seq(Key), tranc : Tranc]]
      BY <1>1, <2>1
    <2> QED
      BY <1>1, <2>2, <2>3, <2>4, <2>5, EmptyTableType DEF MemTypes
  <1>3. BytesInv
    BY <1>1, NothingSummed, EmptyMeasured DEF BytesInv
  <1>4. MemInv(w)
    BY <1>1 DEF MemInv, IndexLabel
  <1>5. Indexed = <<>> /\ Len(level0) = 0
    BY <1>1, NoIndex
  <1>6. IndexTypes
    BY <1>1, EngineAssumption DEF IndexTypes, Sst, Id
  <1>7. IndexInv(w)
    <2>1. 1 .. Len(level0) = {}
      BY <1>5
    <2> QED
      BY <1>1, <1>5, <2>1, EngineAssumption DEF IndexInv, IndexLabel, FlushLabel
  <1>8. PhaseInv(w)
    BY <1>1, EngineAssumption DEF PhaseInv, SizeLabel, EmptyTable
  <1>9. HoldInv(w)
    <2>1. Stored(w) = <<>>
      <3>1. Flight(w) = <<>>
        BY <1>1 DEF Flight, IndexLabel
      <3> QED
        BY <1>5, <3>1, ConcatEmptySeq DEF Stored
    <2>2. Held(w) = <<EmptyTable>>
      <3>1. <<EmptyTable>> \in Seq(Table)
        BY EmptyTableType
      <3> QED
        BY <1>1, <2>1, <3>1, ConcatEmptySeq DEF Held
    <2>3. ASSUME NEW v \in Version
          PROVE  FoundIn(<<>>, Nothing, v, None) /\ FoundIn(<<EmptyTable>>, Nothing, v, None)
      BY <2>3 DEF FoundIn, Nothing, EmptyTable
    <2> QED
      BY <1>1, <2>1, <2>2, <2>3 DEF HoldInv
  <1> QED
    BY <1>2, <1>3, <1>4, <1>6, <1>7, <1>8, <1>9, ControlInit DEF EngineInv

\* Each step of the engine, by whoever makes it.
LEMMA EngineKeeps ==
  ASSUME NEW w \in Thread, Writer = {w}, Ratio <= MaxId, EngineInv(w), [EngineNext]_allvars
  PROVE  EngineInv(w)'
  <1>0. Control /\ MemTypes /\ Control'
    BY ControlStep DEF EngineInv
  <1>1. ASSUME NEW t \in Thread, Lookup(t) PROVE EngineInv(w)'
    BY <1>0, <1>1, LookupReads, ReadsKeep
  <1>2. ASSUME NEW t \in Thread, t # w, EngineStep(t) \/ EngineCall(t) PROVE EngineInv(w)'
    BY <1>0, <1>1, <1>2, OthersLookUp
  <1>3. CASE EngineStep(w)
    <2>1. CASE MemStep(w)
      BY <1>0, <1>1, <2>1, WriterMem
    <2>2. CASE MemGetCur(w) \/ MemGetFrozen(w) \/ GetHit(w) \/ GetNowhere(w) \/ GetSst(w)
      BY <1>1, <2>2 DEF Lookup
    <2>3. CASE MemPut(w)
      BY <1>0, <2>3, WriterPut
    <2>4. CASE MemClear(w)
      BY <1>0, <2>4, WriterClear
    <2>5. CASE MemFlushNothing(w)
      \* A flush begins only when the table has a size.
      <3>1. pc[w] = "flush_lock_cur" /\ current.bytes = 0 /\ MemInv(w)
        BY <2>5 DEF MemFlushNothing, FlushNothing, At, EngineInv
      <3> QED
        BY <3>1 DEF MemInv
    <2>6. CASE MemFlushFreeze(w)
      BY <1>0, <2>6, WriterFreeze
    <2>7. CASE MemFlushBuild(w)
      BY <1>0, <2>7, WriterBuild
    <2>8. CASE MemFlushFail(w)
      BY <1>0, <2>8, WriterFail
    <2>9. CASE LimitCur(w) \/ BatchSize(w) \/ LimitTotal(w) \/ FlushSize(w) \/ FlushNone(w)
               \/ DestroySize(w)
      BY <1>0, <2>9, WriterWalks
    <2>10. CASE FlushCompact(w) \/ Crash(w) \/ Drained(w)
      BY <1>0, <1>1, <2>10, WriterPhase DEF Lookup
    <2>11. CASE FlushId(w)
      BY <1>0, <2>11, WriterId
    <2>12. CASE IndexStore(w)
      BY <1>0, <2>12, WriterStore
    <2>13. CASE IndexPush(w)
      BY <1>0, <2>13, WriterPush
    <2>14. CASE ClearLevels(w)
      BY <1>0, <2>14, WriterErase
    <2>15. CASE ClearSsts(w)
      BY <1>0, <2>15, WriterForget
    <2> QED
      BY <1>3, <2>1, <2>2, <2>3, <2>4, <2>5, <2>6, <2>7, <2>8, <2>9, <2>10, <2>11, <2>12,
         <2>13, <2>14, <2>15 DEF EngineStep
  <1>4. CASE EngineCall(w)
    <2>1. CASE CallLookup(w)
      BY <1>1, <2>1 DEF Lookup
    <2>2. CASE CallPut(w) \/ CallErase(w)
      BY <1>0, <2>2, WriterWalks
    <2>3. CASE Close(w)
      BY <1>0, <2>3, WriterPhase
    <2>4. CASE Reopen(w)
      BY <1>0, <2>4, WriterReopen
    <2> QED
      BY <1>4, <2>1, <2>2, <2>3, <2>4 DEF EngineCall
  <1>5. CASE UNCHANGED allvars
    <2>1. UNCHANGED held /\ size' = size /\ arg' = arg /\ pc' = pc /\ ret' = ret
          /\ phase' = phase
      BY <1>5 DEF allvars, vars, engine, history, held
    <2>2. /\ current' = current /\ frozen' = frozen /\ frozen_bytes' = frozen_bytes
          /\ store' = store /\ flushed' = flushed /\ build_failed' = build_failed
          /\ level0' = level0 /\ ssts' = ssts /\ files' = files
          /\ new_id' = new_id /\ new_sst' = new_sst
      BY <2>1 DEF held, memory, index
    <2>3. MemTypes' /\ BytesInv' /\ MemInv(w)' /\ IndexTypes' /\ IndexInv(w)'
      BY <2>1, <2>2 DEF EngineInv, MemTypes, BytesInv, MemInv, IndexTypes, IndexInv, At
    <2>4. PhaseInv(w)'
      BY <2>1, <2>2 DEF EngineInv, PhaseInv
    <2>5. HoldInv(w)'
      <3>1. Flight(w)' = Flight(w) /\ Indexed' = Indexed
        BY <2>1, <2>2 DEF Flight, Indexed
      <3>2. Held(w)' = Held(w) /\ Stored(w)' = Stored(w)
        BY <2>2, <3>1 DEF Held, Stored
      <3> QED
        BY <2>2, <3>2 DEF HoldInv, EngineInv
    <2> QED
      BY <1>0, <2>3, <2>4, <2>5 DEF EngineInv
  <1> QED
    BY <1>0, <1>2, <1>3, <1>4, <1>5, Steps

\* With one writer and any number of readers, what the engine holds is what
\* EngineInv says. More than one writer breaks it: put, flush and clear change
\* level_sst_ids and ssts under no lock. Level 0 never needs an id above the
\* ratio, so the ids of the model are enough when they reach it.
THEOREM EngineInvariance ==
  ASSUME NEW w \in Thread, Writer = {w}, Ratio <= MaxId
  PROVE  EngineSpec => []EngineInv(w)
  <1>1. EngineInit => EngineInv(w)
    BY EngineInitial
  <1>2. EngineInv(w) /\ [EngineNext]_allvars => EngineInv(w)'
    BY EngineKeeps
  <1> QED
    BY <1>1, <1>2, PTL DEF EngineSpec

\* Every state of the engine is well typed, and no id leaves the ids of the
\* model: a flush is refused before level 0 needs one more.
THEOREM EngineTypeCorrect ==
  ASSUME NEW w \in Thread, Writer = {w}, Ratio <= MaxId
  PROVE  EngineSpec => []EngineTypeOK
  <1>1. EngineInv(w) => EngineTypeOK
    BY DEF EngineInv, Control, IndexTypes, PhaseInv, EngineTypeOK
  <1> QED
    BY <1>1, EngineInvariance, PTL

\* Ids fall from the front of level_sst_ids[0], each is that of an SST, and
\* its file has the SST's content, through flushes, clear and reopening.
THEOREM IndexStaysSound ==
  ASSUME NEW w \in Thread, Writer = {w}, Ratio <= MaxId
  PROVE  EngineSpec => []IndexSound
  <1>1. EngineInv(w) => IndexSound
    <2> SUFFICES ASSUME EngineInv(w) PROVE IndexSound
      OBVIOUS
    <2>1. Len(level0) \in Nat /\ DOMAIN level0 = 1 .. Len(level0)
      BY LenProperties DEF EngineInv, IndexTypes
    <2>2. ASSUME NEW i \in 1 .. Len(level0)
          PROVE  /\ level0[i] = Len(level0) - i
                 /\ ssts[level0[i]] \in Table /\ files[level0[i]] = ssts[level0[i]]
      BY DEF EngineInv, IndexInv
    <2>3. ASSUME NEW i \in 1 .. Len(level0), NEW j \in 1 .. i - 1
          PROVE  level0[j] > level0[i]
      <3>1. j \in 1 .. Len(level0) /\ j < i
        BY <2>1
      <3> QED
        BY <2>1, <2>2, <3>1
    <2> QED
      BY <2>1, <2>2, <2>3, SstAssumption DEF IndexSound
  <1> QED
    BY <1>1, EngineInvariance, PTL

\* From the put of a version to a clear, or to a build that threw, the
\* memtable, the SST on its way into the index or the index holds it, newest
\* first.
THEOREM EngineLosesNothing ==
  ASSUME NEW w \in Thread, Writer = {w}, Ratio <= MaxId
  PROVE  EngineSpec => []EngineNoEntryLost
  <1>1. EngineInv(w) => EngineNoEntryLost
    <2> SUFFICES ASSUME EngineInv(w) PROVE EngineNoEntryLost
      OBVIOUS
    <2>1. InFlight = Flight(w)
      <3>1. \A t \in Thread \ {w} : pc[t] \notin IndexLabel
        BY DEF EngineInv, Control, Fits, GetLabel, IndexLabel
      <3>2. pc[w] \in IndexLabel => new_sst[w] # None
        BY SstAssumption DEF EngineInv, IndexInv
      <3>3. Pending = IF pc[w] \in IndexLabel THEN {w} ELSE {}
        BY <3>1, <3>2 DEF Pending, IndexLabel
      <3>4. CASE pc[w] \in IndexLabel
        <4>1. Pending = {w}
          BY <3>3, <3>4
        <4>2. (CHOOSE t \in Pending : TRUE) = w
          BY <4>1
        <4> QED
          BY <3>4, <4>1, <4>2 DEF InFlight, Flight
      <3>5. CASE pc[w] \notin IndexLabel
        BY <3>3, <3>5 DEF InFlight, Flight
      <3> QED
        BY <3>4, <3>5
    <2>2. Layers \o InFlight \o Indexed = Held(w)
      <3>1. /\ <<current>> \in Seq(Table) /\ frozen \in Seq(Table)
            /\ Flight(w) \in Seq(Table) /\ Indexed \in Seq(Table)
            /\ Layers \in Seq(Table) /\ Stored(w) \in Seq(Table)
        <4>1. current \in Table /\ frozen \in Seq(Table)
          BY DEF EngineInv, MemTypes
        <4> QED
          BY <4>1, StoredType, FrozenType DEF Layers
      <3>2. (Layers \o Flight(w)) \o Indexed = Layers \o (Flight(w) \o Indexed)
        BY <3>1, ConcatAssociative
      <3>3. (<<current>> \o frozen) \o Stored(w) = <<current>> \o (frozen \o Stored(w))
        BY <3>1, ConcatAssociative
      <3> QED
        BY <2>1, <3>2, <3>3 DEF Held, Stored, Layers
    <2> QED
      BY <2>2 DEF EngineInv, HoldInv, EngineNoEntryLost
  <1> QED
    BY <1>1, EngineInvariance, PTL

\* A call that has returned leaves less than the limit in memory, as long as
\* level 0 has room.
THEOREM MemoryStaysBounded ==
  ASSUME NEW w \in Thread, Writer = {w}, Ratio <= MaxId
  PROVE  EngineSpec => []MemoryBounded
  <1>1. EngineInv(w) => MemoryBounded
    <2> SUFFICES ASSUME EngineInv(w), Quiet, phase = "open", Len(level0) <= Ratio
                 PROVE  current.bytes + frozen_bytes < Limit
      BY DEF MemoryBounded
    <2>1. pc[w] = "idle"
      BY DEF Quiet, At
    <2>2. frozen_bytes = 0 /\ current.bytes \in Int
      BY <2>1, Sizes
    <2>3. current.bytes < Limit
      BY <2>1 DEF EngineInv, PhaseInv, ReadLabel
    <2> QED
      BY <2>2, <2>3
  <1> QED
    BY <1>1, EngineInvariance, PTL

\* The destructor leaves every version in a file that the index names.
THEOREM DestructorDrains ==
  ASSUME NEW w \in Thread, Writer = {w}, Ratio <= MaxId
  PROVE  EngineSpec => []ClosedIsDrained
  <1>1. EngineInv(w) => ClosedIsDrained
    <2> SUFFICES ASSUME EngineInv(w), phase = "closed", ~build_failed, NEW v \in Version
                 PROVE  FoundIn([i \in DOMAIN level0 |-> files[level0[i]]], Nothing, v,
                                store[v])
      BY DEF ClosedIsDrained
    <2>1. pc[w] = "idle" /\ current.kv = EmptyTable.kv /\ current \in Table
      BY DEF EngineInv, PhaseInv, MemTypes
    <2>2. frozen = <<>> /\ Flight(w) = <<>> /\ Indexed \in Seq(Table)
      BY <2>1, Sizes, StoredType DEF Flight, IndexLabel
    <2>3. Held(w) = <<current>> \o Indexed
      BY <2>2, ConcatEmptySeq DEF Held, Stored
    <2>4. FoundIn(<<current>> \o Indexed, Nothing, v, store[v])
      BY <2>3 DEF EngineInv, HoldInv
    <2>5. current.kv[v] = None
      BY <2>1 DEF EmptyTable
    <2>6. FoundIn(Indexed, Nothing, v, store[v])
      BY <2>1, <2>2, <2>4, <2>5, RestFound
    <2>7. Indexed = [i \in DOMAIN level0 |-> files[level0[i]]]
      <3>1. DOMAIN level0 = 1 .. Len(level0)
        BY LenProperties DEF EngineInv, IndexTypes
      <3>2. \A i \in DOMAIN level0 : files[level0[i]] = ssts[level0[i]]
        BY <3>1 DEF EngineInv, IndexInv
      <3> QED
        BY <3>2 DEF Indexed
    <2> QED
      BY <2>6, <2>7
  <1> QED
    BY <1>1, EngineInvariance, PTL
-----------------------------------------------------------------------------
(* The gets of the writer.                                                 *)

\* The latest of some transaction ids.
LEMMA LatestExists ==
  ASSUME NEW T \in SUBSET Tranc, T # {}
  PROVE  \E r \in T : \A q \in T : q <= r
  <1> DEFINE D == {MaxTranc - r : r \in T}
  <1>1. MaxTranc \in Nat /\ \A r \in T : r \in Nat /\ r <= MaxTranc
    BY MemtableAssumption DEF Tranc
  <1>2. D \in SUBSET Nat /\ D # {}
    BY <1>1
  <1>3. PICK n \in D : \A m \in D : n <= m
    BY <1>2, NatMin
  <1>4. PICK r \in T : n = MaxTranc - r
    OBVIOUS
  <1>5. ASSUME NEW q \in T PROVE q <= r
    <2>1. n <= MaxTranc - q
      BY <1>3
    <2> QED
      BY <1>1, <1>4, <2>1
  <1> QED
    BY <1>5

\* What a search of one table finds is its latest visible version.
LEMMA TableGetIs ==
  ASSUME NEW tab \in Table, NEW k \in Key, NEW tr \in Tranc
  PROVE  /\ Visible(tab, k, tr) = {} => TableGet(tab, k, tr) = None
         /\ Visible(tab, k, tr) # {} =>
              \E r \in Visible(tab, k, tr) :
                /\ \A q \in Visible(tab, k, tr) : q <= r
                /\ r = CHOOSE s \in Visible(tab, k, tr) :
                         \A q \in Visible(tab, k, tr) : q <= s
                /\ tab.kv[<<k, r>>] \in Val
                /\ TableGet(tab, k, tr) = [tranc |-> r, val |-> tab.kv[<<k, r>>]]
                /\ TableGet(tab, k, tr) # None
  <1> DEFINE S == Visible(tab, k, tr)
             r == CHOOSE s \in S : \A q \in S : q <= s
  <1>1. ASSUME S = {} PROVE TableGet(tab, k, tr) = None
    BY <1>1 DEF TableGet
  <1>2. ASSUME S # {}
        PROVE  /\ r \in S /\ \A q \in S : q <= r
               /\ tab.kv[<<k, r>>] \in Val
               /\ TableGet(tab, k, tr) = [tranc |-> r, val |-> tab.kv[<<k, r>>]]
               /\ TableGet(tab, k, tr) # None
    <2>1. S \in SUBSET Tranc
      BY DEF Visible
    <2>2. r \in S /\ \A q \in S : q <= r
      <3>1. \E s \in S : \A q \in S : q <= s
        BY <1>2, <2>1, LatestExists
      <3> HIDE DEF S
      <3> QED
        BY <3>1
    <2>3. r \in Tranc /\ tab.kv[<<k, r>>] # None
      BY <2>2 DEF Visible
    <2> HIDE DEF r
    <2>4. tab.kv[<<k, r>>] \in Val
      <3>1. <<k, r>> \in Version
        BY <2>3 DEF Version
      <3> QED
        BY <2>3, <3>1 DEF Table
    <2>5. TableGet(tab, k, tr) = [tranc |-> r, val |-> tab.kv[<<k, r>>]]
      BY <1>2 DEF TableGet, r
    <2>6. TableGet(tab, k, tr) # None
      BY <2>3, <2>4, <2>5, SstAssumption
    <2> QED
      BY <2>2, <2>4, <2>5, <2>6
  <1> QED
    BY <1>1, <1>2

ReplyTypes ==
  /\ DOMAIN node = Thread /\ DOMAIN reply = Thread
  /\ \A t \in Thread : "val" \in DOMAIN reply[t]

\* The node a search of the active table leaves.
Hit(t) ==
  LET r == TableGet(current, reply[t].key, reply[t].tranc)
  IN  IF r = None THEN NoNode
      ELSE [v |-> <<reply[t].key, r.tranc>>, val |-> r.val, live |-> TRUE]

Asks(t) == arg[t].keys = <<reply[t].key>> /\ arg[t].tranc = reply[t].tranc

\* How far the get of thread t is.
GetOf(t) ==
  /\ pc[t] \in GetLabel \cup {"get_reply"} => reply[t].key \in Key /\ reply[t].tranc \in Tranc
  /\ pc[t] \in {"get_lock_frozen", "get_lock_cur", "get_frozen"} => Asks(t)
  /\ pc[t] = "get_frozen" => TableGet(current, reply[t].key, reply[t].tranc) = None
  /\ pc[t] = "get_cur" => Asks(t) \/ (arg[t].keys = <<>> /\ node[t] = Hit(t))
  /\ pc[t] = "get_reply" => node[t] = Hit(t)

LEMMA ReplyStep ==
  ASSUME ReplyTypes, [EngineNext]_allvars PROVE ReplyTypes'
  <1>1. ASSUME UNCHANGED reply, node' = node \/ DOMAIN node' = Thread PROVE ReplyTypes'
    BY <1>1 DEF ReplyTypes
  <1>2. ASSUME NEW t \in Thread,
               MemStep(t) \/ MemPut(t) \/ MemGetCur(t) \/ MemGetFrozen(t) \/ MemClear(t)
               \/ MemFlushNothing(t) \/ MemFlushFreeze(t) \/ MemFlushBuild(t)
               \/ MemFlushFail(t)
        PROVE  ReplyTypes'
    BY <1>1, <1>2 DEF ReplyTypes, MemStep, MemPut, MemGetCur, MemGetFrozen, MemClear,
       MemFlushNothing, MemFlushFreeze, MemFlushBuild, MemFlushFail, Retire, engine, reader
  <1>3. ASSUME NEW t \in Thread,
               LimitCur(t) \/ BatchSize(t) \/ LimitTotal(t) \/ FlushSize(t) \/ FlushNone(t)
               \/ FlushCompact(t) \/ FlushId(t) \/ IndexStore(t) \/ IndexPush(t)
               \/ Crash(t) \/ ClearLevels(t) \/ ClearSsts(t) \/ DestroySize(t) \/ Drained(t)
               \/ Close(t) \/ Reopen(t)
        PROVE  ReplyTypes'
    BY <1>1, <1>3 DEF LimitCur, BatchSize, LimitTotal, FlushSize, FlushNone, FlushCompact,
       FlushId, TakeId, IndexStore, IndexPush, Crash, ClearLevels, ClearSsts, DestroySize,
       Drained, Close, Reopen, TotalSize, engine, reader
  <1>4. ASSUME NEW t \in Thread, NEW r, Reply(t, r) PROVE ReplyTypes'
    BY <1>4 DEF Reply, ReplyTypes
  <1>5. ASSUME NEW t \in Thread, GetHit(t) \/ GetNowhere(t) \/ GetSst(t) PROVE ReplyTypes'
    BY <1>4, <1>5 DEF GetHit, GetNowhere, GetSst
  <1>6. ASSUME NEW t \in Thread, NEW l, NEW back, NEW a, CallEngine(t, l, back, a)
        PROVE  ReplyTypes'
    BY <1>6 DEF CallEngine, ReplyTypes, NoReply
  <1>7. ASSUME NEW t \in Thread, CallPut(t) \/ CallLookup(t) \/ CallErase(t)
        PROVE  ReplyTypes'
    <2>1. \E l, back, a : CallEngine(t, l, back, a)
      BY <1>7, Zenon DEF CallPut, CallLookup, CallErase
    <2> QED
      BY <1>6, <2>1
  <1>8. CASE UNCHANGED allvars
    BY <1>1, <1>8 DEF allvars, engine, reader
  <1> QED
    BY <1>2, <1>3, <1>5, <1>7, <1>8 DEF EngineNext, EngineDone, EngineStep, EngineCall

LEMMA GetKept ==
  ASSUME NEW w \in Thread, GetOf(w), current' = current, pc'[w] = pc[w],
         arg'[w] = arg[w], node'[w] = node[w], reply'[w] = reply[w]
  PROVE  GetOf(w)'
  <1>1. TableGet(current, reply[w].key, reply[w].tranc)'
          = TableGet(current, reply[w].key, reply[w].tranc)
    BY DEF TableGet, Visible
  <1>2. Hit(w)' = Hit(w)
    BY <1>1 DEF Hit
  <1> QED
    BY <1>1, <1>2 DEF GetOf, Asks

\* What the writer does when it is not in a get does not begin one.
LEMMA NoGet ==
  ASSUME NEW w \in Thread, Writer = {w}, EngineInv(w), EngineStep(w) \/ EngineCall(w),
         ~Lookup(w)
  PROVE  pc'[w] \notin GetLabel \cup {"get_reply"}
  <1>0. Fits(w, pc[w], ret[w]) /\ pc \in [Thread -> EngineLabel]
    BY DEF EngineInv, Control
  <1>1. CASE MemStep(w)
    <2>1. PutLock(w) \/ PutUnlock(w) \/ SizeCur(w) \/ SizeFrozen(w) \/ ClearLock(w)
          \/ FlushLock(w)
      BY <1>1 DEF MemStep, Lookup
    <2> QED
      BY <1>0, <2>1 DEF PutLock, PutUnlock, SizeCur, SizeFrozen, ClearLock, FlushLock,
         LockFrozen, Goto, Return, At, Fits, GetLabel, SizeLabel
  <1>2. CASE MemPut(w) \/ MemClear(w) \/ MemFlushNothing(w) \/ MemFlushFreeze(w)
             \/ MemFlushBuild(w) \/ MemFlushFail(w)
    BY <1>0, <1>2 DEF MemPut, MemClear, MemFlushNothing, MemFlushFreeze, MemFlushBuild,
       MemFlushFail, PutApply, Clear, FlushNothing, FlushFreeze, FlushBuild, FlushFail,
       Goto, Return, At, Fits, GetLabel, FlushLabel
  <1>3. CASE LimitCur(w) \/ BatchSize(w) \/ LimitTotal(w) \/ FlushSize(w) \/ FlushNone(w)
             \/ FlushCompact(w) \/ FlushId(w) \/ IndexStore(w) \/ IndexPush(w) \/ Crash(w)
             \/ ClearLevels(w) \/ ClearSsts(w) \/ DestroySize(w) \/ Drained(w)
    BY <1>0, <1>3 DEF LimitCur, BatchSize, LimitTotal, FlushSize, FlushNone, FlushCompact,
       FlushId, TakeId, IndexStore, IndexPush, Crash, ClearLevels, ClearSsts, DestroySize,
       Drained, TotalSize, Caller, Goto, GetLabel
  <1>4. CASE CallPut(w) \/ CallErase(w)
    <2>1. \E l \in {"put_lock", "clear_lock_frozen"} : \E back, a : CallEngine(w, l, back, a)
      BY <1>4, Zenon DEF CallPut, CallErase
    <2> QED
      BY <1>0, <2>1 DEF CallEngine, Enter, GetLabel
  <1>5. CASE Close(w)
    BY <1>0, <1>5 DEF Close, Goto, GetLabel
  <1>6. CASE Reopen(w)
    <2>1. pc[w] = "idle" /\ pc' = pc
      BY <1>6 DEF Reopen, vars, EngineInv, PhaseInv
    <2> QED
      BY <2>1 DEF GetLabel
  <1> QED
    BY <1>1, <1>2, <1>3, <1>4, <1>5, <1>6 DEF EngineStep, EngineCall, Lookup

LEMMA GetStep ==
  ASSUME NEW w \in Thread, Writer = {w}, EngineInv(w), ReplyTypes, GetOf(w),
         [EngineNext]_allvars
  PROVE  GetOf(w)'
  <1>0. /\ Control /\ MemTypes /\ pc \in [Thread -> EngineLabel]
        /\ Fits(w, pc[w], ret[w])
        /\ arg \in [Thread -> [kvs : Seq(Key \X Val), keys : Seq(Key), tranc : Tranc]]
        /\ DOMAIN node = Thread /\ DOMAIN reply = Thread /\ "val" \in DOMAIN reply[w]
    BY DEF EngineInv, MemTypes, Control, ReplyTypes
  <1>1. ASSUME pc'[w] \notin GetLabel \cup {"get_reply"} PROVE GetOf(w)'
    BY <1>1 DEF GetOf, GetLabel
  <1>2. ASSUME NEW t \in Thread, t # w, EngineStep(t) \/ EngineCall(t) PROVE GetOf(w)'
    <2>1. Lookup(t) /\ Reads(t)
      BY <1>0, <1>2, OthersLookUp, LookupReads
    <2>2. /\ current' = current /\ pc'[w] = pc[w] /\ arg'[w] = arg[w]
      BY <1>0, <1>2, <2>1 DEF Reads, Moves, held, memory
    <2>3. node'[w] = node[w] /\ reply'[w] = reply[w]
      <3>1. CASE CallLookup(t)
        <4>1. \E l, back, a : CallEngine(t, l, back, a)
          BY <3>1, Zenon DEF CallLookup
        <4> QED
          BY <1>0, <1>2, <4>1 DEF CallEngine
      <3>2. CASE GetHit(t) \/ GetNowhere(t) \/ GetSst(t)
        <4>1. \E r : Reply(t, r)
          BY <3>2 DEF GetHit, GetNowhere, GetSst
        <4> QED
          BY <1>0, <1>2, <4>1 DEF Reply
      <3> QED
        BY <1>0, <1>2, <2>1, <3>1, <3>2
           DEF Lookup, MemStep, MemGetCur, MemGetFrozen, Crash, engine, reader
    <2> QED
      BY <2>2, <2>3, GetKept
  <1>3. CASE Lookup(w)
    <2>1. CASE MemStep(w) /\ (GetLockFrozen(w) \/ GetLockCur(w) \/ GetUnlock(w))
      <3>1. /\ current' = current /\ arg' = arg /\ node' = node /\ reply' = reply
            /\ \/ pc[w] = "get_lock_frozen" /\ pc'[w] = "get_lock_cur"
               \/ pc[w] = "get_lock_cur" /\ pc'[w] = "get_cur"
               \/ pc[w] = "get_cur" /\ arg[w].keys = <<>> /\ pc'[w] = "get_reply"
        BY <1>0, <2>1 DEF MemStep, GetLockFrozen, GetLockCur, GetUnlock, memory, engine,
           reader, Goto, Return, At, Fits, GetLabel
      <3>2. TableGet(current, reply[w].key, reply[w].tranc)'
              = TableGet(current, reply[w].key, reply[w].tranc)
        BY <3>1 DEF TableGet, Visible
      <3>3. Hit(w)' = Hit(w)
        BY <3>1, <3>2 DEF Hit
      <3>4. arg[w].keys = <<>> => ~Asks(w)
        BY DEF Asks
      <3> QED
        BY <3>1, <3>3, <3>4 DEF GetOf, Asks, GetLabel
    <2>2. CASE MemGetCur(w)
      <3> DEFINE r == TableGet(current, reply[w].key, reply[w].tranc)
      <3>1. /\ pc[w] = "get_cur" /\ arg[w].keys # <<>> /\ current' = current
            /\ reply' = reply
        BY <2>2 DEF MemGetCur, GetCur, At, memory
      <3>2. Asks(w) /\ reply[w].key \in Key /\ reply[w].tranc \in Tranc
        BY <3>1 DEF GetOf, GetLabel
      <3>3. /\ Head(arg[w].keys) = reply[w].key /\ arg[w].tranc = reply[w].tranc
            /\ Tail(arg[w].keys) = <<>>
        BY <3>2 DEF Asks
      <3>4. node'[w] = NodeOf(w, r, TRUE) /\ NodeOf(w, r, TRUE) = Hit(w)
        BY <1>0, <2>2, <3>3 DEF MemGetCur, NodeOf, Hit
      <3>5. TableGet(current, reply[w].key, reply[w].tranc)' = r
        BY <3>1 DEF TableGet, Visible
      <3>6. Hit(w)' = Hit(w)
        BY <3>1, <3>5 DEF Hit
      <3>7. \/ r # None /\ pc'[w] = "get_cur" /\ arg'[w].keys = <<>>
            \/ r = None /\ pc'[w] = "get_frozen" /\ arg' = arg
        <4>1. r = TableGet(current, Head(arg[w].keys), arg[w].tranc)
          BY <3>3
        <4>2. \/ r # None /\ Answer(w, r) /\ pc' = pc
              \/ r = None /\ Goto(w, "get_frozen") /\ arg' = arg
          BY <2>2, <4>1 DEF MemGetCur, GetCur
        <4> HIDE DEF r
        <4>3. Answer(w, r) => arg'[w].keys = <<>>
          BY <1>0, <3>3 DEF Answer
        <4>4. Goto(w, "get_frozen") => pc'[w] = "get_frozen"
          BY <1>0 DEF Goto
        <4> QED
          BY <3>1, <4>2, <4>3, <4>4
      <3> HIDE DEF r
      <3> QED
        BY <3>1, <3>2, <3>4, <3>5, <3>6, <3>7 DEF GetOf, GetLabel, Asks
    <2>3. CASE MemGetFrozen(w)
      <3>1. /\ pc[w] = "get_frozen" /\ current' = current /\ reply' = reply
            /\ pc'[w] = "get_cur"
        BY <1>0, <2>3 DEF MemGetFrozen, GetFrozen, At, memory, Goto
      <3>2. Asks(w) /\ reply[w].key \in Key /\ reply[w].tranc \in Tranc
            /\ TableGet(current, reply[w].key, reply[w].tranc) = None
        BY <3>1 DEF GetOf, GetLabel
      <3>3. Tail(arg[w].keys) = <<>> /\ arg'[w].keys = <<>>
        <4>1. Tail(arg[w].keys) = <<>>
          BY <3>2 DEF Asks
        <4> QED
          BY <1>0, <2>3, <4>1 DEF MemGetFrozen, GetFrozen, Answer
      <3>4. frozen = <<>>
        BY <3>1, Sizes
      <3>5. FrozenGet(frozen, Head(arg[w].keys), arg[w].tranc) = None
        <4>1. DOMAIN frozen = {}
          BY <3>4
        <4> QED
          BY <4>1 DEF FrozenGet
      <3>6. node'[w] = NoNode
        BY <1>0, <2>3, <3>5 DEF MemGetFrozen, NodeOf
      <3>7. TableGet(current, reply[w].key, reply[w].tranc)' = None
        BY <3>1, <3>2 DEF TableGet, Visible
      <3>8. Hit(w)' = NoNode
        BY <3>7 DEF Hit
      <3> QED
        BY <3>1, <3>2, <3>3, <3>6, <3>8 DEF GetOf, GetLabel
    <2>4. CASE GetHit(w) \/ GetNowhere(w) \/ GetSst(w) \/ Crash(w)
      BY <1>0, <1>1, <2>4 DEF GetHit, GetNowhere, GetSst, Reply, Crash, Goto, GetLabel
    <2>5. CASE CallLookup(w)
      <3>1. PICK k \in Key, tr \in Tranc :
              CallEngine(w, "get_lock_frozen", "get_reply",
                         [NoArg EXCEPT !.keys = <<k>>, !.tranc = tr])
        BY <2>5 DEF CallLookup
      <3>2. pc'[w] = "get_lock_frozen" /\ arg'[w].keys = <<k>> /\ arg'[w].tranc = tr
        BY <1>0, <3>1 DEF CallEngine, Enter, NoArg
      <3>3. reply'[w].key = k /\ reply'[w].tranc = tr
        BY <1>0, <3>1 DEF CallEngine, NoArg
      <3> QED
        BY <3>2, <3>3 DEF GetOf, GetLabel, Asks
    <2> QED
      BY <1>3, <2>1, <2>2, <2>3, <2>4, <2>5 DEF Lookup
  <1>4. CASE (EngineStep(w) \/ EngineCall(w)) /\ ~Lookup(w)
    BY <1>1, <1>4, NoGet
  <1>5. CASE UNCHANGED allvars
    BY <1>5, GetKept DEF allvars, vars, engine, reader, memory
  <1> QED
    BY <1>0, <1>2, <1>3, <1>4, <1>5, Steps

\* What a get that ends in memory replies.
LEMMA GetReplies ==
  ASSUME NEW w \in Thread, Writer = {w}, EngineInv(w), ReplyTypes, GetOf(w),
         [EngineNext]_allvars
  PROVE  GetsPut(w)
  <1> DEFINE k    == reply[w].key
             tr   == reply[w].tranc
             see  == Visible(current, k, tr)
             seen == {r \in Tranc : /\ store[<<k, r>>] # None
                                    /\ tr = 0 \/ r <= tr
                                    /\ level0 = <<>> \/ InMemory(<<k, r>>)}
             last == CHOOSE r \in seen : \A q \in seen : q <= r
             val  == store[<<k, last>>]
  <1> SUFFICES ASSUME pc[w] = "get_reply", pc'[w] = "idle", ~build_failed,
                      node[w] # NoNode \/ level0 = <<>>
               PROVE  reply'[w].val = IF seen = {} \/ val = Tombstone THEN None ELSE val
    BY DEF GetsPut, At
  <1>0. /\ pc \in [Thread -> EngineLabel] /\ current \in Table
        /\ k \in Key /\ tr \in Tranc /\ node[w] = Hit(w)
        /\ DOMAIN reply = Thread /\ "val" \in DOMAIN reply[w]
    BY DEF EngineInv, Control, MemTypes, ReplyTypes, GetOf
  \* The active table has what was last put, and nothing else is looked at.
  <1>1. ASSUME NEW r \in Tranc
        PROVE  /\ current.kv[<<k, r>>] # None =>
                    store[<<k, r>>] = current.kv[<<k, r>>] /\ InMemory(<<k, r>>)
               /\ current.kv[<<k, r>>] = None =>
                    ~InMemory(<<k, r>>) /\ (level0 = <<>> => store[<<k, r>>] = None)
    <2> DEFINE v == <<k, r>>
    <2>1. v \in Version
      BY <1>0, <1>1 DEF Version
    <2>2. /\ frozen = <<>> /\ Indexed \in Seq(Table) /\ <<current>> \in Seq(Table)
          /\ Flight(w) = <<>>
      BY <1>0, Sizes, StoredType DEF Flight, IndexLabel
    <2>3. Held(w) = <<current>> \o Indexed
      BY <2>2, ConcatEmptySeq DEF Held, Stored
    <2>4. FoundIn(<<current>> \o Indexed, Nothing, v, store[v])
      BY <2>1, <2>3 DEF EngineInv, HoldInv
    <2>5. Layers = <<current>>
      BY <2>2, ConcatEmptySeq DEF Layers
    <2>6. DOMAIN Layers = {1} /\ Layers[1] = current
      BY <2>5
    <2>7. InMemory(v) <=> current.kv[v] # None
      BY <2>6 DEF InMemory
    <2>8. /\ DOMAIN (<<current>> \o Indexed) = 1 .. Len(Indexed) + 1
          /\ (<<current>> \o Indexed)[1] = current /\ Len(Indexed) \in Nat
      BY <1>0, <2>2, LayersOf
    <2> HIDE DEF v
    <2>9. ASSUME current.kv[v] # None PROVE store[v] = current.kv[v]
      <3> DEFINE L == <<current>> \o Indexed
      <3>1. /\ DOMAIN L = 1 .. Len(Indexed) + 1 /\ L[1] = current /\ Len(Indexed) \in Nat
            /\ FoundIn(L, Nothing, v, store[v])
        BY <2>4, <2>8
      <3> HIDE DEF L
      <3>2. 1 \in DOMAIN L
        BY <3>1
      <3>3. PICK i \in DOMAIN L : L[i].kv[v] = store[v] /\ \A j \in 1 .. i - 1 : L[j].kv[v] = None
        BY <2>9, <3>1, <3>2 DEF FoundIn
      <3>4. i = 1
        BY <2>9, <3>1, <3>3
      <3> QED
        BY <3>1, <3>3, <3>4
    <2>10. ASSUME current.kv[v] = None, level0 = <<>> PROVE store[v] = None
      <3>1. FoundIn(Indexed, Nothing, v, store[v])
        BY <1>0, <2>1, <2>2, <2>4, <2>10, RestFound
      <3>2. DOMAIN Indexed = {}
        BY <2>10, NoIndex
      <3> QED
        BY <2>1, <3>1, <3>2 DEF FoundIn, Nothing
    <2> QED
      BY <2>7, <2>9, <2>10 DEF v
  <1>2. seen = see
    BY <1>1 DEF Visible
  <1> HIDE DEF seen
  <1>3. ASSUME see = {} PROVE node[w] = NoNode
    BY <1>0, <1>3, TableGetIs DEF Hit
  <1>4. ASSUME see # {}
        PROVE  /\ val = current.kv[<<k, last>>] /\ val \in Val
               /\ node[w] # NoNode /\ node[w].val = val
    <2>1. PICK r \in see :
            /\ r = CHOOSE s \in see : \A q \in see : q <= s
            /\ current.kv[<<k, r>>] \in Val
            /\ TableGet(current, k, tr) = [tranc |-> r, val |-> current.kv[<<k, r>>]]
            /\ TableGet(current, k, tr) # None
      BY <1>0, <1>4, TableGetIs
    <2>2. last = r
      BY <1>2, <2>1
    <2> HIDE DEF last
    <2>3. r \in Tranc /\ current.kv[<<k, r>>] # None
      BY <2>1 DEF Visible
    <2>4. val = current.kv[<<k, r>>]
      BY <1>1, <2>2, <2>3
    <2> DEFINE hit == TableGet(current, k, tr)
    <2>5. node[w] = [v |-> <<k, hit.tranc>>, val |-> hit.val, live |-> TRUE]
      BY <1>0, <2>1, Zenon DEF Hit
    <2>6. hit.val = current.kv[<<k, r>>]
      BY <2>1
    <2> HIDE DEF hit
    <2>7. node[w].val = val /\ node[w].live = TRUE
      BY <2>4, <2>5, <2>6
    <2>8. node[w] # NoNode
      BY <2>7 DEF NoNode
    <2> QED
      BY <2>1, <2>2, <2>4, <2>7, <2>8
  <1>5. GetHit(w) \/ GetNowhere(w) \/ GetSst(w) \/ Crash(w)
    <2>1. ASSUME NEW t \in Thread, t # w PROVE ~Moves(t)
      BY <1>0, <2>1 DEF Moves
    <2>2. pc' # pc
      BY <1>0
    <2>3. EngineStep(w) \/ EngineCall(w)
      BY <2>1, <2>2, Steps DEF EngineInv, allvars, vars
    <2> QED
      BY <1>0, <2>2, <2>3
         DEF EngineStep, EngineCall, MemStep, PutLock, PutUnlock, GetLockFrozen, GetLockCur,
             GetUnlock, SizeCur, SizeFrozen, ClearLock, FlushLock, LockFrozen, MemPut,
             PutApply, MemGetCur, GetCur, MemGetFrozen, GetFrozen, MemClear, Clear,
             MemFlushNothing, FlushNothing, MemFlushFreeze, FlushFreeze, MemFlushBuild,
             FlushBuild, MemFlushFail, FlushFail, LimitCur, BatchSize, LimitTotal, FlushSize,
             FlushNone, FlushCompact, FlushId, IndexStore, IndexPush, ClearLevels, ClearSsts,
             DestroySize, Drained, TotalSize, CallLookup, CallPut, CallErase, CallEngine,
             Close, Quiet, Reopen, vars, At
  <1>6. CASE GetHit(w)
    <2>1. node[w] # NoNode /\ reply'[w].val = IF node[w].val = Tombstone THEN None
                                              ELSE node[w].val
      BY <1>0, <1>6 DEF GetHit, Reply
    <2> QED
      BY <1>2, <1>3, <1>4, <2>1
  <1>7. CASE GetNowhere(w)
    <2>1. node[w] = NoNode /\ reply'[w].val = None
      BY <1>0, <1>7 DEF GetNowhere, Reply
    <2> QED
      BY <1>2, <1>4, <2>1
  <1>8. CASE GetSst(w) \/ Crash(w)
    <2>1. node[w] = NoNode /\ level0 # <<>>
      BY <1>8, NoIndex DEF GetSst, Crash, At, NullAt
    <2> QED
      BY <2>1
  <1> QED
    BY <1>5, <1>6, <1>7, <1>8

\* A get of the writer that ends in memory, or finds no SST to go on to,
\* returns what the latest version it may see was last put to: nothing older
\* than memory holds, nothing erased, and no deletion mark as a value.
THEOREM GetsFindPuts ==
  ASSUME NEW w \in Thread, Writer = {w}, Ratio <= MaxId
  PROVE  EngineSpec => GetFindsPut
  <1> DEFINE GetInv == EngineInv(w) /\ ReplyTypes /\ GetOf(w)
  <1>1. EngineInit => GetInv
    <2> SUFFICES ASSUME EngineInit PROVE GetInv
      OBVIOUS
    <2>1. ReplyTypes
      BY DEF EngineInit, ReplyTypes, NoReply
    <2>2. GetOf(w)
      BY DEF EngineInit, Init, GetOf, GetLabel
    <2> QED
      BY <2>1, <2>2, EngineInitial
  <1>2. GetInv /\ [EngineNext]_allvars => GetInv'
    BY EngineKeeps, ReplyStep, GetStep
  <1>3. GetInv /\ [EngineNext]_allvars => [\A t \in Writer : GetsPut(t)]_allvars
    BY GetReplies
  <1> HIDE DEF GetInv
  <1> QED
    BY <1>1, <1>2, <1>3, PTL DEF EngineSpec, GetFindsPut
=============================================================================
