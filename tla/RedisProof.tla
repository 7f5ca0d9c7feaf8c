------------------------------ MODULE RedisProof ------------------------------
(***************************************************************************)
(* What RedisWrapper.tla promises of counters and lists, and               *)
(* RedisCollections.tla of hashes and sorted sets, proved for every number *)
(* of threads, keys, elements, fields, members, scores and calls.          *)
(***************************************************************************)
EXTENDS RedisCollections, ListLemmas, FiniteSetTheorems

-----------------------------------------------------------------------------
(* Counters and lists: the system that Spec is, of the commands of         *)
(* RedisWrapper.tla only.                                                  *)

\* A thread in a command has a key of the type of the command.
Called == \A t \in Thread :
  /\ pc[t] # "idle" => /\ Big(t) \in Key /\ cmd[t].elem \in Elem
                       /\ Begin(Op(t), Big(t)) # {}
  /\ pc[t] \in {"sadd", "sadd_old", "sadd_new", "sadd_put"} => Op(t) = "SADD"
  /\ pc[t] \in {"srem_put", "srem_remove"} => Op(t) = "SREM"

\* Where a command has the lock to write.
Writing == {"apply", "srem_put", "srem_remove"}

\* The lock knows who holds it, and a writer is alone.
LockInv ==
  /\ redis_mtx.w = {t \in Thread : pc[t] \in Writing}
  /\ redis_mtx.r = {t \in Thread : pc[t] \in {"unlock", "unlock_clean"}}
  /\ redis_mtx.w = {} \/ redis_mtx.r = {}
  /\ \A t, u \in redis_mtx.w : t = u

\* What SREM has found when it comes to the size.
Looked(x) == /\ x = [absent |-> x.absent, size |-> None]
             /\ Cardinality(x.absent) \in Nat

\* What a command has read under the exclusive lock is there when it writes.
SeenInv == \A t \in Thread :
  /\ At(t, "apply") => /\ Big(t) \in Counter => seen[t] = str[Big(t)]
                       /\ Big(t) \in List => seen[t] = list[Big(t)]
                       /\ Big(t) \in Set => Looked(seen[t])
  /\ At(t, "srem_put") => seen[t].size \in Int
  /\ At(t, "sadd_put") => seen[t] \in Int

ThreadsTyped ==
  /\ cmd \in [Thread -> [op : Command \cup {None}, key : Key \cup {None},
                         elem : Elem \cup {None}]]
  /\ seen = [t \in Thread |-> seen[t]]

Inv == TypeOK /\ ThreadsTyped /\ Called /\ LockInv /\ SeenInv

\* The actions at the end of a command that holds the lock.
Write(t) ==
  \/ set(t) \/ incr(t) \/ decr(t) \/ del(t) \/ expire(t)
  \/ lpush(t) \/ rpush(t) \/ lpop(t) \/ rpop(t) \/ srem_remove(t)

-----------------------------------------------------------------------------
(* Commands.                                                               *)

\* The commands on one type of key.
LEMMA KeyTypes ==
  ASSUME NEW op, NEW k, Begin(op, k) # {}
  PROVE  /\ op \in {"SET", "INCR", "DECR"} => k \in Counter
         /\ op \in {"LPUSH", "RPUSH", "LPOP", "RPOP"} => k \in List
         /\ op \in {"SREM", "SADD"} => k \in Set
<1>1. CASE op \in {"SET", "INCR", "DECR"}  BY <1>1 DEF Begin, ListReader
<1>2. CASE op \in {"LPUSH", "RPUSH", "LPOP", "RPOP"}  BY <1>2 DEF Begin, ListReader
<1>3. CASE op \in {"SREM", "SADD"}  BY <1>3 DEF Begin, ListReader
<1> QED  BY <1>1, <1>2, <1>3

\* A command begins with one of these steps.
LEMMA Beginnings ==
  ASSUME NEW op, NEW k, NEW l \in Begin(op, k)
  PROVE  l \in {"peek", "acquire", "check"}
BY DEF Begin, ListReader

LEMMA Disjoint ==
  /\ Counter \subseteq Key /\ List \subseteq Key /\ Set \subseteq Key
  /\ Counter \cap List = {} /\ Counter \cap Set = {} /\ List \cap Set = {}
BY RedisAssumption DEF Key

LEMMA PlusType ==
  ASSUME NEW n \in Int \cup {None}, NEW d \in Int
  PROVE  Plus(n, d) \in Int
BY DEF Plus

\* What a command reads.
LEMMA ReadIs ==
  ASSUME Inv, NEW t \in Thread, At(t, "acquire")
  PROVE  /\ Big(t) \in Counter => Read(t) = str[Big(t)]
         /\ Big(t) \in List => Read(t) = list[Big(t)]
         /\ Big(t) \in Set => Looked(Read(t))
<1>1. CASE Big(t) \in Counter  BY <1>1, Disjoint DEF Read
<1>2. CASE Big(t) \in List  BY <1>2, Disjoint DEF Read
<1>3. CASE Big(t) \in Set
  <2> DEFINE absent == {cmd[t].elem} \ members[Big(t)]
  <2>1. IsFiniteSet(absent) /\ Cardinality(absent) \in Nat
    <3>1. IsFiniteSet({cmd[t].elem})  BY FS_Singleton
    <3>2. absent \in SUBSET {cmd[t].elem}  OBVIOUS
    <3>3. IsFiniteSet(absent)  BY ONLY <3>1, <3>2, FS_Subset
    <3> QED  BY ONLY <3>3, FS_CardinalityType
  <2>2. Read(t) = [absent |-> absent, size |-> None]
    BY <1>3, Disjoint DEF Read
  <2> QED  BY <2>1, <2>2, <1>3, Disjoint DEF Looked
<1> QED  BY <1>1, <1>2, <1>3, Disjoint

LEMMA WriteReleases ==
  ASSUME NEW t, Write(t)
  PROVE  /\ Release(t)
         /\ At(t, "apply") \/ (srem_remove(t) /\ At(t, "srem_remove"))
BY DEF Write, set, incr, decr, del, expire, lpush, rpush, lpop, rpop, srem_remove,
       Push, Pop, Applies
-----------------------------------------------------------------------------
(* Types.                                                                  *)

LEMMA InitType == Init => Inv
<1> SUFFICES ASSUME Init PROVE Inv  OBVIOUS
<1>1. /\ str \in [Counter -> Int \cup {None}] /\ members \in [Set -> SUBSET Elem]
      /\ card \in [Set -> Int \cup {None}] /\ ttl \in [Key -> Nat \cup {None}]
      /\ now \in 0 .. MaxNow /\ pushed \in Nat
      /\ redis_mtx \in [w : SUBSET Thread, r : SUBSET Thread]
      /\ pc \in [Thread -> Label]
  BY RedisAssumption DEF Init, Unlocked, Label
<1>2. list \in [List -> Seq(1 .. pushed)] /\ popped \in Seq(1 .. pushed)
  BY EmptySeq DEF Init
<1>3. ThreadsTyped  BY DEF Init, ThreadsTyped, NoCommand
<1>4. Called /\ SeenInv  BY DEF Init, Called, SeenInv, At
<1>5. LockInv  BY DEF Init, LockInv, Unlocked, Writing
<1> QED  BY <1>1, <1>2, <1>3, <1>4, <1>5 DEF Inv, TypeOK

\* A step between the labels of a command, or back to idle.
LEMMA GotoType ==
  ASSUME pc \in [Thread -> Label], ThreadsTyped, NEW t \in Thread, NEW l \in Label,
         Goto(t, l)
  PROVE  /\ pc' \in [Thread -> Label] /\ pc' = [pc EXCEPT ![t] = l]
         /\ cmd' \in [Thread -> [op : Command \cup {None}, key : Key \cup {None},
                                  elem : Elem \cup {None}]]
         /\ \A u \in Thread \ {t} : cmd'[u] = cmd[u] /\ pc'[u] = pc[u]
         /\ l # "idle" => cmd' = cmd
BY DEF Goto, ThreadsTyped, NoCommand

\* Writes to the engine.
LEMMA EraseType ==
  ASSUME TypeOK, NEW k, Erase(k)
  PROVE  /\ str' \in [Counter -> Int \cup {None}] /\ list' \in [List -> Seq(1 .. pushed)]
         /\ card' \in [Set -> Int \cup {None}] /\ ttl' \in [Key -> Nat \cup {None}]
         /\ UNCHANGED <<members, pushed, popped>>
<1>1. \A l \in List : (IF l = k THEN <<>> ELSE list[l]) \in Seq(1 .. pushed)
  BY EmptySeq DEF TypeOK
<1> QED  BY <1>1 DEF Erase, TypeOK

DataTyped ==
  /\ str \in [Counter -> Int \cup {None}] /\ list \in [List -> Seq(1 .. pushed)]
  /\ members \in [Set -> SUBSET Elem] /\ card \in [Set -> Int \cup {None}]
  /\ ttl \in [Key -> Nat \cup {None}]
  /\ pushed \in Nat /\ popped \in Seq(1 .. pushed)

LEMMA PushType ==
  ASSUME TypeOK, NEW t, NEW op, NEW s, Push(t, op, s), s \in Seq(1 .. pushed + 1)
  PROVE  DataTyped'
<1>1. pushed \in Nat /\ 1 .. pushed \subseteq 1 .. pushed + 1  BY DEF TypeOK
<1>2. \A l \in List : list[l] \in Seq(1 .. pushed + 1)
  BY <1>1, SeqMonotonic DEF TypeOK
<1>3. popped \in Seq(1 .. pushed + 1)  BY <1>1, SeqMonotonic DEF TypeOK
<1>4. list' \in [List -> Seq(1 .. pushed + 1)]  BY <1>2 DEF Push, TypeOK
<1> QED  BY <1>1, <1>3, <1>4 DEF Push, TypeOK, DataTyped

LEMMA PopType ==
  ASSUME TypeOK, NEW t, NEW s \in Seq(1 .. pushed), NEW e \in Seq(1 .. pushed),
         Pop(t, s, e)
  PROVE  DataTyped'
<1>1. popped \o e \in Seq(1 .. pushed)  BY ConcatProperties DEF TypeOK
<1>2. list' \in [List -> Seq(1 .. pushed)]  BY DEF Pop, TypeOK
<1> QED  BY <1>1, <1>2 DEF Pop, TypeOK, DataTyped

\* What a command that pops takes, and what it leaves.
LEMMA PopCases ==
  ASSUME NEW t, lpop(t) \/ rpop(t)
  PROVE  \/ seen[t] = <<>> /\ Pop(t, <<>>, <<>>)
         \/ seen[t] # <<>> /\ lpop(t) /\ Pop(t, Tail(seen[t]), <<Head(seen[t])>>)
         \/ seen[t] # <<>> /\ rpop(t) /\ Pop(t, Front(seen[t]), <<Last(seen[t])>>)
BY DEF lpop, rpop

\* The key of a command that writes, and what it has seen there.
LEMMA WriteSees ==
  ASSUME Inv, NEW t \in Thread, At(t, "apply")
  PROVE  /\ Big(t) \in Key
         /\ Op(t) \in {"SET", "INCR", "DECR"} => Big(t) \in Counter /\ seen[t] = str[Big(t)]
         /\ Op(t) \in {"LPUSH", "RPUSH", "LPOP", "RPOP"} =>
              Big(t) \in List /\ seen[t] = list[Big(t)] /\ seen[t] \in Seq(1 .. pushed)
         /\ Op(t) = "SREM" => Big(t) \in Set /\ Looked(seen[t])
<1>1. pc[t] # "idle"  BY DEF At
<1>2. Big(t) \in Key /\ Begin(Op(t), Big(t)) # {}  BY <1>1 DEF Inv, Called
<1> QED  BY <1>2, KeyTypes DEF Inv, SeenInv, TypeOK

\* SREM is at a set.
LEMMA SremAt ==
  ASSUME Inv, NEW t \in Thread, At(t, "srem_put") \/ At(t, "srem_remove")
  PROVE  Big(t) \in Set /\ Op(t) = "SREM"
<1>1. Op(t) = "SREM" /\ Begin(Op(t), Big(t)) # {}  BY DEF Inv, Called, At
<1> QED  BY <1>1, KeyTypes

LEMMA WriteType ==
  ASSUME Inv, NEW t \in Thread, Write(t)
  PROVE  DataTyped'
<1>1. TypeOK  BY DEF Inv
<1>3. CASE set(t) \/ incr(t) \/ decr(t)
  <2>1. Big(t) \in Counter /\ seen[t] = str[Big(t)] /\ Big(t) \in Key
    BY <1>3, WriteSees DEF set, incr, decr, Applies
  <2>2. seen[t] \in Int \cup {None}  BY <2>1, <1>1 DEF TypeOK
  <2>3. Plus(seen[t], 1) \in Int /\ Plus(seen[t], -1) \in Int
    <3>1. 1 \in Int /\ -1 \in Int  OBVIOUS
    <3> QED  BY ONLY <2>2, <3>1, PlusType
  <2>4. str' \in [Counter -> Int \cup {None}]
    BY <1>1, <1>3, <2>1, <2>3 DEF set, incr, decr, WriteCounter, TypeOK
  <2>5. ttl' \in [Key -> Nat \cup {None}]
    BY <1>1, <1>3 DEF set, incr, decr, TypeOK
  <2>6. UNCHANGED <<list, members, card, pushed, popped>>
    BY <1>3 DEF set, incr, decr, WriteCounter
  <2> QED  BY <1>1, <2>4, <2>5, <2>6 DEF DataTyped, TypeOK
<1>4. CASE del(t)
  <2>1. Erase(Big(t))  BY <1>4 DEF del
  <2> QED  BY <1>1, <2>1, EraseType DEF DataTyped, TypeOK
<1>5. CASE expire(t)
  <2>1. now \in Nat  BY <1>1, RedisAssumption DEF TypeOK
  <2> QED  BY <1>1, <1>5, <2>1 DEF expire, DataTyped, TypeOK, history
<1>6. CASE lpush(t) \/ rpush(t)
  <2>1. seen[t] \in Seq(1 .. pushed)
    BY <1>6, WriteSees DEF lpush, rpush, Push, Applies
  <2>2. pushed \in Nat /\ pushed + 1 \in 1 .. pushed + 1 /\ 1 .. pushed \subseteq 1 .. pushed + 1
    BY <1>1 DEF TypeOK
  <2>3. seen[t] \in Seq(1 .. pushed + 1)  BY <2>1, <2>2, SeqMonotonic
  <2>4. <<pushed + 1>> \o seen[t] \in Seq(1 .. pushed + 1)  BY <2>2, <2>3, PushFront
  <2>5. Append(seen[t], pushed + 1) \in Seq(1 .. pushed + 1)  BY <2>2, <2>3, PushBack
  <2> QED  BY <1>1, <1>6, <2>4, <2>5, PushType DEF lpush, rpush
<1>7. CASE lpop(t) \/ rpop(t)
  <2>1. seen[t] \in Seq(1 .. pushed)
    BY <1>7, WriteSees DEF lpop, rpop, Applies
  <2>2. <<>> \in Seq(1 .. pushed)  BY EmptySeq
  <2>3. ASSUME seen[t] # <<>>
        PROVE  /\ Tail(seen[t]) \in Seq(1 .. pushed) /\ Front(seen[t]) \in Seq(1 .. pushed)
               /\ <<Head(seen[t])>> \in Seq(1 .. pushed)
               /\ <<Last(seen[t])>> \in Seq(1 .. pushed)
    <3>1. Head(seen[t]) \in 1 .. pushed /\ Last(seen[t]) \in 1 .. pushed
      BY <2>1, <2>3, PopFront, PopBack, Elements
    <3>2. \A e \in 1 .. pushed : <<e>> \in Seq(1 .. pushed)  OBVIOUS
    <3>3. Tail(seen[t]) \in Seq(1 .. pushed) /\ Front(seen[t]) \in Seq(1 .. pushed)
      BY <2>1, <2>3, PopFront, PopBack
    <3> QED  BY <3>1, <3>2, <3>3
  <2> QED  BY <1>1, <1>7, <2>2, <2>3, PopCases, PopType
<1>8. CASE srem_remove(t)
  <2>1. Big(t) \in Set
    BY <1>8, SremAt DEF srem_remove
  <2>2. members[Big(t)] \ seen[t].absent \in SUBSET Elem  BY <1>1, <2>1 DEF TypeOK
  <2>3. /\ card' = [card EXCEPT ![Big(t)] = card[Big(t)]]
        /\ members' = [members EXCEPT ![Big(t)] = members[Big(t)] \ seen[t].absent]
        /\ UNCHANGED <<str, list, ttl, pushed, popped>>
    BY <1>8 DEF srem_remove, WriteSet, history
  <2> QED  BY <1>1, <2>1, <2>2, <2>3 DEF DataTyped, TypeOK
<1> QED  BY <1>3, <1>4, <1>5, <1>6, <1>7, <1>8 DEF Write
-----------------------------------------------------------------------------
(* The steps that write nothing, or without the lock.                      *)

SaddLabel == {"sadd", "sadd_old", "sadd_new", "sadd_put"}

SremLabel == {"srem_put", "srem_remove"}

LabelOf(l, t) == /\ l \in SaddLabel => Op(t) = "SADD"
                 /\ l \in SremLabel => Op(t) = "SREM"

\* Every step of a command goes from a label to another of the same command.
LEMMA StepGoes ==
  ASSUME Inv, NEW t \in Thread, Step(t)
  PROVE  /\ pc[t] # "idle"
         /\ \E l \in Label : Goto(t, l) /\ LabelOf(l, t)
         /\ seen' = seen \/ \E x : seen' = [seen EXCEPT ![t] = x]
         /\ UNCHANGED <<now, calls>>
<1> USE DEF At, Label, SaddLabel, SremLabel, LabelOf
<1>1. CASE Write(t)  BY <1>1, WriteReleases DEF Release
<1>2. CASE acquire(t)  BY <1>2 DEF acquire
<1>3. CASE peek(t)  BY <1>3 DEF peek
<1>4. CASE check_throws(t)  BY <1>4 DEF check_throws
<1>5. CASE check(t)  BY <1>5 DEF check
<1>6. CASE unlock(t)  BY <1>6 DEF unlock, After
<1>7. CASE unlock_clean(t)  BY <1>7 DEF unlock_clean
<1>8. CASE clean(t)  BY <1>8 DEF clean
<1>9. CASE sadd_elem(t) \/ sadd_size(t) \/ sadd_put(t)
  <2>1. Op(t) = "SADD"
    BY <1>9 DEF Inv, Called, sadd_elem, sadd_size, sadd_put
  <2> QED  BY <1>9, <2>1 DEF sadd_elem, sadd_size, sadd_put
<1>10. CASE srem_size(t) \/ srem_put(t)
  <2>1. Op(t) = "SREM" /\ pc[t] # "idle"
    BY <1>10, SremAt DEF srem_size, srem_put, Applies
  <2>2. (\E l \in {"srem_put", "srem_remove"} : Goto(t, l)) /\ UNCHANGED <<now, calls>>
    BY <1>10 DEF srem_size, srem_put
  <2>3. seen' = seen \/ \E x : seen' = [seen EXCEPT ![t] = x]
    BY <1>10 DEF srem_size, srem_put
  <2> QED  BY <2>1, <2>2, <2>3
<1> QED
  BY <1>1, <1>2, <1>3, <1>4, <1>5, <1>6, <1>7, <1>8, <1>9, <1>10 DEF Step, Write

LEMMA StepThreads ==
  ASSUME Inv, NEW t \in Thread, Step(t)
  PROVE  pc' \in [Thread -> Label] /\ ThreadsTyped' /\ Called'
<1>1. PICK l \in Label : Goto(t, l) /\ LabelOf(l, t)
  BY StepGoes
<1>2. pc \in [Thread -> Label] /\ ThreadsTyped /\ Called  BY DEF Inv, TypeOK
<1>3. /\ pc' \in [Thread -> Label] /\ pc' = [pc EXCEPT ![t] = l]
      /\ cmd' \in [Thread -> [op : Command \cup {None}, key : Key \cup {None},
                               elem : Elem \cup {None}]]
      /\ \A u \in Thread \ {t} : cmd'[u] = cmd[u] /\ pc'[u] = pc[u]
      /\ l # "idle" => cmd' = cmd
  BY <1>1, <1>2, GotoType
<1>4. seen' = [u \in Thread |-> seen'[u]]  BY <1>2, StepGoes DEF ThreadsTyped
<1>5. ThreadsTyped'  BY <1>3, <1>4 DEF ThreadsTyped
<1>6. Called'
  <2>1. pc'[t] = l /\ pc[t] # "idle"  BY <1>2, <1>3, StepGoes
  <2> QED  BY <1>1, <1>2, <1>3, <2>1 DEF Called, LabelOf, SaddLabel, SremLabel, Op, Big
<1> QED  BY <1>3, <1>5, <1>6

LEMMA StepData ==
  ASSUME Inv, NEW t \in Thread, Step(t)
  PROVE  DataTyped'
<1>1. DataTyped  BY DEF Inv, TypeOK, DataTyped
<1>2. CASE Write(t)  BY <1>2, WriteType
<1>3. CASE clean(t)
  <2>1. Erase(Big(t))  BY <1>3 DEF clean
  <2> QED  BY <1>1, <2>1, EraseType DEF Inv, DataTyped
<1>4. CASE sadd_put(t)
  <2>1. Op(t) = "SADD" /\ pc[t] # "idle" /\ At(t, "sadd_put")
    BY <1>4 DEF Inv, Called, sadd_put, At
  <2>2. Big(t) \in Set /\ cmd[t].elem \in Elem /\ seen[t] \in Int
    BY <2>1, KeyTypes DEF Inv, Called, SeenInv
  <2>3. members[Big(t)] \cup {cmd[t].elem} \in SUBSET Elem  BY <1>1, <2>2 DEF DataTyped
  <2>4. /\ card' = [card EXCEPT ![Big(t)] = seen[t]]
        /\ members' = [members EXCEPT ![Big(t)] = members[Big(t)] \cup {cmd[t].elem}]
        /\ UNCHANGED <<str, list, ttl, pushed, popped>>
    BY <1>4 DEF sadd_put, WriteSet, history
  <2> QED  BY <1>1, <2>2, <2>3, <2>4 DEF DataTyped
<1>5. CASE srem_put(t)
  <2>1. Big(t) \in Set /\ seen[t].size \in Int
    BY <1>5, SremAt DEF srem_put, Inv, SeenInv
  <2>2. /\ card' = [card EXCEPT ![Big(t)] = seen[t].size]
        /\ members' = [members EXCEPT ![Big(t)] = members[Big(t)]]
        /\ UNCHANGED <<str, list, ttl, pushed, popped>>
    BY <1>5 DEF srem_put, WriteSet, history
  <2> QED  BY <1>1, <2>1, <2>2 DEF DataTyped
<1>6. CASE ~ (Write(t) \/ clean(t) \/ sadd_put(t) \/ srem_put(t))
  <2>1. UNCHANGED <<data, history>>
    BY <1>6 DEF Step, Write, acquire, peek, check_throws, check, unlock, unlock_clean,
                sadd_elem, sadd_size, srem_size
  <2> QED  BY <1>1, <2>1 DEF data, history, DataTyped
<1> QED  BY <1>2, <1>3, <1>4, <1>5, <1>6
-----------------------------------------------------------------------------
(* The lock.                                                               *)

LEMMA StepLock ==
  ASSUME Inv, NEW t \in Thread, Step(t)
  PROVE  LockInv' /\ redis_mtx' \in [w : SUBSET Thread, r : SUBSET Thread]
<1>1. PICK l \in Label : Goto(t, l)  BY StepGoes
<1>2. /\ pc' = [pc EXCEPT ![t] = l] /\ pc \in [Thread -> Label]
      /\ redis_mtx \in [w : SUBSET Thread, r : SUBSET Thread] /\ LockInv
  BY <1>1 DEF Goto, Inv, TypeOK
<1>3. /\ \A u \in Thread \ {t} : pc'[u] = pc[u]
      /\ pc'[t] = l
  BY <1>2
<1>4. CASE Write(t)
  <2>1. pc[t] \in Writing /\ redis_mtx' = Unlocked /\ pc'[t] = "idle"
    BY <1>2, <1>4, WriteReleases DEF Release, Goto, At, Writing
  <2>2. redis_mtx.w = {t} /\ redis_mtx.r = {}  BY <1>2, <2>1 DEF LockInv, Writing
  <2>3. \A u \in Thread : pc'[u] \notin Writing \cup {"unlock", "unlock_clean"}
    BY <1>2, <1>3, <2>1, <2>2 DEF LockInv, Writing
  <2> QED  BY <2>1, <2>3 DEF LockInv, Unlocked, Writing
<1>5. CASE acquire(t)
  <2>1. CanLock(redis_mtx) /\ redis_mtx' = Lock(t) /\ pc'[t] = "apply"
    BY <1>2, <1>5 DEF acquire, Goto
  <2>2. redis_mtx.w = {} /\ redis_mtx.r = {}  BY <2>1 DEF CanLock
  <2>3. redis_mtx'.w = {t} /\ redis_mtx'.r = {}  BY <2>1 DEF Lock
  <2>4. redis_mtx' \in [w : SUBSET Thread, r : SUBSET Thread]  BY <2>1 DEF Lock
  <2>5. \A u \in Thread \ {t} : pc'[u] \notin Writing \cup {"unlock", "unlock_clean"}
    BY <1>2, <1>3, <2>2 DEF LockInv, Writing
  <2> QED  BY <2>1, <2>3, <2>4, <2>5 DEF LockInv, Writing
<1>6. CASE check(t)
  <2>1. /\ redis_mtx.w = {} /\ redis_mtx' = [redis_mtx EXCEPT !.r = @ \cup {t}]
        /\ pc'[t] \in {"unlock", "unlock_clean"}
    BY <1>2, <1>6 DEF check, Goto, CanLockShared, LockShared
  <2>2. redis_mtx'.w = {} /\ redis_mtx'.r = redis_mtx.r \cup {t}  BY <1>2, <2>1
  <2>3. redis_mtx' \in [w : SUBSET Thread, r : SUBSET Thread]  BY <1>2, <2>1
  <2> QED  BY <1>2, <1>3, <2>1, <2>2, <2>3 DEF LockInv, Writing
<1>7. CASE unlock(t) \/ unlock_clean(t)
  <2>1. /\ redis_mtx' = [redis_mtx EXCEPT !.r = @ \ {t}]
        /\ pc[t] \in {"unlock", "unlock_clean"}
        /\ pc'[t] \notin Writing \cup {"unlock", "unlock_clean"}
    BY <1>2, <1>7 DEF unlock, unlock_clean, Goto, After, UnlockShared, At, Writing
  <2>2. redis_mtx'.w = redis_mtx.w /\ redis_mtx'.r = redis_mtx.r \ {t}  BY <1>2, <2>1
  <2>3. redis_mtx' \in [w : SUBSET Thread, r : SUBSET Thread]  BY <1>2, <2>1
  <2> QED  BY <1>2, <1>3, <2>1, <2>2, <2>3 DEF LockInv, Writing
<1>8. CASE srem_size(t) \/ srem_put(t)
  <2>1. redis_mtx' = redis_mtx /\ pc[t] \in Writing /\ pc'[t] \in Writing
    BY <1>2, <1>8 DEF srem_size, srem_put, Applies, Goto, At, Writing
  <2> QED  BY <1>2, <1>3, <2>1 DEF LockInv, Writing
<1>9. CASE ~ (\/ Write(t) \/ acquire(t) \/ check(t) \/ unlock(t) \/ unlock_clean(t)
              \/ srem_size(t) \/ srem_put(t))
  <2>1. /\ redis_mtx' = redis_mtx
        /\ pc[t] \notin Writing \cup {"unlock", "unlock_clean"}
        /\ pc'[t] \notin Writing \cup {"unlock", "unlock_clean"}
    BY <1>2, <1>9 DEF Step, Write, peek, check_throws, clean, sadd_elem, sadd_size,
                      sadd_put, Goto, At, Writing
  <2> QED  BY <1>2, <1>3, <2>1 DEF LockInv
<1> QED  BY <1>4, <1>5, <1>6, <1>7, <1>8, <1>9
-----------------------------------------------------------------------------
(* What was read under the lock.                                           *)

LEMMA StepSeen ==
  ASSUME Inv, NEW t \in Thread, Step(t)
  PROVE  SeenInv'
<1>1. PICK l \in Label : Goto(t, l)  BY StepGoes
<1>2. /\ pc' = [pc EXCEPT ![t] = l] /\ pc \in [Thread -> Label]
      /\ ThreadsTyped /\ SeenInv /\ LockInv
  BY <1>1 DEF Goto, Inv, TypeOK
<1>3. /\ \A u \in Thread \ {t} : pc'[u] = pc[u] /\ cmd'[u] = cmd[u]
      /\ pc'[t] = l /\ (l # "idle" => cmd' = cmd)
  BY <1>1, <1>2, GotoType
<1>4. \A u \in Thread \ {t} : seen'[u] = seen[u]
  BY <1>2, StepGoes DEF ThreadsTyped
\* Others are not disturbed: who writes is alone under the lock.
<1>5. (\E u \in Thread \ {t} : pc[u] = "apply") => UNCHANGED <<str, list>>
  <2> SUFFICES ASSUME NEW u \in Thread \ {t}, pc[u] = "apply"
               PROVE  UNCHANGED <<str, list>>
    OBVIOUS
  <2>1. u \in redis_mtx.w /\ t \notin redis_mtx.w  BY <1>2 DEF LockInv, Writing
  <2>2. ~ Write(t) /\ ~ clean(t)
    BY <1>2, <2>1, WriteReleases DEF LockInv, Writing, At, clean, CanLock
  <2> QED
    BY <2>2 DEF Step, Write, acquire, peek, check_throws, check, unlock, unlock_clean,
                srem_size, srem_put, sadd_elem, sadd_size, sadd_put, WriteSet, data
<1>6. ASSUME NEW u \in Thread \ {t}
      PROVE  /\ At(u, "apply")' => /\ (Big(u) \in Counter)' => (seen[u] = str[Big(u)])'
                                   /\ (Big(u) \in List)' => (seen[u] = list[Big(u)])'
                                   /\ (Big(u) \in Set)' => Looked(seen[u])'
             /\ At(u, "srem_put")' => (seen[u].size \in Int)'
             /\ At(u, "sadd_put")' => (seen[u] \in Int)'
  BY <1>2, <1>3, <1>4, <1>5, <1>6 DEF SeenInv, At, Big, Looked
<1>7. CASE acquire(t)
  <2>1. /\ l = "apply" /\ At(t, "acquire") /\ seen'[t] = Read(t)
        /\ UNCHANGED <<str, list>>
    BY <1>2, <1>3, <1>7 DEF acquire, Goto, data, ThreadsTyped
  <2>2. cmd' = cmd  BY <1>3, <2>1
  <2> QED  BY <1>3, <1>6, <2>1, <2>2, ReadIs DEF SeenInv, At, Big, Looked
<1>8. CASE sadd_size(t)
  <2>1. /\ l = "sadd_put" /\ pc[t] \in SaddLabel /\ pc[t] # "idle"
        /\ seen'[t] = Plus(Plus(card[Big(t)], 0), IF At(t, "sadd_new") THEN 1 ELSE 0)
    BY <1>2, <1>3, <1>8 DEF sadd_size, Goto, SaddLabel, ThreadsTyped
  <2>2. Big(t) \in Set
    BY <2>1, KeyTypes DEF Inv, Called, SaddLabel
  <2>3. card[Big(t)] \in Int \cup {None}  BY <2>2 DEF Inv, TypeOK
  <2>4. Plus(card[Big(t)], 0) \in Int \cup {None}  BY <2>3, 0 \in Int, PlusType
  <2>5. (IF At(t, "sadd_new") THEN 1 ELSE 0) \in Int  OBVIOUS
  <2>6. seen'[t] \in Int  BY <2>1, <2>4, <2>5, PlusType
  <2> QED  BY <1>3, <1>6, <2>1, <2>6 DEF SeenInv, At
<1>9. CASE srem_size(t)
  <2>1. /\ l = "srem_put" /\ Applies(t, "SREM")
        /\ seen'[t] = [seen[t] EXCEPT !.size = Plus(card[Big(t)], -Cardinality(seen[t].absent))]
    BY <1>2, <1>3, <1>9 DEF srem_size, Goto, ThreadsTyped
  <2>2. Big(t) \in Set /\ Looked(seen[t])
    BY <2>1, WriteSees DEF Applies
  <2>3. -Cardinality(seen[t].absent) \in Int  BY <2>2 DEF Looked
  <2>4. card[Big(t)] \in Int \cup {None}  BY <2>2 DEF Inv, TypeOK
  <2>5. Plus(card[Big(t)], -Cardinality(seen[t].absent)) \in Int
    BY ONLY <2>3, <2>4, PlusType
  <2>6. seen'[t].size = Plus(card[Big(t)], -Cardinality(seen[t].absent))
    BY <2>1, <2>2 DEF Looked
  <2> QED  BY <1>3, <1>6, <2>1, <2>5, <2>6 DEF SeenInv, At
<1>10. CASE ~ (acquire(t) \/ sadd_size(t) \/ srem_size(t))
  <2>1. l \notin {"apply", "sadd_put", "srem_put"}
    BY <1>2, <1>3, <1>10, WriteReleases
       DEF Step, Write, Release, peek, check_throws, check, unlock, unlock_clean, clean,
           sadd_elem, sadd_put, srem_put, After, Goto, At
  <2> QED  BY <1>3, <1>6, <2>1 DEF SeenInv, At
<1> QED  BY <1>7, <1>8, <1>9, <1>10
-----------------------------------------------------------------------------
(* The invariant.                                                          *)

LEMMA CallInv ==
  ASSUME Inv, NEW t \in Thread, Call(t)
  PROVE  Inv'
<1>1. /\ At(t, "idle") /\ UNCHANGED <<data, now, redis_mtx, seen, history>>
      /\ \E op \in Command, k \in Key, e \in Elem : \E l \in Begin(op, k) :
            /\ cmd' = [cmd EXCEPT ![t] = [op |-> op, key |-> k, elem |-> e]]
            /\ pc' = [pc EXCEPT ![t] = l]
  BY DEF Call
<1>2. PICK op \in Command, k \in Key, e \in Elem : \E l \in Begin(op, k) :
            /\ cmd' = [cmd EXCEPT ![t] = [op |-> op, key |-> k, elem |-> e]]
            /\ pc' = [pc EXCEPT ![t] = l]
  BY <1>1
<1>3. PICK l \in Begin(op, k) :
            /\ cmd' = [cmd EXCEPT ![t] = [op |-> op, key |-> k, elem |-> e]]
            /\ pc' = [pc EXCEPT ![t] = l]
  BY <1>2
<1>4. l \in {"peek", "acquire", "check"}  BY Beginnings
<1>5. /\ pc \in [Thread -> Label] /\ ThreadsTyped /\ Called /\ LockInv /\ SeenInv
      /\ TypeOK /\ pc[t] = "idle"
  BY <1>1 DEF Inv, TypeOK, At
<1>6. /\ pc' \in [Thread -> Label] /\ pc'[t] = l
      /\ cmd' \in [Thread -> [op : Command \cup {None}, key : Key \cup {None},
                               elem : Elem \cup {None}]]
      /\ cmd'[t] = [op |-> op, key |-> k, elem |-> e]
      /\ \A u \in Thread \ {t} : pc'[u] = pc[u] /\ cmd'[u] = cmd[u]
  BY <1>3, <1>4, <1>5 DEF ThreadsTyped, Label
<1>7. TypeOK'  BY <1>1, <1>5, <1>6 DEF TypeOK, data, history
<1>8. ThreadsTyped'  BY <1>1, <1>5, <1>6 DEF ThreadsTyped
<1>9. Called'
  <2>1. Begin(op, k) # {}  OBVIOUS
  <2>2. /\ Big(t)' = k /\ Op(t)' = op /\ cmd'[t].elem = e
        /\ pc'[t] \notin {"sadd", "sadd_old", "sadd_new", "sadd_put", "srem_put", "srem_remove"}
    BY <1>4, <1>6 DEF Op, Big
  <2>3. \A u \in Thread \ {t} : Big(u)' = Big(u) /\ Op(u)' = Op(u)
    BY <1>6 DEF Op, Big
  <2> QED  BY <1>5, <1>6, <2>1, <2>2, <2>3 DEF Called
<1>10. LockInv'  BY <1>1, <1>4, <1>5, <1>6 DEF LockInv, Writing
<1>11. SeenInv'  BY <1>1, <1>4, <1>5, <1>6 DEF SeenInv, Looked, At, Big, data
<1> QED  BY <1>7, <1>8, <1>9, <1>10, <1>11 DEF Inv

LEMMA InvStep == Inv /\ [Next]_vars => Inv'
<1> SUFFICES ASSUME Inv, [Next]_vars PROVE Inv'  OBVIOUS
<1>1. CASE \E t \in Thread : Step(t)
  <2>1. PICK t \in Thread : Step(t)  BY <1>1
  <2>2. TypeOK'
    BY <2>1, StepData, StepLock, StepThreads, StepGoes DEF Inv, TypeOK, DataTyped
  <2> QED  BY <2>1, <2>2, StepThreads, StepLock, StepSeen DEF Inv
<1>2. CASE \E t \in Thread : Call(t)  BY <1>2, CallInv
<1>3. CASE Tick
  <2>1. now' \in 0 .. MaxNow
    BY <1>3, RedisAssumption DEF Tick, Inv, TypeOK
  <2>2. UNCHANGED <<str, list, members, card, ttl, redis_mtx, pc, cmd, seen, sum,
                    pushed, popped, dropped>>
    BY <1>3 DEF Tick, data, history
  <2> QED
    BY <2>1, <2>2 DEF Inv, TypeOK, ThreadsTyped, Called, LockInv, SeenInv, Looked, At, Op, Big
<1>4. CASE Done \/ UNCHANGED vars
  <2>1. UNCHANGED <<str, list, members, card, ttl, now, redis_mtx, pc, cmd, seen, sum,
                    pushed, popped, dropped>>
    BY <1>4 DEF Done, vars, data, history
  <2> QED
    BY <2>1 DEF Inv, TypeOK, ThreadsTyped, Called, LockInv, SeenInv, Looked, At, Op, Big
<1> QED  BY <1>1, <1>2, <1>3, <1>4 DEF Next

\* In every reachable state the threads, the lock and what was read agree.
THEOREM Invariance == Spec => []Inv
BY InitType, InvStep, PTL DEF Spec

\* The types of the state; only elements that were pushed are in a list or come
\* out of one (redis_wrapper.cpp, lpop and rpop).
THEOREM TypeCorrect == Spec => []TypeOK
<1>1. Inv => TypeOK  BY DEF Inv
<1> QED  BY <1>1, Invariance, PTL
-----------------------------------------------------------------------------
(* Counters.                                                               *)

LEMMA CounterStep ==
  ASSUME Inv, CounterExact, [Next]_vars
  PROVE  CounterExact'
<1> USE DEF CounterExact
<1>1. CASE \E t \in Thread : set(t) \/ incr(t) \/ decr(t)
  <2>1. PICK t \in Thread : set(t) \/ incr(t) \/ decr(t)  BY <1>1
  <2>2. At(t, "apply") /\ Op(t) \in {"SET", "INCR", "DECR"}
    BY <2>1 DEF set, incr, decr, Applies
  <2>3. seen[t] = sum[Big(t)]  BY <2>2, WriteSees
  <2> QED  BY <2>1, <2>3 DEF set, incr, decr, WriteCounter
<1>2. CASE \E t \in Thread : del(t) \/ clean(t)
  BY <1>2 DEF del, clean, Erase
<1>3. CASE ~ \E t \in Thread : set(t) \/ incr(t) \/ decr(t) \/ del(t) \/ clean(t)
  <2>1. UNCHANGED <<str, sum>>
    BY <1>3 DEF Next, Step, Call, Tick, Done, vars, data, history, acquire, expire, lpush,
                rpush, Push, lpop, rpop, Pop, srem_size, srem_put, srem_remove, WriteSet, peek, check_throws, check,
                unlock, unlock_clean, sadd_elem, sadd_size, sadd_put
  <2> QED  BY <2>1
<1> QED  BY <1>1, <1>2, <1>3

\* INCR and DECR are atomic (redis_wrapper.cpp, incr and decr): whatever the
\* other threads do between its read and its write, no change is lost.
THEOREM CountersExact == Spec => []CounterExact
<1>1. Init => CounterExact  BY DEF Init, CounterExact
<1>2. Inv /\ CounterExact /\ [Next]_vars => CounterExact'  BY CounterStep
<1> QED  BY <1>1, <1>2, Invariance, PTL DEF Spec
-----------------------------------------------------------------------------
(* Lists.                                                                  *)

\* No element is in two lists.
ListsApart == \A k, l \in List : k # l => ToSet(list[k]) \cap ToSet(list[l]) = {}

ListInv == ListConserved /\ ListsApart

Listed == UNION {ToSet(list[l]) : l \in List}

\* What changes when list k alone changes.
LEMMA OneList ==
  ASSUME DataTyped, ListsApart, NEW k \in List, NEW s, list' = [list EXCEPT ![k] = s]
  PROVE  /\ list'[k] = s /\ \A l \in List \ {k} : list'[l] = list[l]
         /\ Listed' = (Listed \ ToSet(list[k])) \cup ToSet(s)
         /\ ToSet(list[k]) \subseteq Listed
<1>1. list'[k] = s /\ \A l \in List \ {k} : list'[l] = list[l]  BY DEF DataTyped
<1>2. \A x : x \in Listed <=> \E l \in List : x \in ToSet(list[l])  BY DEF Listed
<1>3. \A x : x \in Listed' <=> \E l \in List : x \in ToSet(list'[l])  BY DEF Listed, ToSet
<1>4. ToSet(list[k]) \subseteq Listed  BY <1>2
<1>5. ASSUME NEW x PROVE x \in Listed' <=> x \in (Listed \ ToSet(list[k])) \cup ToSet(s)
  <2>1. ASSUME x \in Listed' PROVE x \in (Listed \ ToSet(list[k])) \cup ToSet(s)
    <3>1. PICK l \in List : x \in ToSet(list'[l])  BY <2>1, <1>3
    <3> QED  BY <3>1, <1>1, <1>2 DEF ListsApart
  <2>2. ASSUME x \in Listed, x \notin ToSet(list[k]) PROVE x \in Listed'
    <3>1. PICK l \in List : x \in ToSet(list[l])  BY <2>2, <1>2
    <3> QED  BY <3>1, <2>2, <1>1, <1>3
  <2>3. ASSUME x \in ToSet(s) PROVE x \in Listed'  BY <2>3, <1>1, <1>3
  <2> QED  BY <2>1, <2>2, <2>3
<1> QED  BY <1>1, <1>4, <1>5

LEMMA PushConserves ==
  ASSUME Inv, ListInv, NEW t \in Thread, lpush(t) \/ rpush(t)
  PROVE  ListInv'
<1> DEFINE k == Big(t)
           s == list'[k]
<1>1. /\ k \in List /\ seen[t] = list[k] /\ list[k] \in Seq(1 .. pushed)
  BY WriteSees DEF lpush, rpush, Push, Applies
<1>2. /\ pushed \in Nat /\ DataTyped /\ pushed' = pushed + 1
      /\ UNCHANGED <<popped, dropped>>
  BY DEF Inv, TypeOK, DataTyped, lpush, rpush, Push
<1>3. \/ list' = [list EXCEPT ![k] = <<pushed + 1>> \o list[k]]
      \/ list' = [list EXCEPT ![k] = Append(list[k], pushed + 1)]
  BY <1>1 DEF lpush, rpush, Push
<1>4. 1 .. pushed \subseteq 1 .. pushed + 1 /\ pushed + 1 \in 1 .. pushed + 1
      /\ pushed + 1 \notin 1 .. pushed
  BY <1>2
<1>5. list[k] \in Seq(1 .. pushed + 1)  BY <1>1, <1>4, SeqMonotonic
<1>6. ToSet(list[k]) \subseteq 1 .. pushed  BY <1>1, Elements
<1>7. IsInjective(list[k])  BY <1>1 DEF ListInv, ListConserved
<1>8. \E x : /\ list' = [list EXCEPT ![k] = x] /\ IsInjective(x)
             /\ ToSet(x) = ToSet(list[k]) \cup {pushed + 1}
  <2>1. /\ ToSet(<<pushed + 1>> \o list[k]) = ToSet(list[k]) \cup {pushed + 1}
        /\ IsInjective(<<pushed + 1>> \o list[k])
    BY <1>4, <1>5, <1>6, <1>7, PushFront
  <2>2. /\ ToSet(Append(list[k], pushed + 1)) = ToSet(list[k]) \cup {pushed + 1}
        /\ IsInjective(Append(list[k], pushed + 1))
    BY <1>4, <1>5, <1>6, <1>7, PushBack
  <2> QED  BY <1>3, <2>1, <2>2
<1>9. PICK x : /\ list' = [list EXCEPT ![k] = x] /\ IsInjective(x)
              /\ ToSet(x) = ToSet(list[k]) \cup {pushed + 1}
  BY <1>8
<1>10. /\ list'[k] = x /\ \A l \in List \ {k} : list'[l] = list[l]
       /\ Listed' = (Listed \ ToSet(list[k])) \cup ToSet(x)
       /\ ToSet(list[k]) \subseteq Listed
  BY <1>1, <1>2, <1>9, OneList DEF ListInv
<1> HIDE DEF k
<1>11. Listed' = Listed \cup {pushed + 1}  BY <1>9, <1>10
<1>12. \A l \in List : IsInjective(list[l]) /\ IsInjective(list'[l])
  BY <1>9, <1>10 DEF ListInv, ListConserved
<1>13. /\ IsInjective(popped) /\ Listed \cup ToSet(popped) \cup dropped = 1 .. pushed
       /\ Listed \cap ToSet(popped) = {} /\ Listed \cap dropped = {}
       /\ ToSet(popped) \cap dropped = {}
  BY DEF ListInv, ListConserved, Listed
<1>14. 1 .. pushed + 1 = (1 .. pushed) \cup {pushed + 1}  BY <1>2
<1>15. /\ Listed' \cup ToSet(popped) \cup dropped = 1 .. pushed + 1
       /\ Listed' \cap ToSet(popped) = {} /\ Listed' \cap dropped = {}
  BY <1>4, <1>11, <1>13, <1>14
<1>16. ListConserved'
  <2>1. UNION {ToSet(list'[l]) : l \in List} = Listed'  BY DEF Listed, ToSet
  <2> QED  BY <1>2, <1>12, <1>13, <1>15, <2>1 DEF ListConserved, ToSet, IsInjective
<1>17. ListsApart'
  <2> SUFFICES ASSUME NEW l \in List, NEW m \in List, l # m
               PROVE  ToSet(list'[l]) \cap ToSet(list'[m]) = {}
    BY DEF ListsApart, ToSet
  <2>1. ToSet(list[l]) \cap ToSet(list[m]) = {}  BY DEF ListInv, ListsApart
  <2>2. \A n \in List : pushed + 1 \notin ToSet(list[n])
    BY <1>4, Elements DEF Inv, TypeOK
  <2>3. ToSet(list'[l]) = ToSet(list[l]) \/ (l = k /\ ToSet(list'[l]) = ToSet(list[l]) \cup {pushed + 1})
    BY <1>9, <1>10
  <2>4. ToSet(list'[m]) = ToSet(list[m]) \/ (m = k /\ ToSet(list'[m]) = ToSet(list[m]) \cup {pushed + 1})
    BY <1>9, <1>10
  <2> QED  BY <2>1, <2>2, <2>3, <2>4
<1> QED  BY <1>16, <1>17 DEF ListInv

\* A pop: the element moves from the list to those that were popped.
LEMMA PopMoves ==
  ASSUME Inv, ListInv, NEW t \in Thread, NEW k \in List, NEW s, NEW e,
         Pop(t, s, <<e>>), k = Big(t), e \in ToSet(list[k]),
         IsInjective(s), ToSet(s) = ToSet(list[k]) \ {e}
  PROVE  ListInv'
<1>1. /\ DataTyped /\ list' = [list EXCEPT ![k] = s] /\ popped' = popped \o <<e>>
      /\ UNCHANGED <<pushed, dropped>>
  BY DEF Inv, TypeOK, DataTyped, Pop
<1>2. /\ list'[k] = s /\ \A l \in List \ {k} : list'[l] = list[l]
      /\ Listed' = (Listed \ ToSet(list[k])) \cup ToSet(s)
      /\ ToSet(list[k]) \subseteq Listed
  BY <1>1, OneList DEF ListInv
<1>3. Listed' = Listed \ {e}  BY <1>2
<1>4. /\ IsInjective(popped) /\ Listed \cup ToSet(popped) \cup dropped = 1 .. pushed
      /\ Listed \cap ToSet(popped) = {} /\ Listed \cap dropped = {}
      /\ ToSet(popped) \cap dropped = {}
  BY DEF ListInv, ListConserved, Listed
<1>5. e \in 1 .. pushed /\ e \notin ToSet(popped) /\ e \in Listed  BY <1>2, <1>4
<1>6. popped \o <<e>> = Append(popped, e)
  BY <1>1, <1>5, AppendIsConcat DEF DataTyped
<1>7. IsInjective(popped') /\ ToSet(popped') = ToSet(popped) \cup {e}
  <2>1. popped \in Seq(1 .. pushed) /\ popped' = Append(popped, e)
    BY <1>1, <1>6 DEF DataTyped
  <2>2. /\ ToSet(Append(popped, e)) = ToSet(popped) \cup {e}
        /\ IsInjective(Append(popped, e))
    <3>1. popped \in Seq(1 .. pushed)  BY <2>1
    <3>2. e \in 1 .. pushed /\ e \notin ToSet(popped) /\ IsInjective(popped)
      BY <1>4, <1>5
    <3> DEFINE S == 1 .. pushed
    <3>3. popped \in Seq(S) /\ e \in S  BY <3>1, <3>2
    <3> HIDE DEF S
    <3> QED  BY <3>2, <3>3, PushBack
  <2> QED  BY <2>1, <2>2
<1>8. \A l \in List : IsInjective(list'[l])
  BY <1>2 DEF ListInv, ListConserved
<1>9. /\ Listed' \cup ToSet(popped') \cup dropped = 1 .. pushed
      /\ Listed' \cap ToSet(popped') = {} /\ Listed' \cap dropped = {}
      /\ ToSet(popped') \cap dropped = {}
  BY <1>3, <1>4, <1>5, <1>7
<1>10. ListConserved'
  <2>1. UNION {ToSet(list'[l]) : l \in List} = Listed'  BY DEF Listed, ToSet
  <2> QED  BY <1>1, <1>7, <1>8, <1>9, <2>1 DEF ListConserved, ToSet, IsInjective
<1>11. ListsApart'
  <2> SUFFICES ASSUME NEW l \in List, NEW m \in List, l # m
               PROVE  ToSet(list'[l]) \cap ToSet(list'[m]) = {}
    BY DEF ListsApart, ToSet
  <2>1. ToSet(list[l]) \cap ToSet(list[m]) = {}  BY DEF ListInv, ListsApart
  <2>2. \A n \in List : ToSet(list'[n]) \subseteq ToSet(list[n])  BY <1>2
  <2> QED  BY <2>1, <2>2
<1> QED  BY <1>10, <1>11 DEF ListInv

\* A pop of an empty list.
LEMMA PopNothing ==
  ASSUME Inv, ListInv, NEW t \in Thread, Pop(t, <<>>, <<>>), Big(t) \in List,
         list[Big(t)] = <<>>
  PROVE  ListInv'
<1>1. DataTyped  BY DEF Inv, TypeOK, DataTyped
<1>2. list' = list  BY <1>1 DEF Pop, DataTyped
<1>3. popped' = popped  BY <1>1, ConcatEmptySeq DEF Pop, DataTyped
<1>4. UNCHANGED <<pushed, dropped>>  BY DEF Pop
<1> QED  BY <1>2, <1>3, <1>4 DEF ListInv, ListConserved, ListsApart

LEMMA PopConserves ==
  ASSUME Inv, ListInv, NEW t \in Thread, lpop(t) \/ rpop(t)
  PROVE  ListInv'
<1> DEFINE k == Big(t)
<1>1. k \in List /\ seen[t] = list[k] /\ list[k] \in Seq(1 .. pushed)
  BY WriteSees DEF lpop, rpop, Applies
<1>2. IsInjective(list[k])  BY <1>1 DEF ListInv, ListConserved
<1>3. CASE list[k] = <<>> /\ Pop(t, <<>>, <<>>)  BY <1>1, <1>3, PopNothing
<1>4. CASE list[k] # <<>> /\ Pop(t, Tail(list[k]), <<Head(list[k])>>)
  BY <1>1, <1>2, <1>4, PopFront, PopMoves
<1>5. CASE list[k] # <<>> /\ Pop(t, Front(list[k]), <<Last(list[k])>>)
  BY <1>1, <1>2, <1>5, PopBack, PopMoves
<1> QED  BY <1>1, <1>3, <1>4, <1>5, PopCases

\* DEL and the cleaning of an expired key take the whole list.
LEMMA EraseConserves ==
  ASSUME Inv, ListInv, NEW k \in Key, Erase(k)
  PROVE  ListInv'
<1>1. DataTyped  BY DEF Inv, TypeOK, DataTyped
<1>2. /\ list' = [l \in List |-> IF l = k THEN <<>> ELSE list[l]]
      /\ dropped' = dropped \cup (IF k \in List THEN ToSet(list[k]) ELSE {})
      /\ UNCHANGED <<pushed, popped>>
  BY DEF Erase
<1>3. CASE k \notin List
  <2>1. list' = list  BY <1>1, <1>2, <1>3 DEF DataTyped
  <2>2. dropped' = dropped  BY <1>2, <1>3
  <2> QED  BY <1>2, <2>1, <2>2 DEF ListInv, ListConserved, ListsApart
<1>4. CASE k \in List
  <2>1. list' = [list EXCEPT ![k] = <<>>]  BY <1>1, <1>2, <1>4 DEF DataTyped
  <2>2. ToSet(<<>>) = {} /\ IsInjective(<<>>)  BY DEF ToSet, IsInjective
  <2>3. /\ list'[k] = <<>> /\ \A l \in List \ {k} : list'[l] = list[l]
        /\ Listed' = (Listed \ ToSet(list[k])) \cup ToSet(<<>>)
        /\ ToSet(list[k]) \subseteq Listed
    BY <1>1, <1>4, <2>1, OneList DEF ListInv
  <2>4. Listed' = Listed \ ToSet(list[k]) /\ dropped' = dropped \cup ToSet(list[k])
    BY <1>2, <1>4, <2>2, <2>3
  <2>5. /\ IsInjective(popped) /\ Listed \cup ToSet(popped) \cup dropped = 1 .. pushed
        /\ Listed \cap ToSet(popped) = {} /\ Listed \cap dropped = {}
        /\ ToSet(popped) \cap dropped = {}
    BY DEF ListInv, ListConserved, Listed
  <2>6. /\ Listed' \cup ToSet(popped) \cup dropped' = 1 .. pushed
        /\ Listed' \cap ToSet(popped) = {} /\ Listed' \cap dropped' = {}
        /\ ToSet(popped) \cap dropped' = {}
    BY <2>3, <2>4, <2>5
  <2>7. \A l \in List : IsInjective(list'[l])
    BY <2>2, <2>3 DEF ListInv, ListConserved
  <2>8. ListConserved'
    <3>1. UNION {ToSet(list'[l]) : l \in List} = Listed'  BY DEF Listed, ToSet
    <3>2. popped' = popped /\ pushed' = pushed  BY <1>2
    <3> QED  BY <2>5, <2>6, <2>7, <3>1, <3>2 DEF ListConserved
  <2>9. ListsApart'
    <3> SUFFICES ASSUME NEW l \in List, NEW m \in List, l # m
                 PROVE  ToSet(list'[l]) \cap ToSet(list'[m]) = {}
      BY DEF ListsApart, ToSet
    <3>1. ToSet(list[l]) \cap ToSet(list[m]) = {}  BY DEF ListInv, ListsApart
    <3>2. \A n \in List : ToSet(list'[n]) \subseteq ToSet(list[n])  BY <2>2, <2>3
    <3> QED  BY <3>1, <3>2
  <2> QED  BY <2>8, <2>9 DEF ListInv
<1> QED  BY <1>3, <1>4

LEMMA ListInit == Init => ListInv
<1> SUFFICES ASSUME Init PROVE ListInv  OBVIOUS
<1>1. ToSet(<<>>) = {} /\ IsInjective(<<>>)  BY DEF ToSet, IsInjective
<1>2. /\ \A l \in List : list[l] = <<>>
      /\ popped = <<>> /\ dropped = {} /\ pushed = 0
  BY DEF Init
<1>3. UNION {ToSet(list[l]) : l \in List} = {}  BY <1>1, <1>2
<1>4. 1 .. 0 = {}  OBVIOUS
<1> QED  BY <1>1, <1>2, <1>3, <1>4 DEF ListInv, ListConserved, ListsApart

LEMMA ListStep ==
  ASSUME Inv, ListInv, [Next]_vars
  PROVE  ListInv'
<1>1. CASE \E t \in Thread : lpush(t) \/ rpush(t)  BY <1>1, PushConserves
<1>2. CASE \E t \in Thread : lpop(t) \/ rpop(t)  BY <1>2, PopConserves
<1>3. CASE \E t \in Thread : del(t) \/ clean(t)
  <2>1. PICK t \in Thread : del(t) \/ clean(t)  BY <1>3
  <2>2. Erase(Big(t)) /\ pc[t] # "idle"  BY <2>1 DEF del, clean, Applies, At
  <2>3. Big(t) \in Key  BY <2>2 DEF Inv, Called
  <2> QED  BY <2>2, <2>3, EraseConserves
<1>4. CASE ~ \E t \in Thread : \/ lpush(t) \/ rpush(t) \/ lpop(t) \/ rpop(t)
                              \/ del(t) \/ clean(t)
  <2>1. UNCHANGED <<list, pushed, popped, dropped>>
    BY <1>4 DEF Next, Step, Call, Tick, Done, vars, data, history, acquire, set, incr, decr,
                WriteCounter, expire, srem_size, srem_put, srem_remove, WriteSet, peek, check_throws, check, unlock,
                unlock_clean, sadd_elem, sadd_size, sadd_put
  <2> QED  BY <2>1 DEF ListInv, ListConserved, ListsApart
<1> QED  BY <1>1, <1>2, <1>3, <1>4

\* A list neither loses nor doubles an element (redis_wrapper.cpp, lpush, rpush,
\* lpop, rpop and the cleaning of expired lists): each that was pushed is in its
\* list still, was popped once, or went with the whole list.
THEOREM ListsConserved == Spec => []ListConserved
<1>1. Inv /\ ListInv /\ [Next]_vars => ListInv'  BY ListStep
<1>2. ListInv => ListConserved  BY DEF ListInv
<1> QED  BY <1>1, <1>2, ListInit, Invariance, PTL DEF Spec
-----------------------------------------------------------------------------
(* Hashes and sorted sets: the system that CollectionsSpec is.             *)

\* A thread between two writes of a command, and one that has the lock to write.
Middle == {"list", "zadd_remove", "zadd_put", "zincrby_put", "zrem_remove"}
Holding == Middle \cup {"apply"}

OwnersInv ==
  /\ pc = [t \in Thread |-> pc[t]] /\ cmd = [t \in Thread |-> cmd[t]]
  /\ seen = [t \in Thread |-> seen[t]]
  /\ redis_mtx \in [w : SUBSET Thread, r : SUBSET Thread]
  /\ redis_mtx.w = {t \in Thread : pc[t] \in Holding}
  /\ redis_mtx.r = {t \in Thread : pc[t] \in {"unlock", "unlock_clean"}}
  /\ redis_mtx.w = {} \/ redis_mtx.r = {}
  /\ \A t, u \in redis_mtx.w : t = u

\* A thread in a command has arguments of the types of the command.
ArgsInv == \A t \in Thread : pc[t] # "idle" =>
  Big(t) \in Other /\ Arg(t) \in Args(Op(t), Big(t))

\* Which command it is that has come to a label.
OpsInv == \A t \in Thread :
  /\ pc[t] \in {"zadd_remove", "zadd_put"} => Op(t) = "ZADD"
  /\ At(t, "zincrby_put") => Op(t) = "ZINCRBY"
  /\ At(t, "zrem_remove") => Op(t) = "ZREM"

\* The field that a command on a hash is about to list or to unlist.
FieldOf(t) == IF Op(t) = "HSET" THEN Arg(t)[1] ELSE Arg(t)

Changing(h, f) == \E t \in Thread : At(t, "list") /\ Big(t) = h /\ FieldOf(t) = f

\* The list of a hash names its fields, each once, and their keys have their
\* values, but for a field that a command is at.
Sound(h) == ~ Throws(h) =>
  /\ IsInjective(value[h])
  /\ ToSet(value[h]) \ {Text} = {f \in Field : hash[h][f] # None}
  /\ \A f \in Field : hash[h][f] # None => field_val[h][f] = hash[h][f] \/ Changing(h, f)

\* What a command on a hash has read and written before it comes to the list.
ListSeen(t) == At(t, "list") =>
  /\ Op(t) \in {"HSET", "HDEL"} /\ ~ Throws(Big(t)) /\ seen[t].list = value[Big(t)]
  /\ Op(t) = "HSET" => field_val[Big(t)][FieldOf(t)] = Arg(t)[2]

HashTyped ==
  /\ value = [k \in Other |-> value[k]]
  /\ \A h \in Hash : value[h] \in {None, Short} \cup Seq(Field \cup {Text})
  /\ field_val \in [Hash -> [Field -> Value \cup {None}]]
  /\ hash \in [Hash -> [Field -> Value \cup {None}]]

HashInv ==
  /\ HashTyped
  /\ \A t \in Thread : ListSeen(t)
  /\ \A h \in Hash : Sound(h)

\* The pairs of a ZADD that change the score of their member.
Changed(t) == {i \in DOMAIN Arg(t) :
                 elem_score[Big(t)][Names(Arg(t))[i]] # Scores(Arg(t))[i]}

Unlisted(z, m) == \A n \in Padded : score_elem[z][n] # None => score_elem[z][n] # m

\* What a command on a sorted set has found holds until it returns, and the
\* score that it takes from a member is not listed any more.
ScoreSeen(t) ==
  /\ At(t, "zadd_remove") =>
       /\ seen[t].put = Changed(t)
       /\ \A i \in Changed(t) :
            LET s == elem_score[Big(t)][Names(Arg(t))[i]]
            IN  s # None => Pad(s) \in seen[t].remove
  /\ At(t, "zadd_put") =>
       /\ seen[t].put = Changed(t)
       /\ \A i \in Changed(t) : Unlisted(Big(t), Names(Arg(t))[i])
  /\ At(t, "zincrby_put") =>
       LET e == Arg(t)[1]
       IN  /\ Unlisted(Big(t), e)
           /\ seen[t].score = Raised(elem_score[Big(t)][e], Arg(t)[2])
  /\ At(t, "zrem_remove") =>
       /\ seen[t].score = elem_score[Big(t)][Arg(t)]
       /\ seen[t].score # None

ListedScore(z, n) == score_elem[z][n] # None =>
  LET s == elem_score[z][score_elem[z][n]] IN s # None /\ Pad(s) = n

\* The number x that history says of a score s.
Known(x, s) == /\ x = None <=> s = None
               /\ x \notin {None, Rounded} => Pad(s) = x

KnownScore(z, m) == Known(zset[z][m], elem_score[z][m])

ScoreTyped ==
  /\ elem_score \in [ZSet -> [Member -> (Int \X Nat) \cup {None}]]
  /\ score_elem \in [ZSet -> [Padded -> Member \cup {None}]]
  /\ zset \in [ZSet -> [Member -> Int \cup {None, Rounded}]]

ScoreInv ==
  /\ ScoreTyped
  /\ \A t \in Thread : ScoreSeen(t)
  /\ \A z \in ZSet : /\ \A n \in Padded : ListedScore(z, n)
                     /\ \A m \in Member : KnownScore(z, m)

\* The arguments of the commands that write.
LEMMA ArgTypes ==
  ASSUME NEW op, NEW k, NEW a \in Args(op, k)
  PROVE  /\ op = "SET" /\ k \in Hash => a \in {Short, <<Text>>}
         /\ op = "HSET" => k \in Hash /\ a \in Field \X Value
         /\ op = "HDEL" => k \in Hash /\ a \in Field
         /\ op = "ZADD" => k \in ZSet /\ a \in Pairs
         /\ op = "ZINCRBY" => k \in ZSet /\ a \in Member \X Increment
         /\ op = "ZREM" => k \in ZSet /\ a \in Member
<1>1. CASE op = "SET"  BY <1>1 DEF Args, OtherReader
<1>2. CASE op = "HSET"  BY <1>2 DEF Args, OtherReader
<1>3. CASE op = "HDEL"  BY <1>3 DEF Args, OtherReader
<1>4. CASE op = "ZADD"  BY <1>4 DEF Args, OtherReader
<1>5. CASE op = "ZINCRBY"  BY <1>5 DEF Args, OtherReader
<1>6. CASE op = "ZREM"  BY <1>6 DEF Args, OtherReader
<1> QED  BY <1>1, <1>2, <1>3, <1>4, <1>5, <1>6

\* The pairs of a ZADD: each names a member, and no two name the same.
LEMMA PairsAre ==
  ASSUME NEW p \in Pairs
  PROVE  /\ \E n \in Nat : DOMAIN p = 1 .. n
         /\ DOMAIN Names(p) = DOMAIN p /\ DOMAIN Scores(p) = DOMAIN p /\ DOMAIN Pads(p) = DOMAIN p
         /\ \A i \in DOMAIN p : /\ Names(p)[i] \in Member /\ Scores(p)[i] \in Score
                                /\ Pads(p)[i] = Pad(Scores(p)[i])
         /\ ~ Repeats => \A i, j \in DOMAIN p : Names(p)[i] = Names(p)[j] => i = j
<1>1. PICK n \in 1 .. MaxPairs : p \in [1 .. n -> Score \X Member]
  BY DEF Pairs
<1>2. n \in Nat
  BY CollectionsAssumption
<1>3. DOMAIN p = 1 .. n /\ \A i \in DOMAIN p : p[i] \in Score \X Member
  BY <1>1
<1>4. ~ Repeats => \A i, j \in DOMAIN p : p[i][2] = p[j][2] => i = j
  BY DEF Pairs
<1>5. \A i \in DOMAIN p : Names(p)[i] = p[i][2] /\ Scores(p)[i] = p[i][1] /\ Pads(p)[i] = Pad(p[i][1])
  BY DEF Names, Scores, Pads
<1>6. DOMAIN Names(p) = DOMAIN p /\ DOMAIN Scores(p) = DOMAIN p /\ DOMAIN Pads(p) = DOMAIN p
  BY DEF Names, Scores, Pads
<1>7. \A i \in DOMAIN p : Names(p)[i] \in Member /\ Scores(p)[i] \in Score
  BY <1>3, <1>5
<1> QED  BY <1>2, <1>3, <1>4, <1>5, <1>6, <1>7

\* What a batch puts under x.
Batched(f, I, at, to, x) ==
  /\ (\A i \in I : at[i] # x) => PutBatch(f, I, at, to)[x] = f[x]
  /\ (\E i \in I : at[i] = x) =>
       \E i \in I : at[i] = x /\ PutBatch(f, I, at, to)[x] = to[i]

LEMMA BatchIs ==
  ASSUME NEW f, NEW I, NEW n \in Nat, I \subseteq 1 .. n, NEW at, NEW to, NEW x \in DOMAIN f
  PROVE  Batched(f, I, at, to, x)
<1> DEFINE here == {i \in I : at[i] = x}
<1>1. PutBatch(f, I, at, to)[x] = IF here = {} THEN f[x] ELSE to[Max(here)]
  BY DEF PutBatch
<1>2. CASE here = {}
  <2>1. PutBatch(f, I, at, to)[x] = f[x]  BY <1>1, <1>2
  <2>2. \A i \in I : at[i] # x  BY <1>2
  <2> QED  BY <2>1, <2>2 DEF Batched
<1>3. CASE here # {}
  <2>1. here \subseteq 1 .. n  OBVIOUS
  <2> HIDE DEF here
  <2>2. \E i \in here : i = Max(here)  BY <1>3, <2>1, Extremes
  <2>3. PICK i \in here : i = Max(here)  BY <2>2
  <2>4. PutBatch(f, I, at, to)[x] = to[i]  BY <1>1, <1>3, <2>3
  <2>5. i \in I /\ at[i] = x  BY <2>3 DEF here
  <2> QED  BY <2>4, <2>5 DEF Batched
<1> QED  BY <1>2, <1>3

-----------------------------------------------------------------------------
(* The lock, and who holds it.                                             *)

Sharing == {"unlock", "unlock_clean"}

\* The ways in which a thread goes on to the label l.
Moves(t, l) ==
  /\ pc[t] # "idle" /\ Goto(t, l) /\ seen' = [seen EXCEPT ![t] = seen'[t]]
  /\ \/ /\ redis_mtx' = redis_mtx
        /\ pc[t] \in Holding <=> l \in Holding
        /\ pc[t] \notin Sharing /\ l \notin Sharing
     \/ CanLock(redis_mtx) /\ redis_mtx' = Lock(t) /\ l \in Holding
     \/ redis_mtx' = Unlocked /\ pc[t] \in Holding /\ l \notin Holding \cup Sharing
     \/ /\ CanLockShared(redis_mtx) /\ redis_mtx' = LockShared(redis_mtx, t)
        /\ pc[t] \notin Holding /\ l \in Sharing
     \/ /\ redis_mtx' = UnlockShared(redis_mtx, t)
        /\ pc[t] \in Sharing /\ l \notin Holding \cup Sharing

LEMMA GotoIs ==
  ASSUME OwnersInv, NEW t \in Thread, NEW l, Goto(t, l)
  PROVE  /\ pc' = [u \in Thread |-> pc'[u]] /\ cmd' = [u \in Thread |-> cmd'[u]]
         /\ pc'[t] = l /\ (l # "idle" => cmd'[t] = cmd[t])
         /\ \A u \in Thread \ {t} : pc'[u] = pc[u] /\ cmd'[u] = cmd[u]
BY DEF OwnersInv, Goto

\* Who holds the lock to write is alone with it.
LEMMA Alone ==
  ASSUME OwnersInv, NEW t \in Thread
  PROVE  /\ pc[t] \in Holding => \A u \in Thread : pc[u] \in Holding => u = t
         /\ CanLock(redis_mtx) => pc[t] \notin Holding
         /\ pc[t] \in Holding => redis_mtx.w # {}
BY DEF OwnersInv, CanLock

LEMMA MoveKeepsOwners ==
  ASSUME OwnersInv, NEW t \in Thread, NEW l, Moves(t, l)
  PROVE  OwnersInv'
<1>1. /\ pc' = [u \in Thread |-> pc'[u]] /\ cmd' = [u \in Thread |-> cmd'[u]]
      /\ pc'[t] = l /\ \A u \in Thread \ {t} : pc'[u] = pc[u]
  BY GotoIs DEF Moves
<1>2. seen' = [u \in Thread |-> seen'[u]]
  BY DEF Moves, OwnersInv
<1> DEFINE W == {u \in Thread : pc[u] \in Holding}
           R == {u \in Thread : pc[u] \in Sharing}
           V == {u \in Thread : pc'[u] \in Holding}
           Q == {u \in Thread : pc'[u] \in Sharing}
<1>3. /\ redis_mtx = [w |-> W, r |-> R] /\ (W = {} \/ R = {})
      /\ \A u, v \in W : u = v
  BY DEF OwnersInv, Sharing
<1>4. Holding \cap Sharing = {}
  BY DEF Holding, Middle, Sharing
<1>5. /\ V = IF l \in Holding THEN W \cup {t} ELSE W \ {t}
      /\ Q = IF l \in Sharing THEN R \cup {t} ELSE R \ {t}
  BY <1>1
<1>6. /\ t \in W <=> pc[t] \in Holding
      /\ t \in R <=> pc[t] \in Sharing
      /\ W \subseteq Thread /\ R \subseteq Thread /\ V \subseteq Thread /\ Q \subseteq Thread
  OBVIOUS
<1> HIDE DEF W, R, V, Q
<1>7. /\ redis_mtx' = [w |-> V, r |-> Q] /\ (V = {} \/ Q = {}) /\ \A u, v \in V : u = v
  <2>1. CASE /\ redis_mtx' = redis_mtx
             /\ pc[t] \in Holding <=> l \in Holding
             /\ pc[t] \notin Sharing /\ l \notin Sharing
    <3>1. V = W /\ Q = R  BY <1>5, <1>6, <2>1
    <3> QED  BY ONLY <1>3, <2>1, <3>1
  <2>2. CASE CanLock(redis_mtx) /\ redis_mtx' = Lock(t) /\ l \in Holding
    <3>1. W = {} /\ R = {}  BY <1>3, <2>2 DEF CanLock
    <3>2. V = {t} /\ Q = {}  BY <1>4, <1>5, <2>2, <3>1
    <3> QED  BY <2>2, <3>2 DEF Lock
  <2>3. CASE redis_mtx' = Unlocked /\ pc[t] \in Holding /\ l \notin Holding \cup Sharing
    <3>1. W = {t} /\ R = {}  BY <1>3, <1>6, <2>3
    <3>2. V = {} /\ Q = {}  BY <1>5, <2>3, <3>1
    <3> QED  BY <2>3, <3>2 DEF Unlocked
  <2>4. CASE /\ CanLockShared(redis_mtx) /\ redis_mtx' = LockShared(redis_mtx, t)
             /\ pc[t] \notin Holding /\ l \in Sharing
    <3>1. W = {} BY <1>3, <2>4 DEF CanLockShared
    <3>2. V = {} /\ Q = R \cup {t}  BY <1>4, <1>5, <2>4, <3>1
    <3>3. redis_mtx' = [w |-> W, r |-> R \cup {t}]  BY <1>3, <2>4 DEF LockShared
    <3> QED  BY <3>1, <3>2, <3>3
  <2>5. CASE /\ redis_mtx' = UnlockShared(redis_mtx, t)
             /\ pc[t] \in Sharing /\ l \notin Holding \cup Sharing
    <3>1. W = {} BY <1>3, <1>6, <2>5
    <3>2. V = {} /\ Q = R \ {t}  BY <1>5, <2>5, <3>1
    <3>3. redis_mtx' = [w |-> W, r |-> R \ {t}]  BY <1>3, <2>5 DEF UnlockShared
    <3> QED  BY <3>1, <3>2, <3>3
  <2> QED  BY <2>1, <2>2, <2>3, <2>4, <2>5 DEF Moves
<1> QED  BY <1>1, <1>2, <1>6, <1>7 DEF OwnersInv, V, Q, Sharing

LEMMA MoveKeepsArgs ==
  ASSUME OwnersInv, ArgsInv, NEW t \in Thread, NEW l, Moves(t, l)
  PROVE  ArgsInv'
<1>1. /\ pc[t] # "idle" /\ pc'[t] = l /\ (l # "idle" => cmd'[t] = cmd[t])
      /\ \A u \in Thread \ {t} : pc'[u] = pc[u] /\ cmd'[u] = cmd[u]
  BY GotoIs DEF Moves
<1>2. ASSUME NEW u \in Thread, pc'[u] # "idle"
      PROVE  pc[u] # "idle" /\ cmd'[u] = cmd[u]
  BY <1>1, <1>2
<1> QED  BY <1>2 DEF ArgsInv, Big, Op, Arg

\* The labels of the steps that end with a release, or go on with the lock.
LEMMA ReleaseMoves ==
  ASSUME OwnersInv, NEW t \in Thread, pc[t] \in Holding, Release(t)
  PROVE  Moves(t, "idle")
<1>1. pc[t] # "idle" /\ "idle" \notin Holding \cup Sharing
  BY DEF Holding, Middle, Sharing
<1> QED  BY <1>1 DEF Release, Moves, OwnersInv

LEMMA ContinueMoves ==
  ASSUME OwnersInv, NEW t \in Thread, pc[t] \in Holding, NEW l \in Middle, NEW x,
         Continue(t, l, x)
  PROVE  Moves(t, l)
<1>1. pc[t] # "idle" /\ pc[t] \notin Sharing /\ l \in Holding /\ l \notin Sharing
  BY DEF Holding, Middle, Sharing
<1> QED  BY <1>1 DEF Continue, Moves, OwnersInv

\* The steps that only read, or take or give back the lock to do so.
Looks(t) ==
  \/ acquire(t) \/ peek(t) \/ check_throws(t) \/ check(t) \/ unlock(t) \/ unlock_clean(t)

\* The steps that write, or throw, and release the lock.
Ends(t) ==
  \/ set_other(t) \/ del_other(t) \/ hset_list(t) \/ hdel_list(t) \/ zadd_put(t)
  \/ zincrby_throws(t) \/ zincrby_put(t) \/ zrem_remove(t)

LEMMA LooksMove ==
  ASSUME OwnersInv, NEW t \in Thread, Looks(t)
  PROVE  /\ \E l : Moves(t, l)
         /\ pc[t] \notin Holding /\ pc'[t] \notin Middle
<1> USE DEF Holding, Middle, Sharing
<1>1. CASE acquire(t)
  <2>1. Moves(t, "apply")  BY <1>1 DEF acquire, Moves, At, OwnersInv
  <2> QED  BY <1>1, <2>1, GotoIs DEF acquire, At, Moves
<1>2. CASE peek(t)
  <2> DEFINE l == IF Op(t) = "GET" /\ str[Big(t)] # None /\ Expired(Big(t))
                  THEN "clean" ELSE "idle"
  <2>1. l \in {"clean", "idle"}  OBVIOUS
  <2>2. Goto(t, l) /\ pc[t] = "peek" /\ seen' = seen /\ redis_mtx' = redis_mtx
    BY <1>2 DEF peek, At
  <2> HIDE DEF l
  <2>3. Moves(t, l)  BY <2>1, <2>2 DEF Moves, OwnersInv
  <2> QED  BY <2>1, <2>2, <2>3, GotoIs
<1>3. CASE check_throws(t)
  <2>1. Moves(t, "idle")  BY <1>3 DEF check_throws, Moves, At, OwnersInv
  <2> QED  BY <1>3, <2>1, GotoIs DEF check_throws, At, Moves
<1>4. CASE check(t)
  <2> DEFINE l == IF Expired(Big(t)) THEN "unlock_clean" ELSE "unlock"
  <2>1. l \in Sharing  OBVIOUS
  <2>2. /\ Goto(t, l) /\ pc[t] = "check" /\ seen' = seen
        /\ CanLockShared(redis_mtx) /\ redis_mtx' = LockShared(redis_mtx, t)
    BY <1>4 DEF check, At
  <2> HIDE DEF l
  <2>3. Moves(t, l)  BY <2>1, <2>2 DEF Moves, OwnersInv
  <2> QED  BY <2>1, <2>2, <2>3, GotoIs
<1>5. CASE unlock(t)
  <2> DEFINE l == After(t)
  <2>1. l \in {"idle", "sadd", "acquire"}  BY DEF After
  <2>2. /\ Goto(t, l) /\ pc[t] = "unlock" /\ seen' = seen
        /\ redis_mtx' = UnlockShared(redis_mtx, t)
    BY <1>5 DEF unlock, At
  <2> HIDE DEF l
  <2>3. Moves(t, l)  BY <2>1, <2>2 DEF Moves, OwnersInv
  <2> QED  BY <2>1, <2>2, <2>3, GotoIs
<1>6. CASE unlock_clean(t)
  <2>1. Moves(t, "clean")  BY <1>6 DEF unlock_clean, Moves, At, OwnersInv
  <2> QED  BY <1>6, <2>1, GotoIs DEF unlock_clean, At, Moves
<1> QED  BY <1>1, <1>2, <1>3, <1>4, <1>5, <1>6 DEF Looks

\* The cleaning of an expired key: nobody has the lock.
LEMMA CleanMoves ==
  ASSUME OwnersInv, NEW t \in Thread, clean_hash(t) \/ clean_zset(t)
  PROVE  /\ \E l : Moves(t, l)
         /\ CanLock(redis_mtx) /\ pc'[t] \notin Middle
<1> USE DEF Holding, Middle, Sharing
<1>1. \E l \in {"idle", "acquire"} : Goto(t, l)
  BY DEF clean_hash, clean_zset
<1>2. PICK l \in {"idle", "acquire"} : Goto(t, l)
  BY <1>1
<1>3. pc[t] = "clean" /\ CanLock(redis_mtx) /\ seen' = seen /\ redis_mtx' = redis_mtx
  BY DEF clean_hash, clean_zset, At
<1>4. Moves(t, l)
  BY <1>2, <1>3 DEF Moves, OwnersInv
<1> QED  BY <1>2, <1>3, <1>4, GotoIs

LEMMA EndsMove ==
  ASSUME OwnersInv, NEW t \in Thread, Ends(t) \/ expire(t)
  PROVE  Moves(t, "idle") /\ Release(t) /\ pc[t] \in Holding
<1>1. Release(t) /\ pc[t] \in {"apply", "list", "zadd_put", "zincrby_put", "zrem_remove"}
  BY DEF Ends, set_other, del_other, del, hset_list, hdel_list, zadd_put, zincrby_throws,
         zincrby_put, zrem_remove, expire, Applies, At
<1>2. pc[t] \in Holding
  BY <1>1 DEF Holding, Middle
<1> QED  BY <1>1, <1>2, ReleaseMoves

\* The steps that go on with the lock, or release it when there is nothing to do.
Reads(t) ==
  \/ hset_field(t) \/ hdel_field(t) \/ zadd_read(t) \/ zadd_remove(t)
  \/ zincrby_read(t) \/ zrem_read(t)

LEMMA ReadsMove ==
  ASSUME OwnersInv, NEW t \in Thread, Reads(t)
  PROVE  (\E l : Moves(t, l)) /\ pc[t] \in Holding
<1>1. pc[t] \in Holding
  BY DEF Reads, hset_field, hdel_field, zadd_read, zadd_remove, zincrby_read, zrem_read,
         Applies, At, Holding, Middle
<1>2. Release(t) \/ \E l \in Middle : \E x : Continue(t, l, x)
  <2>1. {"list", "zadd_remove", "zadd_put", "zincrby_put", "zrem_remove"} \subseteq Middle
    BY DEF Middle
  <2>2. CASE hset_field(t) \/ hdel_field(t)  BY <2>1, <2>2 DEF hset_field, hdel_field
  <2>3. CASE zadd_read(t)  BY <2>1, <2>3 DEF zadd_read
  <2>4. CASE zadd_remove(t)  BY <2>1, <2>4 DEF zadd_remove
  <2>5. CASE zincrby_read(t)  BY <2>1, <2>5 DEF zincrby_read
  <2>6. CASE zrem_read(t)  BY <2>1, <2>6 DEF zrem_read
  <2> QED  BY <2>2, <2>3, <2>4, <2>5, <2>6 DEF Reads
<1>3. ASSUME NEW l \in Middle, NEW x, Continue(t, l, x) PROVE Moves(t, l)
  BY <1>1, <1>3, ContinueMoves
<1>4. Release(t) => Moves(t, "idle")
  BY <1>1, ReleaseMoves
<1> QED  BY <1>1, <1>2, <1>3, <1>4

LEMMA Steps ==
  ASSUME NEW t, StepOther(t)
  PROVE  \/ Looks(t) /\ UNCHANGED collections
         \/ expire(t) /\ UNCHANGED collections
         \/ Ends(t) \/ clean_hash(t) \/ clean_zset(t) \/ Reads(t)
BY DEF StepOther, Looks, Ends, Reads

LEMMA StepMoves ==
  ASSUME OwnersInv, NEW t \in Thread, StepOther(t)
  PROVE  \E l : Moves(t, l)
BY Steps, LooksMove, EndsMove, ReadsMove, CleanMoves

\* A new command begins with a step that does not hold the lock.
LEMMA CallIs ==
  ASSUME OwnersInv, NEW t \in Thread, CallOther(t)
  PROVE  /\ pc'[t] \in {"peek", "acquire", "check"} /\ pc[t] = "idle"
         /\ pc' = [pc EXCEPT ![t] = pc'[t]] /\ cmd' = [cmd EXCEPT ![t] = cmd'[t]]
         /\ cmd'[t].key \in Other /\ cmd'[t].elem \in Args(cmd'[t].op, cmd'[t].key)
         /\ UNCHANGED <<redis_mtx, seen, collections>>
<1>1. \A op : Start(op) \in {"peek", "acquire", "check"}
  BY DEF Start
<1>2. PICK op \in Command, k \in Other : \E a \in Args(op, k) :
        /\ cmd' = [cmd EXCEPT ![t] = [op |-> op, key |-> k, elem |-> a]]
        /\ pc' = [pc EXCEPT ![t] = Start(op)]
  BY DEF CallOther
<1>3. PICK a \in Args(op, k) :
        /\ cmd' = [cmd EXCEPT ![t] = [op |-> op, key |-> k, elem |-> a]]
        /\ pc' = [pc EXCEPT ![t] = Start(op)]
  BY <1>2
<1>4. cmd'[t] = [op |-> op, key |-> k, elem |-> a] /\ pc'[t] = Start(op)
  BY <1>3 DEF OwnersInv
<1>5. pc[t] = "idle" /\ UNCHANGED <<redis_mtx, seen, collections>>
  BY DEF CallOther, At
<1>6. pc' = [pc EXCEPT ![t] = pc'[t]] /\ cmd' = [cmd EXCEPT ![t] = cmd'[t]]
  BY <1>3, <1>4, Zenon
<1>7. cmd'[t].key = k /\ cmd'[t].elem = a /\ cmd'[t].op = op /\ k \in Other /\ a \in Args(op, k)
  BY <1>4
<1>8. pc'[t] \in {"peek", "acquire", "check"}
  BY <1>1, <1>4
<1>9. cmd'[t].key \in Other /\ cmd'[t].elem \in Args(cmd'[t].op, cmd'[t].key)
  BY <1>7, Zenon
<1> QED  BY ONLY <1>5, <1>6, <1>8, <1>9, Zenon

LEMMA CallKeeps ==
  ASSUME OwnersInv, ArgsInv, NEW t \in Thread, CallOther(t)
  PROVE  OwnersInv' /\ ArgsInv'
<1>1. /\ pc'[t] \in {"peek", "acquire", "check"} /\ pc[t] = "idle"
      /\ pc' = [pc EXCEPT ![t] = pc'[t]] /\ cmd' = [cmd EXCEPT ![t] = cmd'[t]]
      /\ cmd'[t].key \in Other /\ cmd'[t].elem \in Args(cmd'[t].op, cmd'[t].key)
      /\ UNCHANGED <<redis_mtx, seen>>
  BY CallIs
<1>2. pc = [u \in Thread |-> pc[u]] /\ cmd = [u \in Thread |-> cmd[u]]
  BY DEF OwnersInv
<1>3. pc' = [u \in Thread |-> pc'[u]] /\ cmd' = [u \in Thread |-> cmd'[u]]
  BY <1>1, <1>2
<1>4. \A u \in Thread \ {t} : pc'[u] = pc[u] /\ cmd'[u] = cmd[u]
  BY <1>1, <1>2
<1>5. \A u \in Thread : /\ pc'[u] \in Holding <=> pc[u] \in Holding
                        /\ pc'[u] \in Sharing <=> pc[u] \in Sharing
  BY <1>1, <1>4 DEF Holding, Middle, Sharing
<1>6. OwnersInv'
  BY <1>1, <1>3, <1>5 DEF OwnersInv, Sharing
<1>7. ArgsInv'
  BY <1>1, <1>4 DEF ArgsInv, Big, Op, Arg
<1> QED  BY <1>6, <1>7

LEMMA OwnersStep ==
  ASSUME OwnersInv, ArgsInv, [NextCollections]_allvars
  PROVE  OwnersInv' /\ ArgsInv'
<1>1. CASE \E t \in Thread : StepOther(t)
  BY <1>1, StepMoves, MoveKeepsOwners, MoveKeepsArgs
<1>2. CASE \E t \in Thread : CallOther(t)
  BY <1>2, CallKeeps
<1>3. CASE Tick \/ UNCHANGED allvars
  <2>1. UNCHANGED <<pc, cmd, seen, redis_mtx>>
    BY <1>3 DEF Tick, allvars, vars
  <2> QED  BY <2>1 DEF OwnersInv, ArgsInv, Big, Op, Arg
<1> QED  BY <1>1, <1>2, <1>3 DEF NextCollections, DoneOther

LEMMA OpsStep ==
  ASSUME OwnersInv, OpsInv, [NextCollections]_allvars
  PROVE  OpsInv'
<1> DEFINE Ready(t, l) == /\ l \in {"zadd_remove", "zadd_put"} => Op(t) = "ZADD"
                          /\ l = "zincrby_put" => Op(t) = "ZINCRBY"
                          /\ l = "zrem_remove" => Op(t) = "ZREM"
<1>1. ASSUME NEW t \in Thread, StepOther(t) PROVE OpsInv'
  <2>1. PICK l : Moves(t, l)
    BY <1>1, StepMoves
  <2>2. /\ pc'[t] = l /\ (l # "idle" => cmd'[t] = cmd[t])
        /\ \A u \in Thread \ {t} : pc'[u] = pc[u] /\ cmd'[u] = cmd[u]
    BY <2>1, GotoIs DEF Moves
  <2>3. Ready(t, l)
    <3>1. CASE Looks(t) \/ clean_hash(t) \/ clean_zset(t)
      BY <2>2, <3>1, LooksMove, CleanMoves DEF Middle
    <3>2. CASE Ends(t) \/ expire(t)
      <4>1. Goto(t, "idle")
        BY <3>2, EndsMove DEF Release
      <4> QED  BY <2>2, <4>1, GotoIs
    <3>3. CASE Reads(t)
      <4>1. \E k : Goto(t, k) /\ Ready(t, k)
        <5>1. CASE hset_field(t)
          BY <5>1 DEF hset_field, Continue, Release
        <5>2. CASE hdel_field(t)
          BY <5>2 DEF hdel_field, Continue, Release
        <5>3. CASE zadd_read(t)
          BY <5>3 DEF zadd_read, Continue, Applies
        <5>4. CASE zadd_remove(t)
          BY <5>4 DEF zadd_remove, Continue, OpsInv, At
        <5>5. CASE zincrby_read(t)
          BY <5>5 DEF zincrby_read, Continue, Applies
        <5>6. CASE zrem_read(t)
          BY <5>6 DEF zrem_read, Continue, Release, Applies
        <5> QED  BY <3>3, <5>1, <5>2, <5>3, <5>4, <5>5, <5>6 DEF Reads
      <4>2. PICK k : Goto(t, k) /\ Ready(t, k)
        BY <4>1
      <4>3. k = l
        BY <2>2, <4>2, GotoIs
      <4> QED  BY <4>2, <4>3
    <3> QED  BY <1>1, <3>1, <3>2, <3>3, Steps
  <2> QED  BY <2>2, <2>3 DEF OpsInv, At, Op
<1>2. ASSUME NEW t \in Thread, CallOther(t) PROVE OpsInv'
  <2>1. /\ pc'[t] \in {"peek", "acquire", "check"}
        /\ pc' = [pc EXCEPT ![t] = pc'[t]] /\ cmd' = [cmd EXCEPT ![t] = cmd'[t]]
    BY <1>2, CallIs
  <2>2. pc = [u \in Thread |-> pc[u]] /\ cmd = [u \in Thread |-> cmd[u]]
    BY DEF OwnersInv
  <2>3. \A u \in Thread \ {t} : pc'[u] = pc[u] /\ cmd'[u] = cmd[u]
    BY <2>1, <2>2
  <2> QED  BY <2>1, <2>3 DEF OpsInv, At, Op
<1>3. CASE Tick \/ UNCHANGED allvars
  BY <1>3 DEF Tick, allvars, vars, OpsInv, At, Op
<1> QED  BY <1>1, <1>2, <1>3 DEF NextCollections, DoneOther
-----------------------------------------------------------------------------
(* Hashes.                                                                 *)

LEMMA KeysApart ==
  /\ Hash \subseteq Other /\ ZSet \subseteq Other /\ Plain \subseteq Other
  /\ Hash \cap ZSet = {} /\ Hash \cap Plain = {}
BY CollectionsAssumption

\* A step that leaves the hashes and the threads at them alone.
LEMMA HashQuiet ==
  ASSUME HashInv, ArgsInv, value' = [k \in Other |-> value'[k]],
         \A h \in Hash : value'[h] = value[h], UNCHANGED <<field_val, hash>>,
         \A u \in Thread : /\ pc'[u] = "list" <=> pc[u] = "list"
                           /\ pc[u] = "list" => cmd'[u] = cmd[u] /\ seen'[u] = seen[u]
  PROVE  HashInv'
<1>1. HashTyped'
  BY DEF HashInv, HashTyped
<1>2. ASSUME NEW u \in Thread, pc[u] = "list"
      PROVE  Big(u) \in Hash
  <2>1. pc[u] # "idle" /\ Op(u) \in {"HSET", "HDEL"}
    BY <1>2 DEF HashInv, ListSeen, At
  <2>2. Arg(u) \in Args(Op(u), Big(u))
    BY <2>1 DEF ArgsInv
  <2> QED  BY <2>1, <2>2, ArgTypes
<1>3. ASSUME NEW u \in Thread PROVE ListSeen(u)'
  <2>1. ListSeen(u)
    BY DEF HashInv
  <2> QED  BY <1>2, <2>1 DEF ListSeen, At, Op, Big, Throws, FieldOf, Arg
<1>4. ASSUME NEW h \in Hash PROVE Sound(h)'
  <2>1. \A f : Changing(h, f) <=> Changing(h, f)'
    BY DEF Changing, At, Big, FieldOf, Op, Arg
  <2>2. Sound(h)
    BY DEF HashInv
  <2>3. value'[h] = value[h] /\ hash'[h] = hash[h] /\ field_val'[h] = field_val[h]
    OBVIOUS
  <2> QED  BY <2>1, <2>2, <2>3 DEF Sound, Throws, ToSet, IsInjective
<1> QED  BY <1>1, <1>3, <1>4 DEF HashInv

\* Where nobody is at the hashes, one may be made anew or go.
LEMMA HashMade ==
  ASSUME HashInv, HashTyped', \A u \in Thread : pc[u] # "list" /\ pc'[u] # "list",
         \A h \in Hash : \/ /\ value'[h] = value[h] /\ hash'[h] = hash[h]
                            /\ field_val'[h] = field_val[h]
                         \/ value'[h] \in {None, Short}
                         \/ value'[h] = <<Text>> /\ hash'[h] = NoFields
  PROVE  HashInv'
<1>1. ASSUME NEW u \in Thread PROVE ListSeen(u)'
  BY DEF ListSeen, At
<1>2. ASSUME NEW h \in Hash PROVE Sound(h)'
  <2>1. CASE value'[h] \in {None, Short}
    BY <2>1 DEF Sound, Throws
  <2>2. CASE value'[h] = <<Text>> /\ hash'[h] = NoFields
    <3>1. IsInjective(<<Text>>) /\ ToSet(<<Text>>) = {Text}
      BY DEF IsInjective, ToSet
    <3>2. \A f \in Field : hash'[h][f] = None
      BY <2>2 DEF NoFields
    <3>3. /\ IsInjective(value[h])'
          /\ (ToSet(value[h]) \ {Text} = {f \in Field : hash[h][f] # None})'
      BY <2>2, <3>1, <3>2
    <3> QED  BY <3>2, <3>3 DEF Sound
  <2>3. CASE value'[h] = value[h] /\ hash'[h] = hash[h] /\ field_val'[h] = field_val[h]
    <3>1. Sound(h)
      BY DEF HashInv
    <3>2. \A f : ~ Changing(h, f)
      BY DEF Changing, At
    <3> QED  BY <2>3, <3>1, <3>2 DEF Sound, Throws, ToSet, IsInjective
  <2> QED  BY <2>1, <2>2, <2>3
<1> QED  BY <1>1, <1>2 DEF HashInv

\* With the lock, a thread is alone at the hashes.
LEMMA AloneAtList ==
  ASSUME OwnersInv, NEW t \in Thread, pc[t] \in Holding \/ CanLock(redis_mtx),
         NEW l, Goto(t, l)
  PROVE  /\ \A u \in Thread \ {t} : pc[u] # "list" /\ pc'[u] # "list"
         /\ pc'[t] = l /\ (CanLock(redis_mtx) => pc[t] # "list")
<1>1. "list" \in Holding
  BY DEF Holding, Middle
<1>2. \A u \in Thread \ {t} : pc[u] \notin Holding
  BY Alone
<1>3. pc'[t] = l /\ \A u \in Thread \ {t} : pc'[u] = pc[u]
  BY GotoIs
<1>4. CanLock(redis_mtx) => pc[t] \notin Holding
  BY Alone
<1> QED  BY <1>1, <1>2, <1>3, <1>4

LEMMA NoFieldsType == NoFields \in [Field -> Value \cup {None}]
BY DEF NoFields

\* SET and DEL.
LEMMA HashSet ==
  ASSUME OwnersInv, ArgsInv, HashInv, NEW t \in Thread, set_other(t) \/ del_other(t)
  PROVE  HashInv'
<1> DEFINE k == Big(t)
<1>1. /\ pc[t] = "apply" /\ Goto(t, "idle") /\ pc[t] \in Holding
      /\ Op(t) \in {"SET", "DEL"} /\ UNCHANGED field_val
      /\ hash' = [h \in Hash |-> IF h = k THEN NoFields ELSE hash[h]]
  BY DEF set_other, del_other, del, Forget, Applies, At, Release, Holding
<1>2. k \in Other /\ Arg(t) \in Args(Op(t), k)
  BY <1>1 DEF ArgsInv
<1>3. \A u \in Thread : pc[u] # "list" /\ pc'[u] # "list"
  BY <1>1, AloneAtList
<1>4. \E x : /\ value' = [value EXCEPT ![k] = x]
             /\ k \in Hash => x = <<Text>> \/ x \in {None, Short}
  <2>1. CASE set_other(t)
    <3>1. Op(t) = "SET" /\ value' = [value EXCEPT ![k] = Arg(t)]
      BY <2>1 DEF set_other, Applies
    <3>2. k \in Hash => Arg(t) \in {Short, <<Text>>}
      BY <1>2, <3>1, ArgTypes
    <3> QED  BY <3>1, <3>2
  <2>2. CASE del_other(t)
    BY <2>2 DEF del_other, Forget
  <2> QED  BY <2>1, <2>2
<1>5. PICK x : /\ value' = [value EXCEPT ![k] = x]
               /\ k \in Hash => x = <<Text>> \/ x \in {None, Short}
  BY <1>4
<1>6. /\ value' = [y \in Other |-> value'[y]] /\ value'[k] = x
      /\ \A h \in Hash : h # k => value'[h] = value[h] /\ hash'[h] = hash[h]
      /\ k \in Hash => hash'[k] = NoFields
  BY <1>1, <1>2, <1>5, KeysApart DEF HashInv, HashTyped
<1>7. <<Text>> \in Seq(Field \cup {Text})
  OBVIOUS
<1> HIDE DEF k
<1>8. HashTyped'
  <2>1. \A h \in Hash : value'[h] \in {None, Short} \cup Seq(Field \cup {Text})
    BY <1>5, <1>6, <1>7 DEF HashInv, HashTyped
  <2>2. hash' \in [Hash -> [Field -> Value \cup {None}]]
    BY <1>1, NoFieldsType DEF HashInv, HashTyped
  <2> QED  BY <1>1, <1>6, <2>1, <2>2 DEF HashInv, HashTyped
<1>9. \A h \in Hash : \/ /\ value'[h] = value[h] /\ hash'[h] = hash[h]
                         /\ field_val'[h] = field_val[h]
                      \/ value'[h] \in {None, Short}
                      \/ value'[h] = <<Text>> /\ hash'[h] = NoFields
  BY <1>1, <1>5, <1>6
<1> QED  BY <1>3, <1>8, <1>9, HashMade

\* The cleaning of a hash that has expired.
LEMMA HashClean ==
  ASSUME OwnersInv, ArgsInv, HashInv, NEW t \in Thread, clean_hash(t)
  PROVE  HashInv'
<1> DEFINE k == Big(t)
<1>1. /\ k \in Hash /\ CanLock(redis_mtx)
      /\ \E l \in {"idle", "acquire"} : Goto(t, l)
      /\ \/ UNCHANGED collections
         \/ /\ value' = [x \in Other |->
                 IF x = k \/ x \in Plain \cap ToSet(Fields(k)) THEN None ELSE value[x]]
            /\ hash' = [hash EXCEPT ![k] = NoFields] /\ UNCHANGED field_val
  BY DEF clean_hash
<1>2. \A u \in Thread : pc[u] # "list" /\ pc'[u] # "list"
  BY <1>1, AloneAtList
<1> HIDE DEF k
<1>3. CASE UNCHANGED collections
  <2>1. UNCHANGED <<value, hash, field_val>>
    BY <1>3 DEF collections
  <2>2. HashTyped'
    BY <2>1 DEF HashInv, HashTyped
  <2> QED  BY <1>2, <2>1, <2>2, HashMade
<1>4. CASE /\ value' = [x \in Other |->
                IF x = k \/ x \in Plain \cap ToSet(Fields(k)) THEN None ELSE value[x]]
           /\ hash' = [hash EXCEPT ![k] = NoFields] /\ UNCHANGED field_val
  <2>1. \A h \in Hash : /\ h # k => value'[h] = value[h] /\ hash'[h] = hash[h]
                        /\ h = k => value'[h] = None
    BY <1>4, KeysApart DEF HashInv, HashTyped
  <2>2. HashTyped'
    <3>1. hash' \in [Hash -> [Field -> Value \cup {None}]]
      BY <1>4, NoFieldsType DEF HashInv, HashTyped
    <3>2. value' = [x \in Other |-> value'[x]]
      BY <1>4
    <3> QED  BY <1>4, <2>1, <3>1, <3>2 DEF HashInv, HashTyped
  <2> QED  BY <1>2, <1>4, <2>1, <2>2, HashMade
<1> QED  BY <1>1, <1>3, <1>4

\* A command on a hash writes the key of the field and goes on to the list.
LEMMA HashTouch ==
  ASSUME OwnersInv, HashInv, NEW t \in Thread, pc[t] = "apply",
         NEW h \in Hash, h = Big(t), NEW f \in Field, NEW v \in Value \cup {None},
         Op(t) \in {"HSET", "HDEL"}, FieldOf(t) = f, Op(t) = "HSET" => v = Arg(t)[2],
         field_val' = [field_val EXCEPT ![h][f] = v], UNCHANGED <<value, hash>>,
         IF Throws(h) THEN Release(t) ELSE Continue(t, "list", [list |-> Fields(h)])
  PROVE  HashInv'
<1>1. pc[t] \in Holding
  BY DEF Holding
<1>2. /\ field_val' \in [Hash -> [Field -> Value \cup {None}]]
      /\ \A g \in Hash \ {h} : field_val'[g] = field_val[g]
      /\ \A e \in Field : field_val'[h][e] = IF e = f THEN v ELSE field_val[h][e]
  BY DEF HashInv, HashTyped
<1>3. HashTyped'
  BY <1>2 DEF HashInv, HashTyped
<1>4. CASE Throws(h)
  <2>1. \A u \in Thread : pc[u] # "list" /\ pc'[u] # "list"
    <3>1. Goto(t, "idle")
      BY <1>4 DEF Release
    <3> QED  BY <1>1, <3>1, AloneAtList
  <2>2. value'[h] \in {None, Short}
    BY <1>4 DEF Throws
  <2> QED  BY <1>2, <1>3, <2>1, <2>2, HashMade
<1>5. CASE ~ Throws(h)
  <2>1. Goto(t, "list") /\ seen' = [seen EXCEPT ![t] = [list |-> value[h]]]
    BY <1>5 DEF Continue, Fields
  <2>2. /\ pc'[t] = "list" /\ cmd'[t] = cmd[t] /\ seen'[t].list = value[h]
        /\ \A u \in Thread \ {t} : pc[u] # "list" /\ pc'[u] # "list"
    BY <1>1, <2>1, AloneAtList, GotoIs DEF OwnersInv
  <2>3. ASSUME NEW u \in Thread PROVE ListSeen(u)'
    <3>1. CASE u # t
      BY <2>2, <3>1 DEF ListSeen, At
    <3>2. CASE u = t
      BY <1>2, <1>5, <2>2, <3>2 DEF ListSeen, At, Op, Big, Throws, FieldOf, Arg
    <3> QED  BY <3>1, <3>2
  <2>4. ASSUME NEW g \in Hash PROVE Sound(g)'
    <3>1. Sound(g)
      BY DEF HashInv
    <3>2. \A e : ~ Changing(g, e)
      BY <2>2 DEF Changing, At
    <3>3. Changing(h, f)'
      BY <2>2 DEF Changing, At, Big, FieldOf, Op, Arg
    <3>4. \A e \in Field : field_val'[g][e] = field_val[g][e] \/ (g = h /\ e = f)
      BY <1>2
    <3> QED  BY <3>1, <3>2, <3>3, <3>4 DEF Sound, Throws
  <2> QED  BY <1>3, <2>3, <2>4 DEF HashInv
<1> QED  BY <1>4, <1>5

\* A command on a hash writes the list and returns.
LEMMA HashList ==
  ASSUME OwnersInv, HashInv, NEW t \in Thread, pc[t] = "list", Release(t),
         NEW h \in Hash, h = Big(t), NEW f \in Field, FieldOf(t) = f,
         NEW x \in Value \cup {None}, x # None => field_val[h][f] = x,
         NEW s, s \in {None, Short} \cup Seq(Field \cup {Text}),
         value' = [value EXCEPT ![h] = s], hash' = [hash EXCEPT ![h][f] = x],
         UNCHANGED field_val,
         \/ s \in {None, Short}
         \/ /\ IsInjective(s)
            /\ ToSet(s) = (ToSet(value[h]) \ {f}) \cup (IF x = None THEN {} ELSE {f})
  PROVE  HashInv'
<1>1. /\ \A u \in Thread \ {t} : pc[u] # "list"
      /\ \A u \in Thread : pc'[u] # "list"
  <2>1. pc[t] \in Holding /\ Goto(t, "idle")
    BY DEF Holding, Middle, Release
  <2> QED  BY <2>1, AloneAtList
<1>2. /\ value' = [k \in Other |-> value'[k]] /\ value'[h] = s
      /\ \A g \in Hash \ {h} : value'[g] = value[g] /\ hash'[g] = hash[g]
      /\ hash' \in [Hash -> [Field -> Value \cup {None}]]
      /\ \A e \in Field : hash'[h][e] = IF e = f THEN x ELSE hash[h][e]
  BY KeysApart DEF HashInv, HashTyped
<1>3. HashTyped'
  BY <1>2 DEF HashInv, HashTyped
<1>4. ASSUME NEW u \in Thread PROVE ListSeen(u)'
  BY <1>1 DEF ListSeen, At
<1>5. ASSUME NEW g \in Hash, g # h PROVE Sound(g)'
  <2>1. Sound(g)
    BY DEF HashInv
  <2>2. \A e : ~ Changing(g, e)
    BY <1>1, <1>5 DEF Changing, At
  <2> QED  BY <1>2, <1>5, <2>1, <2>2 DEF Sound, Throws, ToSet, IsInjective
<1>6. Sound(h)'
  <2>1. Sound(h) /\ ~ Throws(h)
    BY DEF HashInv, ListSeen, At
  <2>2. \A e : Changing(h, e) => e = f
    BY <1>1 DEF Changing, At
  <2>3. f # Text
    BY CollectionsAssumption
  <2>4. CASE s \in {None, Short}
    BY <1>2, <2>4 DEF Sound, Throws
  <2>5. CASE /\ IsInjective(s)
             /\ ToSet(s) = (ToSet(value[h]) \ {f}) \cup (IF x = None THEN {} ELSE {f})
    <3>1. ToSet(value[h]) \ {Text} = {e \in Field : hash[h][e] # None}
      BY <2>1 DEF Sound
    <3>2. ToSet(s) \ {Text} = {e \in Field : hash'[h][e] # None}
      <4>1. \A e : e \in ToSet(s) \ {Text} <=>
                     \/ e \in ToSet(value[h]) \ {Text} /\ e # f
                     \/ e = f /\ x # None
        BY <2>3, <2>5
      <4>2. \A e \in Field : hash'[h][e] # None <=>
                     \/ hash[h][e] # None /\ e # f
                     \/ e = f /\ x # None
        BY <1>2
      <4> QED  BY <3>1, <4>1, <4>2
    <3>3. \A e \in Field : hash'[h][e] # None => field_val'[h][e] = hash'[h][e]
      BY <1>2, <2>1, <2>2 DEF Sound
    <3>4. IsInjective(value'[h]) /\ ToSet(value'[h]) \ {Text} = {e \in Field : hash'[h][e] # None}
      BY <1>2, <2>5, <3>2
    <3>5. (IsInjective(value[h]) /\ ToSet(value[h]) \ {Text} = {e \in Field : hash[h][e] # None})'
      BY <3>4 DEF IsInjective, ToSet
    <3> QED  BY <3>3, <3>5 DEF Sound
  <2> QED  BY <2>4, <2>5
<1> QED  BY <1>3, <1>4, <1>5, <1>6 DEF HashInv

-----------------------------------------------------------------------------
\* HSET and HDEL.
LEMMA HashFields ==
  ASSUME OwnersInv, ArgsInv, HashInv, NEW t \in Thread, hset_field(t) \/ hdel_field(t)
  PROVE  HashInv'
<1> DEFINE h == Big(t)
           f == FieldOf(t)
           v == IF Op(t) = "HSET" THEN Arg(t)[2] ELSE None
<1>1. /\ pc[t] = "apply" /\ Op(t) \in {"HSET", "HDEL"}
      /\ field_val' = [field_val EXCEPT ![h][f] = v] /\ UNCHANGED <<value, hash>>
      /\ IF Throws(h) THEN Release(t) ELSE Continue(t, "list", [list |-> Fields(h)])
  BY DEF hset_field, hdel_field, Applies, At, FieldOf
<1>2. Arg(t) \in Args(Op(t), h)
  BY <1>1 DEF ArgsInv
<1>3. h \in Hash /\ f \in Field /\ v \in Value \cup {None}
  BY <1>1, <1>2, ArgTypes DEF FieldOf
<1>4. Op(t) = "HSET" => v = Arg(t)[2]
  OBVIOUS
<1> HIDE DEF v
<1> QED  BY <1>1, <1>3, <1>4, HashTouch

LEMMA HashAppends ==
  ASSUME OwnersInv, ArgsInv, HashInv, NEW t \in Thread, hset_list(t)
  PROVE  HashInv'
<1> DEFINE h == Big(t)
           f == FieldOf(t)
           x == Arg(t)[2]
<1>1. /\ pc[t] = "list" /\ Op(t) = "HSET" /\ Release(t) /\ UNCHANGED field_val
      /\ value' = IF f \in ToSet(seen[t].list) THEN value
                  ELSE [value EXCEPT ![h] = Append(seen[t].list, f)]
      /\ hash' = [hash EXCEPT ![h][f] = x]
  BY DEF hset_list, At, FieldOf
<1>2. Arg(t) \in Args(Op(t), h)
  BY <1>1 DEF ArgsInv
<1>3. h \in Hash /\ f \in Field /\ x \in Value
  BY <1>1, <1>2, ArgTypes DEF FieldOf
<1>4. seen[t].list = value[h] /\ field_val[h][f] = x /\ ~ Throws(h)
  BY <1>1 DEF HashInv, ListSeen, At
<1>5. value[h] \in Seq(Field \cup {Text}) /\ IsInjective(value[h])
  BY <1>3, <1>4 DEF HashInv, HashTyped, Throws, Sound
<1>6. x # None
  BY <1>3, CollectionsAssumption
<1> DEFINE s == IF f \in ToSet(value[h]) THEN value[h] ELSE Append(value[h], f)
<1>7. value' = [value EXCEPT ![h] = s]
  BY <1>1, <1>3, <1>4, KeysApart DEF HashInv, HashTyped
<1>8. /\ s \in Seq(Field \cup {Text}) /\ IsInjective(s)
      /\ ToSet(s) = (ToSet(value[h]) \ {f}) \cup {f}
  <2>1. CASE f \in ToSet(value[h])
    BY <1>5, <2>1
  <2>2. CASE f \notin ToSet(value[h])
    <3>1. f \in Field \cup {Text}
      BY <1>3
    <3> HIDE DEF f, h
    <3>2. /\ Append(value[h], f) \in Seq(Field \cup {Text})
          /\ ToSet(Append(value[h], f)) = ToSet(value[h]) \cup {f}
          /\ IsInjective(Append(value[h], f))
      BY <1>5, <2>2, <3>1, PushBack
    <3> QED  BY <2>2, <3>2
  <2> QED  BY <2>1, <2>2
<1>9. ToSet(s) = (ToSet(value[h]) \ {f}) \cup (IF x = None THEN {} ELSE {f})
  BY <1>6, <1>8
<1>10. s \in {None, Short} \cup Seq(Field \cup {Text}) /\ x \in Value \cup {None}
  BY <1>3, <1>8
<1> HIDE DEF s, x
<1> QED  BY <1>1, <1>3, <1>4, <1>7, <1>8, <1>9, <1>10, HashList

LEMMA HashRemoves ==
  ASSUME OwnersInv, ArgsInv, HashInv, NEW t \in Thread, hdel_list(t)
  PROVE  HashInv'
<1> DEFINE h == Big(t)
           f == FieldOf(t)
           left == RemoveFirst(value[h], f)
<1>1. /\ pc[t] = "list" /\ Op(t) = "HDEL" /\ Release(t) /\ UNCHANGED field_val
      /\ hash' = [hash EXCEPT ![h][f] = None] /\ f = Arg(t)
  BY DEF hdel_list, At, FieldOf
<1>2. Arg(t) \in Args(Op(t), h)
  BY <1>1 DEF ArgsInv
<1>3. h \in Hash /\ f \in Field
  BY <1>1, <1>2, ArgTypes
<1>4. seen[t].list = value[h] /\ ~ Throws(h)
  BY <1>1 DEF HashInv, ListSeen, At
<1>5. value[h] \in Seq(Field \cup {Text}) /\ IsInjective(value[h])
  BY <1>3, <1>4 DEF HashInv, HashTyped, Throws, Sound
<1> DEFINE s == IF f \notin ToSet(value[h]) THEN value[h]
                ELSE IF left = <<>> THEN None ELSE left
<1>6. value' = [value EXCEPT ![h] = s]
  <2>1. value' = IF f \notin ToSet(value[h]) THEN value
                 ELSE [value EXCEPT ![h] = IF left = <<>> THEN None ELSE left]
    BY <1>1, <1>4 DEF hdel_list
  <2>2. value = [value EXCEPT ![h] = value[h]]
    BY <1>3, KeysApart DEF HashInv, HashTyped
  <2> HIDE DEF left, f, h
  <2> QED  BY <2>1, <2>2
<1>7. /\ s \in {None, Short} \cup Seq(Field \cup {Text})
      /\ \/ s \in {None, Short}
         \/ IsInjective(s) /\ ToSet(s) = ToSet(value[h]) \ {f}
  <2>1. CASE f \notin ToSet(value[h])
    BY <1>5, <2>1
  <2>2. CASE f \in ToSet(value[h])
    <3> HIDE DEF f, h
    <3>1. \E i \in 1 .. Len(value[h]) :
             value[h][i] = f /\ RemoveFirst(value[h], f) = RemoveAt(value[h], i)
      BY <1>5, <2>2, EraseElement
    <3>2. PICK i \in 1 .. Len(value[h]) : value[h][i] = f /\ left = RemoveAt(value[h], i)
      BY <3>1
    <3>3. IsInjective(left) /\ ToSet(left) = ToSet(value[h]) \ {f}
      BY <1>5, <3>2, EraseLeaves
    <3>4. left \in Seq(Field \cup {Text})
      BY <1>5, <3>2, EraseAt
    <3> HIDE DEF left
    <3> QED  BY <2>2, <3>3, <3>4
  <2> QED  BY <2>1, <2>2
<1> HIDE DEF s
<1> QED  BY <1>1, <1>3, <1>6, <1>7, HashList

\* The other steps of a thread leave the hashes alone.
LEMMA HashAway ==
  ASSUME OwnersInv, ArgsInv, HashInv, NEW t \in Thread, \E l : Moves(t, l),
         pc[t] # "list", pc'[t] # "list",
         value' = value \/ \E z \in ZSet : \E x : value' = [value EXCEPT ![z] = x],
         UNCHANGED <<field_val, hash>>
  PROVE  HashInv'
<1>1. PICK l : Moves(t, l)
  OBVIOUS
<1>2. \A u \in Thread \ {t} : pc'[u] = pc[u] /\ cmd'[u] = cmd[u] /\ seen'[u] = seen[u]
  BY <1>1, GotoIs DEF Moves, OwnersInv
<1>3. value' = [k \in Other |-> value'[k]] /\ \A h \in Hash : value'[h] = value[h]
  <2>1. CASE value' = value
    BY <2>1 DEF HashInv, HashTyped
  <2>2. CASE \E z \in ZSet : \E x : value' = [value EXCEPT ![z] = x]
    BY <2>2, KeysApart DEF HashInv, HashTyped
  <2> QED  BY <2>1, <2>2
<1>4. \A u \in Thread : /\ pc'[u] = "list" <=> pc[u] = "list"
                        /\ pc[u] = "list" => cmd'[u] = cmd[u] /\ seen'[u] = seen[u]
  BY <1>2
<1> QED  BY <1>3, <1>4, HashQuiet

LEMMA HashApart ==
  ASSUME OwnersInv, ArgsInv, OpsInv, HashInv, NEW t \in Thread,
         \/ (Looks(t) \/ expire(t)) /\ UNCHANGED collections
         \/ zadd_read(t) \/ zadd_remove(t) \/ zadd_put(t) \/ zincrby_read(t)
         \/ zincrby_throws(t) \/ zincrby_put(t) \/ zrem_read(t) \/ zrem_remove(t)
  PROVE  HashInv'
<1> DEFINE L == \E l : Moves(t, l)
           P == pc[t] # "list" /\ pc'[t] # "list"
           V == \/ value' = value
                \/ \E z \in ZSet : \E x : value' = [value EXCEPT ![z] = x]
           U == UNCHANGED <<field_val, hash>>
<1>1. CASE Looks(t) /\ UNCHANGED collections
  <2>1. L /\ P  BY <1>1, LooksMove DEF Holding, Middle
  <2>2. V /\ U  BY <1>1 DEF collections
  <2> QED  BY <2>1, <2>2, HashAway
<1>2. CASE (expire(t) /\ UNCHANGED collections) \/ zincrby_throws(t)
  <2>1. L /\ Release(t) /\ pc[t] = "apply"
    BY <1>2, EndsMove DEF Ends, expire, zincrby_throws, Applies, At
  <2>2. P  BY <2>1, GotoIs DEF Release
  <2>3. V /\ U  BY <1>2 DEF zincrby_throws, collections
  <2> QED  BY <2>1, <2>2, <2>3, HashAway
<1>3. CASE zadd_put(t) \/ zincrby_put(t) \/ zrem_remove(t)
  <2>1. L /\ Release(t)  BY <1>3, EndsMove DEF Ends
  <2>2. P  BY <1>3, <2>1, GotoIs DEF Release, zadd_put, zincrby_put, zrem_remove, At
  <2>3. U  BY <1>3 DEF zadd_put, zincrby_put, zrem_remove
  <2>4. V
    <3>1. CASE zadd_put(t)
      <4>1. pc[t] = "zadd_put" /\ value' = [value EXCEPT ![Big(t)] = Text]
        BY <3>1 DEF zadd_put, At
      <4>2. Big(t) \in ZSet
        <5>1. Op(t) = "ZADD" /\ pc[t] # "idle"
          BY <4>1 DEF OpsInv
        <5>2. Arg(t) \in Args(Op(t), Big(t))
          BY <5>1 DEF ArgsInv
        <5> QED  BY <5>1, <5>2, ArgTypes
      <4> QED  BY <4>1, <4>2
    <3>2. CASE zincrby_put(t) \/ zrem_remove(t)
      BY <3>2 DEF zincrby_put, zrem_remove
    <3> QED  BY <1>3, <3>1, <3>2
  <2> QED  BY <2>1, <2>2, <2>3, <2>4, HashAway
<1>4. CASE zadd_read(t) \/ zadd_remove(t) \/ zincrby_read(t) \/ zrem_read(t)
  <2>1. L  BY <1>4, ReadsMove DEF Reads
  <2>2. V /\ U
    BY <1>4 DEF zadd_read, zadd_remove, zincrby_read, zrem_read, collections
  <2>3. /\ pc[t] \in {"apply", "zadd_remove"}
        /\ \E l \in {"idle", "zadd_remove", "zadd_put", "zincrby_put", "zrem_remove"} : Goto(t, l)
    BY <1>4 DEF zadd_read, zadd_remove, zincrby_read, zrem_read, Applies, At, Continue, Release
  <2>4. P  BY <2>3, GotoIs
  <2> QED  BY <2>1, <2>2, <2>4, HashAway
<1> QED  BY <1>1, <1>2, <1>3, <1>4

\* A sorted set that has expired goes.
LEMMA HashForgets ==
  ASSUME OwnersInv, ArgsInv, HashInv, NEW t \in Thread, clean_zset(t)
  PROVE  HashInv'
<1> DEFINE k == Big(t)
<1>1. /\ k \in ZSet /\ value' = [value EXCEPT ![k] = None] /\ UNCHANGED field_val
      /\ hash' = [h \in Hash |-> IF h = k THEN NoFields ELSE hash[h]]
  BY DEF clean_zset, Forget
<1>2. hash' = hash
  BY <1>1, KeysApart DEF HashInv, HashTyped
<1>3. (\E l : Moves(t, l)) /\ pc[t] # "list" /\ pc'[t] # "list"
  BY CleanMoves DEF clean_zset, At, Middle
<1> QED  BY <1>1, <1>2, <1>3, HashAway

LEMMA HashStep ==
  ASSUME OwnersInv, ArgsInv, OpsInv, HashInv, [NextCollections]_allvars
  PROVE  HashInv'
<1>1. ASSUME NEW t \in Thread, StepOther(t) PROVE HashInv'
  <2>1. CASE (Looks(t) \/ expire(t)) /\ UNCHANGED collections
    BY <2>1, HashApart
  <2>2. CASE Ends(t)
    <3>1. CASE set_other(t) \/ del_other(t)
      BY <3>1, HashSet
    <3>2. CASE hset_list(t)
      BY <3>2, HashAppends
    <3>3. CASE hdel_list(t)
      BY <3>3, HashRemoves
    <3>4. CASE zadd_put(t) \/ zincrby_throws(t) \/ zincrby_put(t) \/ zrem_remove(t)
      BY <3>4, HashApart
    <3> QED  BY <2>2, <3>1, <3>2, <3>3, <3>4 DEF Ends
  <2>3. CASE clean_hash(t)
    BY <2>3, HashClean
  <2>4. CASE clean_zset(t)
    BY <2>4, HashForgets
  <2>5. CASE Reads(t)
    <3>1. CASE hset_field(t) \/ hdel_field(t)
      BY <3>1, HashFields
    <3>2. CASE zadd_read(t) \/ zadd_remove(t) \/ zincrby_read(t) \/ zrem_read(t)
      BY <3>2, HashApart
    <3> QED  BY <2>5, <3>1, <3>2 DEF Reads
  <2> QED  BY <1>1, <2>1, <2>2, <2>3, <2>4, <2>5, Steps
<1>2. ASSUME NEW t \in Thread, CallOther(t) PROVE HashInv'
  <2>1. /\ pc'[t] \in {"peek", "acquire", "check"} /\ pc[t] = "idle"
        /\ pc' = [pc EXCEPT ![t] = pc'[t]] /\ cmd' = [cmd EXCEPT ![t] = cmd'[t]]
        /\ UNCHANGED <<seen, collections>>
    BY <1>2, CallIs
  <2>2. pc = [u \in Thread |-> pc[u]] /\ cmd = [u \in Thread |-> cmd[u]]
    BY DEF OwnersInv
  <2>3. \A u \in Thread \ {t} : pc'[u] = pc[u] /\ cmd'[u] = cmd[u]
    BY <2>1, <2>2
  <2>4. \A u \in Thread : /\ pc'[u] = "list" <=> pc[u] = "list"
                          /\ pc[u] = "list" => cmd'[u] = cmd[u] /\ seen'[u] = seen[u]
    BY <2>1, <2>3
  <2>5. UNCHANGED <<value, field_val, hash>> /\ value' = [k \in Other |-> value'[k]]
    BY <2>1 DEF collections, HashInv, HashTyped
  <2> QED  BY <2>4, <2>5, HashQuiet
<1>3. CASE (Tick /\ UNCHANGED collections) \/ UNCHANGED allvars
  <2>1. UNCHANGED <<pc, cmd, seen, value, field_val, hash>>
    BY <1>3 DEF Tick, allvars, vars, collections
  <2>2. value' = [k \in Other |-> value'[k]]
    BY <2>1 DEF HashInv, HashTyped
  <2> QED  BY <2>1, <2>2, HashQuiet
<1> QED  BY <1>1, <1>2, <1>3 DEF NextCollections, DoneOther

\* At first there is nobody, and no field is set.
LEMMA HashBegins ==
  ASSUME InitCollections
  PROVE  OwnersInv /\ ArgsInv /\ OpsInv /\ HashInv
<1>1. OwnersInv /\ ArgsInv /\ OpsInv
  BY DEF InitCollections, OwnersInv, ArgsInv, OpsInv, At, Unlocked, Holding, Middle
<1>2. /\ value \in [Other -> {None, Short, <<Text>>}]
      /\ field_val = [h \in Hash |-> NoFields] /\ hash = field_val
  BY DEF InitCollections, InitOther
<1>3. <<Text>> \in Seq(Field \cup {Text}) /\ IsInjective(<<Text>>) /\ ToSet(<<Text>>) = {Text}
  BY DEF IsInjective, ToSet
<1>4. HashTyped
  <2>1. \A h \in Hash : value[h] \in {None, Short} \cup Seq(Field \cup {Text})
    BY <1>2, <1>3, KeysApart
  <2> QED  BY <1>2, <2>1, NoFieldsType DEF HashTyped
<1>5. \A t \in Thread : ListSeen(t)
  BY DEF InitCollections, ListSeen, At
<1>6. ASSUME NEW h \in Hash PROVE Sound(h)
  <2>1. value[h] \in {None, Short} \/ value[h] = <<Text>>
    BY <1>2, KeysApart
  <2>2. \A f \in Field : hash[h][f] = None
    BY <1>2 DEF NoFields
  <2> QED  BY <1>3, <2>1, <2>2 DEF Sound, Throws
<1> QED  BY <1>1, <1>4, <1>5, <1>6 DEF HashInv

\* The list of a hash names each field that is set exactly once, and its key
\* has its value (redis_wrapper.cpp, hset, hdel and expire_hash_clean),
\* whenever no thread has the lock, for all threads, keys and fields.
THEOREM HashesExact == CollectionsSpec => []HashExact
<1> DEFINE I == OwnersInv /\ ArgsInv /\ OpsInv /\ HashInv
<1>1. InitCollections => I
  BY HashBegins
<1>2. I /\ [NextCollections]_allvars => I'
  BY OwnersStep, OpsStep, HashStep
<1>3. I => HashExact
  <2> SUFFICES ASSUME I, Quiet, NEW h \in Hash, ~ Throws(h)
               PROVE  /\ IsInjective(Fields(h))
                      /\ ToSet(Fields(h)) \ {Text} = {f \in Field : hash[h][f] # None}
                      /\ \A f \in ToSet(Fields(h)) \ {Text} : field_val[h][f] = hash[h][f]
    BY DEF HashExact
  <2>1. \A f : ~ Changing(h, f)
    BY DEF Quiet, OwnersInv, Changing, At, Holding, Middle
  <2> QED  BY <2>1 DEF HashInv, Sound, Fields
<1> QED  BY <1>1, <1>2, <1>3, PTL DEF CollectionsSpec
-----------------------------------------------------------------------------
(* Sorted sets.                                                            *)

Late == {"zadd_remove", "zadd_put", "zincrby_put", "zrem_remove"}

\* A step that leaves the sorted sets, and the threads between two writes of
\* one, alone.
LEMMA ScoreQuiet ==
  ASSUME ScoreInv, UNCHANGED <<elem_score, score_elem, zset>>,
         \A u \in Thread : pc'[u] \in Late =>
           pc'[u] = pc[u] /\ cmd'[u] = cmd[u] /\ seen'[u] = seen[u]
  PROVE  ScoreInv'
<1>1. ScoreTyped'
  BY DEF ScoreInv, ScoreTyped
<1>2. ASSUME NEW u \in Thread PROVE ScoreSeen(u)'
  <2>1. CASE pc'[u] \notin Late
    BY <2>1 DEF ScoreSeen, At, Late
  <2>2. CASE pc'[u] \in Late
    <3>1. pc'[u] = pc[u] /\ cmd'[u] = cmd[u] /\ seen'[u] = seen[u]
      BY <2>2
    <3>2. ScoreSeen(u)
      BY DEF ScoreInv
    <3> QED  BY <3>1, <3>2 DEF ScoreSeen, At, Big, Arg, Changed, Unlisted
  <2> QED  BY <2>1, <2>2
<1>3. ASSUME NEW z \in ZSet
      PROVE  /\ \A n \in Padded : ListedScore(z, n)'
             /\ \A m \in Member : KnownScore(z, m)'
  <2>1. /\ \A n \in Padded : ListedScore(z, n)
        /\ \A m \in Member : KnownScore(z, m)
    BY DEF ScoreInv
  <2> QED  BY <2>1 DEF ListedScore, KnownScore
<1> QED  BY <1>1, <1>2, <1>3 DEF ScoreInv

\* A step of the thread that has the lock, on the sorted set z.
LEMMA ScoreAlone ==
  ASSUME OwnersInv, ScoreInv, NEW t \in Thread, pc[t] \in Holding, NEW l, Goto(t, l),
         NEW z \in ZSet, ScoreTyped', ScoreSeen(t)',
         \A y \in ZSet \ {z} : /\ elem_score'[y] = elem_score[y]
                               /\ score_elem'[y] = score_elem[y] /\ zset'[y] = zset[y],
         \A n \in Padded : ListedScore(z, n)', \A m \in Member : KnownScore(z, m)'
  PROVE  ScoreInv'
<1>1. ASSUME NEW u \in Thread, u # t PROVE ScoreSeen(u)'
  <2>1. pc[u] \notin Holding /\ pc'[u] = pc[u]
    BY <1>1, Alone, GotoIs
  <2> QED  BY <2>1 DEF Holding, Middle, ScoreSeen, At
<1>2. ASSUME NEW y \in ZSet, y # z
      PROVE  /\ \A n \in Padded : ListedScore(y, n)'
             /\ \A m \in Member : KnownScore(y, m)'
  <2>1. /\ \A n \in Padded : ListedScore(y, n)
        /\ \A m \in Member : KnownScore(y, m)
    BY DEF ScoreInv
  <2>2. /\ elem_score'[y] = elem_score[y] /\ score_elem'[y] = score_elem[y]
        /\ zset'[y] = zset[y]
    BY <1>2
  <2> QED  BY <2>1, <2>2 DEF ListedScore, KnownScore
<1> QED  BY <1>1, <1>2 DEF ScoreInv

\* The scores of ZADD, as given and as padded.
LEMMA PadType ==
  /\ \A s \in Int \X Nat : Pad(s) \in Int /\ s # None /\ Pad(s) \notin {None, Rounded}
  /\ Score \subseteq Int \X Nat
BY CollectionsAssumption, RedisAssumption DEF Pad

\* The score that ZINCRBY makes is a number, and it is the sum if that has one.
LEMMA RaisedIs ==
  ASSUME NEW x, NEW s \in (Int \X Nat) \cup {None}, NEW by \in Int,
         x \in Int \cup {None, Rounded}, Known(x, s)
  PROVE  /\ Raised(s, by) \in Int \X Nat
         /\ Sum(x, by) \in Int \cup {Rounded}
         /\ Known(Sum(x, by), Raised(s, by))
<1> DEFINE total == IF s = None THEN by ELSE 2 * Whole(Pad(s)) + by
<1>1. \A n \in Int : Whole(n) \in Int /\ (n >= 0 /\ n % 2 = 0 => 2 * Whole(n) = n)
  BY DEF Whole
<1>2. total \in Int /\ (s # None => Pad(s) \in Int)
  <2>1. CASE s = None  BY <2>1
  <2>2. CASE s # None
    <3>1. Pad(s) \in Int  BY <2>2, PadType
    <3>2. Whole(Pad(s)) \in Int  BY <1>1, <3>1
    <3> QED  BY <2>2, <3>1, <3>2
  <2> QED  BY <2>1, <2>2
<1>3. Word \in Int /\ Rounded # None /\ Rounded \notin Int /\ None \notin Int
  BY CollectionsAssumption, RedisAssumption
<1> DEFINE w == Whole(total)
           r == 2 * (IF w < 0 THEN Word + w ELSE w)
<1>4. r \in Int /\ Raised(s, by) = <<r, 0>>
  <2>1. w \in Int  BY <1>1, <1>2
  <2>2. Raised(s, by) = <<r, 0>>  BY DEF Raised
  <2> HIDE DEF w
  <2> QED  BY <1>3, <2>1, <2>2
<1>5. Raised(s, by) \in Int \X Nat /\ Raised(s, by) # None /\ Pad(Raised(s, by)) = r
  BY <1>4, PadType DEF Pad
<1>6. x # Rounded => Plus(x, by) \in Int /\ Plus(x, 0) \in Int
  BY <1>3 DEF Plus
<1>7. Sum(x, by) \in Int \cup {Rounded}
  BY <1>6 DEF Sum
<1>8. ASSUME Sum(x, by) # Rounded PROVE r = Sum(x, by)
  <2>1. /\ x # Rounded /\ Plus(x, by) >= 0 /\ by % 2 = 0 /\ Plus(x, 0) % 2 = 0
        /\ Sum(x, by) = Plus(x, by)
    BY <1>6, <1>8 DEF Sum
  <2> HIDE DEF r, total
  <2>2. total = Plus(x, by)
    <3> USE DEF total
    <3>1. CASE s = None
      BY <3>1 DEF Known, Plus
    <3>2. CASE s # None
      <4>1. x \in Int /\ x = Pad(s) /\ x % 2 = 0
        BY <1>3, <2>1, <3>2 DEF Known, Plus
      <4>2. 2 * Whole(x) = x
        BY <4>1 DEF Whole
      <4> QED  BY <1>3, <3>2, <4>1, <4>2 DEF Plus
    <3> QED  BY <3>1, <3>2
  <2>3. total % 2 = 0
    <3>1. CASE x = None  BY <2>1, <2>2, <3>1 DEF Plus
    <3>2. CASE x # None
      <4>1. x \in Int /\ x % 2 = 0 /\ total = x + by  BY <2>1, <2>2, <3>2, <1>3 DEF Plus
      <4> QED  BY <2>1, <4>1
    <3> QED  BY <3>1, <3>2
  <2>4. w >= 0 /\ 2 * w = total
    <3>1. total \in Int /\ total >= 0  BY <1>2, <2>1, <2>2
    <3> QED  BY <2>3, <3>1 DEF Whole
  <2> HIDE DEF w
  <2>5. w \in Int  BY <1>1, <1>2 DEF w
  <2> QED  BY <2>1, <2>2, <2>4, <2>5 DEF r
<1> HIDE DEF r, w, total
<1> QED  BY <1>3, <1>5, <1>7, <1>8 DEF Known

\* The arguments of a thread at a sorted set.
LEMMA AtZSet ==
  ASSUME ArgsInv, OpsInv, NEW t \in Thread
  PROVE  /\ pc[t] \in {"zadd_remove", "zadd_put"} \/ Applies(t, "ZADD")
              => Big(t) \in ZSet /\ Arg(t) \in Pairs
         /\ pc[t] = "zincrby_put" \/ Applies(t, "ZINCRBY")
              => Big(t) \in ZSet /\ Arg(t) \in Member \X Increment
         /\ pc[t] = "zrem_remove" \/ Applies(t, "ZREM")
              => Big(t) \in ZSet /\ Arg(t) \in Member
<1>1. pc[t] # "idle" => Arg(t) \in Args(Op(t), Big(t))
  BY DEF ArgsInv
<1>2. /\ pc[t] \in {"zadd_remove", "zadd_put"} \/ Applies(t, "ZADD")
           => pc[t] # "idle" /\ Op(t) = "ZADD"
      /\ pc[t] = "zincrby_put" \/ Applies(t, "ZINCRBY") => pc[t] # "idle" /\ Op(t) = "ZINCRBY"
      /\ pc[t] = "zrem_remove" \/ Applies(t, "ZREM") => pc[t] # "idle" /\ Op(t) = "ZREM"
  BY DEF OpsInv, Applies, At
<1> QED  BY <1>1, <1>2, ArgTypes

\* ZADD looks up, and removes the scores that change.
LEMMA ZaddReads ==
  ASSUME OwnersInv, ArgsInv, OpsInv, ScoreInv, NEW t \in Thread, zadd_read(t)
  PROVE  ScoreInv'
<1>1. PICK z \in ZSet : z = Big(t)
  BY AtZSet DEF zadd_read
<1>2. /\ pc[t] \in Holding /\ Goto(t, "zadd_remove") /\ UNCHANGED <<elem_score, score_elem, zset>>
      /\ seen'[t].put = Changed(t)
      /\ seen'[t].remove = {Pad(elem_score[z][Names(Arg(t))[i]]) :
           i \in {j \in Changed(t) : elem_score[z][Names(Arg(t))[j]] # None}}
  BY <1>1 DEF zadd_read, Applies, At, Holding, Continue, collections, Changed, OwnersInv
<1>3. ScoreTyped'
  BY <1>2 DEF ScoreInv, ScoreTyped
<1>4. pc'[t] = "zadd_remove" /\ cmd'[t] = cmd[t]
  BY <1>2, GotoIs
<1>5. ScoreSeen(t)'
  <2>1. Big(t)' = z /\ Arg(t)' = Arg(t) /\ Changed(t)' = Changed(t)
    BY <1>1, <1>2, <1>4 DEF Big, Arg, Changed
  <2>2. ASSUME NEW i \in Changed(t), elem_score[z][Names(Arg(t))[i]] # None
        PROVE  Pad(elem_score[z][Names(Arg(t))[i]]) \in seen'[t].remove
    BY <1>2, <2>2
  <2>3. seen'[t].put = Changed(t)
    BY <1>2
  <2> QED  BY <1>2, <1>4, <2>1, <2>2, <2>3 DEF ScoreSeen, At
<1>6. /\ \A n \in Padded : ListedScore(z, n)'
      /\ \A m \in Member : KnownScore(z, m)'
  <2>1. /\ \A n \in Padded : ListedScore(z, n)
        /\ \A m \in Member : KnownScore(z, m)
    BY DEF ScoreInv
  <2> QED  BY <1>2, <2>1 DEF ListedScore, KnownScore
<1> QED  BY <1>2, <1>3, <1>5, <1>6, ScoreAlone

LEMMA ZaddRemoves ==
  ASSUME OwnersInv, ArgsInv, OpsInv, ScoreInv, NEW t \in Thread, zadd_remove(t)
  PROVE  ScoreInv'
<1>1. PICK z \in ZSet : z = Big(t)
  BY AtZSet DEF zadd_remove, At
<1>2. /\ pc[t] \in Holding /\ At(t, "zadd_remove") /\ Goto(t, "zadd_put")
      /\ UNCHANGED <<elem_score, zset>> /\ seen'[t] = seen[t]
  BY <1>1 DEF zadd_remove, At, Holding, Middle, Continue, OwnersInv
<1>3. /\ score_elem' \in [ZSet -> [Padded -> Member \cup {None}]]
      /\ \A y \in ZSet \ {z} : score_elem'[y] = score_elem[y]
      /\ \A n \in Padded : score_elem'[z][n] =
           IF n \in seen[t].remove THEN None ELSE score_elem[z][n]
  <2>1. score_elem' = [score_elem EXCEPT ![z] =
           [n \in Padded |-> IF n \in seen[t].remove THEN None ELSE score_elem[z][n]]]
    BY <1>1 DEF zadd_remove
  <2> QED  BY <2>1 DEF ScoreInv, ScoreTyped
<1>4. ScoreTyped'
  BY <1>2, <1>3 DEF ScoreInv, ScoreTyped
<1>5. pc'[t] = "zadd_put" /\ cmd'[t] = cmd[t]
  BY <1>2, GotoIs
<1>6. \A n \in Padded : ListedScore(z, n)
  BY DEF ScoreInv
<1>7. ScoreSeen(t)'
  <2>1. Big(t)' = z /\ Arg(t)' = Arg(t) /\ Changed(t)' = Changed(t)
    BY <1>1, <1>2, <1>5 DEF Big, Arg, Changed
  <2>2. /\ seen[t].put = Changed(t)
        /\ \A i \in Changed(t) :
             elem_score[z][Names(Arg(t))[i]] # None
               => Pad(elem_score[z][Names(Arg(t))[i]]) \in seen[t].remove
    BY <1>1, <1>2 DEF ScoreInv, ScoreSeen
  <2>3. ASSUME NEW i \in Changed(t), NEW n \in Padded, score_elem'[z][n] # None
        PROVE  score_elem'[z][n] # Names(Arg(t))[i]
    BY <1>3, <1>6, <2>2, <2>3 DEF ListedScore
  <2> QED  BY <1>2, <1>5, <2>1, <2>2, <2>3 DEF ScoreSeen, At, Unlisted
<1>8. \A n \in Padded : ListedScore(z, n)'
  BY <1>2, <1>3, <1>6 DEF ListedScore
<1>9. \A m \in Member : KnownScore(z, m)'
  BY <1>2 DEF KnownScore, ScoreInv
<1> QED  BY <1>2, <1>3, <1>4, <1>7, <1>8, <1>9, ScoreAlone

\* ZINCRBY and ZREM.
LEMMA ZincrbyReads ==
  ASSUME OwnersInv, ArgsInv, OpsInv, ScoreInv, NEW t \in Thread, zincrby_read(t)
  PROVE  ScoreInv'
<1>1. PICK z \in ZSet : z = Big(t)
  BY AtZSet DEF zincrby_read
<1>2. PICK e \in Member, by \in Increment : Arg(t) = <<e, by>>
  BY AtZSet DEF zincrby_read
<1> DEFINE old == elem_score[z][e]
<1>3. /\ pc[t] \in Holding /\ Goto(t, "zincrby_put") /\ UNCHANGED <<elem_score, zset>>
      /\ seen'[t].score = Raised(old, by)
      /\ score_elem' = IF old = None THEN score_elem
                       ELSE [score_elem EXCEPT ![z][Pad(old)] = None]
  BY <1>1, <1>2 DEF zincrby_read, Applies, At, Holding, Continue, OwnersInv
<1>4. old \in (Int \X Nat) \cup {None}
  BY DEF ScoreInv, ScoreTyped
<1>5. /\ score_elem' \in [ZSet -> [Padded -> Member \cup {None}]]
      /\ \A y \in ZSet \ {z} : score_elem'[y] = score_elem[y]
      /\ \A n \in Padded : score_elem'[z][n] =
           IF old # None /\ n = Pad(old) THEN None ELSE score_elem[z][n]
  <2> HIDE DEF old
  <2> QED  BY <1>3 DEF ScoreInv, ScoreTyped
<1>6. ScoreTyped'
  BY <1>3, <1>5 DEF ScoreInv, ScoreTyped
<1>7. pc'[t] = "zincrby_put" /\ cmd'[t] = cmd[t]
  BY <1>3, GotoIs
<1>8. \A n \in Padded : ListedScore(z, n)
  BY DEF ScoreInv
<1>9. ScoreSeen(t)'
  <2>1. Big(t)' = z /\ Arg(t)' = <<e, by>> /\ elem_score'[z][e] = old
    BY <1>1, <1>2, <1>3, <1>7 DEF Big, Arg
  <2>2. ASSUME NEW n \in Padded, score_elem'[z][n] # None PROVE score_elem'[z][n] # e
    BY <1>5, <1>8, <2>2 DEF ListedScore
  <2>3. seen'[t].score = Raised(old, by)
    BY <1>3
  <2>4. Arg(t)'[1] = e /\ Arg(t)'[2] = by
    BY <2>1
  <2> HIDE DEF old
  <2>5. Unlisted(z, e)'
    BY <2>2 DEF Unlisted
  <2> QED  BY <1>7, <2>1, <2>3, <2>4, <2>5 DEF ScoreSeen, At, old
<1>10. \A n \in Padded : ListedScore(z, n)'
  BY <1>3, <1>5, <1>8 DEF ListedScore
<1>11. \A m \in Member : KnownScore(z, m)'
  BY <1>3 DEF KnownScore, ScoreInv
<1> QED  BY <1>3, <1>5, <1>6, <1>9, <1>10, <1>11, ScoreAlone

LEMMA ZincrbyPuts ==
  ASSUME OwnersInv, ArgsInv, OpsInv, ScoreInv, NEW t \in Thread, zincrby_put(t)
  PROVE  ScoreInv'
<1>1. PICK z \in ZSet : z = Big(t)
  BY AtZSet DEF zincrby_put, At
<1>2. PICK e \in Member, by \in Increment : Arg(t) = <<e, by>>
  BY AtZSet DEF zincrby_put, At
<1> DEFINE old == elem_score[z][e]
           new == seen[t].score
           n1 == Pad(new)
<1>3. /\ pc[t] \in Holding /\ At(t, "zincrby_put") /\ Goto(t, "idle")
      /\ elem_score' = [elem_score EXCEPT ![z][e] = new]
      /\ score_elem' = [score_elem EXCEPT ![z][n1] = e]
      /\ zset' = [zset EXCEPT ![z][e] = Sum(zset[z][e], by)]
  BY <1>1, <1>2 DEF zincrby_put, At, Holding, Middle, Release
<1>4. /\ old \in (Int \X Nat) \cup {None} /\ \A n \in Padded : ListedScore(z, n)
      /\ \A m \in Member : KnownScore(z, m)
  BY DEF ScoreInv, ScoreTyped
<1>5. Unlisted(z, e) /\ new = Raised(old, by)
  <2>1. Arg(t)[1] = e /\ Arg(t)[2] = by
    BY <1>2
  <2> QED  BY <1>1, <1>3, <2>1 DEF ScoreInv, ScoreSeen
<1>6. zset[z][e] \in Int \cup {None, Rounded} /\ Known(zset[z][e], old)
  BY <1>4 DEF KnownScore, ScoreInv, ScoreTyped
<1> HIDE DEF old
<1> DEFINE x1 == Sum(zset[z][e], by)
<1>7. new \in Int \X Nat /\ new # None /\ x1 \in Int \cup {Rounded} /\ Known(x1, new)
  <2>1. by \in Int
    BY CollectionsAssumption
  <2> QED  BY <1>4, <1>5, <1>6, <2>1, RaisedIs, PadType
<1> HIDE DEF x1
<1> HIDE DEF new, n1
<1>8. /\ elem_score' \in [ZSet -> [Member -> (Int \X Nat) \cup {None}]]
      /\ \A y \in ZSet \ {z} : elem_score'[y] = elem_score[y]
      /\ \A m \in Member : elem_score'[z][m] = IF m = e THEN new ELSE elem_score[z][m]
  BY <1>3, <1>7 DEF ScoreInv, ScoreTyped
<1>9. /\ score_elem' \in [ZSet -> [Padded -> Member \cup {None}]]
      /\ \A y \in ZSet \ {z} : score_elem'[y] = score_elem[y]
      /\ \A n \in Padded : score_elem'[z][n] = IF n = n1 THEN e ELSE score_elem[z][n]
  BY <1>3, <1>7 DEF ScoreInv, ScoreTyped
<1>10. /\ zset' \in [ZSet -> [Member -> Int \cup {None, Rounded}]]
       /\ \A y \in ZSet \ {z} : zset'[y] = zset[y]
       /\ \A m \in Member : zset'[z][m] = IF m = e THEN x1 ELSE zset[z][m]
  BY <1>3, <1>7 DEF ScoreInv, ScoreTyped, x1
<1>11. ScoreTyped'
  BY <1>8, <1>9, <1>10 DEF ScoreTyped
<1>12. ScoreSeen(t)'
  BY <1>3, GotoIs DEF ScoreSeen, At
<1>13. ASSUME NEW n \in Padded PROVE ListedScore(z, n)'
  <2>1. CASE n = n1
    BY <1>7, <1>8, <1>9, <2>1 DEF ListedScore, n1
  <2>2. CASE n # n1
    <3>1. score_elem'[z][n] = score_elem[z][n]
      BY <1>9, <2>2
    <3>2. score_elem[z][n] # None => score_elem[z][n] \in Member /\ score_elem[z][n] # e
      BY <1>5 DEF ScoreInv, ScoreTyped, Unlisted
    <3> QED  BY <1>4, <1>8, <3>1, <3>2 DEF ListedScore
  <2> QED  BY <2>1, <2>2
<1>14. ASSUME NEW m \in Member PROVE KnownScore(z, m)'
  BY <1>4, <1>7, <1>8, <1>10 DEF KnownScore
<1> QED  BY <1>3, <1>8, <1>9, <1>10, <1>11, <1>12, <1>13, <1>14, ScoreAlone

LEMMA ZremReads ==
  ASSUME OwnersInv, ArgsInv, OpsInv, ScoreInv, NEW t \in Thread, zrem_read(t)
  PROVE  ScoreInv'
<1>1. PICK z \in ZSet : z = Big(t)
  BY AtZSet DEF zrem_read
<1>2. /\ pc[t] \in Holding /\ UNCHANGED <<elem_score, score_elem, zset>>
      /\ \/ Goto(t, "idle")
         \/ /\ Goto(t, "zrem_remove") /\ elem_score[z][Arg(t)] # None
            /\ seen'[t].score = elem_score[z][Arg(t)]
  BY <1>1 DEF zrem_read, Applies, At, Holding, Continue, Release, collections, OwnersInv
<1>3. ScoreTyped'
  BY <1>2 DEF ScoreInv, ScoreTyped
<1>4. ScoreSeen(t)'
  <2>1. CASE Goto(t, "idle")
    BY <2>1, GotoIs DEF ScoreSeen, At
  <2>2. CASE /\ Goto(t, "zrem_remove") /\ elem_score[z][Arg(t)] # None
             /\ seen'[t].score = elem_score[z][Arg(t)]
    <3>1. pc'[t] = "zrem_remove" /\ cmd'[t] = cmd[t]
      BY <2>2, GotoIs
    <3>2. Big(t)' = z /\ Arg(t)' = Arg(t)
      BY <1>1, <3>1 DEF Big, Arg
    <3> QED  BY <1>2, <2>2, <3>1, <3>2 DEF ScoreSeen, At
  <2> QED  BY <1>2, <2>1, <2>2
<1>5. /\ \A n \in Padded : ListedScore(z, n)'
      /\ \A m \in Member : KnownScore(z, m)'
  <2>1. /\ \A n \in Padded : ListedScore(z, n)
        /\ \A m \in Member : KnownScore(z, m)
    BY DEF ScoreInv
  <2> QED  BY <1>2, <2>1 DEF ListedScore, KnownScore
<1> QED  BY <1>2, <1>3, <1>4, <1>5, ScoreAlone

LEMMA ZremRemoves ==
  ASSUME OwnersInv, ArgsInv, OpsInv, ScoreInv, NEW t \in Thread, zrem_remove(t)
  PROVE  ScoreInv'
<1>1. PICK z \in ZSet : z = Big(t)
  BY AtZSet DEF zrem_remove, At
<1>2. PICK e \in Member : e = Arg(t)
  BY AtZSet DEF zrem_remove, At
<1> DEFINE n1 == Pad(elem_score[z][e])
<1>3. seen[t].score = elem_score[z][e] /\ elem_score[z][e] # None
  BY <1>1, <1>2 DEF zrem_remove, ScoreInv, ScoreSeen
<1>4. /\ pc[t] \in Holding /\ Goto(t, "idle")
      /\ elem_score' = [elem_score EXCEPT ![z][e] = None]
      /\ score_elem' = [score_elem EXCEPT ![z][n1] = None]
      /\ zset' = [zset EXCEPT ![z][e] = None]
  BY <1>1, <1>2, <1>3 DEF zrem_remove, At, Holding, Middle, Release
<1>5. /\ \A n \in Padded : ListedScore(z, n)
      /\ \A m \in Member : KnownScore(z, m)
  BY DEF ScoreInv
<1> HIDE DEF n1
<1>6. /\ elem_score' \in [ZSet -> [Member -> (Int \X Nat) \cup {None}]]
      /\ \A y \in ZSet \ {z} : elem_score'[y] = elem_score[y]
      /\ \A m \in Member : elem_score'[z][m] = IF m = e THEN None ELSE elem_score[z][m]
  BY <1>4 DEF ScoreInv, ScoreTyped
<1>7. /\ score_elem' \in [ZSet -> [Padded -> Member \cup {None}]]
      /\ \A y \in ZSet \ {z} : score_elem'[y] = score_elem[y]
      /\ \A n \in Padded : score_elem'[z][n] = IF n = n1 THEN None ELSE score_elem[z][n]
  BY <1>4 DEF ScoreInv, ScoreTyped
<1>8. /\ zset' \in [ZSet -> [Member -> Int \cup {None, Rounded}]]
      /\ \A y \in ZSet \ {z} : zset'[y] = zset[y]
      /\ \A m \in Member : zset'[z][m] = IF m = e THEN None ELSE zset[z][m]
  BY <1>4 DEF ScoreInv, ScoreTyped
<1>9. ScoreTyped'
  BY <1>6, <1>7, <1>8 DEF ScoreTyped
<1>10. ScoreSeen(t)'
  BY <1>4, GotoIs DEF ScoreSeen, At
<1>11. ASSUME NEW n \in Padded PROVE ListedScore(z, n)'
  <2>1. CASE n = n1
    BY <1>7, <2>1 DEF ListedScore
  <2>2. CASE n # n1
    <3>1. score_elem'[z][n] = score_elem[z][n]
      BY <1>7, <2>2
    <3>2. score_elem[z][n] # None => score_elem[z][n] \in Member /\ score_elem[z][n] # e
      BY <1>5, <2>2 DEF ScoreInv, ScoreTyped, ListedScore, n1
    <3> QED  BY <1>5, <1>6, <3>1, <3>2 DEF ListedScore
  <2> QED  BY <2>1, <2>2
<1>12. ASSUME NEW m \in Member PROVE KnownScore(z, m)'
  BY <1>5, <1>6, <1>8 DEF KnownScore, Known
<1> QED  BY <1>4, <1>6, <1>7, <1>8, <1>9, <1>10, <1>11, <1>12, ScoreAlone

\* A batch with values of a type leaves values of the type.
LEMMA BatchType ==
  ASSUME NEW n \in Nat, NEW I, I \subseteq 1 .. n, NEW at, NEW to, NEW D, NEW R,
         NEW f \in [D -> R], \A i \in I : to[i] \in R
  PROVE  PutBatch(f, I, at, to) \in [D -> R]
<1>1. ASSUME NEW x \in D PROVE PutBatch(f, I, at, to)[x] \in R
  <2>1. x \in DOMAIN f
    OBVIOUS
  <2>2. Batched(f, I, at, to, x)
    BY <2>1, BatchIs
  <2> QED  BY <2>2 DEF Batched
<1>2. PutBatch(f, I, at, to) = [x \in D |-> PutBatch(f, I, at, to)[x]]
  BY DEF PutBatch
<1> QED  BY <1>1, <1>2, Zenon

\* ZADD puts: the pairs that changed, in both batches; no two of one member.
LEMMA ZaddPuts ==
  ASSUME OwnersInv, ArgsInv, OpsInv, ScoreInv, ~ Repeats, NEW t \in Thread, zadd_put(t)
  PROVE  ScoreInv'
<1>1. PICK z \in ZSet : z = Big(t)
  BY AtZSet DEF zadd_put, At
<1>2. PICK p \in Pairs : p = Arg(t)
  BY AtZSet DEF zadd_put, At
<1>3. PICK k \in Nat : DOMAIN p = 1 .. k
  BY PairsAre
<1> DEFINE D  == 1 .. k
           I  == {i \in D : elem_score[z][Names(p)[i]] # Scores(p)[i]}
           se == PutBatch(score_elem[z], I, Pads(p), Names(p))
           es == PutBatch(elem_score[z], I, Names(p), Scores(p))
           zs == PutBatch(zset[z], D, Names(p), Pads(p))
<1>4. /\ \A i \in D : /\ Names(p)[i] \in Member /\ Scores(p)[i] \in Int \X Nat
                      /\ Pads(p)[i] = Pad(Scores(p)[i]) /\ Pads(p)[i] \in Int
                      /\ Pads(p)[i] \notin {None, Rounded}
                      /\ Scores(p)[i] # None
      /\ \A i, j \in D : Names(p)[i] = Names(p)[j] => i = j
  BY <1>3, PairsAre, PadType
<1>5. /\ seen[t].put = I /\ \A i \in I : Unlisted(z, Names(p)[i])
  <2>1. Changed(t) = I
    BY <1>1, <1>2, <1>3 DEF Changed
  <2>2. seen[t].put = Changed(t) /\ \A i \in Changed(t) : Unlisted(Big(t), Names(Arg(t))[i])
    BY DEF zadd_put, ScoreInv, ScoreSeen
  <2> QED  BY <1>1, <1>2, <2>1, <2>2
<1>6. /\ pc[t] \in Holding /\ Goto(t, "idle")
      /\ score_elem' = [score_elem EXCEPT ![z] = se]
      /\ elem_score' = [elem_score EXCEPT ![z] = es]
      /\ zset' = [zset EXCEPT ![z] = zs]
  BY <1>1, <1>2, <1>3, <1>5 DEF zadd_put, At, Holding, Middle, Release
<1>7. /\ score_elem[z] \in [Padded -> Member \cup {None}]
      /\ elem_score[z] \in [Member -> (Int \X Nat) \cup {None}]
      /\ zset[z] \in [Member -> Int \cup {None, Rounded}]
  BY DEF ScoreInv, ScoreTyped
<1>8. I \subseteq D /\ \A i \in D : i \in I <=> elem_score[z][Names(p)[i]] # Scores(p)[i]
  OBVIOUS
<1> HIDE DEF I
<1>9. /\ se \in [Padded -> Member \cup {None}]
      /\ es \in [Member -> (Int \X Nat) \cup {None}]
      /\ zs \in [Member -> Int \cup {None, Rounded}]
  <2>1. /\ D \subseteq 1 .. k /\ I \subseteq 1 .. k
        /\ \A i \in I : /\ Names(p)[i] \in Member \cup {None}
                        /\ Scores(p)[i] \in (Int \X Nat) \cup {None}
        /\ \A i \in D : Pads(p)[i] \in Int \cup {None, Rounded}
    BY <1>4, <1>8
  <2>2. se \in [Padded -> Member \cup {None}]  BY <1>7, <2>1, BatchType
  <2>3. es \in [Member -> (Int \X Nat) \cup {None}]
    <3> DEFINE R == (Int \X Nat) \cup {None}
    <3>1. elem_score[z] \in [Member -> R] /\ \A i \in I : Scores(p)[i] \in R
      BY <1>7, <2>1
    <3> HIDE DEF R
    <3>2. es \in [Member -> R]
      BY <2>1, <3>1, BatchType
    <3> QED  BY <3>2 DEF R
  <2>4. zs \in [Member -> Int \cup {None, Rounded}]
    <3> DEFINE R == Int \cup {None, Rounded}
    <3>1. zset[z] \in [Member -> R] /\ \A i \in D : Pads(p)[i] \in R
      BY <1>7, <2>1
    <3> HIDE DEF R
    <3>2. zs \in [Member -> R]
      BY <2>1, <3>1, BatchType
    <3> QED  BY <3>2 DEF R
  <2> QED  BY <2>2, <2>3, <2>4
<1>10. ASSUME NEW n \in Padded
       PROVE  \/ se[n] = score_elem[z][n]
              \/ \E i \in I : Pads(p)[i] = n /\ se[n] = Names(p)[i]
  <2>1. n \in DOMAIN score_elem[z]
    BY <1>7
  <2>2. Batched(score_elem[z], I, Pads(p), Names(p), n)
    BY <1>8, <2>1, BatchIs
  <2> QED  BY <2>2 DEF Batched
<1>11. ASSUME NEW m \in Member
       PROVE  /\ (\A i \in I : Names(p)[i] # m) => es[m] = elem_score[z][m]
              /\ (\E i \in I : Names(p)[i] = m)
                   => \E i \in I : Names(p)[i] = m /\ es[m] = Scores(p)[i]
  <2>1. m \in DOMAIN elem_score[z]
    BY <1>7
  <2>2. Batched(elem_score[z], I, Names(p), Scores(p), m)
    BY <1>8, <2>1, BatchIs
  <2> QED  BY <2>2 DEF Batched
<1>12. ASSUME NEW m \in Member
       PROVE  /\ (\A i \in D : Names(p)[i] # m) => zs[m] = zset[z][m]
              /\ (\E i \in D : Names(p)[i] = m)
                   => \E i \in D : Names(p)[i] = m /\ zs[m] = Pads(p)[i]
  <2>1. m \in DOMAIN zset[z] /\ D \subseteq 1 .. k
    BY <1>7
  <2>2. Batched(zset[z], D, Names(p), Pads(p), m)
    BY <2>1, BatchIs
  <2> QED  BY <2>2 DEF Batched
<1> HIDE DEF se, es, zs
<1>13. /\ score_elem' \in [ZSet -> [Padded -> Member \cup {None}]] /\ score_elem'[z] = se
       /\ elem_score' \in [ZSet -> [Member -> (Int \X Nat) \cup {None}]] /\ elem_score'[z] = es
       /\ zset' \in [ZSet -> [Member -> Int \cup {None, Rounded}]] /\ zset'[z] = zs
       /\ \A y \in ZSet \ {z} : /\ elem_score'[y] = elem_score[y]
                                /\ score_elem'[y] = score_elem[y] /\ zset'[y] = zset[y]
  BY <1>6, <1>9 DEF ScoreInv, ScoreTyped
<1>14. ScoreTyped'
  BY <1>13 DEF ScoreTyped
<1>15. ScoreSeen(t)'
  BY <1>6, GotoIs DEF ScoreSeen, At
<1>16. \A i \in I : es[Names(p)[i]] = Scores(p)[i]
  BY <1>4, <1>8, <1>11
<1>17. ASSUME NEW n \in Padded PROVE ListedScore(z, n)'
  <2>1. CASE se[n] = score_elem[z][n]
    <3>1. se[n] # None => /\ se[n] \in Member /\ \A i \in I : Names(p)[i] # se[n]
      BY <1>5, <1>9, <2>1 DEF Unlisted
    <3>2. se[n] # None => es[se[n]] = elem_score[z][se[n]]
      BY <1>11, <3>1
    <3>3. ListedScore(z, n)
      BY DEF ScoreInv
    <3> QED  BY <1>13, <2>1, <3>2, <3>3 DEF ListedScore
  <2>2. CASE \E i \in I : Pads(p)[i] = n /\ se[n] = Names(p)[i]
    <3>1. PICK i \in I : Pads(p)[i] = n /\ se[n] = Names(p)[i]
      BY <2>2
    <3>2. es[se[n]] = Scores(p)[i] /\ Scores(p)[i] # None /\ Pad(Scores(p)[i]) = n
      BY <1>4, <1>8, <1>16, <3>1
    <3> QED  BY <1>13, <3>2 DEF ListedScore
  <2> QED  BY <1>10, <2>1, <2>2
<1>18. ASSUME NEW m \in Member PROVE KnownScore(z, m)'
  <2>1. KnownScore(z, m)
    BY DEF ScoreInv
  <2>2. CASE \A i \in D : Names(p)[i] # m
    <3>1. zs[m] = zset[z][m] /\ es[m] = elem_score[z][m]
      BY <1>8, <1>11, <1>12, <2>2
    <3> QED  BY <1>13, <2>1, <3>1 DEF KnownScore
  <2>3. CASE \E i \in D : Names(p)[i] = m
    <3>1. PICK i \in D : Names(p)[i] = m /\ zs[m] = Pads(p)[i]
      BY <1>12, <2>3
    <3>2. es[m] = Scores(p)[i]
      <4>1. CASE i \in I
        BY <1>16, <3>1, <4>1
      <4>2. CASE i \notin I
        <5>1. \A j \in I : Names(p)[j] # m
          BY <1>4, <1>8, <3>1, <4>2
        <5>2. elem_score[z][m] = Scores(p)[i]
          BY <1>8, <3>1, <4>2
        <5> QED  BY <1>11, <5>1, <5>2
      <4> QED  BY <4>1, <4>2
    <3> QED  BY <1>4, <1>13, <3>1, <3>2 DEF KnownScore, Known
  <2> QED  BY <2>2, <2>3
<1> QED  BY <1>6, <1>13, <1>14, <1>15, <1>17, <1>18, ScoreAlone

\* The other steps leave the sorted sets alone.
LEMMA ScoreApart ==
  ASSUME OwnersInv, ScoreInv, NEW t \in Thread,
         \/ (Looks(t) \/ expire(t)) /\ UNCHANGED collections
         \/ set_other(t) \/ del_other(t) \/ hset_list(t) \/ hdel_list(t) \/ zincrby_throws(t)
         \/ clean_hash(t) \/ clean_zset(t) \/ hset_field(t) \/ hdel_field(t)
  PROVE  ScoreInv'
<1> DEFINE U == UNCHANGED <<elem_score, score_elem, zset>>
<1>1. U /\ pc'[t] \notin Late /\ \E l : Moves(t, l)
  <2>1. CASE Looks(t) /\ UNCHANGED collections
    BY <2>1, LooksMove DEF collections, Late, Middle
  <2>2. CASE \/ expire(t) /\ UNCHANGED collections
             \/ set_other(t) \/ del_other(t) \/ hset_list(t) \/ hdel_list(t)
             \/ zincrby_throws(t)
    <3>1. U
      BY <2>2 DEF collections, set_other, del_other, Forget, hset_list, hdel_list,
                  zincrby_throws
    <3>2. Moves(t, "idle") /\ Goto(t, "idle")
      BY <2>2, EndsMove DEF Ends, Release
    <3> QED  BY <3>1, <3>2, GotoIs DEF Late
  <2>3. CASE clean_hash(t) \/ clean_zset(t)
    <3>1. U
      BY <2>3 DEF clean_hash, clean_zset, Forget, collections
    <3> QED  BY <2>3, <3>1, CleanMoves DEF Late, Middle
  <2>4. CASE hset_field(t) \/ hdel_field(t)
    <3>1. U /\ (Goto(t, "idle") \/ Goto(t, "list"))
      BY <2>4 DEF hset_field, hdel_field, Continue, Release
    <3>2. \E l : Moves(t, l)
      BY <2>4, ReadsMove DEF Reads
    <3> QED  BY <3>1, <3>2, GotoIs DEF Late
  <2> QED  BY <2>1, <2>2, <2>3, <2>4
<1>2. \A u \in Thread \ {t} : pc'[u] = pc[u] /\ cmd'[u] = cmd[u] /\ seen'[u] = seen[u]
  BY <1>1, GotoIs DEF Moves, OwnersInv
<1> QED  BY <1>1, <1>2, ScoreQuiet

LEMMA ScoreStep ==
  ASSUME OwnersInv, ArgsInv, OpsInv, ScoreInv, ~ Repeats, [NextCollections]_allvars
  PROVE  ScoreInv'
<1>1. ASSUME NEW t \in Thread, StepOther(t) PROVE ScoreInv'
  <2>1. CASE \/ (Looks(t) \/ expire(t)) /\ UNCHANGED collections
             \/ clean_hash(t) \/ clean_zset(t)
    BY <2>1, ScoreApart
  <2>2. CASE Ends(t)
    <3>1. CASE \/ set_other(t) \/ del_other(t) \/ hset_list(t) \/ hdel_list(t)
               \/ zincrby_throws(t)
      BY <3>1, ScoreApart
    <3>2. CASE zadd_put(t)
      BY <3>2, ZaddPuts
    <3>3. CASE zincrby_put(t)
      BY <3>3, ZincrbyPuts
    <3>4. CASE zrem_remove(t)
      BY <3>4, ZremRemoves
    <3> QED  BY <2>2, <3>1, <3>2, <3>3, <3>4 DEF Ends
  <2>3. CASE Reads(t)
    <3>1. CASE hset_field(t) \/ hdel_field(t)
      BY <3>1, ScoreApart
    <3>2. CASE zadd_read(t)
      BY <3>2, ZaddReads
    <3>3. CASE zadd_remove(t)
      BY <3>3, ZaddRemoves
    <3>4. CASE zincrby_read(t)
      BY <3>4, ZincrbyReads
    <3>5. CASE zrem_read(t)
      BY <3>5, ZremReads
    <3> QED  BY <2>3, <3>1, <3>2, <3>3, <3>4, <3>5 DEF Reads
  <2> QED  BY <1>1, <2>1, <2>2, <2>3, Steps
<1>2. ASSUME NEW t \in Thread, CallOther(t) PROVE ScoreInv'
  <2>1. /\ pc'[t] \in {"peek", "acquire", "check"} /\ cmd' = [cmd EXCEPT ![t] = cmd'[t]]
        /\ pc' = [pc EXCEPT ![t] = pc'[t]] /\ UNCHANGED <<seen, collections>>
    BY <1>2, CallIs
  <2>2. pc = [u \in Thread |-> pc[u]] /\ cmd = [u \in Thread |-> cmd[u]]
    BY DEF OwnersInv
  <2>3. \A u \in Thread \ {t} : pc'[u] = pc[u] /\ cmd'[u] = cmd[u]
    BY <2>1, <2>2
  <2>4. pc'[t] \notin Late
    BY <2>1 DEF Late
  <2>5. UNCHANGED <<seen, elem_score, score_elem, zset>>
    BY <2>1 DEF collections
  <2> QED  BY <2>3, <2>4, <2>5, ScoreQuiet
<1>3. CASE (Tick /\ UNCHANGED collections) \/ UNCHANGED allvars
  <2>1. UNCHANGED <<pc, cmd, seen, elem_score, score_elem, zset>>
    BY <1>3 DEF Tick, allvars, vars, collections
  <2> QED  BY <2>1, ScoreQuiet
<1> QED  BY <1>1, <1>2, <1>3 DEF NextCollections, DoneOther

\* At first no member has a score.
LEMMA ScoreBegins ==
  ASSUME InitCollections
  PROVE  ScoreInv
<1>1. /\ zset = [z \in ZSet |-> [m \in Member |-> None]] /\ elem_score = zset
      /\ score_elem = [z \in ZSet |-> [n \in Padded |-> None]]
  BY DEF InitCollections, InitOther
<1>2. ScoreTyped
  BY <1>1 DEF ScoreTyped
<1>3. \A t \in Thread : ScoreSeen(t)
  BY DEF InitCollections, ScoreSeen, At
<1> QED  BY <1>1, <1>2, <1>3 DEF ScoreInv, ListedScore, KnownScore, Known

LEMMA ScoreAlways ==
  ASSUME ~ Repeats
  PROVE  CollectionsSpec => []ScoreInv
<1> DEFINE I == OwnersInv /\ ArgsInv /\ OpsInv /\ ScoreInv
<1>1. InitCollections => I
  BY HashBegins, ScoreBegins
<1>2. I /\ [NextCollections]_allvars => I'
  BY OwnersStep, OpsStep, ScoreStep
<1> QED  BY <1>1, <1>2, PTL DEF CollectionsSpec

\* A member is listed under no score but its own (redis_wrapper.cpp, zadd),
\* for all threads, sets, members, scores and batches, as long as no ZADD
\* names a member twice.
THEOREM ScoresNameMembers ==
  ASSUME ~ Repeats
  PROVE  CollectionsSpec => []ScoreNamesMember
<1>1. ScoreInv => ScoreNamesMember
  BY DEF ScoreInv, ScoreNamesMember, ListedScore
<1> QED  BY <1>1, ScoreAlways, PTL

\* The score of a member is what the commands that returned make of it
\* (redis_wrapper.cpp, zadd, zincrby and zrem): no increment is lost.
THEOREM ScoresExact ==
  ASSUME ~ Repeats
  PROVE  CollectionsSpec => []ScoreExact
<1>1. ScoreInv => ScoreExact
  BY DEF ScoreInv, ScoreExact, KnownScore, Known
<1> QED  BY <1>1, ScoreAlways, PTL
=============================================================================
