---------------------------- MODULE VersionsProof -----------------------------
(***************************************************************************)
(* What the two modules over maps of versions promise, each on its own:    *)
(* Transaction.tla, proved for every number of threads, keys, values, ids  *)
(* and calls, and Scan.tla, for every number of tables, keys, values and   *)
(* ids. Their theorems use the assumptions of their own module only.       *)
(***************************************************************************)
EXTENDS Transaction, Scan, SequenceTheorems, WellFoundedInduction, TLAPS

Label == {"idle", "new_read", "new_write", "open", "remove", "validate", "wal", "abort"}

Answers == Value \cup {Absent}

\* What a map of a context can keep of a key.
Kept == (Value \X Tranc) \cup {Absent, None}

File == [len : 0 .. 3, next : Nat]

ManagerTyped ==
  /\ phase \in {"down", "up", "stop", "stop2"}
  /\ next_tranc_id \in Nat /\ mutex_ \in SUBSET Thread
  /\ file \in File \cup {None}
  /\ phase # "down" => file \in File
  /\ given \in Seq(Nat)

ThreadsTyped ==
  /\ pc \in [Thread -> Label]
  /\ id \in [Thread -> Nat \cup {None}] /\ level \in [Thread -> Level \cup {None}]
  /\ todo \in [Thread -> SUBSET Key]
  /\ seen \in [Thread -> Nat \cup Key \cup {None}]

MapsTyped ==
  /\ temp_map \in [Thread -> [Key -> Value \cup {None}]]
  /\ read_map \in [Thread -> [Key -> Kept]]
  /\ rollback_map \in [Thread -> [Key -> Kept]]

AnswersTyped ==
  /\ sees \in [Thread -> [Key -> Answers \cup {None}]]
  /\ reply \in [Thread -> (Key \X Answers) \cup {None}]

\* What was read in a step before is an id; an abort visits keys that were kept.
Stage(t) ==
  /\ At(t, "new_write") => seen[t] \in Nat
  /\ At(t, "abort") => todo[t] \subseteq Entries(rollback_map[t])

Typed ==
  /\ map \in [Version -> Value \cup {None}]
  /\ ManagerTyped /\ ThreadsTyped /\ MapsTyped /\ AnswersTyped
  /\ \A t \in Thread : Stage(t)
-----------------------------------------------------------------------------
(* The engine.                                                             *)

\* The newest of some ids is one of them, and no other is newer.
LEMMA NewestIs ==
  ASSUME NEW S \in SUBSET Tranc, S # {}
  PROVE  Newest(S) \in S /\ \A q \in S : q <= Newest(S)
<1> DEFINE T == {MaxTranc - r : r \in S}
<1>1. T \subseteq Nat /\ T # {}  BY TransactionAssumption
<1>2. PICK x \in T : \A y \in T : ~ (<<y, x>> \in OpToRel(<, Nat))
  BY <1>1, WFMin, NatLessThanWellFounded
<1>3. \A y \in T : ~ (y < x)  BY <1>1, <1>2 DEF OpToRel
<1>4. PICK r \in S : x = MaxTranc - r  BY <1>2
<1>5. \A q \in S : q <= r
  <2> TAKE q \in S
  <2>1. MaxTranc - q \in T  OBVIOUS
  <2>2. ~ (MaxTranc - q < MaxTranc - r)  BY <2>1, <1>3, <1>4
  <2> QED  BY <2>2, TransactionAssumption
<1> QED  BY <1>5 DEF Newest

\* What the engine answers is nothing, or a value with the id of its version.
LEMMA EngineType ==
  ASSUME map \in [Version -> Value \cup {None}], NEW k \in Key, NEW tr
  PROVE  Engine(k, tr) \in (Value \X Tranc) \cup {Absent}
<1> DEFINE S == Readable(map, k, tr)
<1>1. CASE S = {}  BY <1>1 DEF Engine, Read
<1>2. CASE S # {}
  <2>1. S \in SUBSET Tranc  BY DEF Readable
  <2>2. Newest(S) \in S  BY <2>1, <1>2, NewestIs
  <2>3. Newest(S) \in Tranc /\ map[<<k, Newest(S)>>] # None  BY <2>2 DEF Readable
  <2>4. map[<<k, Newest(S)>>] \in Value  BY <2>3 DEF Version
  <2>5. Read(map, k, tr) \in {None, <<k, Newest(S)>>}  BY DEF Read
  <2>6. Engine(k, tr) \in {Absent, <<map[<<k, Newest(S)>>], Newest(S)>>}
    BY <2>5 DEF Engine
  <2> QED  BY <2>3, <2>4, <2>6
<1> QED  BY <1>1, <1>2
-----------------------------------------------------------------------------
(* Types.                                                                  *)

LEMMA DieTyped == Typed /\ Die => Typed'
<1> SUFFICES ASSUME Typed, Die PROVE Typed'  OBVIOUS
<1>1. NoEntry \in [Key -> {None}]  BY DEF NoEntry
<1>2. [t \in Thread |-> NoEntry] \in [Thread -> [Key -> {None}]]  BY <1>1
<1>3. /\ temp_map' \in [Thread -> [Key -> Value \cup {None}]]
      /\ read_map' \in [Thread -> [Key -> Kept]] /\ rollback_map' \in [Thread -> [Key -> Kept]]
      /\ sees' \in [Thread -> [Key -> Answers \cup {None}]]
  BY <1>2 DEF Die, Kept
<1>4. map' \in [Version -> Value \cup {None}]  BY DEF Die, Empty
<1>5. pc' \in [Thread -> Label]  BY DEF Die, Label
<1>8. \A t \in Thread : Stage(t)'  BY DEF Die, Stage, At
<1>6. given' \in Seq(Nat)  BY EmptySeq DEF Die
<1>7. /\ phase' = "down" /\ mutex_' = {} /\ UNCHANGED <<next_tranc_id, file>>
      /\ todo' \in [Thread -> SUBSET Key]
      /\ seen' \in [Thread -> {None}] /\ reply' \in [Thread -> {None}]
      /\ id' \in [Thread -> {None}] /\ level' \in [Thread -> {None}]
  BY DEF Die
<1>9. ManagerTyped'  BY <1>6, <1>7 DEF Typed, ManagerTyped
<1> QED
  BY <1>3, <1>4, <1>5, <1>7, <1>8, <1>9 DEF Typed, ThreadsTyped, MapsTyped, AnswersTyped

LEMMA InitTyped == Init => Typed
<1> SUFFICES ASSUME Init PROVE Typed  OBVIOUS
<1>1. NoEntry \in [Key -> {None}]  BY DEF NoEntry
<1>2. [t \in Thread |-> NoEntry] \in [Thread -> [Key -> {None}]]  BY <1>1
<1>3. /\ temp_map \in [Thread -> [Key -> Value \cup {None}]]
      /\ read_map \in [Thread -> [Key -> Kept]] /\ rollback_map \in [Thread -> [Key -> Kept]]
      /\ sees \in [Thread -> [Key -> Answers \cup {None}]]
  BY <1>2 DEF Init, Kept
<1>4. map \in [Version -> Value \cup {None}]  BY DEF Init, Empty
<1>5. pc \in [Thread -> Label] /\ \A t \in Thread : ~ At(t, "abort")
  BY DEF Init, Label, At
<1>6. given \in Seq(Nat)  BY EmptySeq DEF Init
<1> QED
  BY <1>3, <1>4, <1>5, <1>6
  DEF Typed, ManagerTyped, ThreadsTyped, MapsTyped, AnswersTyped, Stage, At, Init

\* A step that takes t into no stage and leaves alone what its stage needs.
LEMMA StageStep ==
  ASSUME NEW t \in Thread, Stage(t),
         pc'[t] \in {"new_write", "abort"} =>
           pc'[t] = pc[t] /\ seen'[t] = seen[t] /\ todo'[t] = todo[t]
           /\ rollback_map'[t] = rollback_map[t]
  PROVE  Stage(t)'
BY DEF Stage, At, Entries

\* What the manager does leaves the contexts alone.
LEMMA ManageTyped ==
  ASSUME Typed, Start \/ Stop \/ write_tranc_id_file \/ write_tranc_id_rest
  PROVE  Typed'
<1> USE DEF context, maps
<1>1. UNCHANGED <<pc, id, level, todo, seen, temp_map, read_map, rollback_map, sees, reply,
                  mutex_, given>>
  BY DEF Start, Stop, write_tranc_id_file, write_tranc_id_rest
<1>2. map' \in [Version -> Value \cup {None}]
  BY DEF Start, Stop, write_tranc_id_file, write_tranc_id_rest, Typed, Empty
<1>3. next_tranc_id' \in Nat /\ phase' \in {"down", "up", "stop", "stop2"}
  BY DEF Typed, ManagerTyped, File, Start, Stop, write_tranc_id_file, write_tranc_id_rest
<1>4. file' \in File
  <2>1. CASE Start  BY <2>1 DEF Start, Typed, ManagerTyped, File
  <2>2. CASE Stop   BY <2>2 DEF Stop, Typed, ManagerTyped
  <2>3. CASE write_tranc_id_file
    BY <2>3 DEF write_tranc_id_file, Typed, ManagerTyped, File
  <2>4. CASE write_tranc_id_rest
    <3>1. file \in File  BY <2>4 DEF write_tranc_id_rest, Typed, ManagerTyped
    <3>2. (IF file.len < 3 THEN file.len + 1 ELSE 3) \in 0 .. 3  BY <3>1 DEF File
    <3> QED  BY <2>4, <3>1, <3>2 DEF write_tranc_id_rest, File
  <2> QED  BY <2>1, <2>2, <2>3, <2>4
<1>5. \A t \in Thread : Stage(t)'  BY <1>1, StageStep DEF Typed
<1> QED
  BY <1>1, <1>2, <1>3, <1>4, <1>5 DEF Typed, ManagerTyped, ThreadsTyped, MapsTyped, AnswersTyped

LEMMA NewTyped ==
  ASSUME Typed, NEW t \in Thread,
         new_tranc(t) \/ get_next_tranc_id(t) \/ TranContext(t) \/ Drop(t)
  PROVE  Typed'
<1> USE DEF manager, context, maps, new_tranc, get_next_tranc_id, TranContext, Drop
<1>1. map' = map /\ todo' = todo  OBVIOUS
<1>2. ThreadsTyped'
  <2>1. CASE new_tranc(t)
    BY <2>1 DEF Typed, ThreadsTyped, ManagerTyped, Stage, Goto, Label, At
  <2>2. CASE get_next_tranc_id(t)
    BY <2>2 DEF Typed, ThreadsTyped, ManagerTyped, Stage, Goto, Label, At
  <2>3. CASE TranContext(t)
    BY <2>3 DEF Typed, ThreadsTyped, ManagerTyped, Stage, Goto, Label, At
  <2>4. CASE Drop(t)
    BY <2>4 DEF Typed, ThreadsTyped, ManagerTyped, Stage, Goto, Label, At
  <2> QED  BY <2>1, <2>2, <2>3, <2>4
<1>3. ManagerTyped'
  <2>1. CASE TranContext(t)
    <3>1. seen[t] \in Nat  BY <2>1 DEF Typed, Stage
    <3>2. Append(given, seen[t]) \in Seq(Nat)
      BY <3>1, AppendProperties DEF Typed, ManagerTyped
    <3> QED  BY <2>1, <3>1, <3>2 DEF Typed, ManagerTyped
  <2>2. CASE ~ TranContext(t)
    <3>1. mutex_' \in {mutex_, {t}} /\ UNCHANGED <<phase, next_tranc_id, file, given>>
      BY <2>2
    <3> QED  BY <3>1 DEF Typed, ManagerTyped
  <2> QED  BY <2>1, <2>2
<1>4. MapsTyped' /\ AnswersTyped'
  <2>1. CASE Drop(t)
    <3>1. NoEntry \in [Key -> {None}]  BY DEF NoEntry
    <3> QED  BY <2>1, <3>1 DEF Typed, MapsTyped, AnswersTyped, Kept
  <2>2. CASE ~ Drop(t)  BY <2>2 DEF Typed, MapsTyped, AnswersTyped
  <2> QED  BY <2>1, <2>2
<1>5. \A u \in Thread : Stage(u)'
  <2> TAKE u \in Thread
  <2>1. CASE get_next_tranc_id(t) /\ u = t
    BY <2>1 DEF Typed, ManagerTyped, ThreadsTyped, Stage, At, Goto
  <2>2. CASE ~ (get_next_tranc_id(t) /\ u = t)
    <3>1. pc'[u] \in {"new_write", "abort"} =>
            pc'[u] = pc[u] /\ seen'[u] = seen[u] /\ rollback_map'[u] = rollback_map[u]
      BY <2>2 DEF Typed, ThreadsTyped, MapsTyped, At, Goto
    <3> QED  BY <3>1, <1>1, StageStep DEF Typed
  <2> QED  BY <2>1, <2>2
<1> QED  BY <1>1, <1>2, <1>3, <1>4, <1>5 DEF Typed

\* An answer or a write in what the context of t should see.
LEMMA SeesTyped ==
  ASSUME AnswersTyped, NEW t \in Thread, NEW k, NEW x \in Value, Sees(t, k, x)
  PROVE  AnswersTyped'
<1>1. [sees EXCEPT ![t][k] = x] \in [Thread -> [Key -> Answers \cup {None}]]
  BY DEF AnswersTyped, Answers
<1>2. [reply EXCEPT ![t] = None] \in [Thread -> (Key \X Answers) \cup {None}]
  BY DEF AnswersTyped
<1> QED  BY <1>1, <1>2 DEF AnswersTyped, Sees

LEMMA WriteTyped ==
  ASSUME Typed, NEW t \in Thread, NEW k \in Key, NEW x \in Value,
         put(t, k, x) \/ remove_temp(t, k) \/ remove_save(t, k)
  PROVE  Typed'
<1> USE TransactionAssumption
    DEF manager, context, maps, put, remove_temp, remove_save, Calls
<1>1. ManagerTyped'  BY DEF Typed, ManagerTyped
<1>2. map' \in [Version -> Value \cup {None}]  BY DEF Typed, Write
<1>3. ThreadsTyped'  BY DEF Typed, ThreadsTyped, Goto, Label
<1>4. MapsTyped'
  <2>1. \A y \in Value : [temp_map EXCEPT ![t][k] = y] \in [Thread -> [Key -> Value \cup {None}]]
    BY DEF Typed, MapsTyped
  <2>2. \A q \in Kept : [rollback_map EXCEPT ![t][k] = q] \in [Thread -> [Key -> Kept]]
    BY DEF Typed, MapsTyped
  <2>3. Engine(k, id[t]) \in Kept  BY EngineType DEF Typed, Kept
  <2>4. rollback_map[t][k] \in Kept  BY DEF Typed, MapsTyped
  <2>5. CASE put(t, k, x) \/ remove_temp(t, k)  BY <2>1, <2>5 DEF Typed, MapsTyped
  <2>6. CASE remove_save(t, k)  BY <2>2, <2>3, <2>4, <2>6 DEF Typed, MapsTyped
  <2> QED  BY <2>5, <2>6
<1>5. AnswersTyped'  BY SeesTyped DEF Typed, AnswersTyped
<1>6. \A u \in Thread : Stage(u)'
  <2> TAKE u \in Thread
  <2>1. pc'[u] \in {"new_write", "abort"} =>
          pc'[u] = pc[u] /\ seen'[u] = seen[u] /\ rollback_map'[u] = rollback_map[u]
    BY DEF Typed, ThreadsTyped, MapsTyped, At, Goto
  <2> QED  BY <2>1, StageStep DEF Typed
<1> QED  BY <1>1, <1>2, <1>3, <1>4, <1>5, <1>6 DEF Typed

LEMMA RemoveTyped ==
  ASSUME Typed, NEW t \in Thread, remove(t)
  PROVE  Typed'
<1> USE TransactionAssumption DEF manager, context, maps, remove
<1>1. ManagerTyped' /\ MapsTyped'  BY DEF Typed, ManagerTyped, MapsTyped
<1>2. map' \in [Version -> Value \cup {None}]  BY DEF Typed, Write
<1>3. ThreadsTyped'  BY DEF Typed, ThreadsTyped, Goto, Label
<1>4. AnswersTyped'  BY SeesTyped DEF Typed
<1>5. \A u \in Thread : Stage(u)'
  <2> TAKE u \in Thread
  <2>1. pc'[u] \in {"new_write", "abort"} => pc'[u] = pc[u] /\ seen'[u] = seen[u]
    BY DEF Typed, ThreadsTyped, At, Goto
  <2> QED  BY <2>1, StageStep DEF Typed
<1> QED  BY <1>1, <1>2, <1>3, <1>4, <1>5 DEF Typed

LEMMA ReadTyped ==
  ASSUME Typed, NEW t \in Thread, NEW k \in Key,
         get_own(t, k) \/ get_engine(t, k) \/ get_read(t, k)
  PROVE  Typed'
<1> USE DEF manager, context, maps, get_own, get_engine, get_read, Calls, Answer
<1>1. UNCHANGED <<map, manager, pc, id, level, temp_map, rollback_map, todo, seen, given>>
  OBVIOUS
<1>2. \A q \in Kept \ {None} : ValueOf(q) \in Answers  BY DEF Kept, ValueOf, Answers
<1>3. \A tr : Engine(k, tr) \in Kept  BY EngineType DEF Typed, Kept
<1>4. \A tr : ValueOf(Engine(k, tr)) \in Answers
  BY EngineType DEF Typed, ValueOf, Answers
<1>5. read_map' \in [Thread -> [Key -> Kept]]  BY <1>3 DEF Typed, MapsTyped
<1>6. AnswersTyped'
  <2>1. \E a \in Answers : /\ reply' = [reply EXCEPT ![t] = <<k, a>>]
                           /\ sees' = [sees EXCEPT ![t][k] = IF @ = None THEN a ELSE @]
    <3>1. CASE get_own(t, k)
      <4>1. temp_map[t][k] \in Answers  BY <3>1 DEF Typed, MapsTyped, Answers
      <4> QED  BY <3>1, <4>1
    <3>2. CASE get_engine(t, k)  BY <3>2, <1>4
    <3>3. CASE get_read(t, k)
      <4> DEFINE q == IF read_map[t][k] # None THEN read_map[t][k] ELSE Engine(k, id[t])
      <4>1. read_map[t][k] \in Kept  BY DEF Typed, MapsTyped
      <4>2. ValueOf(q) \in Answers  BY <4>1, <1>2, <1>4
      <4>3. Answer(t, k, ValueOf(q))  BY <3>3
      <4> QED  BY <4>2, <4>3
    <3> QED  BY <3>1, <3>2, <3>3
  <2> QED  BY <2>1 DEF Typed, AnswersTyped
<1>7. \A u \in Thread : Stage(u)'  BY <1>1, StageStep DEF Typed
<1> QED  BY <1>1, <1>5, <1>6, <1>7 DEF Typed, ManagerTyped, ThreadsTyped, MapsTyped

LEMMA EndTyped ==
  ASSUME Typed, NEW t \in Thread,
         commit(t) \/ validate(t) \/ validated(t) \/ abort(t) \/ restore(t)
  PROVE  Typed'
<1> USE DEF manager, context, maps, commit, validate, validated, abort, restore, Calls
<1>1. UNCHANGED <<manager, id, level, maps, sees, reply, seen, given>>  OBVIOUS
<1>2. ThreadsTyped'
  <2>1. CASE commit(t)
    BY <2>1, <1>1 DEF Typed, ThreadsTyped, Goto, Label, Entries
  <2>2. CASE validate(t)
    BY <2>2, <1>1 DEF Typed, ThreadsTyped, Goto, Label, Entries
  <2>3. CASE validated(t)
    BY <2>3, <1>1 DEF Typed, ThreadsTyped, Goto, Label, Entries
  <2>4. CASE abort(t)
    BY <2>4, <1>1 DEF Typed, ThreadsTyped, Goto, Label, Entries
  <2>5. CASE restore(t)
    BY <2>5, <1>1 DEF Typed, ThreadsTyped, Goto, Label, Entries
  <2> QED  BY <2>1, <2>2, <2>3, <2>4, <2>5
<1>3. map' \in [Version -> Value \cup {None}]
  <2>1. CASE restore(t)
    <3>1. PICK k \in todo[t] :
            IF rollback_map[t][k] = Absent THEN Write(<<k, id[t]>>, Deleted)
            ELSE Write(<<k, rollback_map[t][k][2]>>, rollback_map[t][k][1])
      BY <2>1
    <3>2. k \in Key /\ rollback_map[t][k] # None
      BY <2>1 DEF Typed, ThreadsTyped, Stage, Entries
    <3>3. rollback_map[t][k] = Absent \/ rollback_map[t][k][1] \in Value
      BY <3>2 DEF Typed, MapsTyped, Kept
    <3> QED  BY <3>1, <3>3, TransactionAssumption DEF Typed, Write
  <2>2. CASE ~ restore(t)  BY <2>2 DEF Typed
  <2> QED  BY <2>1, <2>2
<1>4. \A u \in Thread : Stage(u)'
  <2> TAKE u \in Thread
  <2>1. CASE u = t
    <3>1. CASE commit(t)
      BY <3>1, <1>1, <2>1 DEF Typed, ThreadsTyped, Stage, At, Goto, Entries
    <3>2. CASE validate(t)
      BY <3>2, <1>1, <2>1 DEF Typed, ThreadsTyped, Stage, At, Goto, Entries
    <3>3. CASE validated(t)
      BY <3>3, <1>1, <2>1 DEF Typed, ThreadsTyped, Stage, At, Goto, Entries
    <3>4. CASE abort(t)
      BY <3>4, <1>1, <2>1 DEF Typed, ThreadsTyped, Stage, At, Goto, Entries
    <3>5. CASE restore(t)
      BY <3>5, <1>1, <2>1 DEF Typed, ThreadsTyped, Stage, At, Goto, Entries
    <3> QED  BY <3>1, <3>2, <3>3, <3>4, <3>5
  <2>2. CASE u # t
    <3>1. pc'[u] = pc[u] /\ todo'[u] = todo[u]
      BY <2>2 DEF Typed, ThreadsTyped, Goto
    <3> QED  BY <3>1, <1>1, StageStep DEF Typed
  <2> QED  BY <2>1, <2>2
<1> QED  BY <1>1, <1>2, <1>3, <1>4 DEF Typed, ManagerTyped, MapsTyped, AnswersTyped

LEMMA TypedStep == Typed /\ [Next]_vars => Typed'
<1> SUFFICES ASSUME Typed, [Next]_vars PROVE Typed'  OBVIOUS
<1>1. CASE Manage  BY <1>1, ManageTyped, DieTyped DEF Manage, Crash
<1>2. ASSUME NEW t \in Thread, Call(t) PROVE Typed'
  BY <1>2, NewTyped, EndTyped, WriteTyped, ReadTyped, TransactionAssumption DEF Call
<1>3. ASSUME NEW t \in Thread, Step(t) PROVE Typed'
  BY <1>3, NewTyped, EndTyped, DieTyped, RemoveTyped DEF Step, write_to_wal
<1>4. ASSUME NEW k \in Key, NEW x \in Value, PutPlain(k, x) PROVE Typed'
  <2>1. \A t \in Thread : Stage(t)'
    BY <1>4, StageStep DEF PutPlain, context, maps, Typed
  <2>2. map' \in [Version -> Value \cup {None}]  BY <1>4 DEF PutPlain, Write, Typed
  <2> QED
    BY <1>4, <2>1, <2>2 DEF PutPlain, manager, context, maps, Typed, ManagerTyped,
                       ThreadsTyped, MapsTyped, AnswersTyped
<1>5. CASE UNCHANGED vars
  <2>1. \A t \in Thread : Stage(t)'
    BY <1>5, StageStep DEF vars, context, maps, Typed
  <2> QED
    BY <1>5, <2>1 DEF vars, manager, context, maps, Typed, ManagerTyped, ThreadsTyped,
                  MapsTyped, AnswersTyped
<1> QED  BY <1>1, <1>2, <1>3, <1>4, <1>5 DEF Next
-----------------------------------------------------------------------------
(* The ids.                                                                *)

NewLock(t) ==
  /\ At(t, "new_read") \/ At(t, "new_write") => mutex_ = {t}
  /\ At(t, "new_write") => seen[t] = next_tranc_id
  /\ phase # "up" => At(t, "idle")

\* What the manager and its file will give out next is above what it gave.
Fresh ==
  /\ next_tranc_id # 0
  /\ file # None /\ file.len # 0 => file.next # 0
  /\ phase = "stop2" => file.len # 0 /\ file.next = next_tranc_id
  /\ phase # "down" => \A i \in DOMAIN given : given[i] < next_tranc_id
  /\ phase = "down" /\ given # <<>> =>
       file # None /\ file.len = 3 /\ \A i \in DOMAIN given : given[i] < file.next

IdInv == (\A t \in Thread : NewLock(t)) /\ Fresh /\ IdsUnique

LEMMA NoneIsNoFile == None \notin File
BY TransactionAssumption DEF File

\* Calls that neither take an id nor open a context.
LEMMA IdQuiet ==
  ASSUME Typed, IdInv, NEW t \in Thread, ~ At(t, "idle"), ~ At(t, "new_read"),
         ~ At(t, "new_write"), NEW l \in Label \ {"new_read", "new_write"},
         pc' \in {pc, [pc EXCEPT ![t] = l]},
         \A u \in Thread : u # t => seen'[u] = seen[u],
         UNCHANGED <<manager, given>>
  PROVE  IdInv'
<1>1. phase = "up" /\ phase' = phase  BY DEF IdInv, NewLock, manager
<1>2. \A u \in Thread : NewLock(u)'
  <2> TAKE u \in Thread
  <2>1. CASE u = t
    <3>1. pc'[u] \notin {"new_read", "new_write"}
      BY <2>1 DEF Typed, ThreadsTyped, At
    <3> QED  BY <3>1, <1>1 DEF At, NewLock
  <2>2. CASE u # t
    <3>1. pc'[u] = pc[u] /\ seen'[u] = seen[u]
      BY <2>2 DEF Typed, ThreadsTyped
    <3> QED  BY <3>1, <1>1 DEF At, IdInv, NewLock, manager
  <2> QED  BY <2>1, <2>2
<1>3. Fresh' /\ IdsUnique'  BY DEF IdInv, Fresh, IdsUnique, manager
<1> QED  BY <1>2, <1>3 DEF IdInv

\* Between starting and stopping the file and the manager hand the next id to
\* each other.
LEMMA IdManage ==
  ASSUME Typed, IdInv, Start \/ Stop \/ write_tranc_id_file \/ write_tranc_id_rest
  PROVE  IdInv'
<1> USE DEF context
<1>1. UNCHANGED <<pc, seen, mutex_, given>>
  BY DEF Start, Stop, write_tranc_id_file, write_tranc_id_rest, manager
<1>2. \A t \in Thread : NewLock(t)'
  <2> TAKE t \in Thread
  <2>1. At(t, "idle")
    BY DEF Start, Stop, write_tranc_id_file, write_tranc_id_rest, IdInv, NewLock
  <2> QED  BY <2>1, <1>1 DEF At, NewLock
<1>3. IdsUnique'  BY <1>1 DEF IdInv, IdsUnique
<1>4. Fresh'
  <2>1. CASE Start
    <3>1. file = None => given = <<>>  BY <2>1 DEF Start, IdInv, Fresh
    <3>2. CASE file = None
      <4>1. next_tranc_id' = 1 /\ file'.len = 0 /\ phase' = "up" /\ given' = <<>>
        BY <2>1, <3>1, <3>2, <1>1 DEF Start
      <4>2. DOMAIN given' = {}  BY <4>1
      <4> QED  BY <4>1, <4>2 DEF Fresh
    <3>3. CASE file # None
      <4>1. next_tranc_id' = file.next /\ file' = file /\ file.len = 3 /\ phase' = "up"
            /\ phase = "down"
        BY <2>1, <3>3 DEF Start
      <4>2. \A i \in DOMAIN given : given[i] < file.next
        <5>1. CASE given = <<>>  BY <5>1
        <5>2. CASE given # <<>>  BY <5>2, <4>1 DEF IdInv, Fresh
        <5> QED  BY <5>1, <5>2
      <4>3. file.next # 0  BY <3>3, <4>1 DEF IdInv, Fresh
      <4> QED  BY <4>1, <4>2, <4>3, <1>1 DEF Fresh
    <3> QED  BY <3>2, <3>3
  <2>2. CASE Stop  BY <2>2, <1>1 DEF Stop, IdInv, Fresh
  <2>3. CASE write_tranc_id_file
    <3>1. file \in File /\ next_tranc_id \in Nat
      BY <2>3 DEF write_tranc_id_file, Typed, ManagerTyped
    <3>2. file'.len # 0 /\ file'.next = next_tranc_id /\ phase = "stop" /\ phase' = "stop2"
          /\ next_tranc_id' = next_tranc_id
      BY <2>3, <3>1 DEF write_tranc_id_file, File
    <3> QED  BY <3>2, <1>1 DEF IdInv, Fresh
  <2>4. CASE write_tranc_id_rest
    <3>1. file \in File /\ phase = "stop2" /\ next_tranc_id' = next_tranc_id
      BY <2>4 DEF write_tranc_id_rest, Typed, ManagerTyped
    <3>2. file'.len # 0 /\ file'.next = file.next /\ file' \in File
      BY <2>4, <3>1 DEF write_tranc_id_rest, File
    <3>3. phase' = IF file'.len = 3 THEN "down" ELSE "stop2"
      BY <2>4 DEF write_tranc_id_rest
    <3>4. file.next = next_tranc_id /\ next_tranc_id # 0
          /\ \A i \in DOMAIN given : given[i] < next_tranc_id
      BY <3>1 DEF IdInv, Fresh
    <3> QED  BY <3>1, <3>2, <3>3, <3>4, <1>1, NoneIsNoFile DEF Fresh
  <2> QED  BY <2>1, <2>2, <2>3, <2>4
<1> QED  BY <1>2, <1>3, <1>4 DEF IdInv

LEMMA IdDie == ASSUME Typed, IdInv, Die PROVE IdInv'
<1>1. given' = <<>> /\ phase' = "down" /\ UNCHANGED <<next_tranc_id, file>>
      /\ \A t \in Thread : pc'[t] = "idle"
  BY DEF Die
<1> QED  BY <1>1 DEF IdInv, NewLock, Fresh, IdsUnique, At

\* The id that TranContext takes is above all that were given.
LEMMA IdTake ==
  ASSUME Typed, IdInv, NEW t \in Thread, TranContext(t)
  PROVE  IdInv'
<1>1. phase = "up" /\ phase' = "up" /\ file' = file /\ mutex_ = {t}
  BY DEF TranContext, IdInv, NewLock, At
<1>2. next_tranc_id \in Nat /\ seen[t] = next_tranc_id /\ next_tranc_id' = next_tranc_id + 1
      /\ given \in Seq(Nat) /\ given' = Append(given, next_tranc_id) /\ next_tranc_id # 0
  BY DEF TranContext, IdInv, NewLock, Fresh, At, Typed, ManagerTyped
<1>3. \A u \in Thread : NewLock(u)'
  <2> TAKE u \in Thread
  <2>1. CASE u = t
    <3>1. pc'[u] = "open"  BY <2>1 DEF TranContext, Goto, Typed, ThreadsTyped
    <3> QED  BY <3>1, <1>1 DEF At, NewLock
  <2>2. CASE u # t
    <3>1. pc'[u] = pc[u]  BY <2>2 DEF TranContext, Goto, Typed, ThreadsTyped
    <3>2. ~ At(u, "new_read") /\ ~ At(u, "new_write")
      BY <2>2, <1>1 DEF IdInv, NewLock
    <3> QED  BY <3>1, <3>2, <1>1 DEF At, NewLock
  <2> QED  BY <2>1, <2>2
<1>4. /\ DOMAIN given = 1 .. Len(given) /\ Len(given) \in Nat
      /\ DOMAIN given' = 1 .. Len(given) + 1
      /\ \A i \in DOMAIN given : given'[i] = given[i] /\ given[i] < next_tranc_id
                                 /\ given[i] \in Nat
      /\ given'[Len(given) + 1] = next_tranc_id
  BY <1>1, <1>2, AppendProperties, LenProperties, ElementOfSeq DEF IdInv, Fresh
<1>5. Fresh'  BY <1>1, <1>2, <1>4 DEF IdInv, Fresh
<1>6. IdsUnique'
  <2> SUFFICES ASSUME NEW i \in DOMAIN given', NEW j \in DOMAIN given'
               PROVE  given'[i] # 0 /\ (given'[i] = given'[j] => i = j)
    BY DEF IdsUnique
  <2>1. \A n \in DOMAIN given' : n \in DOMAIN given \/ n = Len(given) + 1  BY <1>4
  <2>2. \A n \in DOMAIN given : given'[n] # next_tranc_id /\ given'[n] # 0
    BY <1>2, <1>4 DEF IdInv, IdsUnique
  <2>3. \A m, n \in DOMAIN given : given'[m] = given'[n] => m = n
    BY <1>4 DEF IdInv, IdsUnique
  <2> QED  BY <1>2, <1>4, <2>1, <2>2, <2>3
<1> QED  BY <1>3, <1>5, <1>6 DEF IdInv

LEMMA IdStep == Typed /\ IdInv /\ [Next]_vars => IdInv'
<1> SUFFICES ASSUME Typed, IdInv, [Next]_vars PROVE IdInv'  OBVIOUS
<1> USE DEF context, maps
<1>1. CASE Manage  BY <1>1, IdManage, IdDie DEF Manage, Crash
<1>2. ASSUME NEW t \in Thread, new_tranc(t) \/ get_next_tranc_id(t) PROVE IdInv'
  <2>1. phase = "up" /\ phase' = "up" /\ UNCHANGED <<next_tranc_id, file, given>>
    BY <1>2 DEF new_tranc, get_next_tranc_id, manager, IdInv, NewLock, At
  <2>2. mutex_' = {t}
    BY <1>2 DEF new_tranc, get_next_tranc_id, manager, IdInv, NewLock
  <2>3. \A u \in Thread : NewLock(u)'
    <3> TAKE u \in Thread
    <3>1. CASE u = t
      BY <1>2, <2>1, <2>2, <3>1
      DEF new_tranc, get_next_tranc_id, Typed, ThreadsTyped, Goto, At, NewLock
    <3>2. CASE u # t
      <4>1. pc'[u] = pc[u]
        BY <1>2, <3>2 DEF new_tranc, get_next_tranc_id, Typed, ThreadsTyped, Goto
      <4>2. mutex_ # {u}
        BY <1>2, <3>2 DEF new_tranc, get_next_tranc_id, IdInv, NewLock
      <4> QED  BY <4>1, <4>2, <2>1 DEF At, IdInv, NewLock
    <3> QED  BY <3>1, <3>2
  <2> QED  BY <2>1, <2>3 DEF IdInv, Fresh, IdsUnique
<1>3. ASSUME NEW t \in Thread,
             \/ remove(t) \/ validate(t) \/ validated(t) \/ restore(t)
             \/ commit(t) \/ abort(t) \/ Drop(t)
             \/ \E k \in Key : \/ \E x \in Value : put(t, k, x)
                               \/ remove_temp(t, k) \/ remove_save(t, k)
                               \/ get_own(t, k) \/ get_engine(t, k) \/ get_read(t, k)
      PROVE  IdInv'
  <2> USE DEF remove, validate, validated, restore, commit, abort, Drop, put, remove_temp,
              remove_save, get_own, get_engine, get_read, Answer, Calls, Goto, At
  <2>1. /\ ~ At(t, "idle") /\ ~ At(t, "new_read") /\ ~ At(t, "new_write")
        /\ UNCHANGED <<manager, given>>
    BY <1>3
  <2>2. \E l \in Label \ {"new_read", "new_write"} : pc' \in {pc, [pc EXCEPT ![t] = l]}
    BY <1>3 DEF Label
  <2>3. \A u \in Thread : u # t => seen'[u] = seen[u]
    BY <1>3 DEF Typed, ThreadsTyped
  <2> QED  BY <2>1, <2>2, <2>3, IdQuiet
<1>4. ASSUME UNCHANGED <<manager, given, pc, seen>> PROVE IdInv'
  BY <1>4 DEF manager, IdInv, NewLock, Fresh, IdsUnique, At
<1>5. ASSUME NEW k, NEW x, PutPlain(k, x) PROVE IdInv'
  BY <1>4, <1>5 DEF PutPlain
<1>6. CASE UNCHANGED vars  BY <1>4, <1>6 DEF vars
<1> QED  BY <1>1, <1>2, <1>3, <1>5, <1>6, IdTake, IdDie DEF Next, Step, Call, write_to_wal

\* No two transactions between two crashes get one id, and none gets 0,
\* whatever threads begin together and however often the process stops and
\* starts in order.
THEOREM IdsAreUnique == Spec => []IdsUnique
<1>1. Init => IdInv  BY DEF Init, IdInv, NewLock, Fresh, IdsUnique, At
<1>2. Typed /\ IdInv => IdsUnique  BY DEF IdInv
<1> QED  BY <1>1, <1>2, InitTyped, TypedStep, IdStep, PTL DEF Spec
-----------------------------------------------------------------------------
(* Commits.                                                                *)

\* From its validation on a commit has the memtable to itself, and the keys
\* that it has looked at stay as it saw them.
Validated(t) ==
  /\ At(t, "validate") \/ (At(t, "wal") /\ ~ Uncommitted(t)) => mem_mtx = Lock(t)
  /\ Validates(t) => \A k \in Entries(temp_map[t]) :
       /\ At(t, "validate") => k \in todo[t] \/ ~ Conflict(t, k)
       /\ At(t, "wal") => ~ Conflict(t, k)

CommitInv == \A t \in Thread : Validated(t)

\* Writes need the locks that a commit holds.
LEMMA CommitQuiet ==
  ASSUME NEW t \in Thread, Validated(t), mem_mtx' = mem_mtx,
         map' = map \/ CanLock(mem_mtx),
         pc'[t] \in {"validate", "wal"} =>
           /\ pc'[t] = pc[t] /\ id'[t] = id[t] /\ level'[t] = level[t]
           /\ temp_map'[t] = temp_map[t] /\ todo'[t] = todo[t]
  PROVE  Validated(t)'
<1>1. CASE pc'[t] \notin {"validate", "wal"}  BY <1>1 DEF Validated, At
<1>2. CASE pc'[t] \in {"validate", "wal"} /\ map' = map
  BY <1>2 DEF Validated, At, Uncommitted, Validates, Entries, Conflict
<1>3. CASE pc'[t] \in {"validate", "wal"} /\ CanLock(mem_mtx)
  <2>1. mem_mtx # Lock(t)  BY <1>3 DEF CanLock, Lock
  <2>2. At(t, "wal") /\ Uncommitted(t)  BY <2>1, <1>3 DEF Validated, At
  <2>3. pc'[t] = "wal" /\ level'[t] = "ReadUncommitted"
    BY <2>2, <1>3 DEF At, Uncommitted
  <2> QED  BY <2>3 DEF Validated, At, Uncommitted, Validates
<1> QED  BY <1>1, <1>2, <1>3

\* A commit that takes the locks finds nobody with them.
LEMMA CommitLocks ==
  ASSUME Typed, CommitInv, NEW t \in Thread, commit(t)
  PROVE  CommitInv'
<1> USE DEF manager, maps, commit, Calls
<1>1. pc[t] = "open" /\ UNCHANGED <<map, id, level, temp_map>>  BY DEF At
<1>2. CASE Uncommitted(t)
  <2>1. mem_mtx' = mem_mtx /\ todo' = todo /\ pc' = [pc EXCEPT ![t] = "wal"]
    BY <1>2 DEF Goto
  <2>2. \A u \in Thread : u # t => Validated(u)'
    BY <1>1, <2>1, CommitQuiet DEF CommitInv, Typed, ThreadsTyped
  <2>3. Validated(t)'
    BY <1>1, <1>2, <2>1 DEF Validated, Uncommitted, Validates, At, Typed, ThreadsTyped
  <2> QED  BY <2>2, <2>3 DEF CommitInv
<1>3. CASE ~ Uncommitted(t)
  <2>1. CanLock(mem_mtx) /\ mem_mtx' = Lock(t) /\ pc' = [pc EXCEPT ![t] = "validate"]
        /\ todo' = [todo EXCEPT ![t] = IF Validates(t) THEN Entries(temp_map[t]) ELSE {}]
    BY <1>3 DEF Goto
  <2>2. pc'[t] = "validate" /\ \A u \in Thread : u # t => pc'[u] = pc[u]
    BY <2>1 DEF Typed, ThreadsTyped
  <2>3. ASSUME NEW u \in Thread, u # t PROVE Validated(u)'
    <3>1. mem_mtx # Lock(u)  BY <2>1 DEF CanLock, Lock
    <3>2. ~ At(u, "validate") /\ (At(u, "wal") => Uncommitted(u))
      BY <3>1 DEF CommitInv, Validated
    <3>3. pc'[u] # "validate" /\ (pc'[u] = "wal" => level'[u] = "ReadUncommitted")
      BY <1>1, <2>2, <2>3, <3>2 DEF At, Uncommitted
    <3> QED  BY <3>3 DEF Validated, At, Uncommitted, Validates
  <2>4. Validates(t) => todo'[t] = Entries(temp_map[t])
    BY <2>1 DEF Typed, ThreadsTyped
  <2>5. Validated(t)'
    BY <1>1, <2>1, <2>2, <2>4 DEF Validated, Validates, At, Entries
  <2> QED  BY <2>3, <2>5 DEF CommitInv
<1> QED  BY <1>2, <1>3

\* A key leaves todo when no newer version has been found.
LEMMA CommitValidates ==
  ASSUME Typed, CommitInv, NEW t \in Thread, validate(t) \/ validated(t)
  PROVE  CommitInv'
<1> USE DEF manager, maps, context, validate, validated
<1>1. pc[t] = "validate" /\ UNCHANGED <<map, id, level, temp_map>>  BY DEF At
<1>2. mem_mtx = Lock(t)  BY <1>1 DEF CommitInv, Validated, At
<1>3. ASSUME NEW u \in Thread, u # t PROVE Validated(u)'
  <2>1. mem_mtx # Lock(u)  BY <1>2, <1>3 DEF Lock
  <2>2. ~ At(u, "validate") /\ (At(u, "wal") => Uncommitted(u))
    BY <2>1 DEF CommitInv, Validated
  <2>3. pc'[u] = pc[u]  BY <1>3 DEF Goto, Typed, ThreadsTyped
  <2>4. pc'[u] # "validate" /\ (pc'[u] = "wal" => level'[u] = "ReadUncommitted")
    BY <1>1, <2>2, <2>3 DEF At, Uncommitted
  <2> QED  BY <2>4 DEF Validated, At, Uncommitted, Validates
<1>4. Validated(t)'
  <2>1. CASE pc'[t] = "open"  BY <2>1 DEF Validated, At
  <2>2. CASE validate(t) /\ pc'[t] # "open"
    <3>1. PICK k \in todo[t] : ~ Conflict(t, k) /\ todo' = [todo EXCEPT ![t] = @ \ {k}]
                               /\ UNCHANGED <<mem_mtx, pc>>
      BY <2>2 DEF Goto, Typed, ThreadsTyped
    <3>2. todo'[t] = todo[t] \ {k}  BY <3>1 DEF Typed, ThreadsTyped
    <3>3. Validates(t) => \A j \in Entries(temp_map[t]) : j \in todo'[t] \/ ~ Conflict(t, j)
      BY <3>1, <3>2, <1>1 DEF CommitInv, Validated, At
    <3> QED
      BY <1>1, <1>2, <3>1, <3>3 DEF Validated, At, Uncommitted, Validates, Entries, Conflict
  <2>3. CASE validated(t)
    <3>1. todo[t] = {} /\ pc'[t] = "wal" /\ mem_mtx' = mem_mtx
      BY <2>3 DEF Goto, Typed, ThreadsTyped
    <3>2. Validates(t) => \A j \in Entries(temp_map[t]) : ~ Conflict(t, j)
      BY <3>1, <1>1 DEF CommitInv, Validated, At
    <3> QED
      BY <1>1, <1>2, <3>1, <3>2 DEF Validated, At, Uncommitted, Validates, Entries, Conflict
  <2> QED  BY <2>1, <2>2, <2>3
<1> QED  BY <1>3, <1>4 DEF CommitInv

LEMMA CommitStep == Typed /\ CommitInv /\ [Next]_vars => CommitInv'
<1> SUFFICES ASSUME Typed, CommitInv, [Next]_vars PROVE CommitInv'  OBVIOUS
<1> USE DEF context, maps
<1>1. ASSUME \A t \in Thread : pc'[t] = "idle" PROVE CommitInv'
  BY <1>1 DEF CommitInv, Validated, At
<1>2. CASE Crash \/ \E t \in Thread : write_to_wal(t)
  BY <1>1, <1>2 DEF Crash, write_to_wal, Die
<1>3. CASE Stop  BY <1>1, <1>3 DEF Stop, At
<1>4. ASSUME UNCHANGED <<pc, id, level, temp_map, todo, mem_mtx>>,
             map' = map \/ CanLock(mem_mtx)
      PROVE  CommitInv'
  BY <1>4, CommitQuiet DEF CommitInv
<1>5. CASE Start \/ write_tranc_id_file \/ write_tranc_id_rest
  BY <1>4, <1>5 DEF Start, write_tranc_id_file, write_tranc_id_rest
<1>6. ASSUME NEW k, NEW x, PutPlain(k, x) PROVE CommitInv'
  BY <1>4, <1>6 DEF PutPlain
<1>7. CASE UNCHANGED vars  BY <1>4, <1>7 DEF vars
<1>8. ASSUME NEW t \in Thread,
             \/ new_tranc(t) \/ get_next_tranc_id(t) \/ TranContext(t) \/ remove(t)
             \/ restore(t) \/ abort(t) \/ Drop(t)
             \/ \E k \in Key : \/ \E x \in Value : put(t, k, x)
                               \/ remove_temp(t, k) \/ remove_save(t, k)
                               \/ get_own(t, k) \/ get_engine(t, k) \/ get_read(t, k)
      PROVE  CommitInv'
  <2> USE DEF new_tranc, get_next_tranc_id, TranContext, remove, restore, abort, Drop, put,
              remove_temp, remove_save, get_own, get_engine, get_read, Answer, Calls, Goto, At
  <2>1. mem_mtx' = mem_mtx /\ (map' = map \/ CanLock(mem_mtx))  BY <1>8
  <2>2. pc[t] \notin {"validate", "wal"} /\ pc'[t] \notin {"validate", "wal"}
    BY <1>8 DEF Typed, ThreadsTyped
  <2>3. ASSUME NEW u \in Thread, u # t
        PROVE  pc'[u] = pc[u] /\ id'[u] = id[u] /\ level'[u] = level[u]
               /\ temp_map'[u] = temp_map[u] /\ todo'[u] = todo[u]
    BY <1>8, <2>3 DEF Typed, ThreadsTyped, MapsTyped
  <2>4. ASSUME NEW u \in Thread PROVE Validated(u)'
    BY <2>1, <2>2, <2>3, CommitQuiet DEF CommitInv
  <2> QED  BY <2>4 DEF CommitInv
<1> QED
  BY <1>2, <1>3, <1>5, <1>6, <1>7, <1>8, CommitLocks, CommitValidates
  DEF Next, Step, Call, Manage

\* When a commit that validates writes the log, no other transaction has put a
\* newer version of a key it changes into memory, whatever threads write and
\* commit at the same time.
THEOREM CommitsUnconflicted == Spec => []CommitUnconflicted
<1>1. Init => CommitInv  BY DEF Init, CommitInv, Validated, At
<1>2. CommitInv => CommitUnconflicted
  BY DEF CommitInv, Validated, CommitUnconflicted
<1> QED  BY <1>1, <1>2, InitTyped, TypedStep, CommitStep, PTL DEF Spec
-----------------------------------------------------------------------------
(* Reads.                                                                  *)

Keeps(t) == level[t] \notin {"ReadUncommitted", "ReadCommitted"}

\* What the maps of a context say of a key.
Own(t, k) ==
  IF temp_map[t][k] # None THEN temp_map[t][k]
  ELSE IF read_map[t][k] = None THEN None ELSE ValueOf(read_map[t][k])

Blank(t) ==
  temp_map[t] = NoEntry /\ read_map[t] = NoEntry /\ sees[t] = NoEntry /\ reply[t] = None

\* A context that keeps what it reads has in its maps what it should see.
Consistent(t) ==
  /\ At(t, "idle") \/ At(t, "new_read") \/ At(t, "new_write") => Blank(t)
  /\ At(t, "remove") => Uncommitted(t)
  /\ Keeps(t) => \A k \in Key : sees[t][k] = Own(t, k)
  /\ Keeps(t) /\ reply[t] # None =>
       reply[t][1] \in Key /\ reply[t][2] = sees[t][reply[t][1]]

ReadInv == \A t \in Thread : Consistent(t)

LEMMA ReadQuiet ==
  ASSUME NEW t \in Thread, Consistent(t), level'[t] = level[t],
         temp_map'[t] = temp_map[t], read_map'[t] = read_map[t],
         sees'[t] = sees[t], reply'[t] = reply[t],
         pc'[t] \in {"idle", "new_read", "new_write"} => pc[t] \in {"idle", "new_read", "new_write"},
         pc'[t] = "remove" => pc[t] = "remove" \/ Uncommitted(t)
  PROVE  Consistent(t)'
<1>1. \A k \in Key : Own(t, k)' = Own(t, k)  BY DEF Own, ValueOf
<1> QED  BY <1>1 DEF Consistent, Blank, At, Uncommitted, Keeps

\* With no entries nothing is seen and nothing said.
LEMMA ReadBlank ==
  ASSUME NEW t \in Thread, Blank(t)', pc'[t] # "remove"
  PROVE  Consistent(t)'
<1>1. \A k \in Key : (sees[t][k])' = None /\ Own(t, k)' = None
  BY DEF Blank, NoEntry, Own
<1> QED  BY <1>1 DEF Consistent, Blank, At

\* Nothing read or written is None.
LEMMA SomethingRead ==
  ASSUME Typed
  PROVE  /\ \A k \in Key : \A tr : Engine(k, tr) # None /\ ValueOf(Engine(k, tr)) # None
         /\ \A t \in Thread, k \in Key : read_map[t][k] # None => ValueOf(read_map[t][k]) # None
<1>1. \A q \in Kept \ {None} : q # None /\ ValueOf(q) # None
  BY TransactionAssumption DEF Kept, ValueOf
<1>2. \A k \in Key : \A tr : Engine(k, tr) \in Kept \ {None}
  BY EngineType, TransactionAssumption DEF Typed, Kept
<1> QED  BY <1>1, <1>2 DEF Typed, MapsTyped

\* Steps that only the maps of one context, or none, can notice.
LEMMA ReadAside ==
  ASSUME Typed, ReadInv, NEW t \in Thread,
         \/ TranContext(t) \/ remove(t) \/ Drop(t)
         \/ \E k \in Key : \/ \E x \in Value : put(t, k, x)
                           \/ remove_temp(t, k)
                           \/ get_own(t, k) \/ get_engine(t, k) \/ get_read(t, k),
         NEW u \in Thread, u # t
  PROVE  Consistent(u)'
<1> USE DEF context, maps, TranContext, remove, Drop, put, remove_temp, get_own, get_engine,
            get_read, Answer, Calls, Goto, Sees
<1>1. pc'[u] = pc[u] /\ level'[u] = level[u]  BY DEF Typed, ThreadsTyped
<1>2. temp_map'[u] = temp_map[u] /\ read_map'[u] = read_map[u]
  BY DEF Typed, MapsTyped
<1>3. sees'[u] = sees[u] /\ reply'[u] = reply[u]  BY DEF Typed, AnswersTyped
<1> QED  BY <1>1, <1>2, <1>3, ReadQuiet DEF ReadInv

\* A write, or a mark, of the context's own.
LEMMA ReadWritten ==
  ASSUME Typed, ReadInv, NEW t \in Thread, NEW k \in Key, NEW x \in Value,
         put(t, k, x) \/ remove_temp(t, k)
  PROVE  Consistent(t)'
<1> USE DEF manager, context, maps, put, remove_temp, Calls, Sees
<1>1. pc[t] = "open" /\ pc'[t] = "open" /\ reply'[t] = None
      /\ level' = level /\ read_map' = read_map
  BY DEF At, Typed, AnswersTyped
<1>2. CASE Uncommitted(t)
  BY <1>1, <1>2 DEF Consistent, At, Keeps, Uncommitted
<1>3. CASE ~ Uncommitted(t)
  <2>1. \E y \in Value : /\ temp_map'[t] = [temp_map[t] EXCEPT ![k] = y]
                         /\ sees'[t] = [sees[t] EXCEPT ![k] = y]
    BY <1>3, TransactionAssumption DEF Typed, MapsTyped, AnswersTyped
  <2>2. temp_map[t] \in [Key -> Value \cup {None}] /\ DOMAIN sees[t] = Key
    BY DEF Typed, MapsTyped, AnswersTyped
  <2>3. \A j \in Key : (sees[t][j])' = (IF j = k THEN (temp_map[t][k])' ELSE sees[t][j])
                       /\ (temp_map[t][j])' = (IF j = k THEN (sees[t][k])' ELSE temp_map[t][j])
    BY <2>1, <2>2
  <2>4. (temp_map[t][k])' # None  BY <2>1, <2>2, TransactionAssumption
  <2>5. \A j \in Key : Own(t, j)' = (IF j = k THEN (temp_map[t][k])' ELSE Own(t, j))
    BY <1>1, <2>3, <2>4 DEF Own, ValueOf
  <2>6. Keeps(t)' => \A j \in Key : (sees[t][j])' = Own(t, j)'
    BY <1>1, <2>3, <2>5 DEF ReadInv, Consistent, Keeps
  <2> QED  BY <1>1, <2>6 DEF Consistent, At
<1> QED  BY <1>2, <1>3

\* An answer from what has been written or read before, or that is kept now.
LEMMA ReadAnswered ==
  ASSUME Typed, ReadInv, NEW t \in Thread, NEW k \in Key,
         get_own(t, k) \/ get_engine(t, k) \/ get_read(t, k)
  PROVE  Consistent(t)'
<1> USE DEF manager, context, maps, get_own, get_engine, get_read, Calls, Answer
<1>1. pc[t] = "open" /\ pc'[t] = "open" /\ level' = level /\ temp_map' = temp_map
  BY DEF At
<1>2. DOMAIN sees[t] = Key /\ t \in DOMAIN sees /\ t \in DOMAIN reply
      /\ DOMAIN read_map[t] = Key /\ t \in DOMAIN read_map
  BY DEF Typed, AnswersTyped, MapsTyped
<1>3. CASE get_own(t, k)
  <2>1. Keeps(t) => sees[t][k] = temp_map[t][k] /\ sees[t][k] # None
    BY <1>3 DEF ReadInv, Consistent, Own
  <2>2. Keeps(t) => sees' = sees
    BY <1>2, <1>3, <2>1 DEF Typed, AnswersTyped
  <2>3. reply'[t] = <<k, temp_map[t][k]>>  BY <1>2, <1>3
  <2>4. read_map' = read_map  BY <1>3
  <2>5. \A j \in Key : Own(t, j)' = Own(t, j)  BY <1>1, <2>4 DEF Own, ValueOf
  <2> QED
    BY <1>1, <2>1, <2>2, <2>3, <2>5 DEF ReadInv, Consistent, Keeps, At
<1>4. CASE get_engine(t, k)
  BY <1>1, <1>4 DEF Consistent, Keeps, At
<1>5. CASE get_read(t, k)
  <2> DEFINE q == IF read_map[t][k] # None THEN read_map[t][k] ELSE Engine(k, id[t])
  <2>1. temp_map[t][k] = None /\ read_map'[t] = [read_map[t] EXCEPT ![k] = q]
        /\ reply'[t] = <<k, ValueOf(q)>>
        /\ sees'[t] = [sees[t] EXCEPT ![k] = IF @ = None THEN ValueOf(q) ELSE @]
    BY <1>2, <1>5
  <2>2. q # None /\ ValueOf(q) # None  BY SomethingRead
  <2> HIDE DEF q
  <2>3. \A j \in Key : (read_map[t][j])' = (IF j = k THEN q ELSE read_map[t][j])
    BY <1>2, <2>1
  <2>4. \A j \in Key : Own(t, j)' = (IF j = k THEN ValueOf(q) ELSE Own(t, j))
    BY <1>1, <2>1, <2>2, <2>3 DEF Own, ValueOf
  <2>5. ASSUME Keeps(t) PROVE sees[t][k] \in {None, ValueOf(q)}
    BY <2>1, <2>5 DEF ReadInv, Consistent, Own, q
  <2>6. Keeps(t) => \A j \in Key : (sees[t][j])' = (IF j = k THEN ValueOf(q) ELSE sees[t][j])
    BY <1>2, <2>1, <2>5
  <2>7. Keeps(t) => \A j \in Key : (sees[t][j])' = Own(t, j)'
    BY <2>4, <2>6 DEF ReadInv, Consistent
  <2> QED
    BY <1>1, <2>1, <2>6, <2>7 DEF Consistent, Keeps, At
<1> QED  BY <1>3, <1>4, <1>5

LEMMA ReadStep == Typed /\ ReadInv /\ [Next]_vars => ReadInv'
<1> SUFFICES ASSUME Typed, ReadInv, [Next]_vars PROVE ReadInv'  OBVIOUS
<1> USE DEF context, maps
<1>1. ASSUME Die PROVE ReadInv'
  <2>1. \A t \in Thread : Blank(t)' /\ pc'[t] = "idle"  BY <1>1 DEF Die, Blank
  <2> QED  BY <2>1, ReadBlank DEF ReadInv
<1>2. ASSUME UNCHANGED <<level, temp_map, read_map, sees, reply, pc>> PROVE ReadInv'
  BY <1>2, ReadQuiet DEF ReadInv
<1>3. CASE Start \/ Stop \/ write_tranc_id_file \/ write_tranc_id_rest
  BY <1>2, <1>3 DEF Start, Stop, write_tranc_id_file, write_tranc_id_rest
<1>4. ASSUME NEW k, NEW x, PutPlain(k, x) PROVE ReadInv'
  BY <1>2, <1>4 DEF PutPlain
<1>5. CASE UNCHANGED vars  BY <1>2, <1>5 DEF vars
<1>6. ASSUME NEW t \in Thread,
             \/ new_tranc(t) \/ get_next_tranc_id(t) \/ commit(t) \/ validate(t)
             \/ validated(t) \/ abort(t) \/ restore(t)
             \/ \E k \in Key : remove_save(t, k)
      PROVE  ReadInv'
  <2> USE DEF new_tranc, get_next_tranc_id, commit, validate, validated, abort, restore,
              remove_save, Calls, Goto, At
  <2>1. UNCHANGED <<level, temp_map, read_map, sees, reply>>  BY <1>6
  <2>2. \A u \in Thread : u # t => pc'[u] = pc[u]  BY <1>6 DEF Typed, ThreadsTyped
  <2>3. /\ pc'[t] \in {"idle", "new_read", "new_write"} =>
             pc[t] \in {"idle", "new_read", "new_write"}
        /\ pc'[t] = "remove" => Uncommitted(t)
    BY <1>6 DEF Typed, ThreadsTyped
  <2>4. ASSUME NEW u \in Thread PROVE Consistent(u)'
    BY <2>1, <2>2, <2>3, ReadQuiet DEF ReadInv
  <2> QED  BY <2>4 DEF ReadInv
<1>7. ASSUME NEW t \in Thread, TranContext(t) \/ Drop(t) PROVE ReadInv'
  <2>1. Blank(t)' /\ pc'[t] # "remove"
    <3>1. CASE TranContext(t)
      BY <3>1 DEF TranContext, Goto, At, Typed, ThreadsTyped, ReadInv, Consistent, Blank
    <3>2. CASE Drop(t)
      BY <3>2 DEF Drop, Goto, Typed, ThreadsTyped, MapsTyped, AnswersTyped, Blank
    <3> QED  BY <1>7, <3>1, <3>2
  <2> QED  BY <1>7, <2>1, ReadBlank, ReadAside DEF ReadInv
<1>8. ASSUME NEW t \in Thread, remove(t) PROVE ReadInv'
  <2>1. Uncommitted(t) /\ level' = level /\ pc'[t] = "open"
    BY <1>8 DEF remove, Goto, At, Typed, ThreadsTyped, ReadInv, Consistent
  <2>2. Consistent(t)'  BY <2>1 DEF Consistent, At, Keeps, Uncommitted
  <2> QED  BY <1>8, <2>2, ReadAside DEF ReadInv
<1>9. ASSUME NEW t \in Thread, NEW k \in Key,
             \/ \E x \in Value : put(t, k, x)
             \/ remove_temp(t, k) \/ get_own(t, k) \/ get_engine(t, k) \/ get_read(t, k)
      PROVE  ReadInv'
  <2>1. Consistent(t)'
    BY <1>9, ReadWritten, ReadAnswered, TransactionAssumption
  <2>2. ASSUME NEW u \in Thread, u # t PROVE Consistent(u)'
    BY <1>9, <2>2, ReadAside
  <2> QED  BY <2>1, <2>2 DEF ReadInv
<1>10. ASSUME NEW t \in Thread, Step(t) \/ Call(t) PROVE ReadInv'
  BY <1>1, <1>6, <1>7, <1>8, <1>9, <1>10 DEF Step, Call, write_to_wal
<1> QED  BY <1>1, <1>3, <1>4, <1>5, <1>10 DEF Next, Manage, Crash

\* From RepeatableRead on a transaction reads what it wrote, and else what it
\* read first, whatever the others write, commit and abort in between.
THEOREM ReadsRepeat == Spec => []RepeatableReads
<1>1. Init => ReadInv
  BY DEF Init, ReadInv, Consistent, Blank, NoEntry, Own, At
<1>2. ReadInv => RepeatableReads
  BY DEF ReadInv, Consistent, Keeps, RepeatableReads
<1> QED  BY <1>1, <1>2, InitTyped, TypedStep, ReadStep, PTL DEF Spec
-----------------------------------------------------------------------------
(* Walks.                                                                  *)

Table == [Version -> Value \cup {None}]

\* What can be in a heap.
Item == [key : Key, tranc : Tranc, idx : Nat, value : Value \cup {None}]

Walking == stage \in {"outer", "skip", "inner"}

Visible(r) == walk.tranc = 0 \/ r <= walk.tranc

\* A walk of the memtable began with entries of its tables. Where it left out a
\* version its reader may see, the visible ones it has of the key are newer; a
\* walk outside of transactions left out none of its range.
Started ==
  /\ walk.tranc \in Tranc /\ max_tranc_id_ = walk.tranc
  /\ walk.items \subseteq Begin(0)
  /\ \A a \in Begin(0) \ walk.items, b \in walk.items :
       a.key = b.key /\ Visible(a.tranc) /\ Visible(b.tranc) => a.tranc < b.tranc
  /\ walk.tranc = 0 => \A a \in Begin(0) : a.key \in walk.lo .. walk.hi => a \in walk.items

\* Of the items of a key, those that are gone while others are left could not
\* be seen.
KeptTogether ==
  /\ items \subseteq walk.items
  /\ \A a \in walk.items, b \in items : a.key = b.key => a \in items \/ Invisible(a)

\* The part of the walk that is done.
Yielded ==
  /\ \A i, j \in DOMAIN out : i < j => out[i].key < out[j].key
  /\ \A i \in DOMAIN out : out[i].value # Removed
  /\ \A i \in DOMAIN out, b \in items : out[i].key < b.key

\* Every key that is gone was yielded or is removed.
Accounted ==
  \A a \in walk.items : InOrder(a.key) =>
    a \in items \/ (\E i \in DOMAIN out : out[i].key = a.key) \/ Get(a.key, 0) = None

Found ==
  \A i \in DOMAIN out : InOrder(out[i].key) =>
    Get(out[i].key, walk.tranc) = <<out[i].idx + 1, <<out[i].key, out[i].tranc>>>>

WalkTyped ==
  /\ map \in Table /\ frozen_tables \in Seq(Table) /\ ssts \in Seq(Table)
  /\ stage \in {"write", "outer", "skip", "inner", "dead"}
  /\ items \in SUBSET Item /\ out \in Seq(Item)
  /\ ~ Walking => items = {} /\ out = <<>>

WalkInv ==
  /\ WalkTyped /\ Yielded
  /\ Walking => KeptTogether
  /\ Walking /\ walk.from # "sst" =>
       Started /\ Found /\ (walk.tranc = 0 => Accounted)

LEMMA MemoryTyped ==
  ASSUME WalkTyped
  PROVE  /\ Memory \in Seq(Table)
         /\ \A i \in DOMAIN Memory : i \in Nat /\ i - 1 \in Nat /\ Memory[i] \in Table
         /\ \A i \in DOMAIN ssts : i \in Nat /\ i - 1 \in Nat /\ ssts[i] \in Table
<1>1. <<map>> \in Seq(Table) /\ frozen_tables \in Seq(Table) /\ ssts \in Seq(Table)
  BY DEF WalkTyped
<1> HIDE DEF Table
<1>2. Memory \in Seq(Table)  BY <1>1, ConcatProperties DEF Memory
<1>3. ASSUME NEW s \in Seq(Table), NEW i \in DOMAIN s
      PROVE  i \in Nat /\ i - 1 \in Nat /\ s[i] \in Table
  OBVIOUS
<1> QED  BY <1>1, <1>2, <1>3

\* The item of version <<k, r>> in memory table i.
Entry(i, k, r) == [key |-> k, tranc |-> r, idx |-> i - 1, value |-> Memory[i][<<k, r>>]]

LEMMA BeginHas ==
  ASSUME WalkTyped, NEW tr \in Tranc
  PROVE  /\ \A i \in DOMAIN Memory, k \in Key, r \in Tranc :
              Memory[i][<<k, r>>] # None /\ (tr = 0 \/ r = tr) => Entry(i, k, r) \in Begin(tr)
         /\ \A a \in Begin(tr) : a \in Item /\ \E i \in DOMAIN Memory, k \in Key, r \in Tranc :
              Memory[i][<<k, r>>] # None /\ (tr = 0 \/ r = tr) /\ a = Entry(i, k, r)
<1> DEFINE Seen == Key \X (IF tr = 0 THEN Tranc ELSE {tr})
<1>1. ASSUME NEW i \in DOMAIN Memory, NEW k \in Key, NEW r \in Tranc,
             Memory[i][<<k, r>>] # None, tr = 0 \/ r = tr
      PROVE  Entry(i, k, r) \in Begin(tr)
  <2>1. <<k, r>> \in {u \in Version : Memory[i][u] # None /\ u \in Seen}
    BY <1>1 DEF Version
  <2>2. Entry(i, k, r) \in SearchItem(Memory[i], i - 1, Seen)
    BY <2>1 DEF SearchItem, Entry
  <2> QED  BY <2>2 DEF Begin
<1>2. ASSUME NEW a \in Begin(tr)
      PROVE  a \in Item /\ \E i \in DOMAIN Memory, k \in Key, r \in Tranc :
               Memory[i][<<k, r>>] # None /\ (tr = 0 \/ r = tr) /\ a = Entry(i, k, r)
  <2>1. PICK i \in DOMAIN Memory : a \in SearchItem(Memory[i], i - 1, Seen)
    BY DEF Begin
  <2>2. PICK v \in Version : /\ Memory[i][v] # None /\ v \in Seen
                             /\ a = [key |-> v[1], tranc |-> v[2], idx |-> i - 1,
                                     value |-> Memory[i][v]]
    BY <2>1 DEF SearchItem
  <2>3. v = <<v[1], v[2]>> /\ v[1] \in Key /\ v[2] \in Tranc  BY DEF Version
  <2>4. tr = 0 \/ v[2] = tr  BY <2>2
  <2>5. Memory[i][v] \in Value \cup {None} /\ i - 1 \in Nat  BY MemoryTyped DEF Table
  <2>6. a \in Item  BY <2>2, <2>3, <2>5 DEF Item
  <2>7. a = Entry(i, v[1], v[2]) /\ Memory[i][<<v[1], v[2]>>] # None
    BY <2>2, <2>3 DEF Entry
  <2> QED  BY <2>3, <2>4, <2>6, <2>7
<1> QED  BY <1>1, <1>2

LEMMA RangeHas ==
  ASSUME WalkTyped, NEW tr \in Tranc, NEW lo \in Key, NEW hi \in Key
  PROVE  \A a : a \in InRange(lo, hi, tr) <=>
           a \in Begin(0) /\ a.key \in lo .. hi /\ (tr = 0 \/ a.tranc # 0)
<1> DEFINE Seen == (lo .. hi) \X (IF tr = 0 THEN Tranc ELSE Tranc \ {0})
<1>0. 0 \in Tranc  BY ScanAssumption
<1>1. ASSUME NEW a \in InRange(lo, hi, tr)
      PROVE  a \in Begin(0) /\ a.key \in lo .. hi /\ (tr = 0 \/ a.tranc # 0)
  <2>1. PICK i \in DOMAIN Memory : a \in SearchItem(Memory[i], i - 1, Seen)
    BY DEF InRange
  <2>2. PICK v \in Version : /\ Memory[i][v] # None /\ v \in Seen
                             /\ a = [key |-> v[1], tranc |-> v[2], idx |-> i - 1,
                                     value |-> Memory[i][v]]
    BY <2>1 DEF SearchItem
  <2>3. v = <<v[1], v[2]>> /\ v[1] \in Key /\ v[2] \in Tranc  BY DEF Version
  <2>4. v[1] \in lo .. hi /\ (tr = 0 \/ v[2] # 0)  BY <2>2
  <2>5. a = Entry(i, v[1], v[2]) /\ Memory[i][<<v[1], v[2]>>] # None
    BY <2>2, <2>3 DEF Entry
  <2>6. a \in Begin(0)  BY <1>0, <2>3, <2>5, BeginHas
  <2> QED  BY <2>2, <2>4, <2>6
<1>2. ASSUME NEW a \in Begin(0), a.key \in lo .. hi, tr = 0 \/ a.tranc # 0
      PROVE  a \in InRange(lo, hi, tr)
  <2>1. PICK i \in DOMAIN Memory, k \in Key, r \in Tranc :
          Memory[i][<<k, r>>] # None /\ a = Entry(i, k, r)
    BY <1>0, BeginHas
  <2>2. a.key = k /\ a.tranc = r  BY <2>1 DEF Entry
  <2>3. <<k, r>> \in {u \in Version : Memory[i][u] # None /\ u \in Seen}
    BY <1>2, <2>1, <2>2 DEF Version
  <2>4. a \in SearchItem(Memory[i], i - 1, Seen)
    BY <2>1, <2>3 DEF SearchItem, Entry
  <2> QED  BY <2>4 DEF InRange
<1> QED  BY <1>1, <1>2

\* What the heap shows of a key in order is what get finds: no entry that its
\* reader may see is newer, in its table or in a table before it.
LEMMA TopIsGot ==
  ASSUME WalkTyped, Started, KeptTogether, NEW a \in Tops, ~ Invisible(a), InOrder(a.key)
  PROVE  Get(a.key, walk.tranc) = IF a.value = Removed THEN None
                                  ELSE <<a.idx + 1, <<a.key, a.tranc>>>>
<1> DEFINE k  == a.key
           tr == walk.tranc
           B  == Begin(0)
<1>0. 0 \in Tranc /\ Tranc \subseteq Nat /\ tr \in Tranc /\ max_tranc_id_ = tr
  BY ScanAssumption DEF Started
<1>1. /\ a \in items /\ a \in walk.items /\ a \in B
      /\ \A b \in B : b \in Item
  BY <1>0, BeginHas DEF Tops, Least, KeptTogether, Started
<1>2. \A b \in B : b.tranc \in Nat /\ b.idx \in Nat /\ b.key \in Nat
  BY <1>0, <1>1, ScanAssumption DEF Item
<1>3. ASSUME NEW b \in B PROVE Visible(b.tranc) <=> ~ Invisible(b)
  <2>1. b.tranc \in Nat /\ walk.tranc \in Nat  BY <1>0, <1>2
  <2> HIDE DEF B
  <2> QED  BY <1>0, <2>1 DEF Visible, Invisible
<1>4. Ordered({b \in B : b.key = k})  BY DEF InOrder
<1>5. ASSUME NEW b \in walk.items, b.key = k, ~ Invisible(b) PROVE ~ After(a, b)
  <2>1. b \in items  BY <1>1, <1>5 DEF KeptTogether
  <2>2. b \in Least  BY <1>1, <1>5, <2>1 DEF Tops, Least
  <2>3. Ordered(OfKey(walk.items, a))
    BY <1>4 DEF Started, OfKey, Ordered
  <2> QED  BY <2>2, <2>3 DEF Tops
<1>6. ASSUME NEW b \in B, b.key = k, ~ Invisible(b)
      PROVE  b.tranc <= a.tranc /\ a.idx <= b.idx
  <2>1. ~ After(a, b)
    <3>1. CASE b \in walk.items  BY <1>5, <1>6, <3>1
    <3>2. CASE b \notin walk.items
      <4>1. b.tranc < a.tranc  BY <1>1, <1>3, <1>6, <3>2 DEF Started
      <4>2. After(b, a)  BY <4>1 DEF After
      <4> QED  BY <1>1, <1>4, <1>6, <4>2 DEF Ordered
    <3> QED  BY <3>1, <3>2
  <2> QED  BY <1>1, <1>2, <2>1 DEF After
<1>7. PICK i \in DOMAIN Memory, r \in Tranc :
        Memory[i][<<k, r>>] # None /\ a = Entry(i, k, r)
  <2>1. PICK i \in DOMAIN Memory, q \in Key, r \in Tranc :
          Memory[i][<<q, r>>] # None /\ a = Entry(i, q, r)
    BY <1>0, <1>1, BeginHas
  <2>2. a.key = q  BY <2>1 DEF Entry
  <2> QED  BY <2>1, <2>2
<1>8. /\ k \in Key /\ r = a.tranc /\ i = a.idx + 1 /\ a.value = Memory[i][<<k, r>>]
      /\ i \in Nat /\ Visible(r)
  BY <1>1, <1>3, <1>7, MemoryTyped DEF Entry, Item
<1> DEFINE T(j) == Readable(Memory[j], k, tr)
           has == {j \in DOMAIN Memory : T(j) # {}}
<1>9. ASSUME NEW j \in DOMAIN Memory, NEW q \in T(j) PROVE q <= r /\ i <= j
  <2>1. q \in Tranc /\ Memory[j][<<k, q>>] # None /\ Visible(q)
    BY DEF Readable, Visible
  <2> DEFINE b == Entry(j, k, q)
  <2>2. b \in B  BY <1>0, <1>8, <2>1, BeginHas
  <2>3. b.key = k /\ b.tranc = q /\ b.idx = j - 1  BY DEF Entry
  <2> HIDE DEF b
  <2>4. ~ Invisible(b)  BY <1>3, <2>1, <2>2, <2>3
  <2>5. q <= a.tranc /\ a.idx <= j - 1  BY <1>6, <2>2, <2>3, <2>4
  <2> QED  BY <1>1, <1>2, <1>8, <2>5, MemoryTyped
<1>10. r \in T(i) /\ T(i) \subseteq Nat
  BY <1>0, <1>7, <1>8 DEF Readable, Visible
<1>11. Min(has) = i
  <2>1. i \in has /\ has \subseteq Nat /\ \A j \in has : i <= j
    BY <1>9, <1>10, MemoryTyped
  <2> HIDE DEF has
  <2> QED  BY <2>1 DEF Min
<1>12. Newest(T(i)) = r
  <2>1. \A q \in T(i) : q <= r  BY <1>9
  <2> HIDE DEF T
  <2> QED  BY <1>10, <2>1 DEF Newest
<1>13. Read(Memory[i], k, tr) = <<k, r>>
  BY <1>10, <1>12 DEF Read
<1>14. has # {}  BY <1>10
<1> HIDE DEF has
<1>15. Get(k, tr) = IF Memory[i][<<k, r>>] = Removed THEN None ELSE <<i, <<k, r>>>>
  BY <1>11, <1>13, <1>14 DEF Get, has
<1> QED  BY <1>8, <1>15

LEMMA SameMemory ==
  ASSUME UNCHANGED <<map, frozen_tables>>
  PROVE  /\ Begin(0)' = Begin(0)
         /\ \A k, tr : Get(k, tr)' = Get(k, tr)
         /\ \A k : InOrder(k)' <=> InOrder(k)
<1>1. Memory' = Memory  BY DEF Memory
<1>2. Begin(0)' = Begin(0)  BY <1>1 DEF Begin, SearchItem
<1>3. ASSUME NEW k, NEW tr PROVE Get(k, tr)' = Get(k, tr)
  BY <1>1 DEF Get, Read, Readable
<1>4. ASSUME NEW k PROVE InOrder(k)' <=> InOrder(k)
  BY <1>2 DEF InOrder, Ordered
<1> QED  BY <1>2, <1>3, <1>4

\* A step of the loops that skip: what goes is all there is of its key or could
\* not be seen, and outside of transactions nothing that get would find.
LEMMA PopKeeps ==
  ASSUME WalkInv, Walking, NEW S, NEW l \in {"outer", "skip", "inner"}, Pop(S, l),
         \A a \in S, b \in items : a.key = b.key => b \in S \/ Invisible(a),
         walk.from # "sst" /\ walk.tranc = 0 =>
           \A a \in S : InOrder(a.key) => Get(a.key, 0) = None
  PROVE  WalkInv'
<1>1. /\ items' = items \ S /\ stage' = l
      /\ UNCHANGED <<map, frozen_tables, ssts, walk, max_tranc_id_, out>>
  BY DEF Pop
<1>2. WalkTyped' /\ Walking'  BY <1>1 DEF WalkInv, WalkTyped, Walking
<1>3. Yielded'  BY <1>1 DEF WalkInv, Yielded
<1>4. KeptTogether'
  <2>1. /\ items \subseteq walk.items
        /\ \A a \in walk.items, b \in items : a.key = b.key => a \in items \/ Invisible(a)
    BY DEF WalkInv, KeptTogether
  <2>2. \A a : Invisible(a)' <=> Invisible(a)  BY <1>1 DEF Invisible
  <2>3. ASSUME NEW a \in walk.items, NEW b \in items \ S, a.key = b.key
        PROVE  a \in items \ S \/ Invisible(a)
    BY <2>1, <2>3
  <2> QED  BY <1>1, <2>1, <2>2, <2>3 DEF KeptTogether
<1>5. ASSUME walk.from # "sst"
      PROVE  Started' /\ Found' /\ (walk.tranc = 0 => Accounted')
  <2>1. Started /\ Found /\ (walk.tranc = 0 => Accounted)
    BY <1>5 DEF WalkInv
  <2>2. /\ Begin(0)' = Begin(0)
        /\ \A k, tr : Get(k, tr)' = Get(k, tr)
        /\ \A k : InOrder(k)' <=> InOrder(k)
    BY <1>1, SameMemory
  <2>3. Started'  BY <1>1, <2>1, <2>2 DEF Started, Visible
  <2>4. Found'  BY <1>1, <2>1, <2>2 DEF Found
  <2>5. ASSUME walk.tranc = 0 PROVE Accounted'
    <3>1. ASSUME NEW a \in walk.items, InOrder(a.key)
          PROVE  \/ a \in items \ S \/ (\E i \in DOMAIN out : out[i].key = a.key)
                 \/ Get(a.key, 0) = None
      BY <2>1, <2>5, <3>1, <1>5 DEF Accounted
    <3> QED  BY <1>1, <2>2, <3>1 DEF Accounted
  <2> QED  BY <2>3, <2>4, <2>5
<1> QED  BY <1>1, <1>2, <1>3, <1>4, <1>5 DEF WalkInv

LEMMA SkipKeeps ==
  ASSUME WalkInv, skip_by_tranc_id \/ skip_more \/ skipped \/ skip_none \/ skipped_deleted
  PROVE  WalkInv'
<1>1. Walking
  BY DEF skip_by_tranc_id, skip_more, skipped, skip_none, skipped_deleted, Walking
<1>2. ASSUME NEW a \in Tops, Invisible(a), Pop({a}, "skip") PROVE WalkInv'
  <2>1. ASSUME walk.from # "sst", walk.tranc = 0 PROVE FALSE
    BY <1>1, <1>2, <2>1 DEF WalkInv, Started, Invisible
  <2> QED  BY <1>1, <1>2, <2>1, PopKeeps
<1>3. ASSUME NEW l \in {"outer", "inner"}, Pop({}, l) PROVE WalkInv'
  BY <1>1, <1>3, PopKeeps
<1> QED
  BY <1>2, <1>3 DEF skip_by_tranc_id, skip_more, skipped, skip_none, skipped_deleted

LEMMA SkipRemovedKeeps == ASSUME WalkInv, skip_deleted PROVE WalkInv'
<1>1. PICK a \in Tops : stage = "inner" /\ a.value = Removed /\ Pop(OfKey(items, a), "inner")
  BY DEF skip_deleted
<1> DEFINE S == OfKey(items, a)
<1>2. Walking  BY <1>1 DEF Walking
<1>3. \A b \in S, c \in items : b.key = c.key => c \in S
  BY DEF OfKey
<1>4. ASSUME walk.from # "sst", walk.tranc = 0, NEW b \in S, InOrder(b.key)
      PROVE  Get(b.key, 0) = None
  <2>1. b.key = a.key  BY DEF OfKey
  <2>2. WalkTyped /\ Started /\ KeptTogether  BY <1>2, <1>4 DEF WalkInv
  <2>3. ~ Invisible(a)  BY <1>4, <2>2 DEF Started, Invisible
  <2>4. Get(a.key, walk.tranc) = None  BY <1>1, <1>4, <2>1, <2>2, <2>3, TopIsGot
  <2> QED  BY <1>4, <2>1, <2>4
<1> HIDE DEF S
<1> QED  BY <1>1, <1>2, <1>3, <1>4, PopKeeps DEF S

LEMMA NextKeeps == ASSUME WalkInv, next PROVE WalkInv'
<1>1. PICK a \in Tops :
        /\ ~ Invisible(a) /\ a.value # Removed
        /\ items' = items \ OfKey(items, a) /\ out' = Append(out, a)
  BY DEF next
<1>2. /\ stage = "outer" /\ Walking
      /\ UNCHANGED <<map, frozen_tables, ssts, stage, walk, max_tranc_id_>>
  BY DEF next, Walking
<1> DEFINE S == OfKey(items, a)
<1>3. /\ a \in items /\ a \in Item /\ \A b \in items : a.key <= b.key
      /\ out \in Seq(Item) /\ items \in SUBSET Item
      /\ \A b \in items : b \in S <=> b.key = a.key
  BY DEF WalkInv, WalkTyped, Tops, Least, OfKey
<1>4. \A b \in Item : b.key \in Nat  BY ScanAssumption DEF Item
<1>5. /\ out' \in Seq(Item) /\ Len(out) \in Nat /\ DOMAIN out = 1 .. Len(out)
      /\ DOMAIN out' = 1 .. Len(out) + 1 /\ out'[Len(out) + 1] = a
      /\ \A i \in 1 .. Len(out) : out'[i] = out[i]
  <2>1. Append(out, a) \in Seq(Item) /\ Len(Append(out, a)) = Len(out) + 1
    BY <1>3, AppendProperties
  <2> QED  BY <1>1, <1>3, <2>1, AppendProperties
<1>6. \A i \in 1 .. Len(out) : out[i].key < a.key
  BY <1>3, <1>5 DEF WalkInv, Yielded
<1>7. WalkTyped' /\ Walking'
  BY <1>1, <1>2, <1>3, <1>5 DEF WalkInv, WalkTyped, Walking
<1>8. \A i \in 1 .. Len(out) + 1 : i \in 1 .. Len(out) \/ i = Len(out) + 1
  BY <1>5
<1>9. \A i \in 1 .. Len(out) : i \in Nat /\ i < Len(out) + 1 /\ out[i] \in Item
  BY <1>3, <1>5
<1> HIDE DEF S
<1>10. Yielded'
  <2>1. ASSUME NEW i \in 1 .. Len(out) + 1, NEW j \in 1 .. Len(out) + 1, i < j
        PROVE  out'[i].key < out'[j].key
    <3>1. i \in 1 .. Len(out)  BY <1>5, <2>1
    <3>2. CASE j \in 1 .. Len(out)
      <4>1. out[i].key < out[j].key  BY <1>5, <2>1, <3>1, <3>2 DEF WalkInv, Yielded
      <4> QED  BY <1>5, <3>1, <3>2, <4>1
    <3>3. CASE j = Len(out) + 1  BY <1>5, <1>6, <3>1, <3>3
    <3> QED  BY <1>8, <3>2, <3>3
  <2>2. ASSUME NEW i \in 1 .. Len(out) + 1 PROVE out'[i].value # Removed
    <3>1. CASE i \in 1 .. Len(out)  BY <1>5, <3>1 DEF WalkInv, Yielded
    <3>2. CASE i = Len(out) + 1  BY <1>1, <1>5, <3>2
    <3> QED  BY <1>8, <3>1, <3>2
  <2>3. ASSUME NEW i \in 1 .. Len(out) + 1, NEW b \in items \ S PROVE out'[i].key < b.key
    <3>1. CASE i \in 1 .. Len(out)  BY <1>5, <3>1 DEF WalkInv, Yielded
    <3>2. CASE i = Len(out) + 1
      <4>1. a.key <= b.key /\ a.key # b.key /\ a.key \in Nat /\ b.key \in Nat
        BY <1>3, <1>4
      <4> QED  BY <1>5, <3>2, <4>1
    <3> QED  BY <1>8, <3>1, <3>2
  <2> QED  BY <1>1, <1>5, <2>1, <2>2, <2>3 DEF Yielded, S
<1>11. KeptTogether'
  <2>1. /\ items \subseteq walk.items
        /\ \A b \in walk.items, c \in items : b.key = c.key => b \in items \/ Invisible(b)
    BY <1>2 DEF WalkInv, KeptTogether
  <2>2. \A b : Invisible(b)' <=> Invisible(b)  BY <1>2 DEF Invisible
  <2>3. ASSUME NEW b \in walk.items, NEW c \in items \ S, b.key = c.key
        PROVE  b \in items \ S \/ Invisible(b)
    BY <1>3, <2>1, <2>3
  <2> QED  BY <1>1, <1>2, <2>1, <2>2, <2>3 DEF KeptTogether, S
<1>12. ASSUME walk.from # "sst"
       PROVE  Started' /\ Found' /\ (walk.tranc = 0 => Accounted')
  <2>1. /\ Started /\ Found /\ (walk.tranc = 0 => Accounted)
        /\ WalkTyped /\ KeptTogether
    BY <1>2, <1>12 DEF WalkInv
  <2>2. /\ Begin(0)' = Begin(0)
        /\ \A k, tr : Get(k, tr)' = Get(k, tr)
        /\ \A k : InOrder(k)' <=> InOrder(k)
    BY <1>2, SameMemory
  <2>3. Started'  BY <1>2, <2>1, <2>2 DEF Started, Visible
  <2>4. Found'
    <3>1. ASSUME NEW i \in 1 .. Len(out) + 1, InOrder(out'[i].key)
          PROVE  Get(out'[i].key, walk.tranc)
                   = <<out'[i].idx + 1, <<out'[i].key, out'[i].tranc>>>>
      <4>1. CASE i \in 1 .. Len(out)  BY <1>5, <2>1, <3>1, <4>1 DEF Found
      <4>2. CASE i = Len(out) + 1
        <5>1. InOrder(a.key)  BY <1>5, <3>1, <4>2
        <5>2. Get(a.key, walk.tranc) = <<a.idx + 1, <<a.key, a.tranc>>>>
          BY <1>1, <2>1, <5>1, TopIsGot
        <5> QED  BY <1>5, <4>2, <5>2
      <4> QED  BY <1>8, <4>1, <4>2
    <3> QED  BY <1>2, <1>5, <2>2, <3>1 DEF Found
  <2>5. ASSUME walk.tranc = 0 PROVE Accounted'
    <3>1. ASSUME NEW b \in walk.items, InOrder(b.key)
          PROVE  \/ b \in items \ S
                 \/ \E i \in 1 .. Len(out) + 1 : out'[i].key = b.key
                 \/ Get(b.key, 0) = None
      <4>1. CASE b \in items /\ b.key # a.key  BY <1>3, <4>1
      <4>2. CASE b.key = a.key
        <5>1. Len(out) + 1 \in 1 .. Len(out) + 1  BY <1>5
        <5> QED  BY <1>5, <4>2, <5>1
      <4>3. CASE \E i \in 1 .. Len(out) : out[i].key = b.key
        <5>1. \A i \in 1 .. Len(out) : i \in 1 .. Len(out) + 1  BY <1>5
        <5> QED  BY <1>5, <4>3, <5>1
      <4>4. CASE Get(b.key, 0) = None  BY <4>4
      <4> QED  BY <1>5, <2>1, <2>5, <3>1, <4>1, <4>2, <4>3, <4>4 DEF Accounted
    <3> QED  BY <1>1, <1>2, <1>5, <2>2, <3>1 DEF Accounted, S
  <2> QED  BY <2>3, <2>4, <2>5
<1> QED  BY <1>2, <1>7, <1>10, <1>11, <1>12 DEF WalkInv

\* A walk begins with all its items, in a heap of their maximal id.
LEMMA WalkKeeps ==
  ASSUME WalkInv, NEW from, NEW lo, NEW hi, NEW tr \in Tranc, NEW its \in SUBSET Item, NEW max,
         Walk(from, lo, hi, tr, its, max),
         from # "sst" =>
           /\ max = tr /\ its \subseteq Begin(0)
           /\ \A a \in Begin(0) \ its, b \in its :
                a.key = b.key /\ (tr = 0 \/ a.tranc <= tr) /\ (tr = 0 \/ b.tranc <= tr)
                  => a.tranc < b.tranc
           /\ tr = 0 => \A a \in Begin(0) : a.key \in lo .. hi => a \in its
  PROVE  WalkInv'
<1>1. /\ stage = "write" /\ stage' = "outer" /\ items' = its /\ max_tranc_id_' = max
      /\ walk' = [from |-> from, lo |-> lo, hi |-> hi, tranc |-> tr, items |-> its]
      /\ UNCHANGED <<map, frozen_tables, ssts, out>>
  BY DEF Walk
<1>2. items = {} /\ out = <<>>  BY <1>1 DEF WalkInv, WalkTyped, Walking
<1>3. /\ walk'.from = from /\ walk'.lo = lo /\ walk'.hi = hi /\ walk'.tranc = tr
      /\ walk'.items = its
  BY <1>1
<1>4. WalkTyped' /\ Walking'  BY <1>1, <1>2 DEF WalkInv, WalkTyped, Walking
<1>5. Yielded'  BY <1>1, <1>2 DEF Yielded
<1>6. KeptTogether'  BY <1>1, <1>3 DEF KeptTogether
<1>7. ASSUME walk'.from # "sst" PROVE Started' /\ Found' /\ Accounted'
  <2>1. Begin(0)' = Begin(0)  BY <1>1, SameMemory
  <2>2. Started'  BY <1>1, <1>3, <1>7, <2>1 DEF Started, Visible
  <2>3. Found'  BY <1>1, <1>2 DEF Found
  <2>4. Accounted'  BY <1>1, <1>3 DEF Accounted
  <2> QED  BY <2>2, <2>3, <2>4
<1> QED  BY <1>4, <1>5, <1>6, <1>7 DEF WalkInv

LEMMA BeginKeeps == ASSUME WalkInv, begin PROVE WalkInv'
<1>1. PICK tr \in Tranc, hi \in {k \in Key : \A j \in Key : j <= k} :
        Walk("begin", 0, hi, tr, Begin(tr), tr)
  BY DEF begin
<1>2. WalkTyped /\ 0 \in Tranc /\ Tranc \subseteq Nat /\ Key \subseteq Nat
  BY ScanAssumption DEF WalkInv
<1>3. ASSUME NEW a \in Begin(0)
      PROVE  a \in Item /\ (tr = 0 \/ a.tranc = tr => a \in Begin(tr))
  <2>1. PICK i \in DOMAIN Memory, k \in Key, r \in Tranc :
          Memory[i][<<k, r>>] # None /\ a = Entry(i, k, r)
    BY <1>2, BeginHas
  <2>2. a.tranc = r  BY <2>1 DEF Entry
  <2> QED  BY <1>2, <2>1, <2>2, BeginHas
<1>4. ASSUME NEW a \in Begin(tr)
      PROVE  a \in Begin(0) /\ a \in Item /\ (tr = 0 \/ a.tranc = tr)
  <2>1. PICK i \in DOMAIN Memory, k \in Key, r \in Tranc :
          Memory[i][<<k, r>>] # None /\ (tr = 0 \/ r = tr) /\ a = Entry(i, k, r)
    BY <1>2, BeginHas
  <2>2. a.tranc = r  BY <2>1 DEF Entry
  <2> QED  BY <1>2, <2>1, <2>2, BeginHas
<1>5. ASSUME NEW a \in Begin(0) \ Begin(tr), NEW b \in Begin(tr),
             tr = 0 \/ a.tranc <= tr
      PROVE  a.tranc < b.tranc
  <2>1. tr # 0 /\ a.tranc # tr /\ b.tranc = tr /\ a \in Item  BY <1>3, <1>4
  <2>2. a.tranc \in Nat /\ tr \in Nat  BY <1>2, <2>1 DEF Item
  <2> QED  BY <1>5, <2>1, <2>2
<1>6. tr = 0 => \A a \in Begin(0) : a \in Begin(tr)  BY <1>3
<1>7. Begin(tr) \in SUBSET Item /\ Begin(tr) \subseteq Begin(0)  BY <1>4
<1> QED  BY <1>1, <1>5, <1>6, <1>7, WalkKeeps

LEMMA RangeKeeps == ASSUME WalkInv, range PROVE WalkInv'
<1>1. PICK tr \in Tranc, lo \in Key, hi \in Key :
        Walk("range", lo, hi, tr, InRange(lo, hi, tr), tr)
  BY DEF range
<1>2. WalkTyped /\ 0 \in Tranc /\ Tranc \subseteq Nat
  BY ScanAssumption DEF WalkInv
<1> DEFINE I == InRange(lo, hi, tr)
<1>3. \A a : a \in I <=> a \in Begin(0) /\ a.key \in lo .. hi /\ (tr = 0 \/ a.tranc # 0)
  BY <1>2, RangeHas
<1>4. \A a \in Begin(0) : a \in Item /\ a.tranc \in Nat
  BY <1>2, BeginHas DEF Item
<1> HIDE DEF I
<1>5. ASSUME NEW a \in Begin(0) \ I, NEW b \in I, a.key = b.key PROVE a.tranc < b.tranc
  <2>1. b \in Begin(0) /\ b.tranc # 0 /\ a.tranc = 0  BY <1>3, <1>5
  <2> QED  BY <1>4, <2>1
<1>6. tr = 0 => \A a \in Begin(0) : a.key \in lo .. hi => a \in I  BY <1>3
<1>7. I \in SUBSET Item /\ I \subseteq Begin(0)  BY <1>3, <1>4
<1>8. Walk("range", lo, hi, tr, I, tr)  BY <1>1 DEF I
<1> QED  BY <1>5, <1>6, <1>7, <1>8, WalkKeeps

LEMMA SstRangeKeeps == ASSUME WalkInv, sst_range PROVE WalkInv'
<1>1. PICK tr \in Tranc, lo \in Key, hi \in Key :
        Walk("sst", lo, hi, tr, SstRange(lo, hi, tr), 0)
  BY DEF sst_range
<1>2. WalkTyped  BY DEF WalkInv
<1>3. ASSUME NEW a \in SstRange(lo, hi, tr) PROVE a \in Item
  <2>0. PICK i \in DOMAIN ssts : \E v \in FirstHeld(ssts[i], lo, hi) :
          a = [key |-> v[1], tranc |-> tr, idx |-> i - 1, value |-> ssts[i][v]]
    BY DEF SstRange
  <2>1. PICK v \in FirstHeld(ssts[i], lo, hi) :
          a = [key |-> v[1], tranc |-> tr, idx |-> i - 1, value |-> ssts[i][v]]
    BY <2>0
  <2>2. v \in Version /\ v[1] \in Key  BY DEF FirstHeld, Held, Version
  <2>3. i - 1 \in Nat /\ ssts[i][v] \in Value \cup {None}
    BY <1>2, <2>2, MemoryTyped DEF Table
  <2> QED  BY <2>1, <2>2, <2>3 DEF Item
<1>4. SstRange(lo, hi, tr) \in SUBSET Item  BY <1>3
<1> QED  BY <1>1, <1>4, WalkKeeps

LEMMA WriteKeeps ==
  ASSUME WalkInv, \/ \E v \in Version, x \in Value : put_(v, x)
                  \/ frozen_cur_table \/ flush_last \/ overrun
  PROVE  WalkInv'
<1>1. /\ stage = "write" /\ ~ Walking /\ items = {} /\ out = <<>>
      /\ map \in Table /\ frozen_tables \in Seq(Table) /\ ssts \in Seq(Table)
  BY DEF put_, frozen_cur_table, flush_last, overrun, WalkInv, WalkTyped, Walking
<1>2. stage' \in {"write", "dead"} /\ UNCHANGED <<items, out>>
  BY <1>1 DEF put_, frozen_cur_table, flush_last, overrun
<1>3. map' \in Table /\ frozen_tables' \in Seq(Table) /\ ssts' \in Seq(Table)
  <2>1. CASE \E v \in Version, x \in Value : put_(v, x)
    BY <1>1, <2>1 DEF put_, Write, Table
  <2>2. CASE frozen_cur_table
    <3>1. map' \in Table  BY <2>2 DEF frozen_cur_table, Empty, Table
    <3>2. <<map>> \o frozen_tables \in Seq(Table)
      <4>1. <<map>> \in Seq(Table)  BY <1>1
      <4> HIDE DEF Table
      <4> QED  BY <1>1, <4>1, ConcatProperties
    <3> QED  BY <1>1, <2>2, <3>1, <3>2 DEF frozen_cur_table
  <2>3. CASE flush_last
    <3> HIDE DEF Table
    <3>1. frozen_tables # <<>> /\ Last(frozen_tables) \in Table
      BY <1>1, <2>3 DEF flush_last, Last
    <3>2. Front(frozen_tables) \in Seq(Table)
      BY <1>1, <3>1 DEF Front
    <3>3. <<Last(frozen_tables)>> \o ssts \in Seq(Table)
      <4>1. <<Last(frozen_tables)>> \in Seq(Table)  BY <3>1
      <4> QED  BY <1>1, <4>1, ConcatProperties
    <3> QED  BY <1>1, <2>3, <3>2, <3>3 DEF flush_last
  <2>4. CASE overrun  BY <1>1, <2>4 DEF overrun
  <2> QED  BY <2>1, <2>2, <2>3, <2>4
<1>4. WalkTyped' /\ ~ Walking'
  BY <1>1, <1>2, <1>3 DEF WalkTyped, Walking
<1>5. Yielded'  BY <1>1, <1>2 DEF Yielded
<1> QED  BY <1>4, <1>5 DEF WalkInv

LEMMA WalkInit == ScanInit => WalkInv
<1> SUFFICES ASSUME ScanInit PROVE WalkInv  OBVIOUS
<1>1. map \in Table /\ frozen_tables \in Seq(Table) /\ ssts \in Seq(Table)
  BY DEF ScanInit, Empty, Table
<1>2. /\ stage = "write" /\ items = {} /\ out = <<>>
  BY DEF ScanInit
<1> QED  BY <1>1, <1>2 DEF WalkInv, WalkTyped, Walking, Yielded

LEMMA WalkStep == WalkInv /\ [ScanNext]_scan_vars => WalkInv'
<1> SUFFICES ASSUME WalkInv, [ScanNext]_scan_vars PROVE WalkInv'  OBVIOUS
<1>1. CASE \/ \E v \in Version, x \in Value : put_(v, x)
           \/ frozen_cur_table \/ flush_last \/ overrun
  BY <1>1, WriteKeeps
<1>2. CASE begin  BY <1>2, BeginKeeps
<1>3. CASE range  BY <1>3, RangeKeeps
<1>4. CASE sst_range  BY <1>4, SstRangeKeeps
<1>5. CASE skip_by_tranc_id \/ skip_more \/ skipped \/ skip_none \/ skipped_deleted
  BY <1>5, SkipKeeps
<1>6. CASE skip_deleted  BY <1>6, SkipRemovedKeeps
<1>7. CASE next  BY <1>7, NextKeeps
<1>8. CASE UNCHANGED scan_vars
  <2>1. UNCHANGED <<map, frozen_tables, ssts, stage, walk, items, max_tranc_id_, out>>
    BY <1>8 DEF scan_vars
  <2>2. /\ Begin(0)' = Begin(0)
        /\ \A k, tr : Get(k, tr)' = Get(k, tr)
        /\ \A k : InOrder(k)' <=> InOrder(k)
    BY <2>1, SameMemory
  <2>3. WalkTyped' /\ Yielded' /\ (Walking' <=> Walking)
    BY <2>1 DEF WalkInv, WalkTyped, Yielded, Walking
  <2>4. KeptTogether => KeptTogether'  BY <2>1 DEF KeptTogether, Invisible
  <2>5. Started => Started'  BY <2>1, <2>2 DEF Started, Visible
  <2>6. Found => Found'  BY <2>1, <2>2 DEF Found
  <2>7. Accounted => Accounted'  BY <2>1, <2>2 DEF Accounted
  <2> QED  BY <2>1, <2>3, <2>4, <2>5, <2>6, <2>7 DEF WalkInv
<1> QED
  BY <1>1, <1>2, <1>3, <1>4, <1>5, <1>6, <1>7, <1>8 DEF ScanNext

LEMMA WalkAlways == ScanSpec => []WalkInv
<1> QED  BY WalkInit, WalkStep, PTL DEF ScanSpec

\* A walk over any number of tables and versions yields its keys in ascending
\* order, none twice and none removed, also where the order of the heap
\* contradicts itself (iterator.cpp, operator++ and the loops before it).
THEOREM WalksAscend == ScanSpec => []ScanAscends
<1>1. WalkInv => ScanAscends  BY DEF WalkInv, Yielded, ScanAscends
<1> QED  BY <1>1, WalkAlways, PTL

\* A walk of the memtable answers for each key as a get of the same reader
\* does, if no older table has a newer version of it, and outside of
\* transactions leaves out no key of its range that get finds (memtable.cpp,
\* begin and iter_monotony_predicate, against get_).
THEOREM WalksAgreeWithGet == ScanSpec => []ScanAgreesWithGet
<1>1. ASSUME WalkInv, InMemory
      PROVE  /\ \A i \in DOMAIN out : InOrder(out[i].key) =>
                   Get(out[i].key, walk.tranc)
                     = <<out[i].idx + 1, <<out[i].key, out[i].tranc>>>>
             /\ End /\ walk.tranc = 0 => \A k \in Key \cap walk.lo .. walk.hi :
                   InOrder(k) /\ Get(k, 0) # None => \E i \in DOMAIN out : out[i].key = k
  <2>1. CASE ~ Walking
    <3>1. out = <<>> /\ ~ End  BY <1>1, <2>1 DEF WalkInv, WalkTyped, End, Walking
    <3> QED  BY <3>1
  <2>2. CASE Walking
    <3>1. /\ WalkTyped /\ Started /\ Found /\ (walk.tranc = 0 => Accounted)
      BY <1>1, <2>2 DEF WalkInv, InMemory
    <3>2. ASSUME End, walk.tranc = 0, NEW k \in Key, k \in walk.lo .. walk.hi,
                 InOrder(k), Get(k, 0) # None
          PROVE  \E i \in DOMAIN out : out[i].key = k
      <4>1. PICK i \in DOMAIN Memory : Readable(Memory[i], k, 0) # {}
        <5>1. {i \in DOMAIN Memory : Readable(Memory[i], k, 0) # {}} # {}
          BY <3>2 DEF Get
        <5> QED  BY <5>1
      <4>2. PICK r \in Tranc : Memory[i][<<k, r>>] # None  BY <4>1 DEF Readable
      <4>3. Entry(i, k, r) \in Begin(0)  BY <3>1, <4>2, ScanAssumption, BeginHas
      <4>4. Entry(i, k, r).key = k  BY DEF Entry
      <4>5. Entry(i, k, r) \in walk.items  BY <3>1, <3>2, <4>3, <4>4 DEF Started
      <4>6. items = {}  BY <3>2 DEF End
      <4> QED  BY <3>1, <3>2, <4>4, <4>5, <4>6 DEF Accounted
    <3> QED  BY <3>1, <3>2 DEF Found
  <2> QED  BY <2>1, <2>2
<1>2. WalkInv => ScanAgreesWithGet  BY <1>1 DEF ScanAgreesWithGet
<1> QED  BY <1>2, WalkAlways, PTL
=============================================================================
