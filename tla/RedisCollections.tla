--------------------------- MODULE RedisCollections ----------------------------
(***************************************************************************)
(* The Redis commands on hashes and sorted sets                            *)
(* (src/src/redis_wrapper/redis_wrapper.cpp), on top of the locks, the     *)
(* expiry and the general commands of RedisWrapper.tla.                    *)
(*                                                                         *)
(* A hash is a key with the list of its fields, and a key of the engine    *)
(* for each field; a sorted set is two keys for each member, one to find   *)
(* its score and one, in the order of the scores, to find the member.      *)
(* Every command on them writes several keys, under the exclusive lock; a  *)
(* step here is what lies between two calls of the engine that depend on   *)
(* each other.                                                             *)
(***************************************************************************)
EXTENDS RedisWrapper

CONSTANTS
  Hash, ZSet,     \* keys, by the type of their values
  Plain,          \* keys with a text, named like a field of some hash
  Field, Value,   \* of hashes
  Member,         \* of sorted sets
  Score,          \* scores a client gives, <<number in halves, leading zeros>>
  Increment,      \* increments a client gives, in halves
  Word,           \* 2^64: a score that ZINCRBY writes is a uint64_t
  Rounded,        \* what history says of a score that has no exact number
  MaxPairs,       \* bound on the pairs of one ZADD
  Repeats,        \* whether one ZADD may name a member twice
  Short,          \* a text with no room for the prefix of a list of fields
  Text            \* a token of a text that has room for it

VARIABLES
  value,      \* the value of each of these keys
  field_val,  \* the value of each field of a hash
  elem_score, \* the score of each member of a sorted set
  score_elem, \* the member found under each padded score
  \* history: what the commands that returned say is in each hash and set
  hash, zset

collections == <<value, field_val, elem_score, score_elem, hash, zset>>
base        == <<str, list, members, card, history>>
allvars     == <<vars, collections>>

ASSUME CollectionsAssumption ==
  /\ Other = Hash \cup ZSet \cup Plain /\ Plain \subseteq Field
  /\ Hash \cap (ZSet \cup Plain) = {} /\ ZSet \cap Plain = {}
  /\ Score \subseteq Int \X Nat /\ \A s \in Score : s[1] < 0 => s[2] = 0
  /\ Increment \subseteq Int /\ Word \in Nat /\ Word % 2 = 0
  /\ MaxPairs \in Nat /\ Repeats \in BOOLEAN
  /\ None \notin Value /\ None \notin Int \X Nat /\ Text \notin Field
  /\ Rounded \notin Int \cup {None}

\* get_zset_key_score: the text is padded to one width, so that what counts
\* is the number. Scores are compared as texts elsewhere.
Pad(score) == score[1]

\* The numbers that commands can make, MaxCalls of them.
Padded ==
  LET Abs(n) == IF n < 0 THEN -n ELSE n
      given  == {Pad(s) : s \in Score}
      reach  == MaxCalls * Max({Abs(n) : n \in given \cup Increment} \cup {0})
  IN  given \cup {n \in 0 .. reach : n % 2 = 0}
            \cup {2 * Word - n : n \in {m \in 1 .. reach : m % 2 = 0}}

Arg(t) == cmd[t].elem

NoFields == [f \in Field |-> None]

\* get_fileds_from_hash_value: a list, unless there is no value (value()
\* throws) or one shorter than the prefix (substr throws).
Fields(h) == value[h]
Throws(h) == value[h] \in {None, Short}
-----------------------------------------------------------------------------
(* General commands on these keys.                                         *)

set_other(t) ==
  /\ Applies(t, "SET")
  /\ value' = [value EXCEPT ![Big(t)] = Arg(t)]
  /\ hash' = [h \in Hash |-> IF h = Big(t) THEN NoFields ELSE hash[h]]
  /\ ttl' = [ttl EXCEPT ![Big(t)] = None]
  /\ UNCHANGED <<base, field_val, elem_score, score_elem, zset>>
  /\ Release(t)

\* The value goes, the keys of fields and members stay.
Forget(k) ==
  /\ value' = [value EXCEPT ![k] = None]
  /\ hash' = [h \in Hash |-> IF h = k THEN NoFields ELSE hash[h]]
  /\ UNCHANGED <<field_val, elem_score, score_elem, zset>>

del_other(t) == del(t) /\ Forget(Big(t))

(* expire_hash_clean, when the shared lock has been given back. It removes *)
(* the key, its time of expiry, and keys named like its fields, without    *)
(* the prefix that would make them the fields' keys.                       *)

clean_hash(t) ==
  LET k == Big(t) IN
  /\ At(t, "clean") /\ k \in Hash /\ CanLock(redis_mtx)
  /\ IF Throws(k) THEN UNCHANGED <<data, history, collections>> /\ Goto(t, "idle")
     ELSE /\ Erase(k)
          /\ value' = [x \in Other |->
               IF x = k \/ x \in Plain \cap ToSet(Fields(k)) THEN None ELSE value[x]]
          /\ hash' = [hash EXCEPT ![k] = NoFields]
          /\ Goto(t, IF Op(t) = "HSET" THEN "acquire" ELSE "idle")
          /\ UNCHANGED <<field_val, elem_score, score_elem, zset>>
  /\ UNCHANGED <<now, redis_mtx, seen, calls>>

\* expire_zset_clean: the range query that looks for the members leaves the
\* memtable out, and finds none.
clean_zset(t) ==
  /\ At(t, "clean") /\ Big(t) \in ZSet /\ CanLock(redis_mtx)
  /\ Erase(Big(t)) /\ Forget(Big(t))
  /\ Goto(t, IF Op(t) \in {"ZADD", "ZINCRBY"} THEN "acquire" ELSE "idle")
  /\ UNCHANGED <<now, redis_mtx, seen, calls>>
-----------------------------------------------------------------------------
(* Hashes. HSET writes the field, reads the list, and appends to it.       *)

\* A step of a command that keeps the lock.
Continue(t, l, x) ==
  /\ Goto(t, l) /\ seen' = [seen EXCEPT ![t] = x]
  /\ UNCHANGED <<base, ttl, now, redis_mtx, calls>>

hset_field(t) ==
  LET h == Big(t) IN
  /\ Applies(t, "HSET")
  /\ field_val' = [field_val EXCEPT ![h][Arg(t)[1]] = Arg(t)[2]]
  /\ IF Throws(h) THEN UNCHANGED <<base, ttl>> /\ Release(t)
     ELSE Continue(t, "list", [list |-> Fields(h)])
  /\ UNCHANGED <<value, elem_score, score_elem, hash, zset>>

\* Mutant of hset_list: it does not look whether the field is there.
hset_appends(t) ==
  LET h == Big(t)  f == Arg(t)[1] IN
  /\ At(t, "list") /\ Op(t) = "HSET"
  /\ value' = [value EXCEPT ![h] = Append(seen[t].list, f)]
  /\ hash' = [hash EXCEPT ![h][f] = Arg(t)[2]]
  /\ UNCHANGED <<base, ttl, field_val, elem_score, score_elem, zset>>
  /\ Release(t)

hset_list(t) ==
  LET h == Big(t)  f == Arg(t)[1] IN
  /\ At(t, "list") /\ Op(t) = "HSET"
  /\ value' = IF f \in ToSet(seen[t].list) THEN value
              ELSE [value EXCEPT ![h] = Append(seen[t].list, f)]
  /\ hash' = [hash EXCEPT ![h][f] = Arg(t)[2]]
  /\ UNCHANGED <<base, ttl, field_val, elem_score, score_elem, zset>>
  /\ Release(t)

\* HDEL removes the field's key before it reads the list.
hdel_field(t) ==
  LET h == Big(t) IN
  /\ Applies(t, "HDEL")
  /\ field_val' = [field_val EXCEPT ![h][Arg(t)] = None]
  /\ IF Throws(h) THEN UNCHANGED <<base, ttl>> /\ Release(t)
     ELSE Continue(t, "list", [list |-> Fields(h)])
  /\ UNCHANGED <<value, elem_score, score_elem, hash, zset>>

\* With its last field the hash goes, but not its time of expiry.
hdel_list(t) ==
  LET h == Big(t)
      left == RemoveFirst(seen[t].list, Arg(t)) IN
  /\ At(t, "list") /\ Op(t) = "HDEL"
  /\ value' = IF Arg(t) \notin ToSet(seen[t].list) THEN value
              ELSE [value EXCEPT ![h] = IF left = <<>> THEN None ELSE left]
  /\ hash' = [hash EXCEPT ![h][Arg(t)] = None]
  /\ UNCHANGED <<base, ttl, field_val, elem_score, score_elem, zset>>
  /\ Release(t)
-----------------------------------------------------------------------------
(* Sorted sets. ZADD looks up the members' old scores, removes the keys of *)
(* those that change in one batch and puts all new keys in another.        *)

\* A batch puts to[i] under at[i], for each i in I; the later put wins.
PutBatch(f, I, at, to) ==
  [x \in DOMAIN f |-> LET here == {i \in I : at[i] = x}
                      IN  IF here = {} THEN f[x] ELSE to[Max(here)]]

\* Of the pairs of ZADD: the scores, as given and padded, and the members.
Scores(p) == [i \in DOMAIN p |-> p[i][1]]
Pads(p)   == [i \in DOMAIN p |-> Pad(p[i][1])]
Names(p)  == [i \in DOMAIN p |-> p[i][2]]

zadd_read(t) ==
  LET p       == Arg(t)
      old(i)  == elem_score[Big(t)][Names(p)[i]]
      changed == {i \in DOMAIN p : old(i) # Scores(p)[i]}
      removes == {Pad(old(i)) : i \in {j \in changed : old(j) # None}}
  IN  /\ Applies(t, "ZADD")
      /\ Continue(t, "zadd_remove", [remove |-> removes, put |-> changed])
      /\ UNCHANGED collections

zadd_remove(t) ==
  /\ At(t, "zadd_remove")
  /\ score_elem' = [score_elem EXCEPT ![Big(t)] =
       [n \in Padded |-> IF n \in seen[t].remove THEN None ELSE @[n]]]
  /\ Continue(t, "zadd_put", seen[t])
  /\ UNCHANGED <<value, field_val, elem_score, hash, zset>>

zadd_put(t) ==
  LET z == Big(t)  p == Arg(t)  I == seen[t].put IN
  /\ At(t, "zadd_put")
  /\ value' = [value EXCEPT ![z] = Text]
  /\ score_elem' = [score_elem EXCEPT ![z] = PutBatch(@, I, Pads(p), Names(p))]
  /\ elem_score' = [elem_score EXCEPT ![z] = PutBatch(@, I, Names(p), Scores(p))]
  /\ zset' = [zset EXCEPT ![z] = PutBatch(@, DOMAIN p, Names(p), Pads(p))]
  /\ UNCHANGED <<base, ttl, field_val, hash>>
  /\ Release(t)

(* ZINCRBY: new_score = stol(original_score) + stod(increment). stol and    *)
(* the assignment to a uint64_t drop what is behind the point, and a         *)
(* negative number wraps (it is undefined; this is what x86-64 does).        *)

Whole(n) == IF n < 0 THEN -((-n) \div 2) ELSE n \div 2

\* stol throws out_of_range
TooLong(s) == s # None /\ Whole(Pad(s)) >= Word \div 2

Raised(s, by) ==
  LET w == Whole(IF s = None THEN by ELSE 2 * Whole(Pad(s)) + by)
  IN  <<2 * (IF w < 0 THEN Word + w ELSE w), 0>>

zincrby_throws(t) ==
  /\ Applies(t, "ZINCRBY") /\ TooLong(elem_score[Big(t)][Arg(t)[1]])
  /\ UNCHANGED <<base, ttl, collections>>
  /\ Release(t)

zincrby_read(t) ==
  LET z == Big(t)  old == elem_score[z][Arg(t)[1]] IN
  /\ Applies(t, "ZINCRBY") /\ ~ TooLong(old)
  /\ score_elem' = IF old = None THEN score_elem
                   ELSE [score_elem EXCEPT ![z][Pad(old)] = None]
  /\ Continue(t, "zincrby_put", [score |-> Raised(old, Arg(t)[2])])
  /\ UNCHANGED <<value, field_val, elem_score, hash, zset>>

\* What an increment should make of a score: the sum. It has no exact number
\* when it is below zero, or when a term is not whole.
Sum(x, by) ==
  IF x = Rounded THEN Rounded
  ELSE IF Plus(x, by) < 0 \/ by % 2 # 0 \/ Plus(x, 0) % 2 # 0 THEN Rounded
  ELSE Plus(x, by)

zincrby_put(t) ==
  LET z == Big(t)  e == Arg(t)[1] IN
  /\ At(t, "zincrby_put")
  /\ elem_score' = [elem_score EXCEPT ![z][e] = seen[t].score]
  /\ score_elem' = [score_elem EXCEPT ![z][Pad(seen[t].score)] = e]
  /\ zset' = [zset EXCEPT ![z][e] = Sum(@, Arg(t)[2])]
  /\ UNCHANGED <<base, ttl, value, field_val, hash>>
  /\ Release(t)

zrem_read(t) ==
  /\ Applies(t, "ZREM")
  /\ IF elem_score[Big(t)][Arg(t)] = None THEN UNCHANGED <<base, ttl>> /\ Release(t)
     ELSE Continue(t, "zrem_remove", [score |-> elem_score[Big(t)][Arg(t)]])
  /\ UNCHANGED collections

\* Mutant of zrem_remove: the key of the score stays.
zrem_elem(t) ==
  LET z == Big(t) IN
  /\ At(t, "zrem_remove")
  /\ elem_score' = [elem_score EXCEPT ![z][Arg(t)] = None]
  /\ zset' = [zset EXCEPT ![z][Arg(t)] = None]
  /\ UNCHANGED <<base, ttl, value, field_val, score_elem, hash>>
  /\ Release(t)

zrem_remove(t) ==
  LET z == Big(t) IN
  /\ At(t, "zrem_remove")
  /\ elem_score' = [elem_score EXCEPT ![z][Arg(t)] = None]
  /\ score_elem' = [score_elem EXCEPT ![z][Pad(seen[t].score)] = None]
  /\ zset' = [zset EXCEPT ![z][Arg(t)] = None]
  /\ UNCHANGED <<base, ttl, value, field_val, hash>>
  /\ Release(t)
-----------------------------------------------------------------------------
\* What a ZADD may carry.
Pairs ==
  LET all == UNION {[1 .. n -> Score \X Member] : n \in 1 .. MaxPairs}
  IN  {s \in all : Repeats \/ \A i, j \in DOMAIN s : s[i][2] = s[j][2] => i = j}

\* The arguments of a command on a key.
Args(op, k) ==
  CASE op = "SET"     -> IF k \in Hash THEN {Short, <<Text>>}
                         ELSE IF k \in Plain THEN {Short} ELSE {}
    [] op = "HSET"    -> IF k \in Hash THEN Field \X Value ELSE {}
    [] op = "HDEL"    -> IF k \in Hash THEN Field ELSE {}
    [] op = "ZADD"    -> IF k \in ZSet THEN Pairs ELSE {}
    [] op = "ZINCRBY" -> IF k \in ZSet THEN Member \X Increment ELSE {}
    [] op = "ZREM"    -> IF k \in ZSet THEN Member ELSE {}
    [] op \in {"HGET", "HKEYS"} -> IF k \in Hash THEN {None} ELSE {}
    [] op \in OtherReader       -> IF k \in ZSet THEN {None} ELSE {}
    [] OTHER -> {None}

Start(op) ==
  CASE op = "TTL" -> "peek" [] op \in {"SET", "DEL", "EXPIRE"} -> "acquire"
    [] OTHER -> "check"

CallOther(t) ==
  /\ At(t, "idle") /\ calls < MaxCalls
  /\ calls' = calls + 1
  /\ \E op \in Command, k \in Other : \E a \in Args(op, k) :
       /\ cmd' = [cmd EXCEPT ![t] = [op |-> op, key |-> k, elem |-> a]]
       /\ pc' = [pc EXCEPT ![t] = Start(op)]
  /\ UNCHANGED <<data, now, redis_mtx, seen, history, collections>>

\* The keys a client has prepared with SET and EXPIRE.
InitOther ==
  /\ value \in [Other -> {None, Short, <<Text>>}]
  /\ \A k \in ZSet : value[k] = None
  /\ \A k \in Plain : value[k] = Short
  /\ field_val = [h \in Hash |-> NoFields] /\ hash = field_val
  /\ zset = [z \in ZSet |-> [m \in Member |-> None]] /\ elem_score = zset
  /\ score_elem = [z \in ZSet |-> [n \in Padded |-> None]]
  /\ ttl = [k \in Key |-> IF k \in Hash \cup ZSet THEN now ELSE None]

StepOther(t) ==
  \/ /\ \/ acquire(t) \/ expire(t) \/ peek(t) \/ check_throws(t)
        \/ check(t) \/ unlock(t) \/ unlock_clean(t)
     /\ UNCHANGED collections
  \/ set_other(t) \/ del_other(t) \/ clean_hash(t) \/ clean_zset(t)
  \/ hset_field(t) \/ hset_list(t) \/ hdel_field(t) \/ hdel_list(t)
  \/ zadd_read(t) \/ zadd_remove(t) \/ zadd_put(t)
  \/ zincrby_throws(t) \/ zincrby_read(t) \/ zincrby_put(t)
  \/ zrem_read(t) \/ zrem_remove(t)

InitCollections ==
  /\ str = <<>> /\ sum = str /\ list = <<>> /\ members = <<>> /\ card = <<>>
  /\ now = 0 /\ redis_mtx = Unlocked
  /\ pc = [t \in Thread |-> "idle"]
  /\ cmd = [t \in Thread |-> NoCommand]
  /\ seen = [t \in Thread |-> None]
  /\ calls = 0 /\ pushed = 0 /\ popped = <<>> /\ dropped = {}
  /\ InitOther

DoneOther == calls = MaxCalls /\ (\A t \in Thread : At(t, "idle")) /\ UNCHANGED allvars

NextCollections ==
  \/ \E t \in Thread : StepOther(t) \/ CallOther(t)
  \/ Tick /\ UNCHANGED collections
  \/ DoneOther

CollectionsSpec == InitCollections /\ [][NextCollections]_allvars
-----------------------------------------------------------------------------
(* Properties.                                                             *)

\* Nobody is between two writes of a command.
Quiet == redis_mtx.w = {} /\ redis_mtx.r = {}

\* HSET and HDEL are atomic (redis_wrapper.cpp, hset and hdel), though they
\* write a field's key and the list in two steps, and a hash can be made anew,
\* erased and expire in between: the list names each field exactly once that
\* a command has set and none has deleted since, and its key has that value.
HashExact ==
  Quiet => \A h \in Hash : ~ Throws(h) =>
    /\ IsInjective(Fields(h))
    /\ ToSet(Fields(h)) \ {Text} = {f \in Field : hash[h][f] # None}
    /\ \A f \in ToSet(Fields(h)) \ {Text} : field_val[h][f] = hash[h][f]

\* A member is listed under no score but its own (redis_wrapper.cpp, zadd: the
\* old record is deleted), however commands of several threads, scores written
\* differently and batches meet: ZRANGE shows no member twice.
ScoreNamesMember ==
  Quiet => \A z \in ZSet, n \in Padded : score_elem[z][n] # None =>
    LET s == elem_score[z][score_elem[z][n]] IN s # None /\ Pad(s) = n

\* ZADD, ZINCRBY and ZREM are atomic: no increment is lost to another thread,
\* to a score written with zeros or to the expiry of its set, and the score of
\* a member is what the commands that returned make of it. An increment that
\* is not whole, one of a score that is not, and one below zero have no exact
\* score (Rounded, until a ZADD or ZREM): there the member still has one.
ScoreExact ==
  Quiet => \A z \in ZSet, m \in Member :
    LET s == elem_score[z][m]
    IN  /\ zset[z][m] = None <=> s = None
        /\ zset[z][m] \notin {None, Rounded} => Pad(s) = zset[z][m]
=============================================================================
