--------------------------------- MODULE LruK ---------------------------------
(***************************************************************************)
(* The replacement policy the block cache promises: when full, it evicts   *)
(* the entry used longest ago among those used fewer than K times, and     *)
(* when there is none, the one used longest ago of all.                    *)
(***************************************************************************)
EXTENDS Integers, SequencesExt

CONSTANTS Key, Content, None, Capacity, K

VARIABLES
  used,     \* the cached keys, the one used last first
  uses,     \* how often each key was used since it came in, at most K; 0: absent
  content   \* what is cached for each key

\* The last in used is the one used longest ago.
Rare   == {i \in DOMAIN used : uses[used[i]] < K}
Victim == used[Max(IF Rare # {} THEN Rare ELSE DOMAIN used)]

Use(key) ==
  /\ uses[key] > 0
  /\ used' = <<key>> \o RemoveFirst(used, key)
  /\ uses' = [uses EXCEPT ![key] = IF @ < K THEN @ + 1 ELSE K]

Hit(key) == Use(key) /\ UNCHANGED content

Replace(key, x) == Use(key) /\ content' = [content EXCEPT ![key] = x]

Load(key, x) ==
  /\ uses[key] = 0
  /\ \/ /\ Len(used) < Capacity
        /\ used' = <<key>> \o used
        /\ uses' = [uses EXCEPT ![key] = 1]
        /\ content' = [content EXCEPT ![key] = x]
     \/ /\ Len(used) = Capacity
        /\ used' = <<key>> \o RemoveFirst(used, Victim)
        /\ uses' = [uses EXCEPT ![key] = 1, ![Victim] = 0]
        /\ content' = [content EXCEPT ![key] = x, ![Victim] = None]

LruInit ==
  /\ used = <<>>
  /\ uses = [key \in Key |-> 0]
  /\ content = [key \in Key |-> None]

LruNext ==
  \E key \in Key : Hit(key) \/ \E x \in Content : Replace(key, x) \/ Load(key, x)

LruSpec == LruInit /\ [][LruNext]_<<used, uses, content>>
=============================================================================
