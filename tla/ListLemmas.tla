------------------------------ MODULE ListLemmas ------------------------------
(***************************************************************************)
(* Lists, as the containers of the code are used: what a push, a pop or an *)
(* erase at either end or in the middle leaves of the elements and of      *)
(* their order. The proofs of the Redis commands and of the block cache    *)
(* rest on these.                                                          *)
(***************************************************************************)
EXTENDS Integers, SequencesExt, SequenceTheorems, FiniteSetTheorems, FunctionTheorems, TLAPS

\* The order of two elements.
Precedes(s, x, y) == \E i, j \in DOMAIN s : i < j /\ s[i] = x /\ s[j] = y

\* The elements of a list, by position.
LEMMA Elements ==
  ASSUME NEW S, NEW s \in Seq(S)
  PROVE  /\ Len(s) \in Nat /\ DOMAIN s = 1 .. Len(s)
         /\ ToSet(s) = {s[i] : i \in 1 .. Len(s)}
         /\ \A i \in 1 .. Len(s) : s[i] \in ToSet(s)
         /\ \A e \in ToSet(s) : \E i \in 1 .. Len(s) : e = s[i]
         /\ ToSet(s) \subseteq S
         /\ s # <<>> => Len(s) >= 1
         /\ s \in Seq(ToSet(s))
<1>1. Len(s) \in Nat /\ DOMAIN s = 1 .. Len(s)  BY LenProperties
<1>2. \A i \in 1 .. Len(s) : s[i] \in S  BY ElementOfSeq
<1>3. ToSet(s) = {s[i] : i \in 1 .. Len(s)}  BY <1>1 DEF ToSet
<1>4. s # <<>> => Len(s) \in Nat \ {0}  BY EmptySeq
<1>5. s \in Seq(ToSet(s))
  BY <1>1, <1>3, SeqOfRange, RangeEquality
<1> QED  BY <1>1, <1>2, <1>3, <1>4, <1>5

\* push_front of an element that is not in the list.
LEMMA PushFront ==
  ASSUME NEW S, NEW s \in Seq(S), NEW e \in S
  PROVE  /\ <<e>> \o s \in Seq(S) /\ Len(<<e>> \o s) = Len(s) + 1
         /\ (<<e>> \o s)[1] = e
         /\ \A i \in 2 .. Len(s) + 1 : (<<e>> \o s)[i] = s[i - 1]
         /\ ToSet(<<e>> \o s) = ToSet(s) \cup {e}
         /\ IsInjective(s) /\ e \notin ToSet(s) => IsInjective(<<e>> \o s)
<1> DEFINE new == <<e>> \o s
<1>1. <<e>> \in Seq(S) /\ Len(<<e>>) = 1 /\ <<e>>[1] = e  OBVIOUS
<1>2. /\ new \in Seq(S) /\ Len(new) = 1 + Len(s)
      /\ \A i \in 1 .. 1 + Len(s) : new[i] = IF i <= 1 THEN <<e>>[i] ELSE s[i - 1]
  BY <1>1, ConcatProperties
<1>3. Len(s) \in Nat  BY LenProperties
<1>4. new[1] = e /\ \A i \in 2 .. Len(s) + 1 : new[i] = s[i - 1]
  BY <1>1, <1>2, <1>3
<1> HIDE DEF new
<1>5. ToSet(new) = {new[i] : i \in 1 .. Len(s) + 1} /\ DOMAIN new = 1 .. Len(s) + 1
  BY <1>2, <1>3, Elements
<1>6. ToSet(s) = {s[i] : i \in 1 .. Len(s)} /\ DOMAIN s = 1 .. Len(s)  BY Elements
<1>7. ToSet(new) = ToSet(s) \cup {e}
  <2>1. ASSUME NEW x \in ToSet(new) PROVE x \in ToSet(s) \cup {e}
    <3>1. PICK i \in 1 .. Len(s) + 1 : x = new[i]  BY <2>1, <1>5
    <3>2. CASE i = 1  BY <3>1, <3>2, <1>4
    <3>3. CASE i # 1
      <4>1. i - 1 \in 1 .. Len(s) /\ i \in 2 .. Len(s) + 1  BY <3>3, <1>3
      <4> QED  BY <4>1, <3>1, <1>4, <1>6
    <3> QED  BY <3>2, <3>3
  <2>2. ASSUME NEW i \in 1 .. Len(s) PROVE s[i] \in ToSet(new)
    <3>1. i + 1 \in 2 .. Len(s) + 1 /\ i + 1 - 1 = i  BY <1>3
    <3>2. new[i + 1] = s[i]  BY <3>1, <1>4
    <3> QED  BY <3>1, <3>2, <1>3, <1>5
  <2>3. e \in ToSet(new)  BY <1>3, <1>4, <1>5
  <2> QED  BY <2>1, <2>2, <2>3, <1>6
<1>8. IsInjective(s) /\ e \notin ToSet(s) => IsInjective(new)
  <2> SUFFICES ASSUME IsInjective(s), e \notin ToSet(s),
                      NEW i \in 1 .. Len(s) + 1, NEW j \in 1 .. Len(s) + 1,
                      new[i] = new[j]
               PROVE  i = j
    BY <1>5 DEF IsInjective
  <2>1. \A k \in 1 .. Len(s) + 1 :
           k # 1 => k - 1 \in 1 .. Len(s) /\ new[k] = s[k - 1] /\ new[k] # e
    BY <1>3, <1>4, <1>6
  <2>2. \A k, l \in 1 .. Len(s) : s[k] = s[l] => k = l  BY <1>6 DEF IsInjective
  <2>3. CASE i = 1 \/ j = 1  BY <2>1, <2>3, <1>4
  <2>4. CASE i # 1 /\ j # 1
    <3>1. i - 1 = j - 1  BY <2>1, <2>2, <2>4
    <3> QED  BY <3>1, <1>3
  <2> QED  BY <2>3, <2>4
<1> QED  BY <1>2, <1>3, <1>4, <1>7, <1>8 DEF new

\* push_back of an element that is not in the list.
LEMMA PushBack ==
  ASSUME NEW S, NEW s \in Seq(S), NEW e \in S
  PROVE  /\ Append(s, e) \in Seq(S) /\ Len(Append(s, e)) = Len(s) + 1
         /\ ToSet(Append(s, e)) = ToSet(s) \cup {e}
         /\ IsInjective(s) /\ e \notin ToSet(s) => IsInjective(Append(s, e))
<1> DEFINE new == Append(s, e)
<1>1. /\ new \in Seq(S) /\ Len(new) = Len(s) + 1
      /\ \A i \in 1 .. Len(s) : new[i] = s[i]
      /\ new[Len(s) + 1] = e
  BY AppendProperties
<1>2. Len(s) \in Nat  BY LenProperties
<1> HIDE DEF new
<1>3. ToSet(new) = {new[i] : i \in 1 .. Len(s) + 1} /\ DOMAIN new = 1 .. Len(s) + 1
  BY <1>1, <1>2, Elements
<1>4. ToSet(s) = {s[i] : i \in 1 .. Len(s)} /\ DOMAIN s = 1 .. Len(s)  BY Elements
<1>5. \A i \in 1 .. Len(s) + 1 : i = Len(s) + 1 \/ i \in 1 .. Len(s)  BY <1>2
<1>6. 1 .. Len(s) \subseteq 1 .. Len(s) + 1 /\ Len(s) + 1 \in 1 .. Len(s) + 1  BY <1>2
<1>7. ToSet(new) = ToSet(s) \cup {e}
  BY <1>1, <1>3, <1>4, <1>5, <1>6
<1>8. IsInjective(s) /\ e \notin ToSet(s) => IsInjective(new)
  BY <1>1, <1>3, <1>4, <1>5 DEF IsInjective
<1> QED  BY <1>1, <1>7, <1>8 DEF new

\* The part of a list between two positions, when the list repeats nothing.
LEMMA Part ==
  ASSUME NEW S, NEW s \in Seq(S), NEW m \in Nat \ {0}, NEW n \in Nat, n <= Len(s)
  PROVE  /\ SubSeq(s, m, n) \in Seq(S)
         /\ Len(SubSeq(s, m, n)) = IF m <= n THEN n - m + 1 ELSE 0
         /\ \A i \in 1 .. Len(SubSeq(s, m, n)) : SubSeq(s, m, n)[i] = s[m + i - 1]
         /\ ToSet(SubSeq(s, m, n)) = {s[i] : i \in m .. n}
         /\ IsInjective(s) => IsInjective(SubSeq(s, m, n))
<1> DEFINE sub == SubSeq(s, m, n)
<1>1. Len(s) \in Nat /\ DOMAIN s = 1 .. Len(s)  BY LenProperties
<1>2. \A i \in m .. n : i \in 1 .. Len(s) /\ s[i] \in S  BY <1>1, ElementOfSeq
<1>3. /\ sub \in Seq(S) /\ Len(sub) = IF m <= n THEN n - m + 1 ELSE 0
      /\ \A i \in 1 .. n - m + 1 : sub[i] = s[m + i - 1]
  BY <1>2, SubSeqProperties
<1> HIDE DEF sub
<1>4. \A i \in 1 .. Len(sub) : sub[i] = s[m + i - 1] /\ m + i - 1 \in m .. n
  BY <1>3
<1>5. ToSet(sub) = {sub[i] : i \in 1 .. Len(sub)} /\ DOMAIN sub = 1 .. Len(sub)
  BY <1>3, Elements
<1>6. \A i \in m .. n : i - m + 1 \in 1 .. Len(sub) /\ m + (i - m + 1) - 1 = i
  BY <1>3
<1>7. ToSet(sub) = {s[i] : i \in m .. n}
  <2>1. ASSUME NEW i \in m .. n PROVE s[i] \in ToSet(sub)
    <3>1. sub[i - m + 1] = s[i]  BY <1>4, <1>6
    <3> QED  BY <3>1, <1>5, <1>6
  <2> QED  BY <2>1, <1>4, <1>5
<1>8. IsInjective(s) => IsInjective(sub)
  <2> SUFFICES ASSUME IsInjective(s), NEW i \in 1 .. Len(sub), NEW j \in 1 .. Len(sub),
                      sub[i] = sub[j]
               PROVE  i = j
    BY <1>5 DEF IsInjective
  <2>1. s[m + i - 1] = s[m + j - 1]  BY <1>4
  <2>2. m + i - 1 = m + j - 1  BY <2>1, <1>1, <1>2, <1>4 DEF IsInjective
  <2> QED  BY <2>2, <1>3
<1> QED  BY <1>3, <1>4, <1>7, <1>8 DEF sub

\* pop_front of a list that repeats nothing.
LEMMA PopFront ==
  ASSUME NEW S, NEW s \in Seq(S), s # <<>>
  PROVE  /\ Head(s) \in ToSet(s) /\ Head(s) = s[1] /\ Tail(s) \in Seq(S)
         /\ IsInjective(s) => /\ IsInjective(Tail(s))
                              /\ ToSet(Tail(s)) = ToSet(s) \ {Head(s)}
<1>1. Tail(s) = SubSeq(s, 2, Len(s)) /\ Len(s) \in Nat \ {0}
  BY TailIsSubSeq, EmptySeq
<1>2. /\ Tail(s) \in Seq(S) /\ ToSet(Tail(s)) = {s[i] : i \in 2 .. Len(s)}
      /\ IsInjective(s) => IsInjective(Tail(s))
  <2>1. 2 \in Nat \ {0} /\ Len(s) \in Nat /\ Len(s) <= Len(s)  BY <1>1
  <2>2. /\ SubSeq(s, 2, Len(s)) \in Seq(S)
        /\ ToSet(SubSeq(s, 2, Len(s))) = {s[i] : i \in 2 .. Len(s)}
        /\ IsInjective(s) => IsInjective(SubSeq(s, 2, Len(s)))
    BY <2>1, Part
  <2> QED  BY <2>2, <1>1
<1>3. Head(s) = s[1]  OBVIOUS
<1>4. ToSet(s) = {s[i] : i \in 1 .. Len(s)} /\ DOMAIN s = 1 .. Len(s)  BY Elements
<1>5. IsInjective(s) => {s[i] : i \in 2 .. Len(s)} = ToSet(s) \ {s[1]}
  <2> SUFFICES ASSUME IsInjective(s)
               PROVE  {s[i] : i \in 2 .. Len(s)} = ToSet(s) \ {s[1]}
    OBVIOUS
  <2>1. \A i \in 1 .. Len(s) : i \in 2 .. Len(s) <=> s[i] # s[1]
    BY <1>1, <1>4 DEF IsInjective
  <2>2. 2 .. Len(s) \subseteq 1 .. Len(s)  BY <1>1
  <2> QED  BY <2>1, <2>2, <1>4
<1> QED  BY <1>1, <1>2, <1>3, <1>4, <1>5

\* pop_back of a list that repeats nothing.
LEMMA PopBack ==
  ASSUME NEW S, NEW s \in Seq(S), s # <<>>
  PROVE  /\ Last(s) \in ToSet(s) /\ Front(s) \in Seq(S) /\ Len(Front(s)) = Len(s) - 1
         /\ \A i \in 1 .. Len(s) - 1 : Front(s)[i] = s[i]
         /\ IsInjective(s) => /\ IsInjective(Front(s))
                              /\ ToSet(Front(s)) = ToSet(s) \ {Last(s)}
<1>1. Len(s) \in Nat \ {0}  BY EmptySeq
<1>2. /\ Front(s) \in Seq(S) /\ ToSet(Front(s)) = {s[i] : i \in 1 .. Len(s) - 1}
      /\ Len(Front(s)) = Len(s) - 1
      /\ \A i \in 1 .. Len(s) - 1 : Front(s)[i] = s[i]
      /\ IsInjective(s) => IsInjective(Front(s))
  <2>1. Len(s) - 1 \in Nat /\ Len(s) - 1 <= Len(s)  BY <1>1
  <2>2. /\ Front(s) \in Seq(S) /\ ToSet(Front(s)) = {s[i] : i \in 1 .. Len(s) - 1}
        /\ Len(Front(s)) = IF 1 <= Len(s) - 1 THEN Len(s) - 1 - 1 + 1 ELSE 0
        /\ \A i \in 1 .. Len(Front(s)) : Front(s)[i] = s[1 + i - 1]
        /\ IsInjective(s) => IsInjective(Front(s))
    BY <2>1, Part DEF Front
  <2>3. (IF 1 <= Len(s) - 1 THEN Len(s) - 1 - 1 + 1 ELSE 0) = Len(s) - 1
    <3>1. \A n \in Nat \ {0} : (IF 1 <= n - 1 THEN n - 1 - 1 + 1 ELSE 0) = n - 1
      OBVIOUS
    <3> QED  BY <3>1, <1>1
  <2>4. \A i \in 1 .. Len(s) - 1 : 1 + i - 1 = i  BY <1>1
  <2>5. Len(Front(s)) = Len(s) - 1  BY <2>2, <2>3
  <2> QED  BY <2>2, <2>4, <2>5
<1>3. ToSet(s) = {s[i] : i \in 1 .. Len(s)} /\ DOMAIN s = 1 .. Len(s)  BY Elements
<1>4. IsInjective(s) => {s[i] : i \in 1 .. Len(s) - 1} = ToSet(s) \ {s[Len(s)]}
  <2> SUFFICES ASSUME IsInjective(s)
               PROVE  {s[i] : i \in 1 .. Len(s) - 1} = ToSet(s) \ {s[Len(s)]}
    OBVIOUS
  <2>1. \A i \in 1 .. Len(s) : i \in 1 .. Len(s) - 1 <=> s[i] # s[Len(s)]
    BY <1>1, <1>3 DEF IsInjective
  <2>2. 1 .. Len(s) - 1 \subseteq 1 .. Len(s)  BY <1>1
  <2> QED  BY <2>1, <2>2, <1>3
<1>5. Len(s) \in 1 .. Len(s)  BY <1>1
<1> QED  BY <1>2, <1>3, <1>4, <1>5 DEF Last
-----------------------------------------------------------------------------
(* Order, and erasing in the middle.                                       *)

\* erase of an iterator.
LEMMA EraseAt ==
  ASSUME NEW S, NEW s \in Seq(S), NEW i \in 1 .. Len(s)
  PROVE  /\ RemoveAt(s, i) \in Seq(S) /\ Len(RemoveAt(s, i)) = Len(s) - 1
         /\ \A j \in 1 .. Len(s) - 1 :
               RemoveAt(s, i)[j] = IF j < i THEN s[j] ELSE s[j + 1]
<1> DEFINE n == Len(s)
           a == SubSeq(s, 1, i - 1)
           b == SubSeq(s, i + 1, n)
<1>1. n \in Nat /\ i \in Nat /\ 1 <= i /\ i <= n  BY LenProperties
<1> HIDE DEF n
<1>2. /\ a \in Seq(S) /\ Len(a) = i - 1
      /\ \A j \in 1 .. i - 1 : a[j] = s[j]
  <2>1. 1 \in Nat \ {0} /\ i - 1 \in Nat /\ i - 1 <= Len(s)  BY <1>1 DEF n
  <2>2. /\ a \in Seq(S) /\ Len(a) = IF 1 <= i - 1 THEN i - 1 - 1 + 1 ELSE 0
        /\ \A j \in 1 .. Len(a) : a[j] = s[1 + j - 1]
    BY <2>1, Part
  <2>3. Len(a) = i - 1  BY <1>1, <2>2
  <2>4. \A j \in 1 .. i - 1 : 1 + j - 1 = j  OBVIOUS
  <2> QED  BY <2>2, <2>3, <2>4
<1>3. /\ b \in Seq(S) /\ Len(b) = n - i
      /\ \A j \in 1 .. n - i : b[j] = s[i + j]
  <2>1. i + 1 \in Nat \ {0} /\ n \in Nat /\ n <= Len(s)  BY <1>1 DEF n
  <2>2. /\ b \in Seq(S) /\ Len(b) = IF i + 1 <= n THEN n - (i + 1) + 1 ELSE 0
        /\ \A j \in 1 .. Len(b) : b[j] = s[i + 1 + j - 1]
    BY <2>1, Part
  <2>3. Len(b) = n - i  BY <1>1, <2>2
  <2>4. \A j \in 1 .. n - i : i + 1 + j - 1 = i + j  BY <1>1
  <2> QED  BY <2>2, <2>3, <2>4
<1> HIDE DEF a, b
<1>4. /\ a \o b \in Seq(S) /\ Len(a \o b) = Len(a) + Len(b)
      /\ \A j \in 1 .. Len(a) + Len(b) :
            (a \o b)[j] = IF j <= Len(a) THEN a[j] ELSE b[j - Len(a)]
  BY <1>2, <1>3, ConcatProperties
<1>5. Len(a) + Len(b) = n - 1  BY <1>1, <1>2, <1>3
<1>6. ASSUME NEW j \in 1 .. n - 1
      PROVE  (a \o b)[j] = IF j < i THEN s[j] ELSE s[j + 1]
  <2>1. (a \o b)[j] = IF j <= i - 1 THEN a[j] ELSE b[j - (i - 1)]
    BY <1>2, <1>4, <1>5
  <2>2. CASE j < i
    <3>1. j <= i - 1 /\ j \in 1 .. i - 1  BY <1>1, <2>2
    <3> QED  BY <2>1, <2>2, <3>1, <1>2
  <2>3. CASE ~ (j < i)
    <3>1. /\ ~ (j <= i - 1) /\ j - (i - 1) \in 1 .. n - i
          /\ i + (j - (i - 1)) = j + 1
      BY <1>1, <2>3
    <3> QED  BY <2>1, <2>3, <3>1, <1>3
  <2> QED  BY <2>2, <2>3
<1>7. RemoveAt(s, i) = a \o b  BY DEF RemoveAt, a, b, n
<1> QED  BY <1>4, <1>5, <1>6, <1>7 DEF n

\* The elements of a list that repeats nothing, and their order, after an erase.
LEMMA EraseLeaves ==
  ASSUME NEW S, NEW s \in Seq(S), NEW i \in 1 .. Len(s), IsInjective(s)
  PROVE  /\ IsInjective(RemoveAt(s, i))
         /\ ToSet(RemoveAt(s, i)) = ToSet(s) \ {s[i]}
         /\ \A x, y : Precedes(RemoveAt(s, i), x, y)
                      <=> Precedes(s, x, y) /\ x # s[i] /\ y # s[i]
<1> DEFINE n == Len(s)
           r == RemoveAt(s, i)
           Old(j) == IF j < i THEN j ELSE j + 1
           New(j) == IF j < i THEN j ELSE j - 1
<1>1. n \in Nat /\ i \in 1 .. n /\ DOMAIN s = 1 .. n  BY LenProperties
<1>2. /\ r \in Seq(S) /\ Len(r) = n - 1
      /\ \A j \in 1 .. n - 1 : r[j] = IF j < i THEN s[j] ELSE s[j + 1]
  BY EraseAt
<1>3. DOMAIN r = 1 .. n - 1 /\ ToSet(r) = {r[j] : j \in 1 .. n - 1}
  BY <1>1, <1>2, Elements
<1>4. ToSet(s) = {s[j] : j \in 1 .. n}  BY Elements
<1>5. \A j, k \in 1 .. n : s[j] = s[k] => j = k  BY <1>1 DEF IsInjective
<1> HIDE DEF n, r
<1>6. \A j \in 1 .. n - 1 : Old(j) \in 1 .. n /\ Old(j) # i /\ r[j] = s[Old(j)]
  BY <1>1, <1>2
<1>7. \A j \in 1 .. n : j # i => /\ New(j) \in 1 .. n - 1 /\ Old(New(j)) = j
                                 /\ r[New(j)] = s[j]
  BY <1>1, <1>2
<1>8. \A j, k \in 1 .. n - 1 : /\ Old(j) = Old(k) => j = k
                               /\ j < k => Old(j) < Old(k)
  BY <1>1
<1>9. \A j, k \in 1 .. n : j # i /\ k # i /\ j < k => New(j) < New(k)
  BY <1>1
<1> HIDE DEF Old, New
<1>10. IsInjective(r)
  BY <1>3, <1>5, <1>6, <1>8 DEF IsInjective
<1>11. ToSet(r) = ToSet(s) \ {s[i]}
  <2>1. ASSUME NEW j \in 1 .. n - 1 PROVE r[j] \in ToSet(s) \ {s[i]}
    BY <1>1, <1>4, <1>5, <1>6
  <2>2. ASSUME NEW j \in 1 .. n, s[j] # s[i] PROVE s[j] \in ToSet(r)
    BY <1>1, <1>3, <1>7, <2>2
  <2> QED  BY <2>1, <2>2, <1>3, <1>4
<1>12. ASSUME NEW x, NEW y
       PROVE  Precedes(r, x, y) <=> Precedes(s, x, y) /\ x # s[i] /\ y # s[i]
  <2>1. ASSUME Precedes(r, x, y) PROVE Precedes(s, x, y) /\ x # s[i] /\ y # s[i]
    <3>1. PICK j, k \in 1 .. n - 1 : j < k /\ r[j] = x /\ r[k] = y
      BY <2>1, <1>3 DEF Precedes
    <3>2. /\ Old(j) \in 1 .. n /\ Old(k) \in 1 .. n /\ Old(j) < Old(k)
          /\ s[Old(j)] = x /\ s[Old(k)] = y /\ Old(j) # i /\ Old(k) # i
      BY <3>1, <1>6, <1>8
    <3> QED  BY <3>2, <1>1, <1>5 DEF Precedes
  <2>2. ASSUME Precedes(s, x, y), x # s[i], y # s[i] PROVE Precedes(r, x, y)
    <3>1. PICK j, k \in 1 .. n : j < k /\ s[j] = x /\ s[k] = y
      BY <2>2, <1>1 DEF Precedes
    <3>2. j # i /\ k # i  BY <2>2, <3>1
    <3>3. /\ New(j) \in 1 .. n - 1 /\ New(k) \in 1 .. n - 1 /\ New(j) < New(k)
          /\ r[New(j)] = x /\ r[New(k)] = y
      BY <3>1, <3>2, <1>7, <1>9
    <3> QED  BY <3>3, <1>3 DEF Precedes
  <2> QED  BY <2>1, <2>2
<1> QED  BY <1>10, <1>11, <1>12 DEF r

\* pop_back is an erase of the last.
LEMMA FrontErases ==
  ASSUME NEW S, NEW s \in Seq(S), s # <<>>
  PROVE  Len(s) \in 1 .. Len(s) /\ Front(s) = RemoveAt(s, Len(s)) /\ Last(s) = s[Len(s)]
<1> DEFINE n == Len(s)
           r == RemoveAt(s, n)
<1>1. n \in Nat \ {0}  BY EmptySeq
<1>2. n \in 1 .. n  BY <1>1
<1>3. /\ r \in Seq(S) /\ Len(r) = n - 1
      /\ \A j \in 1 .. n - 1 : r[j] = IF j < n THEN s[j] ELSE s[j + 1]
  BY <1>2, EraseAt
<1>4. /\ Front(s) \in Seq(S) /\ Len(Front(s)) = n - 1
      /\ \A j \in 1 .. n - 1 : Front(s)[j] = s[j]
  BY PopBack
<1> HIDE DEF n, r
<1>5. \A j \in 1 .. n - 1 : j < n  BY <1>1
<1>6. \A j \in 1 .. Len(Front(s)) : Front(s)[j] = r[j]  BY <1>3, <1>4, <1>5
<1>7. Front(s) = r  BY <1>3, <1>4, <1>6, SeqEqual
<1> QED  BY <1>2, <1>7 DEF n, r, Last

\* The order after a push_front: the new element is before all others.
LEMMA PushFrontOrder ==
  ASSUME NEW S, NEW s \in Seq(S), NEW e \in S, NEW x, NEW y
  PROVE  Precedes(<<e>> \o s, x, y) <=> Precedes(s, x, y) \/ (x = e /\ y \in ToSet(s))
<1> DEFINE n == Len(s)
           new == <<e>> \o s
<1>1. n \in Nat /\ DOMAIN s = 1 .. n /\ ToSet(s) = {s[i] : i \in 1 .. n}  BY Elements
<1>2. /\ new \in Seq(S) /\ Len(new) = n + 1 /\ new[1] = e
      /\ \A i \in 2 .. n + 1 : new[i] = s[i - 1]
  BY PushFront
<1>3. DOMAIN new = 1 .. n + 1  BY <1>1, <1>2, LenProperties
<1> HIDE DEF n, new
<1>4. ASSUME Precedes(new, x, y) PROVE Precedes(s, x, y) \/ (x = e /\ y \in ToSet(s))
  <2>1. PICK i, j \in 1 .. n + 1 : i < j /\ new[i] = x /\ new[j] = y
    BY <1>3, <1>4 DEF Precedes
  <2>2. j - 1 \in 1 .. n /\ y = s[j - 1]  BY <2>1, <1>1, <1>2
  <2>3. CASE i = 1  BY <2>1, <2>2, <2>3, <1>1, <1>2
  <2>4. CASE i # 1
    <3>1. i - 1 \in 1 .. n /\ x = s[i - 1] /\ i - 1 < j - 1  BY <2>1, <2>4, <1>1, <1>2
    <3> QED  BY <2>2, <3>1, <1>1 DEF Precedes
  <2> QED  BY <2>3, <2>4
<1>5. \A i \in 1 .. n : i + 1 \in 2 .. n + 1 /\ i + 1 \in 1 .. n + 1 /\ new[i + 1] = s[i]
  BY <1>1, <1>2
<1>6. ASSUME Precedes(s, x, y) PROVE Precedes(new, x, y)
  <2>1. PICK i, j \in 1 .. n : i < j /\ s[i] = x /\ s[j] = y  BY <1>1, <1>6 DEF Precedes
  <2>2. i + 1 < j + 1  BY <2>1
  <2> QED  BY <2>1, <2>2, <1>3, <1>5 DEF Precedes
<1>7. ASSUME x = e, y \in ToSet(s) PROVE Precedes(new, x, y)
  <2>1. PICK j \in 1 .. n : y = s[j]  BY <1>1, <1>7
  <2>2. 1 < j + 1 /\ 1 \in 1 .. n + 1  BY <1>1
  <2> QED  BY <2>1, <2>2, <1>2, <1>3, <1>5, <1>7 DEF Precedes
<1> QED  BY <1>4, <1>6, <1>7 DEF new

\* The last comes after all others.
LEMMA LastAfter ==
  ASSUME NEW S, NEW s \in Seq(S), NEW x \in ToSet(s), x # Last(s)
  PROVE  Precedes(s, x, Last(s))
<1>1. Len(s) \in Nat /\ DOMAIN s = 1 .. Len(s)  BY Elements
<1>2. PICK i \in 1 .. Len(s) : x = s[i]  BY Elements
<1>3. i < Len(s) /\ Len(s) \in 1 .. Len(s)  BY <1>1, <1>2 DEF Last
<1> QED  BY <1>1, <1>2, <1>3 DEF Precedes, Last

\* erase of an element that is there.
LEMMA EraseElement ==
  ASSUME NEW S, NEW s \in Seq(S), IsInjective(s), NEW e \in ToSet(s)
  PROVE  \E i \in 1 .. Len(s) : s[i] = e /\ RemoveFirst(s, e) = RemoveAt(s, i)
<1> DEFINE I == {i \in 1 .. Len(s) : s[i] = e}
<1>1. PICK i \in 1 .. Len(s) : s[i] = e  BY Elements
<1>2. DOMAIN s = 1 .. Len(s)  BY Elements
<1>3. I = {i}  BY <1>1, <1>2 DEF IsInjective
<1>4. Min({i}) = i  BY DEF Min
<1>5. SelectInSeq(s, LAMBDA v : v = e) = i  BY <1>3, <1>4 DEF SelectInSeq
<1> QED  BY <1>1, <1>5 DEF RemoveFirst

\* A list that repeats nothing is as long as its elements are many.
LEMMA InjectiveLength ==
  ASSUME NEW S, NEW s \in Seq(S), IsInjective(s)
  PROVE  IsFiniteSet(ToSet(s)) /\ Cardinality(ToSet(s)) = Len(s)
<1>1. Len(s) \in Nat /\ DOMAIN s = 1 .. Len(s) /\ s \in [1 .. Len(s) -> ToSet(s)]
  BY Elements, LenProperties
<1>2. \A e \in ToSet(s) : \E i \in 1 .. Len(s) : s[i] = e  BY Elements
<1>3. s \in Bijection(1 .. Len(s), ToSet(s))
  BY <1>1, <1>2 DEF IsInjective, Bijection, Injection, Surjection
<1>4. ExistsBijection(1 .. Len(s), ToSet(s))  BY <1>3 DEF ExistsBijection
<1>5. IsFiniteSet(1 .. Len(s)) /\ Cardinality(1 .. Len(s)) = Len(s)
  BY <1>1, FS_Interval
<1> QED  BY <1>4, <1>5, FS_Bijection

\* A set of numbers has a least element: the induction the proofs about sums use.
LEMMA NatMin ==
  ASSUME NEW T \in SUBSET Nat, T # {}
  PROVE  \E n \in T : \A m \in T : n <= m
  <1> DEFINE Less == {ss \in Nat \X Nat : ss[1] < ss[2]}
  <1>1. OpToRel(<, Nat) = Less
    BY DEF OpToRel
  <1>2. IsWellFoundedOn(Less, Nat)
    BY <1>1, NatLessThanWellFounded, Zenon
  <1>3. PICK n \in T : \A m \in T : <<m, n>> \notin Less
    <2> HIDE DEF Less
    <2> QED
      BY <1>2, WFMin
  <1>4. ASSUME NEW m \in T PROVE n <= m
    <2>1. ~(m < n)
      BY <1>3
    <2> QED
      BY <2>1
  <1> QED
    BY <1>4

\* The least and the greatest of some numbers up to n.
LEMMA Extremes ==
  ASSUME NEW n \in Nat, NEW T, T \subseteq 1 .. n, T # {}
  PROVE  /\ Min(T) \in T /\ Max(T) \in T
         /\ \A x \in T : Min(T) <= x /\ x <= Max(T)
  <1>1. T \subseteq Nat
    OBVIOUS
  <1>2. \E x \in T : \A y \in T : x <= y
    BY <1>1, NatMin
  <1>3. \E x \in T : \A y \in T : x >= y
    <2> DEFINE U == {u \in 0 .. n : \A y \in T : y <= u}
    <2>1. n \in U /\ U \subseteq Nat
      OBVIOUS
    <2>2. PICK u \in U : \A w \in U : u <= w
      <3> HIDE DEF U
      <3> QED
        BY <2>1, NatMin
    <2>3. u \in 0 .. n /\ \A y \in T : y <= u
      OBVIOUS
    <2>4. ASSUME u \notin T PROVE FALSE
      <3>1. u # 0
        <4>1. PICK y \in T : TRUE
          OBVIOUS
        <4>2. y <= u /\ 1 <= y
          BY <2>3, <4>1
        <4> QED
          BY <4>2
      <3>2. \A y \in T : y <= u - 1
        BY <1>1, <2>3, <2>4
      <3>3. u - 1 \in U
        BY <2>3, <3>1, <3>2
      <3> HIDE DEF U
      <3> QED
        BY <2>2, <2>3, <3>3
    <2> HIDE DEF U
    <2> QED
      BY <1>1, <2>3, <2>4
  <1>4. Min(T) \in T /\ \A y \in T : Min(T) <= y
    BY <1>2, Zenon DEF Min
  <1>5. Max(T) \in T /\ \A y \in T : Max(T) >= y
    BY <1>3, Zenon DEF Max
  <1> QED
    BY <1>1, <1>4, <1>5

\* r goes through the rounds of a loop, each a step from the one before.
Rolls(r, St, start, step, n) ==
  /\ r \in [0 .. n -> St] /\ r[0] = start
  /\ \A i \in 1 .. n : r[i] = step[i][r[i - 1]]

LEMMA Rounds ==
  ASSUME NEW St, NEW n \in Nat, NEW step \in [1 .. n -> [St -> St]], NEW start \in St
  PROVE  \E r : Rolls(r, St, start, step, n)
  <1> DEFINE Goes(r, m) == Rolls(r, St, start, step, m)
             T == {m \in 0 .. n : ~ \E r : Goes(r, m)}
  <1>0. T \subseteq Nat /\ T \subseteq 0 .. n
    <2>1. 0 .. n \subseteq Nat
      OBVIOUS
    <2>2. T \subseteq 0 .. n
      BY Zenon
    <2> QED
      BY <2>1, <2>2, Zenon
  <1>1. ASSUME T # {} PROVE FALSE
    <2>1. PICK m \in T : \A k \in T : m <= k
      <3> HIDE DEF T
      <3> QED
        BY <1>0, <1>1, NatMin
    <2>2. CASE m = 0
      <3> DEFINE r0 == [i \in 0 .. 0 |-> start]
      <3>1. Goes(r0, 0)
        BY DEF Rolls
      <3> HIDE DEF Goes, r0
      <3> QED
        BY <2>1, <2>2, <3>1
    <2>3. CASE m # 0
      <3>1. m - 1 \in Nat /\ m \in Nat /\ m - 1 \notin T
        <4> HIDE DEF T
        <4> QED
          BY <1>0, <2>1, <2>3
      <3>2. PICK r : Goes(r, m - 1)
        <4>1. m - 1 \in 0 .. n
          BY <1>0, <2>1, <3>1
        <4> QED
          BY ONLY <3>1, <4>1, Zenon DEF T
      <3> DEFINE q == [i \in 0 .. m |-> IF i = m THEN step[m][r[m - 1]] ELSE r[i]]
      <3>3. \A i \in 0 .. m : i # m => i \in 0 .. m - 1
        BY <3>1
      <3>4. r[m - 1] \in St /\ m \in 1 .. n /\ step[m][r[m - 1]] \in St
        BY <1>0, <2>1, <2>3, <3>1, <3>2 DEF Rolls
      <3>5. q \in [0 .. m -> St] /\ q[0] = start
        BY <2>3, <3>1, <3>2, <3>3, <3>4 DEF Rolls
      <3>6. ASSUME NEW i \in 1 .. m PROVE q[i] = step[i][q[i - 1]]
        <4>1. i - 1 \in 0 .. m /\ i - 1 # m /\ i \in 0 .. m
          BY <3>1
        <4>2. q[i - 1] = r[i - 1]
          BY <4>1
        <4>3. CASE i = m
          BY <4>1, <4>2, <4>3
        <4>4. CASE i # m
          <5>1. i \in 1 .. m - 1
            BY <3>1, <4>4
          <5> QED
            BY <3>2, <4>1, <4>2, <4>4, <5>1 DEF Rolls
        <4> QED
          BY <4>3, <4>4
      <3>7. Goes(q, m)
        <4> HIDE DEF q
        <4> QED
          BY <3>5, <3>6 DEF Rolls
      <3> QED
        BY <2>1, <3>7
    <2> QED
      BY <2>2, <2>3
  <1>2. n \in 0 .. n
    OBVIOUS
  <1> QED
    BY <1>1, <1>2, Zenon

\* Joining three lists, in either order.
Associates(d, p, b) == (d \o p) \o b = d \o (p \o b)

LEMMA JoinsThree ==
  ASSUME NEW S, NEW d \in Seq(S), NEW p \in Seq(S), NEW b \in Seq(S)
  PROVE  Associates(d, p, b)
  BY ConcatAssociative DEF Associates

\* Two functions that begin alike and go on alike are alike.
LEMMA Alike ==
  ASSUME NEW n \in Nat, NEW f, NEW g, f[0] = g[0],
         \A i \in 1 .. n : f[i - 1] = g[i - 1] => f[i] = g[i]
  PROVE  \A i \in 0 .. n : f[i] = g[i]
  <1> DEFINE T == {i \in 0 .. n : f[i] # g[i]}
  <1>1. T \subseteq Nat /\ T \subseteq 0 .. n
    OBVIOUS
  <1>2. ASSUME T # {} PROVE FALSE
    <2>1. PICK i \in T : \A m \in T : i <= m
      <3> HIDE DEF T
      <3> QED
        BY <1>1, <1>2, NatMin
    <2>2. i # 0
      BY <2>1
    <2>3. i \in 1 .. n /\ i - 1 \in 0 .. n /\ i - 1 \notin T
      <3> HIDE DEF T
      <3> QED
        BY <1>1, <2>1, <2>2
    <2>4. f[i - 1] = g[i - 1]
      BY ONLY <2>3, Zenon DEF T
    <2>5. f[i] = g[i]
      BY <2>3, <2>4
    <2> QED
      BY <2>1, <2>5
  <1> QED
    BY <1>2, Zenon
=============================================================================
