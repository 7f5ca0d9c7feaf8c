------------------------------- MODULE WalProof -------------------------------
(***************************************************************************)
(* What Wal.tla promises, proved for every number of threads, sizes of the *)
(* buffer and of a file, batches, files, crashes and restarts.             *)
(***************************************************************************)
EXTENDS Wal, ListLemmas

Word == Nat \cup {Torn}

Typed ==
  /\ files \in [0 .. MaxFile -> Seq(Word) \cup {None}]
  /\ up \in BOOLEAN
  /\ active \in 0 .. MaxFile /\ log_file \in 0 .. active
  /\ buffer \in Seq(Nat) /\ prev \in [Thread -> Seq(Nat) \cup {None}]
  /\ count \in Nat /\ first \in 1 .. count + 1

\* The mutex is held by whoever writes, and there is one of them at most.
LockInv ==
  /\ mutex_ = {t \in Thread : In(t)}
  /\ \A t, u \in Thread : In(t) /\ In(u) => t = u
  /\ ~ up => \A t \in Thread : ~ In(t)

\* The stream is that of the last file that was opened.
OpenInv ==
  /\ opened \subseteq 0 .. log_file
  /\ \A n \in opened : files[n] \in Seq(Word)
  /\ up => log_file \in opened

\* What recover would read, file by file.
Content(n) == IF n - 1 \in opened THEN files[n - 1] ELSE <<>>
Top        == MaxFile + 1

\* f[n] is what the first n files hold.
Read(f) ==
  /\ f \in [0 .. Top -> Seq(Word)] /\ f[0] = <<>>
  /\ \A n \in 1 .. Top : f[n] = f[n - 1] \o Content(n)

DiskInv == \E f : Read(f)

Inv == Typed /\ LockInv /\ OpenInv /\ DiskInv /\ LogExact
-----------------------------------------------------------------------------
(* The files, put together.                                                *)

LEMMA ContentType ==
  ASSUME Typed, OpenInv
  PROVE  /\ Top \in Nat /\ Top >= 1
         /\ \A n \in 1 .. Top : Content(n) \in Seq(Word) /\ n - 1 \in 0 .. MaxFile
  <1>1. Top \in Nat /\ Top >= 1 /\ MaxFile \in Nat
    BY WalAssumption DEF Top
  <1>2. <<>> \in Seq(Word)
    BY EmptySeq
  <1> QED
    BY <1>1, <1>2 DEF Content, OpenInv, Top

\* Reading file by file gives what Disk is.
LEMMA DiskIs ==
  ASSUME Typed, OpenInv, NEW f, Read(f)
  PROVE  Disk = f[Top] /\ Disk \in Seq(Word)
  <1> DEFINE parts == [n \in 1 .. MaxFile + 1 |-> IF n - 1 \in opened THEN files[n - 1]
                                                  ELSE <<>>]
             Recur(h) == h = [i \in 1 .. Len(parts) |-> IF i = 1 THEN parts[i]
                                                        ELSE h[i - 1] \o parts[i]]
             e == [i \in 1 .. Top |-> f[i]]
             g == CHOOSE h : Recur(h)
             T == {i \in 1 .. Top : f[i] # g[i]}
  <1>1. /\ Top \in Nat /\ Top >= 1
        /\ \A n \in 1 .. Top : Content(n) \in Seq(Word)
    BY ContentType
  <1>2. parts \in Seq(Seq(Word)) /\ Len(parts) = Top
        /\ \A n \in 1 .. Top : parts[n] = Content(n)
    <2>1. parts = [n \in 1 .. Top |-> Content(n)]
      BY DEF Top, Content
    <2>2. parts \in [1 .. Top -> Seq(Word)]
      BY <1>1, <2>1
    <2>3. \A n \in 1 .. Top : parts[n] = Content(n)
      BY <2>1
    <2> HIDE DEF parts
    <2>4. parts \in Seq(Seq(Word)) /\ Len(parts) = Top
      BY <1>1, <2>2
    <2> QED
      BY <2>3, <2>4
  <1>3. /\ f[0] = <<>> /\ \A n \in 1 .. Top : f[n] = f[n - 1] \o Content(n)
        /\ \A n \in 0 .. Top : f[n] \in Seq(Word)
    BY DEF Read
  <1>4. Disk = g[Top]
    <2>1. Len(parts) # 0 /\ Len(parts) = Top
      <3> HIDE DEF parts
      <3> QED
        BY <1>1, <1>2
    <2> QED
      BY <2>1, Zenon DEF Disk, FlattenSeq
  <1>5. \A i \in 1 .. Top : f[i] = IF i = 1 THEN parts[i] ELSE f[i - 1] \o parts[i]
    <2> HIDE DEF parts
    <2>1. f[1] = parts[1]
      <3>1. 1 \in 1 .. Top /\ 1 - 1 = 0
        BY <1>1
      <3>2. f[1] = f[0] \o parts[1] /\ parts[1] \in Seq(Word)
        BY <1>1, <1>2, <1>3, <3>1
      <3> QED
        BY <1>3, <3>2, ConcatEmptySeq
    <2> QED
      BY <1>2, <1>3, <2>1
  <1> HIDE DEF parts
  <1>6. Recur(e)
    <2>1. \A i \in 1 .. Top : i # 1 => e[i - 1] = f[i - 1]
      BY <1>1
    <2>2. \A i \in 1 .. Top : f[i] = IF i = 1 THEN parts[i] ELSE e[i - 1] \o parts[i]
      BY <1>5, <2>1
    <2>3. e = [i \in 1 .. Top |-> IF i = 1 THEN parts[i] ELSE e[i - 1] \o parts[i]]
      BY <2>2
    <2> QED
      BY <1>2, <2>3
  <1>7. Recur(g)
    <2> HIDE DEF Recur, e
    <2> QED
      BY <1>6
  <1> HIDE DEF g, e
  <1>8. \A i \in 1 .. Top : g[i] = IF i = 1 THEN parts[i] ELSE g[i - 1] \o parts[i]
    BY ONLY <1>2, <1>7, Zenon
  <1>9. ASSUME T # {} PROVE FALSE
    <2>1. T \in SUBSET Nat
      BY <1>1
    <2>2. PICK i \in T : \A m \in T : i <= m
      <3> HIDE DEF T
      <3> QED
        BY <1>9, <2>1, NatMin
    <2>3. i \in 1 .. Top /\ i # 1
      BY <1>1, <1>5, <1>8, <2>2
    <2>4. i - 1 \in 1 .. Top /\ i - 1 \notin T
      BY <1>1, <2>2, <2>3
    <2> QED
      BY <1>5, <1>8, <2>2, <2>3, <2>4
  <1>10. f[Top] = g[Top]
    <2>1. Top \in 1 .. Top
      BY ONLY <1>1
    <2>2. \A i \in 1 .. Top : f[i] = g[i]
      BY <1>9, Zenon
    <2> QED
      BY ONLY <2>1, <2>2, Zenon
  <1>11. f[Top] \in Seq(Word)
    BY ONLY <1>1, <1>3
  <1> QED
    BY ONLY <1>4, <1>10, <1>11, Zenon

\* The same of every step's two states.
DiskOf == Typed /\ OpenInv => \A f : Read(f) => Disk = f[Top] /\ Disk \in Seq(Word)

LEMMA DiskSays == DiskOf /\ DiskOf'
  <1>1. DiskOf
    BY DiskIs DEF DiskOf
  <1> QED
    BY <1>1, PTL

\* A step that leaves the parts leaves the disk.
LEMMA DiskKept ==
  ASSUME Typed, OpenInv, DiskInv, Typed', OpenInv',
         \A n \in 1 .. Top : Content(n)' = Content(n)
  PROVE  DiskInv' /\ Disk' = Disk
  <1>1. PICK f : Read(f)
    BY DEF DiskInv
  <1>2. Read(f)'
    BY <1>1 DEF Read, Top
  <1> QED
    BY <1>1, <1>2, DiskSays DEF DiskOf, DiskInv, Top

\* An element appended to the second of two lists is appended to both together.
AppendsLast(s, d, r) == Append(s \o d, r) = s \o Append(d, r)

LEMMA AppendConcat ==
  ASSUME NEW S, NEW s \in Seq(S), NEW d \in Seq(S), NEW r \in S
  PROVE  AppendsLast(s, d, r)
  <1>1. PICK o \in Seq(S) : o = <<r>>
    <2>1. <<r>> \in Seq(S)
      OBVIOUS
    <2> QED
      BY <2>1, Zenon
  <1>2. (s \o d) \o o = s \o (d \o o)
    BY ConcatAssociative
  <1>3. PICK u \in Seq(S) : u = s \o d
    BY ConcatProperties
  <1>4. Append(u, r) = u \o <<r>> /\ Append(d, r) = d \o <<r>>
    BY AppendIsConcat
  <1> QED
    BY ONLY <1>1, <1>2, <1>3, <1>4, Zenon DEF AppendsLast

\* A record appended to the last file is appended to the disk.
LEMMA DiskAppend ==
  ASSUME Typed, OpenInv, DiskInv, Typed', OpenInv', up, NEW r \in Word,
         files' = [files EXCEPT ![log_file] = Append(@, r)],
         opened' = opened
  PROVE  DiskInv' /\ Disk' = Append(Disk, r)
  <1>a. PICK k : k = log_file + 1
    OBVIOUS
  <1>1. /\ Top \in Nat /\ Top >= 1 /\ Top = MaxFile + 1 /\ k \in 1 .. Top
        /\ log_file \in 0 .. MaxFile /\ log_file \in opened
        /\ \A n \in 1 .. Top : Content(n) \in Seq(Word) /\ n - 1 \in 0 .. MaxFile
    <2>1. /\ Top \in Nat /\ Top >= 1
          /\ \A n \in 1 .. Top : Content(n) \in Seq(Word) /\ n - 1 \in 0 .. MaxFile
      BY ContentType
    <2>2. active \in 0 .. MaxFile /\ log_file \in 0 .. active /\ log_file \in opened
      BY DEF Typed, OpenInv
    <2>3. MaxFile \in Nat /\ Top = MaxFile + 1
      BY WalAssumption DEF Top
    <2> QED
      BY <1>a, <2>1, <2>2, <2>3
  <1>2. PICK f : Read(f)
    BY DEF DiskInv
  <1>3. /\ f \in [0 .. Top -> Seq(Word)] /\ f[0] = <<>>
        /\ \A n \in 1 .. Top : f[n] = f[n - 1] \o Content(n)
    BY <1>2 DEF Read
  <1>g. PICK g : g = [n \in 0 .. Top |-> IF n < k THEN f[n] ELSE Append(f[n], r)]
    OBVIOUS
  <1>4. Content(k)' = Append(Content(k), r)
    <2>1. k - 1 = log_file /\ k - 1 \in 0 .. MaxFile
      BY <1>1, <1>a
    <2>2. files'[log_file] = Append(files[log_file], r)
      BY <1>1 DEF Typed
    <2> QED
      BY <1>1, <2>1, <2>2 DEF Content
  <1>5. \A n \in 1 .. Top : n # k => Content(n)' = Content(n)
    <2> SUFFICES ASSUME NEW n \in 1 .. Top, n # k PROVE Content(n)' = Content(n)
      OBVIOUS
    <2>1. n - 1 # log_file /\ n - 1 \in 0 .. MaxFile
      BY <1>1, <1>a
    <2>2. files'[n - 1] = files[n - 1]
      BY <2>1 DEF Typed
    <2> QED
      BY <2>2 DEF Content
  <1>6. \A n \in 1 .. Top : n > k => Content(n) = <<>>
    BY <1>1, <1>a DEF Content, OpenInv, Typed
  <1>b. k \in Nat /\ k >= 1 /\ k <= Top
    BY <1>1, <1>a
  <1>7. g \in [0 .. Top -> Seq(Word)] /\ g[0] = <<>>
    <2>1. \A n \in 0 .. Top : Append(f[n], r) \in Seq(Word)
      BY <1>3, AppendProperties
    <2> QED
      BY <1>1, <1>3, <1>b, <1>g, <2>1
  <1>8. ASSUME NEW n \in 1 .. Top PROVE g[n] = g[n - 1] \o Content(n)'
    <2>0. /\ n - 1 \in 0 .. Top /\ n \in 0 .. Top
          /\ f[n] = f[n - 1] \o Content(n) /\ Content(n) \in Seq(Word)
          /\ f[n] \in Seq(Word) /\ f[n - 1] \in Seq(Word)
      <3>1. n - 1 \in 0 .. Top /\ n \in 0 .. Top
        BY <1>1
      <3>2. f[n] = f[n - 1] \o Content(n) /\ Content(n) \in Seq(Word)
        BY <1>1, <1>3
      <3>3. f[n] \in Seq(Word) /\ f[n - 1] \in Seq(Word)
        BY <1>3, <3>1
      <3> QED
        BY <3>1, <3>2, <3>3
    <2>1. /\ n < k => g[n] = f[n] /\ g[n - 1] = f[n - 1]
          /\ n = k => g[n] = Append(f[n], r) /\ g[n - 1] = f[n - 1]
          /\ n > k => g[n] = Append(f[n], r) /\ g[n - 1] = Append(f[n - 1], r)
      <3>1. g[n] = IF n < k THEN f[n] ELSE Append(f[n], r)
        BY <1>g, <2>0
      <3>2. g[n - 1] = IF n - 1 < k THEN f[n - 1] ELSE Append(f[n - 1], r)
        BY <1>g, <2>0
      <3>3. n \in Nat /\ (n < k => n - 1 < k) /\ (n = k => n - 1 < k)
            /\ (n > k => ~ (n - 1 < k))
        BY <1>1, <1>b
      <3> QED
        BY <1>b, <3>1, <3>2, <3>3
    <2>2. CASE n < k
      <3>1. Content(n)' = Content(n)
        BY <1>5, <1>b, <2>2
      <3> QED
        BY <2>0, <2>1, <2>2, <3>1
    <2>3. CASE n = k
      <3>1. f[n - 1] \in Seq(Word) /\ Content(n) \in Seq(Word)
        BY <2>0
      <3>2. AppendsLast(f[n - 1], Content(n), r)
        BY <3>1, AppendConcat
      <3>3. Append(f[n - 1] \o Content(n), r) = f[n - 1] \o Append(Content(n), r)
        BY ONLY <3>2, Zenon DEF AppendsLast
      <3> QED
        BY <1>4, <2>0, <2>1, <2>3, <3>3
    <2>4. CASE n > k
      <3>1. Content(n)' = <<>> /\ Content(n) = <<>>
        BY <1>b, <1>5, <1>6, <2>4
      <3>2. f[n] = f[n - 1]
        BY <2>0, <3>1, ConcatEmptySeq
      <3>3. Append(f[n - 1], r) \in Seq(Word)
        BY <2>0, AppendProperties
      <3> QED
        BY <2>1, <2>4, <3>1, <3>2, <3>3, ConcatEmptySeq
    <2> QED
      BY <1>1, <1>b, <2>2, <2>3, <2>4
  <1>9. g[Top] = Append(f[Top], r)
    BY <1>1, <1>b, <1>g
  <1>10. Read(g)'
    BY <1>7, <1>8 DEF Read, Top
  <1> QED
    BY <1>2, <1>9, <1>10, DiskSays DEF DiskOf, DiskInv, Top
-----------------------------------------------------------------------------
(* What is on its way to the files.                                        *)

LEMMA PendingIs ==
  ASSUME LockInv
  PROVE  /\ (\A t \in Thread : ~ In(t)) => Pending = <<>>
         /\ \A t \in Thread : In(t) => Pending = prev[t]
  BY DEF LockInv, Pending

PendingOf == LockInv => /\ (\A t \in Thread : ~ In(t)) => Pending = <<>>
                        /\ \A t \in Thread : In(t) => Pending = prev[t]

LEMMA PendingSays == PendingOf /\ PendingOf'
  <1>1. PendingOf
    BY PendingIs DEF PendingOf
  <1> QED
    BY <1>1, PTL

\* The first record of a list moves to the end of the one before it.
MovesHead(d, p) == Append(d, Head(p)) \o Tail(p) = d \o p

LEMMA MoveHead ==
  ASSUME NEW S, NEW d \in Seq(S), NEW p \in Seq(S), p # <<>>
  PROVE  MovesHead(d, p)
  <1>1. PICK h \in S, u \in Seq(S) : h = Head(p) /\ u = Tail(p)
    BY HeadTailProperties
  <1>2. PICK o \in Seq(S) : o = <<h>>
    <2>1. <<h>> \in Seq(S)
      OBVIOUS
    <2> QED
      BY <2>1, Zenon
  <1>3. p = o \o u
    <2>1. 1 \in 1 .. Len(p) /\ Len(p) \in 1 .. Len(p)
      BY EmptySeq, LenProperties
    <2>2. SubSeq(p, 1, Len(p)) = <<p[1]>> \o SubSeq(p, 1 + 1, Len(p))
      BY <2>1, SubSeqRecursiveFirst
    <2>3. SubSeq(p, 1, Len(p)) = p /\ Tail(p) = SubSeq(p, 1 + 1, Len(p)) /\ Head(p) = p[1]
      BY SubSeqFull, TailIsSubSeq
    <2> QED
      BY ONLY <1>1, <1>2, <2>2, <2>3, Zenon
  <1>4. Append(d, h) = d \o <<h>>
    BY AppendIsConcat
  <1>5. (d \o o) \o u = d \o (o \o u)
    BY ConcatAssociative
  <1> QED
    BY ONLY <1>1, <1>2, <1>3, <1>4, <1>5, Zenon DEF MovesHead

LEMMA LoggedType ==
  ASSUME Typed
  PROVE  /\ Logged \in Seq(Nat) /\ Logged \in Seq(Word) /\ Len(Logged) = count - first + 1
         /\ \A i \in 1 .. Len(Logged) : Logged[i] = first + i - 1
  <1>1. count - first + 1 \in Nat /\ first \in Nat
    BY DEF Typed
  <1>2. Logged \in Seq(Nat) /\ Len(Logged) = count - first + 1
        /\ \A i \in 1 .. Len(Logged) : Logged[i] = first + i - 1
    BY <1>1 DEF Logged
  <1>3. Logged \in Seq(Word)
    BY <1>2, SeqMonotonic DEF Word
  <1> QED
    BY <1>2, <1>3
-----------------------------------------------------------------------------
(* Types, lock and files.                                                  *)

LEMMA FileType ==
  ASSUME Typed, OpenInv
  PROVE  /\ MaxFile \in Nat /\ log_file \in 0 .. MaxFile /\ opened \subseteq 0 .. MaxFile
         /\ log_file \in Nat /\ active \in Nat /\ log_file <= active
  <1>1. MaxFile \in Nat
    BY WalAssumption
  <1> QED
    BY <1>1 DEF Typed, OpenInv

LEMMA FilesTyped ==
  ASSUME Typed, OpenInv, NEW n \in 0 .. MaxFile, NEW s \in Seq(Word),
         files' = [files EXCEPT ![n] = s],
         opened' = opened \/ opened' = opened \cup {n} \/ opened' = {n}
  PROVE  /\ files' \in [0 .. MaxFile -> Seq(Word) \cup {None}]
         /\ \A m \in opened' : files'[m] \in Seq(Word)
  <1>1. /\ files \in [0 .. MaxFile -> Seq(Word) \cup {None}]
        /\ \A m \in opened : m \in 0 .. MaxFile /\ files[m] \in Seq(Word)
    BY FileType DEF Typed, OpenInv
  <1> QED
    BY <1>1

\* The records a call adds, in the order in which it was given them.
Batch(n) == [i \in 1 .. n |-> count + i]

LEMMA BatchType ==
  ASSUME Typed, NEW n \in 1 .. MaxBatch
  PROVE  /\ Batch(n) \in Seq(Nat) /\ Len(Batch(n)) = n /\ n \in Nat
         /\ \A i \in 1 .. n : Batch(n)[i] = count + i
         /\ buffer \o Batch(n) \in Seq(Nat)
  <1>1. n \in Nat /\ count \in Nat
    BY WalAssumption DEF Typed
  <1>2. Batch(n) \in Seq(Nat) /\ Len(Batch(n)) = n
        /\ \A i \in 1 .. n : Batch(n)[i] = count + i
    BY <1>1 DEF Batch
  <1>3. buffer \o Batch(n) \in Seq(Nat)
    <2>1. buffer \in Seq(Nat)
      BY DEF Typed
    <2> QED
      BY <1>2, <2>1, ConcatProperties
  <1> QED
    BY <1>1, <1>2, <1>3

LEMMA TypeStart ==
  ASSUME Typed, LockInv, OpenInv, Start
  PROVE  Typed' /\ LockInv' /\ OpenInv'
  <1>1. 0 \in 0 .. MaxFile /\ <<>> \in Seq(Word) /\ <<>> \in Seq(Nat)
    BY WalAssumption, EmptySeq
  <1>2. /\ files' \in [0 .. MaxFile -> Seq(Word) \cup {None}]
        /\ \A m \in opened' : files'[m] \in Seq(Word)
    BY <1>1, FilesTyped DEF Start, Create
  <1> QED
    BY <1>1, <1>2 DEF Typed, LockInv, OpenInv, Start, In

LEMMA TypeCrash ==
  ASSUME Typed, LockInv, OpenInv, Crash
  PROVE  Typed' /\ LockInv' /\ OpenInv'
  <1>1. /\ files' \in [0 .. MaxFile -> Seq(Word) \cup {None}]
        /\ \A m \in opened' : files'[m] \in Seq(Word)
    <2>1. CASE files' = files
      BY <2>1 DEF Typed, OpenInv, Crash
    <2>2. CASE files' = [files EXCEPT ![log_file] = Append(@, Torn)]
      <3>1. log_file \in 0 .. MaxFile /\ Append(files[log_file], Torn) \in Seq(Word)
        <4>1. log_file \in opened /\ log_file \in 0 .. MaxFile /\ Torn \in Word
          BY FileType DEF OpenInv, Crash, Word
        <4>2. files[log_file] \in Seq(Word)
          BY <4>1 DEF OpenInv
        <4> QED
          BY <4>1, <4>2, AppendProperties
      <3> QED
        BY <2>2, <3>1, FilesTyped DEF Crash
    <2> QED
      BY <2>1, <2>2 DEF Crash
  <1>2. prev' \in [Thread -> Seq(Nat) \cup {None}] /\ \A t \in Thread : ~ In(t)'
    BY DEF Crash, In
  <1>3. <<>> \in Seq(Nat)
    BY EmptySeq
  <1>4. Typed'
    BY <1>1, <1>2, <1>3 DEF Typed, Crash
  <1> QED
    BY <1>1, <1>2, <1>4 DEF LockInv, OpenInv, Crash

LEMMA TypeLog ==
  ASSUME Typed, LockInv, OpenInv, NEW t \in Thread, NEW n \in 1 .. MaxBatch,
         NEW force_flush \in BOOLEAN, log(t, n, force_flush)
  PROVE  Typed' /\ LockInv' /\ OpenInv'
  <1> DEFINE all == buffer \o Batch(n)
  <1>1. all \in Seq(Nat) /\ n \in Nat /\ <<>> \in Seq(Nat) /\ None \notin Seq(Nat)
    BY BatchType, EmptySeq, WalAssumption
  <1>2. /\ up /\ mutex_ = {} /\ count' = count + n
        /\ UNCHANGED <<files, up, active, log_file, opened, first>>
        /\ \/ buffer' = all /\ UNCHANGED <<mutex_, prev>>
           \/ buffer' = <<>> /\ prev' = [prev EXCEPT ![t] = all] /\ mutex_' = {t}
    BY DEF log, Batch
  <1> HIDE DEF all
  <1>3. CASE buffer' = all /\ UNCHANGED <<mutex_, prev>>
    BY <1>1, <1>2, <1>3 DEF Typed, LockInv, OpenInv, In
  <1>4. CASE buffer' = <<>> /\ prev' = [prev EXCEPT ![t] = all] /\ mutex_' = {t}
    <2>1. \A u \in Thread : In(u)' <=> u = t
      BY <1>1, <1>2, <1>4 DEF Typed, LockInv, In
    <2>2. Typed'
      BY <1>1, <1>2, <1>4 DEF Typed
    <2> QED
      BY <1>2, <1>4, <2>1, <2>2 DEF LockInv, OpenInv
  <1> QED
    BY <1>2, <1>3, <1>4

LEMMA TypeAppend ==
  ASSUME Typed, LockInv, OpenInv, NEW t \in Thread, append(t)
  PROVE  /\ Typed' /\ LockInv' /\ OpenInv'
         /\ up /\ prev[t] \in Seq(Nat) /\ Head(prev[t]) \in Word /\ Head(prev[t]) \in Nat
         /\ prev'[t] = Tail(prev[t]) /\ In(t)'
  <1>1. up /\ prev[t] \in Seq(Nat) /\ prev[t] # <<>> /\ None \notin Seq(Nat)
    BY WalAssumption DEF Typed, LockInv, append, In
  <1>2. Head(prev[t]) \in Nat /\ Head(prev[t]) \in Word /\ Tail(prev[t]) \in Seq(Nat)
    BY <1>1, HeadTailProperties DEF Word
  <1>3. log_file \in 0 .. MaxFile /\ Append(files[log_file], Head(prev[t])) \in Seq(Word)
    <2>1. log_file \in 0 .. MaxFile /\ log_file \in opened
      BY <1>1, FileType DEF OpenInv
    <2>2. files[log_file] \in Seq(Word)
      BY <2>1 DEF OpenInv
    <2> QED
      BY <1>2, <2>1, <2>2, AppendProperties
  <1>4. /\ files' \in [0 .. MaxFile -> Seq(Word) \cup {None}]
        /\ \A m \in opened' : files'[m] \in Seq(Word)
    BY <1>3, FilesTyped DEF append
  <1>5. /\ prev' = [prev EXCEPT ![t] = Tail(prev[t])]
        /\ prev' \in [Thread -> Seq(Nat) \cup {None}] /\ prev'[t] = Tail(prev[t])
    BY <1>2 DEF Typed, append
  <1>6. \A u \in Thread : In(u)' <=> In(u)
    BY <1>1, <1>2, <1>5 DEF In, Typed, append
  <1>7. Typed'
    BY <1>4, <1>5 DEF Typed, append
  <1>8. LockInv'
    BY <1>6 DEF LockInv, append
  <1>9. OpenInv'
    BY <1>4 DEF OpenInv, append
  <1> QED
    BY <1>1, <1>2, <1>5, <1>6, <1>7, <1>8, <1>9 DEF append

\* The three ways log returns after it has written.
LEMMA TypeReturn ==
  ASSUME Typed, LockInv, OpenInv, NEW t \in Thread,
         return(t) \/ reset_file_(t) \/ reset_file_throws(t)
  PROVE  /\ Typed' /\ LockInv' /\ OpenInv'
         /\ up /\ up' /\ prev[t] = <<>> /\ In(t) /\ \A u \in Thread : ~ In(u)'
         /\ UNCHANGED <<buffer, count, first>>
         /\ \A n \in 1 .. Top : Content(n)' = Content(n)
  <1>1. In(t) /\ prev[t] = <<>> /\ Return(t) /\ up /\ UNCHANGED <<up, buffer, count, first>>
    BY DEF return, reset_file_, reset_file_throws, Written, LockInv
  <1>2. prev' \in [Thread -> Seq(Nat) \cup {None}] /\ mutex_' = {}
        /\ \A u \in Thread : ~ In(u)'
    BY <1>1 DEF Return, Typed, LockInv, In
  <1>3. LockInv'
    BY <1>2 DEF LockInv
  <1>4. CASE return(t)
    BY <1>1, <1>2, <1>3, <1>4 DEF return, Typed, OpenInv, Content
  <1>5. CASE reset_file_throws(t)
    <2>1. active' \in 0 .. MaxFile /\ log_file' \in 0 .. active'
      BY <1>5, WalAssumption DEF reset_file_throws, Typed
    <2> QED
      BY <1>1, <1>2, <1>3, <1>5, <2>1 DEF reset_file_throws, Typed, OpenInv, Content
  <1>6. CASE reset_file_(t)
    <2>1. /\ active' \in 0 .. MaxFile /\ log_file' = active' /\ log_file' \in 0 .. active'
          /\ active' \notin opened
      BY <1>6, WalAssumption DEF reset_file_, Typed, OpenInv
    <2>2. <<>> \in Seq(Word)
      BY EmptySeq
    <2>3. files' = [files EXCEPT ![active'] = <<>>] /\ opened' = opened \cup {active'}
      BY <1>6 DEF reset_file_, Create
    <2>4. /\ files' \in [0 .. MaxFile -> Seq(Word) \cup {None}]
          /\ \A m \in opened' : files'[m] \in Seq(Word)
      <3>1. PICK n \in 0 .. MaxFile : n = active'
        BY <2>1
      <3> QED
        BY <2>2, <2>3, <3>1, FilesTyped
    <2>5. Typed'
      BY <1>1, <1>2, <2>1, <2>4 DEF Typed
    <2>6. OpenInv'
      <3>1. active' = active + 1
        BY <1>6 DEF reset_file_
      <3>2. opened' \subseteq 0 .. log_file'
        <4>1. \A m \in opened : m \in Nat /\ m <= log_file
          BY FileType DEF OpenInv
        <4>2. \A m \in opened : m \in 0 .. log_file'
          BY <2>1, <3>1, <4>1, FileType
        <4> QED
          BY <2>1, <2>3, <3>1, <4>2, FileType
      <3> QED
        BY <2>1, <2>3, <2>4, <3>2 DEF OpenInv
    <2>7. ASSUME NEW n \in 1 .. Top PROVE Content(n)' = Content(n)
      <3>1. n - 1 \in 0 .. MaxFile
        BY ContentType
      <3> QED
        BY <2>1, <2>3, <3>1 DEF Content, Typed
    <2> QED
      BY <1>1, <1>2, <1>3, <2>5, <2>6, <2>7
  <1> QED
    BY <1>4, <1>5, <1>6
-----------------------------------------------------------------------------
(* What was logged.                                                        *)

\* What the files and memory hold, put together, is what was logged.
Joined == (Disk \o Pending) \o buffer = Logged

LEMMA PartsType ==
  ASSUME Typed, LockInv, OpenInv, DiskInv
  PROVE  /\ Disk \in Seq(Word) /\ Pending \in Seq(Word) /\ buffer \in Seq(Word)
         /\ Pending \in Seq(Nat)
  <1>1. Disk \in Seq(Word)
    BY DiskSays DEF DiskInv, DiskOf
  <1>2. Pending \in Seq(Nat)
    <2>1. CASE \A t \in Thread : ~ In(t)
      BY <2>1, PendingIs, EmptySeq
    <2>2. ASSUME NEW t \in Thread, In(t) PROVE Pending \in Seq(Nat)
      BY <2>2, PendingIs DEF Typed, In
    <2> QED
      BY <2>1, <2>2
  <1>3. Nat \subseteq Word
    BY DEF Word
  <1>4. buffer \in Seq(Nat)
    BY DEF Typed
  <1> QED
    BY <1>1, <1>2, <1>3, <1>4, SeqMonotonic

LEMMA LoggedStart ==
  ASSUME Inv, Start
  PROVE  DiskInv' /\ LogExact'
  <1>1. Typed' /\ LockInv' /\ OpenInv'
    BY TypeStart DEF Inv
  <1>2. PICK f : f = [n \in 0 .. Top |-> <<>>]
    OBVIOUS
  <1>3. Read(f)'
    <2>1. Top \in Nat /\ \A n \in 1 .. Top : n - 1 \in 0 .. MaxFile
      BY ContentType DEF Inv
    <2>2. \A n \in 1 .. Top : Content(n)' = <<>>
      BY <2>1, WalAssumption DEF Content, Start, Create, Inv, Typed
    <2>3. <<>> \in Seq(Word) /\ <<>> \o <<>> = <<>>
      BY EmptySeq
    <2>4. f \in [0 .. Top -> Seq(Word)] /\ f[0] = <<>>
      BY <1>2, <2>1, <2>3
    <2>5. \A n \in 1 .. Top : f[n] = <<>> /\ f[n - 1] = <<>>
      BY <1>2, <2>1
    <2> QED
      BY <2>2, <2>3, <2>4, <2>5 DEF Read, Top
  <1>4. Disk' = <<>>
    <2>1. Top \in Nat /\ Top' = Top
      BY ContentType DEF Inv, Top
    <2>2. f[Top] = <<>>
      BY <1>2, <2>1
    <2> QED
      BY <1>1, <1>3, <2>1, <2>2, DiskSays DEF DiskOf
  <1>5. Pending' = <<>> /\ buffer' = <<>>
    <2>1. \A t \in Thread : ~ In(t)'
      BY DEF Inv, LockInv, Start, In
    <2> QED
      BY <1>1, <2>1, PendingSays DEF PendingOf, Start
  <1>6. Logged' = <<>>
    <2>1. PICK c \in Nat : count' = c /\ first' = c + 1
      BY DEF Inv, Typed, Start
    <2>2. 1 .. (c - (c + 1)) + 1 = {}
      OBVIOUS
    <2>3. Logged' = [i \in {} |-> first' + i - 1]
      BY ONLY <2>1, <2>2, Zenon DEF Logged
    <2> QED
      BY <2>3
  <1>7. (<<>> \o <<>>) \o <<>> = <<>>
    OBVIOUS
  <1>8. (Disk' \o Pending') \o buffer' = Logged'
    BY ONLY <1>4, <1>5, <1>6, <1>7, Zenon
  <1> QED
    BY <1>3, <1>8 DEF DiskInv, LogExact, Start

\* The front of a list.
IsFront(d, s) == \E n \in 0 .. Len(s) : d = SubSeq(s, 1, n)

LEMMA FrontOf ==
  ASSUME NEW S, NEW d \in Seq(S), NEW p \in Seq(S), NEW b \in Seq(S), NEW s \in Seq(S),
         (d \o p) \o b = s
  PROVE  IsFront(d, s)
  <1>1. PICK e \in Seq(S) : e = p \o b
    BY ConcatProperties
  <1>2. s = d \o e
    <2>1. (d \o p) \o b = d \o (p \o b)
      <3>1. Associates(d, p, b)
        BY ONLY JoinsThree, d \in Seq(S), p \in Seq(S), b \in Seq(S), Zenon
      <3> QED
        BY ONLY <3>1, Zenon DEF Associates
    <2> QED
      BY ONLY <1>1, <2>1, (d \o p) \o b = s, Zenon
  <1>3. Len(s) = Len(d) + Len(e) /\ Len(d) \in Nat /\ Len(e) \in Nat
    BY <1>2, ConcatProperties, LenProperties
  <1>4. d = SubSeq(s, 1, Len(d))
    <2>1. CASE d = <<>>
      BY <2>1, <1>3, SubSeqEmpty
    <2>2. CASE d # <<>>
      <3>1. 1 \in 1 .. Len(d) /\ Len(d) \in 1 .. Len(d)
        BY <2>2, EmptySeq
      <3>2. SubSeq(d \o e, 1, Len(d)) = SubSeq(d, 1, Len(d))
        BY <3>1, SubSeqOfConcat1
      <3>3. SubSeq(d, 1, Len(d)) = d
        BY SubSeqFull
      <3> QED
        BY ONLY <1>2, <3>2, <3>3, Zenon
    <2> QED
      BY <2>1, <2>2
  <1> QED
    <2>1. Len(d) \in 0 .. Len(s)
      BY <1>3
    <2> QED
      BY <1>4, <2>1, Zenon DEF IsFront

LEMMA LoggedCrash ==
  ASSUME Inv, Crash
  PROVE  DiskInv' /\ LogExact'
  <1>1. Typed' /\ LockInv' /\ OpenInv'
    BY TypeCrash DEF Inv
  <1>2. up /\ ~ up' /\ opened' = opened /\ Torn \in Word
    BY DEF Crash, Word
  <1>3. DiskInv' /\ (Disk' = Disk \/ Disk' = Append(Disk, Torn))
    <2>1. CASE files' = files
      <3>1. \A n \in 1 .. Top : Content(n)' = Content(n)
        BY <1>2, <2>1 DEF Content
      <3> QED
        BY <1>1, <3>1, DiskKept DEF Inv
    <2>2. CASE files' = [files EXCEPT ![log_file] = Append(@, Torn)]
      BY <1>1, <1>2, <2>2, DiskAppend DEF Inv
    <2> QED
      BY <2>1, <2>2 DEF Crash
  <1>4. Logged' = Logged
    BY DEF Crash, Logged
  <1>5. Joined
    BY <1>2 DEF Inv, LogExact, Joined
  <1>6. IsFront(Disk, Logged)
    <2>1. /\ Disk \in Seq(Word) /\ Pending \in Seq(Word) /\ buffer \in Seq(Word)
          /\ Logged \in Seq(Word)
      BY PartsType, LoggedType DEF Inv
    <2> QED
      BY <1>5, <2>1, FrontOf DEF Joined
  <1>7. \E n \in 0 .. Len(Logged') :
           Disk' \in {SubSeq(Logged', 1, n), Append(SubSeq(Logged', 1, n), Torn)}
    <2>1. PICK n \in 0 .. Len(Logged) : Disk = SubSeq(Logged, 1, n)
      BY <1>6 DEF IsFront
    <2> QED
      BY <1>3, <1>4, <2>1, Zenon
  <1> QED
    BY <1>2, <1>3, <1>7 DEF LogExact

\* A record appended is one that was pending.
LEMMA LoggedAppend ==
  ASSUME Inv, NEW t \in Thread, append(t)
  PROVE  DiskInv' /\ LogExact'
  <1>1. /\ Typed' /\ LockInv' /\ OpenInv' /\ up /\ up' = up
        /\ prev[t] \in Seq(Nat) /\ prev[t] # <<>> /\ Head(prev[t]) \in Word
        /\ prev'[t] = Tail(prev[t]) /\ In(t) /\ In(t)'
        /\ files' = [files EXCEPT ![log_file] = Append(@, Head(prev[t]))]
        /\ opened' = opened /\ buffer' = buffer /\ Logged' = Logged
    BY TypeAppend DEF Inv, append, Logged
  <1>2. DiskInv' /\ Disk' = Append(Disk, Head(prev[t]))
    BY <1>1, DiskAppend DEF Inv
  <1>3. Pending = prev[t] /\ Pending' = Tail(prev[t])
    BY <1>1, PendingSays DEF PendingOf, Inv
  <1>4. Disk \in Seq(Word) /\ Pending \in Seq(Word)
    BY PartsType DEF Inv
  <1>5. MovesHead(Disk, Pending)
    BY <1>1, <1>3, <1>4, MoveHead
  <1>6. Disk' \o Pending' = Disk \o Pending
    BY ONLY <1>2, <1>3, <1>5, Zenon DEF MovesHead
  <1>7. Joined
    BY <1>1 DEF Inv, LogExact, Joined
  <1>8. Joined'
    BY ONLY <1>1, <1>6, <1>7, Zenon DEF Joined
  <1> QED
    BY <1>1, <1>2, <1>8 DEF LogExact, Joined

LEMMA LoggedReturn ==
  ASSUME Inv, NEW t \in Thread, return(t) \/ reset_file_(t) \/ reset_file_throws(t)
  PROVE  DiskInv' /\ LogExact'
  <1>1. /\ Typed' /\ LockInv' /\ OpenInv'
        /\ up /\ up' /\ prev[t] = <<>> /\ In(t) /\ \A u \in Thread : ~ In(u)'
        /\ UNCHANGED <<buffer, count, first>>
        /\ \A n \in 1 .. Top : Content(n)' = Content(n)
    BY TypeReturn DEF Inv
  <1>2. DiskInv' /\ Disk' = Disk
    BY <1>1, DiskKept DEF Inv
  <1>3. Pending = <<>> /\ Pending' = <<>>
    BY <1>1, PendingSays DEF PendingOf, Inv
  <1>4. Joined
    BY <1>1 DEF Inv, LogExact, Joined
  <1>5. Logged' = Logged /\ buffer' = buffer
    BY <1>1 DEF Logged
  <1>6. Joined'
    BY ONLY <1>2, <1>3, <1>4, <1>5, Zenon DEF Joined
  <1> QED
    BY <1>1, <1>2, <1>6 DEF LogExact, Joined

\* The records of a call come after those logged before.
LEMMA LoggedGrows ==
  ASSUME Typed, Typed', NEW n \in 1 .. MaxBatch, count' = count + n, first' = first
  PROVE  Logged' = Logged \o Batch(n)
  <1>1. /\ Batch(n) \in Seq(Nat) /\ Len(Batch(n)) = n /\ n \in Nat
        /\ \A i \in 1 .. n : Batch(n)[i] = count + i
    BY BatchType
  <1>2. /\ Logged \in Seq(Nat) /\ Len(Logged) = count - first + 1
        /\ \A i \in 1 .. Len(Logged) : Logged[i] = first + i - 1
    BY LoggedType
  <1>3. PICK c \in Nat, f \in Nat : c = count /\ f = first /\ f <= c + 1
    BY DEF Typed
  <1>4. PICK s \in Seq(Nat), b \in Seq(Nat) : s = Logged /\ b = Batch(n)
    BY <1>1, <1>2
  <1>5. PICK e : e = [i \in 1 .. (c + n) - f + 1 |-> f + i - 1]
    OBVIOUS
  <1>6. Logged' = e
    BY <1>3, <1>5 DEF Logged
  <1>7. /\ Len(s) = (c - f) + 1 /\ \A i \in 1 .. Len(s) : s[i] = f + i - 1
        /\ Len(b) = n /\ \A i \in 1 .. n : b[i] = c + i
    BY <1>1, <1>2, <1>3, <1>4
  <1>8. e \in Seq(Nat) /\ Len(e) = Len(s) + Len(b)
    <2>1. (c + n) - f + 1 \in Nat /\ (c + n) - f + 1 = Len(s) + Len(b)
      BY <1>1, <1>3, <1>7
    <2>2. \A i \in 1 .. (c + n) - f + 1 : f + i - 1 \in Nat
      OBVIOUS
    <2> QED
      BY <1>5, <2>1, <2>2
  <1>9. /\ s \o b \in Seq(Nat) /\ Len(s \o b) = Len(s) + Len(b)
        /\ \A i \in 1 .. Len(s) + Len(b) :
              (s \o b)[i] = IF i <= Len(s) THEN s[i] ELSE b[i - Len(s)]
    BY ConcatProperties
  <1>10. ASSUME NEW i \in 1 .. Len(e) PROVE e[i] = (s \o b)[i]
    <2>1. Len(s) \in Nat /\ Len(b) \in Nat /\ i \in Nat /\ i >= 1 /\ i <= Len(s) + Len(b)
      BY <1>8, LenProperties
    <2>2. e[i] = f + i - 1
      BY <1>1, <1>3, <1>5, <1>7, <2>1
    <2>3. CASE i <= Len(s)
      BY <1>7, <1>9, <2>1, <2>2, <2>3
    <2>4. CASE i > Len(s)
      <3>1. i - Len(s) \in 1 .. n /\ c + (i - Len(s)) = f + i - 1
        BY <1>1, <1>3, <1>7, <2>1, <2>4
      <3>2. (s \o b)[i] = b[i - Len(s)]
        BY <1>9, <2>1, <2>4
      <3> QED
        BY <1>7, <2>2, <3>1, <3>2
    <2> QED
      BY <2>1, <2>3, <2>4
  <1>11. e = s \o b
    BY <1>8, <1>9, <1>10, SeqEqual
  <1> QED
    BY ONLY <1>4, <1>6, <1>11, Zenon

LEMMA LoggedLog ==
  ASSUME Inv, NEW t \in Thread, NEW n \in 1 .. MaxBatch,
         NEW force_flush \in BOOLEAN, log(t, n, force_flush)
  PROVE  DiskInv' /\ LogExact'
  <1>1. Typed' /\ LockInv' /\ OpenInv'
    BY TypeLog DEF Inv
  <1>2. /\ up /\ up' = up /\ mutex_ = {} /\ count' = count + n
        /\ UNCHANGED <<files, opened, first>>
        /\ \/ buffer' = buffer \o Batch(n) /\ UNCHANGED <<mutex_, prev>>
           \/ /\ buffer' = <<>> /\ prev' = [prev EXCEPT ![t] = buffer \o Batch(n)]
              /\ mutex_' = {t}
    BY DEF log, Batch
  <1>3. DiskInv' /\ Disk' = Disk
    <2>1. \A m \in 1 .. Top : Content(m)' = Content(m)
      BY <1>2 DEF Content
    <2> QED
      BY <1>1, <2>1, DiskKept DEF Inv
  <1>4. Pending = <<>>
    <2>1. \A u \in Thread : ~ In(u)
      BY <1>2 DEF Inv, LockInv
    <2> QED
      BY <2>1, PendingIs DEF Inv
  <1>5. Disk \in Seq(Word) /\ buffer \in Seq(Word) /\ Batch(n) \in Seq(Word)
    <2>1. Batch(n) \in Seq(Nat) /\ Nat \subseteq Word
      BY BatchType DEF Word, Inv
    <2>2. Batch(n) \in Seq(Word)
      BY <2>1, SeqMonotonic
    <2> QED
      BY <2>2, PartsType DEF Inv
  <1>6. PICK d \in Seq(Word), b \in Seq(Word), new \in Seq(Word) :
           d = Disk /\ b = buffer /\ new = Batch(n)
    BY <1>5
  <1>7. Logged = d \o b
    <2>1. Joined
      BY <1>2 DEF Inv, LogExact, Joined
    <2>2. d \o <<>> = d
      BY ConcatEmptySeq
    <2> QED
      BY ONLY <1>4, <1>6, <2>1, <2>2, Zenon DEF Joined
  <1>8. Logged' = (d \o b) \o new
    <2>1. Logged' = Logged \o Batch(n)
      BY <1>1, <1>2, LoggedGrows DEF Inv
    <2> QED
      BY ONLY <1>6, <1>7, <2>1, Zenon
  <1>9. (d \o b) \o new = d \o (b \o new)
    <2>1. Associates(d, b, new)
      BY ONLY d \in Seq(Word), b \in Seq(Word), new \in Seq(Word), JoinsThree, Zenon
    <2> QED
      BY ONLY <2>1, Zenon DEF Associates
  <1>10. PICK all \in Seq(Word) : all = b \o new
    BY ConcatProperties
  <1>11. (d \o <<>>) \o all = d \o all /\ (d \o all) \o <<>> = d \o all
    <2>1. d \o <<>> = d
      BY ConcatEmptySeq
    <2>2. PICK x \in Seq(Word) : x = d \o all
      BY ConcatProperties
    <2>3. x \o <<>> = x
      BY ConcatEmptySeq
    <2> QED
      BY ONLY <2>1, <2>2, <2>3, Zenon
  <1>12. \/ Pending' = <<>> /\ buffer' = all
         \/ Pending' = all /\ buffer' = <<>>
    <2>1. CASE buffer' = buffer \o Batch(n) /\ UNCHANGED <<mutex_, prev>>
      <3>1. \A u \in Thread : ~ In(u)'
        BY <1>2, <2>1 DEF Inv, LockInv, In
      <3>2. Pending' = <<>>
        BY <1>1, <3>1, PendingSays DEF PendingOf
      <3> QED
        BY ONLY <1>6, <1>10, <2>1, <3>2, Zenon
    <2>2. CASE /\ buffer' = <<>> /\ prev' = [prev EXCEPT ![t] = buffer \o Batch(n)]
               /\ mutex_' = {t}
      <3>1. prev'[t] = buffer \o Batch(n)
        BY <2>2 DEF Inv, Typed
      <3>2. In(t)'
        BY <1>1, <2>2 DEF LockInv
      <3>3. Pending' = prev'[t]
        BY <1>1, <3>2, PendingSays DEF PendingOf
      <3> QED
        BY ONLY <1>6, <1>10, <2>2, <3>1, <3>3, Zenon
    <2> QED
      BY <1>2, <2>1, <2>2
  <1>13. Joined'
    BY ONLY <1>3, <1>6, <1>8, <1>9, <1>10, <1>11, <1>12, Zenon DEF Joined
  <1> QED
    BY <1>2, <1>3, <1>13 DEF LogExact, Joined
-----------------------------------------------------------------------------
LEMMA InitInv == Init => Inv
  <1> SUFFICES ASSUME Init PROVE Inv
    OBVIOUS
  <1>1. Typed /\ LockInv /\ OpenInv
    <2>1. /\ <<>> \in Seq(Nat) /\ 0 \in 0 .. MaxFile /\ 0 \in 0 .. 0 /\ 1 \in 1 .. 0 + 1
      BY WalAssumption, EmptySeq
    <2>2. Typed
      BY <2>1 DEF Init, Typed
    <2>3. LockInv /\ OpenInv
      BY DEF Init, LockInv, OpenInv, In
    <2> QED
      BY <2>2, <2>3
  <1>2. PICK f : f = [n \in 0 .. Top |-> <<>>]
    OBVIOUS
  <1>3. Read(f)
    <2>1. Top \in Nat /\ \A n \in 1 .. Top : Content(n) = <<>>
      BY <1>1, ContentType DEF Content, Init
    <2>2. <<>> \in Seq(Word) /\ <<>> \o <<>> = <<>>
      BY EmptySeq
    <2>3. f \in [0 .. Top -> Seq(Word)] /\ f[0] = <<>>
      BY <1>2, <2>1, <2>2
    <2>4. \A n \in 1 .. Top : f[n] = <<>> /\ f[n - 1] = <<>>
      BY <1>2, <2>1
    <2> QED
      BY <2>1, <2>2, <2>3, <2>4 DEF Read
  <1>4. Disk = <<>>
    <2>1. f[Top] = <<>>
      BY <1>1, <1>2, ContentType
    <2> QED
      BY <1>1, <1>3, <2>1, DiskIs
  <1>5. LogExact
    <2>1. Len(Logged) = 0 /\ Logged \in Seq(Word)
      BY <1>1, LoggedType DEF Init
    <2>2. SubSeq(Logged, 1, 0) = <<>>
      BY SubSeqEmpty
    <2>3. \E n \in 0 .. Len(Logged) : Disk = SubSeq(Logged, 1, n)
      BY <1>4, <2>1, <2>2
    <2> QED
      BY <2>3 DEF LogExact, Init
  <1> QED
    BY <1>1, <1>3, <1>5 DEF Inv, DiskInv

LEMMA InvStep == Inv /\ [Next]_vars => Inv'
  <1> SUFFICES ASSUME Inv, [Next]_vars PROVE Inv'
    OBVIOUS
  <1> USE DEF Inv
  <1>1. CASE Start
    BY <1>1, TypeStart, LoggedStart
  <1>2. CASE Crash
    BY <1>2, TypeCrash, LoggedCrash
  <1>3. ASSUME NEW t \in Thread, NEW n \in 1 .. MaxBatch, NEW force_flush \in BOOLEAN,
               log(t, n, force_flush)
        PROVE  Inv'
    BY <1>3, TypeLog, LoggedLog
  <1>4. ASSUME NEW t \in Thread, append(t) PROVE Inv'
    BY <1>4, TypeAppend, LoggedAppend
  <1>5. ASSUME NEW t \in Thread, return(t) \/ reset_file_(t) \/ reset_file_throws(t)
        PROVE  Inv'
    BY <1>5, TypeReturn, LoggedReturn
  <1>6. CASE UNCHANGED vars
    <2>1. Typed' /\ LockInv' /\ OpenInv'
      BY <1>6 DEF vars, Typed, LockInv, OpenInv, In
    <2>2. \A n \in 1 .. Top : Content(n)' = Content(n)
      BY <1>6 DEF vars, Content
    <2>3. DiskInv' /\ Disk' = Disk
      BY <2>1, <2>2, DiskKept
    <2>4. LogExact'
      BY <1>6, <2>3 DEF vars, LogExact, Logged, Pending, In
    <2> QED
      BY <2>1, <2>3, <2>4
  <1> QED
    BY <1>1, <1>2, <1>3, <1>4, <1>5, <1>6 DEF Next

\* Whatever threads log, with or without force_flush, whenever a file is full
\* and whether or not the next one opens (wal.cpp, log and reset_file_), the
\* files of a run and its buffer hold what it was given, once and in order; and
\* a crash, over any number of restarts, leaves a prefix of it.
THEOREM LogIsExact == Spec => []LogExact
  <1>1. Inv => LogExact
    BY DEF Inv
  <1> QED
    BY <1>1, InitInv, InvStep, PTL DEF Spec
=============================================================================
