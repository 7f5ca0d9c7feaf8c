--------------------------------- MODULE Wal ----------------------------------
(***************************************************************************)
(* The write-ahead log (src/src/wal/wal.cpp): a buffer of records in       *)
(* memory and the files wal.0, wal.1, ... of a directory, over restarts of *)
(* the process on that directory.                                          *)
(*                                                                         *)
(* Records are numbered in the order they are given to log. What a file    *)
(* holds is the records that were appended to it: the bytes of a record    *)
(* are not modelled, nor recover, which cannot read them back (README).    *)
(***************************************************************************)
EXTENDS Integers, SequencesExt

CONSTANTS
  Thread,
  None,
  Torn,        \* a record that was written in part
  BufferSize,  \* buffer_size_
  SizeLimit,   \* file_size_limit_, in records
  MaxRecords,  \* bound on the records logged
  MaxBatch,    \* bound on the records of a call
  MaxFile      \* bound on the number of a file

ASSUME WalAssumption ==
  /\ {BufferSize, SizeLimit, MaxRecords, MaxBatch, MaxFile} \subseteq Nat
  /\ None \notin Seq(Nat) /\ Torn \notin Nat

VARIABLES
  files,   \* of the directory, by number: None or the records in it
  up,      \* whether there is a Wal
  active,  \* the number in active_log_path_
  log_file,
  mutex_,
  buffer,
  prev,    \* prev_buffer of each thread that is in log
  count,   \* how many records there were
  \* history: the files this Wal has opened, and the number of the first
  \* record it was given
  opened, first

vars == <<files, up, active, log_file, mutex_, buffer, prev, count, opened, first>>

In(t) == prev[t] # None

\* FileObj::open with create = true.
Create(n) == files' = [files EXCEPT ![n] = <<>>]

\* The constructor takes the directory as it is, but for wal.0.
Start ==
  /\ ~ up /\ up' = TRUE
  /\ active' = 0 /\ log_file' = 0 /\ Create(0)
  /\ buffer' = <<>> /\ opened' = {0} /\ first' = count + 1
  /\ UNCHANGED <<mutex_, prev, count>>

\* The process ends. The destructor of Wal does as much: it writes nothing.
Crash ==
  /\ up /\ up' = FALSE
  /\ mutex_' = {} /\ buffer' = <<>> /\ prev' = [t \in Thread |-> None]
  /\ \/ files' = files
     \/ \E t \in Thread : /\ In(t) /\ prev[t] # <<>>
                          /\ files' = [files EXCEPT ![log_file] = Append(@, Torn)]
  /\ UNCHANGED <<active, log_file, count, opened, first>>

\* log: the records go to the buffer; the buffer goes to the file when it is
\* full and force_flush is set, and only then.
log(t, n, force_flush) ==
  /\ up /\ ~ In(t) /\ mutex_ = {} /\ count + n <= MaxRecords
  /\ count' = count + n
  /\ LET all == buffer \o [i \in 1 .. n |-> count + i]
     IN  IF Len(all) < BufferSize \/ ~ force_flush
         THEN buffer' = all /\ UNCHANGED <<mutex_, prev>>
         ELSE /\ buffer' = <<>> /\ prev' = [prev EXCEPT ![t] = all]
              /\ mutex_' = {t}
  /\ UNCHANGED <<files, up, active, log_file, opened, first>>

\* Each record is encoded, appended and flushed.
append(t) ==
  /\ In(t) /\ prev[t] # <<>>
  /\ files' = [files EXCEPT ![log_file] = Append(@, Head(prev[t]))]
  /\ prev' = [prev EXCEPT ![t] = Tail(@)]
  /\ UNCHANGED <<up, active, log_file, mutex_, buffer, count, opened, first>>

Return(t) == prev' = [prev EXCEPT ![t] = None] /\ mutex_' = {}

Written(t) == In(t) /\ prev[t] = <<>>
Full       == Len(files[log_file]) > SizeLimit

return(t) ==
  /\ Written(t) /\ ~ Full /\ Return(t)
  /\ UNCHANGED <<files, up, active, log_file, buffer, count, opened, first>>

\* Mutant of reset_file_: a file that is there is opened as it is.
reset_file_keeps(t) ==
  /\ Written(t) /\ Full /\ Return(t) /\ active < MaxFile
  /\ active' = active + 1 /\ log_file' = active'
  /\ files' = [files EXCEPT ![active'] = IF @ = None THEN <<>> ELSE @]
  /\ opened' = opened \cup {active'}
  /\ UNCHANGED <<up, buffer, count, first>>

\* reset_file_, which truncates a file that is there.
reset_file_(t) ==
  /\ Written(t) /\ Full /\ Return(t) /\ active < MaxFile
  /\ active' = active + 1 /\ log_file' = active' /\ Create(active')
  /\ opened' = opened \cup {active'}
  /\ UNCHANGED <<up, buffer, count, first>>

\* If the file cannot be opened, the path has moved on and the file has not.
reset_file_throws(t) ==
  /\ Written(t) /\ Full /\ Return(t) /\ active < MaxFile
  /\ active' = active + 1
  /\ UNCHANGED <<files, up, log_file, buffer, count, opened, first>>
-----------------------------------------------------------------------------
Init ==
  /\ files = [n \in 0 .. MaxFile |-> None]
  /\ up = FALSE /\ active = 0 /\ log_file = 0
  /\ mutex_ = {} /\ buffer = <<>> /\ prev = [t \in Thread |-> None]
  /\ count = 0 /\ opened = {} /\ first = 1

Next ==
  \/ Start \/ Crash
  \/ \E t \in Thread :
       \/ \E n \in 1 .. MaxBatch, force_flush \in BOOLEAN : log(t, n, force_flush)
       \/ append(t) \/ return(t) \/ reset_file_(t) \/ reset_file_throws(t)

Spec == Init /\ [][Next]_vars
-----------------------------------------------------------------------------
(* Properties.                                                             *)

\* The records in the files this Wal has opened, in the order of their numbers,
\* which is the order recover reads files in. (Between them, where opening a
\* file failed, there may be a file from an earlier run.)
Disk == FlattenSeq([n \in 1 .. MaxFile + 1 |-> IF n - 1 \in opened THEN files[n - 1] ELSE <<>>])

Pending == IF \E t \in Thread : In(t) THEN prev[CHOOSE t \in Thread : In(t)] ELSE <<>>

Logged == [i \in 1 .. count - first + 1 |-> first + i - 1]

\* What log was given is in the files and the buffer once and in order: over
\* the files of a run no record is lost, doubled, reordered or left from an
\* earlier run, also when opening a new file fails (wal.cpp, log and
\* reset_file_). A crash leaves a prefix of it, the last record of which may be
\* torn.
LogExact ==
  /\ up => Disk \o Pending \o buffer = Logged
  /\ ~ up => \E n \in 0 .. Len(Logged) :
               Disk \in {SubSeq(Logged, 1, n), Append(SubSeq(Logged, 1, n), Torn)}
=============================================================================
