----------------------------- MODULE RocksStore -----------------------------
(***************************************************************************)
(* What the demo programs rely on in RocksDB 6.6, which is not part of the *)
(* repository.  A write is appended to the log and not synced: it outlives *)
(* the process, but a power failure takes the end of the log.  A flush     *)
(* moves the log into a synced SST file.  The programs write the same      *)
(* batches again and again, so a database is the set of those it holds.    *)
(***************************************************************************)
EXTENDS Integers, Sequences

VARIABLES
  synced,  \* the batches in SST files
  log      \* those in the write-ahead log, in the order written

storeVars == <<synced, log>>

Logged(s) == {s[i] : i \in 1..Len(s)}

\* What a reader of the database finds.
Live == synced \cup Logged(log)

StoreEmpty == synced = {} /\ log = <<>>

\* Put() or Write() returns OK.
Writes(b) == log' = Append(log, b) /\ UNCHANGED synced

\* It fails; the batch may be in the log all the same.
MayWrite(b) == log' \in {log, Append(log, b)} /\ UNCHANGED synced

\* A flush, also the one with which DB::Open() ends the recovery.
Flushes == synced' = Live /\ log' = <<>>

\* A power failure.  Recovery keeps the log up to the first record that is
\* missing (kPointInTimeRecovery).
LosesTail ==
  /\ \E i \in 0..Len(log) : log' = SubSeq(log, 1, i)
  /\ UNCHANGED synced
=============================================================================
