----------------------------- MODULE Checkpoint -----------------------------
(***************************************************************************)
(* src/src/rocksdb_checkpoint.cpp: put a name, write a first batch, make a *)
(* checkpoint of the database in another directory, write a second batch.  *)
(*                                                                         *)
(* The program may be started again, also while it is running, on the      *)
(* directories that earlier runs left: nothing removes them.  assert() is  *)
(* active in the build (the Makefile does not define NDEBUG), so a failed  *)
(* one ends the process; the statuses of the two batches are not looked at.*)
(***************************************************************************)
EXTENDS RocksStore

CONSTANT Runners  \* the processes that run the program

VARIABLES
  stage,  \* stage[p]: the call that p makes next; "off" when it does not run
  copy,   \* kCKPath: the batches in the checkpoint, or NoDir
  failed  \* history: has the write of a first batch failed?

ckVars == <<storeVars, stage, copy, failed>>

NoDir == {"no directory"}

\* The stages of a process that has the database open, and so its LOCK.
Holding == {"name", "first", "flush", "link", "second", "close"}

CkInit ==
  /\ StoreEmpty
  /\ stage = [p \in Runners |-> "off"]
  /\ copy = NoDir
  /\ failed = FALSE

Moves(p, from, to) ==
  /\ stage[p] = from
  /\ stage' = [stage EXCEPT ![p] = to]

\* DB::Open() takes the LOCK and flushes what it recovers from the log.  When
\* it fails, as it does while another process has the LOCK, the assertion ends
\* the process and nothing has changed.
CkOpen(p) ==
  /\ \A q \in Runners : stage[q] \notin Holding
  /\ Moves(p, "off", "name")
  /\ Flushes
  /\ UNCHANGED <<copy, failed>>

PutName(p) ==
  /\ Moves(p, "name", "first")
  /\ Writes("name")
  /\ UNCHANGED <<copy, failed>>

\* Mutant: the status of the first Put() is not looked at.
PutNameFailsUnseen(p) ==
  /\ Moves(p, "name", "first")
  /\ MayWrite("name")
  /\ UNCHANGED <<copy, failed>>

\* assert(s.ok())
PutNameFails(p) ==
  /\ Moves(p, "name", "off")
  /\ MayWrite("name")
  /\ UNCHANGED <<copy, failed>>

WriteFirst(p) ==
  /\ Moves(p, "first", "flush")
  /\ Writes("first")
  /\ UNCHANGED <<copy, failed>>

\* The status is overwritten by the next call.
WriteFirstFails(p) ==
  /\ Moves(p, "first", "flush")
  /\ MayWrite("first")
  /\ failed' = TRUE
  /\ UNCHANGED copy

\* Mutant: a log_size_for_flush that the log does not reach.
FlushForCopyNot(p) ==
  /\ copy = NoDir
  /\ Moves(p, "flush", "link")
  /\ UNCHANGED <<storeVars, copy, failed>>

\* CreateCheckpoint(kCKPath) wants a directory that does not exist.  By default
\* it flushes first ...
FlushForCopy(p) ==
  /\ copy = NoDir
  /\ Moves(p, "flush", "link")
  /\ Flushes
  /\ UNCHANGED <<copy, failed>>

\* ... and then links the files into a new directory, synced and renamed last.
LinkFiles(p) ==
  /\ Moves(p, "link", "second")
  /\ copy' = Live
  /\ UNCHANGED <<storeVars, failed>>

\* Mutant: with NDEBUG the program goes on.
CreateCheckpointFailsUnseen(p) ==
  /\ Moves(p, "flush", "second") \/ Moves(p, "link", "second")
  /\ UNCHANGED <<storeVars, copy, failed>>

\* The directory exists, or a file operation fails: assert(s.ok()).
CreateCheckpointFails(p) ==
  /\ Moves(p, "flush", "off") \/ Moves(p, "link", "off")
  /\ UNCHANGED <<storeVars, copy, failed>>

WriteSecond(p) ==
  /\ Moves(p, "second", "close")
  /\ Writes("second")
  /\ UNCHANGED <<copy, failed>>

WriteSecondFails(p) ==
  /\ Moves(p, "second", "close")
  /\ MayWrite("second")
  /\ UNCHANGED <<copy, failed>>

\* delete db: there is a log, so nothing is flushed.
CkClose(p) ==
  /\ Moves(p, "close", "off")
  /\ UNCHANGED <<storeVars, copy, failed>>

\* The process is killed.
CkKill(p) ==
  /\ stage[p] \in Holding
  /\ Moves(p, stage[p], "off")
  /\ UNCHANGED <<storeVars, copy, failed>>

PowerFails ==
  /\ stage' = [p \in Runners |-> "off"]
  /\ LosesTail
  /\ UNCHANGED <<copy, failed>>

CkStep(p) ==
  \/ CkOpen(p)
  \/ PutName(p) \/ PutNameFails(p)
  \/ WriteFirst(p) \/ WriteFirstFails(p)
  \/ FlushForCopy(p) \/ LinkFiles(p) \/ CreateCheckpointFails(p)
  \/ WriteSecond(p) \/ WriteSecondFails(p)
  \/ CkClose(p) \/ CkKill(p)

CkNext == (\E p \in Runners : CkStep(p)) \/ PowerFails

CkSpec == CkInit /\ [][CkNext]_ckVars

-----------------------------------------------------------------------------
\* Properties

HasCopy == copy # NoDir

\* The second batch is never in the database before there is a checkpoint,
\* whichever runs were killed, refused or cut off by a power failure: what was
\* written after the checkpoint can be told by it.
CopyBeforeSecond == "second" \in Live => HasCopy

\* The checkpoint is the database as it was between the batches: it has the
\* name, and the first batch unless that write failed, and never the second
\* one, although runs of the program overlap and find each other's data.
CopyExact ==
  HasCopy => /\ {"name", "first"} \subseteq copy \/ (failed /\ "name" \in copy)
             /\ copy \subseteq {"name", "first"}

\* The database never falls behind its checkpoint, not even by a power failure
\* while every write is unsynced: the flush of CreateCheckpoint() covers all
\* that the checkpoint has.
CopyKept == HasCopy => copy \subseteq Live
=============================================================================
