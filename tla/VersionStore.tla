---------------------------- MODULE VersionStore ----------------------------
(***************************************************************************)
(* What the LSM tree promises to a program that only puts and gets, with   *)
(* no word about blocks, sorting, merging or files.                        *)
(*                                                                         *)
(* A key has a set of versions in memory and a set of versions on disk.    *)
(* put() adds a version in memory, and at times moves all of memory to the *)
(* disk first.  get() returns the oldest version in memory, and NULL if    *)
(* there is none: it never reads the disk, where versions only gather.  A  *)
(* process that ends loses the memory; ended at the wrong moment it loses  *)
(* the disk too.                                                           *)
(***************************************************************************)
EXTENDS Integers

CONSTANTS
  Keys,
  Versions   \* the values put() may be given

VARIABLES
  mem,    \* key -> versions in memory
  disk,   \* key -> versions on disk
  seen,   \* key -> the last version the process has read (0: none yet)
  missed  \* the keys for which its last get() returned NULL

vsVars == <<mem, disk, seen, missed>>

Empty == [k \in Keys |-> {}]
Unread == [k \in Keys |-> 0]

\* v is later than every version there is.
Latest(v) == \A k \in Keys : \A w \in mem[k] \cup disk[k] : w < v

VSInit ==
  /\ mem = Empty
  /\ disk = Empty
  /\ seen = Unread
  /\ missed = {}

Put(k, v) ==
  /\ Latest(v) /\ v > 0
  /\ mem' = [mem EXCEPT ![k] = @ \cup {v}]
  /\ UNCHANGED <<disk, seen, missed>>

SpillAndPut(k, v) ==
  /\ Latest(v) /\ v > 0
  /\ mem' = [j \in Keys |-> IF j = k THEN {v} ELSE {}]
  /\ disk' = [j \in Keys |-> mem[j] \cup disk[j]]
  /\ UNCHANGED <<seen, missed>>

Get(k, v) ==
  /\ v \in mem[k] /\ \A w \in mem[k] : v <= w
  /\ seen' = [seen EXCEPT ![k] = v]
  /\ missed' = missed \ {k}
  /\ UNCHANGED <<mem, disk>>

GetNull(k) ==
  /\ mem[k] = {}
  /\ missed' = missed \cup {k}
  /\ UNCHANGED <<mem, disk, seen>>

\* The process ends and is started again.
Lose ==
  /\ mem' = Empty
  /\ seen' = Unread
  /\ missed' = {}
  /\ UNCHANGED disk

Wipe ==
  /\ mem' = Empty
  /\ disk' = Empty
  /\ seen' = Unread
  /\ missed' = {}

VSNext ==
  \/ \E k \in Keys, v \in Versions : Put(k, v) \/ SpillAndPut(k, v) \/ Get(k, v)
  \/ \E k \in Keys : GetNull(k)
  \/ Lose \/ Wipe

VSSpec == VSInit /\ [][VSNext]_vsVars

-----------------------------------------------------------------------------

\* One process never reads a version older than one it has read.
NeverReadsBack ==
  [][\/ \A k \in Keys : seen'[k] >= seen[k]
     \/ seen' = Unread]_vsVars
=============================================================================
