--------------------------- MODULE ArbitraryStore ---------------------------
(***************************************************************************)
(* src/src/rocksdb_arbitrary_store.cpp: put a struct under one key, get it *)
(* back, compare, flush.  Pack() copies the bytes of the struct, Unpack()  *)
(* returns a null pointer unless there are as many; the comparison then    *)
(* dereferences it.  Only the status of DB::Open() is looked at.           *)
(*                                                                         *)
(* The program always stores the same struct, so a record is just there    *)
(* or not.  It may be run again on the database that earlier runs left.    *)
(***************************************************************************)
EXTENDS RocksStore

VARIABLES
  step,       \* the call it makes next; "end" or "crash" when it is over
  result,     \* the record in result, or "" when it is empty
  getFailed,  \* history: did the Get() of this run fail?
  kept        \* history: has a run stored the struct and flushed it?

arbVars == <<storeVars, step, result, getFailed, kept>>

ArbInit ==
  /\ StoreEmpty
  /\ step = "open"
  /\ result = ""
  /\ getFailed = FALSE
  /\ kept = FALSE

Then(from, to) == step = from /\ step' = to

ArbOpen ==
  /\ Then("open", "put")
  /\ Flushes
  /\ UNCHANGED <<result, getFailed, kept>>

\* return 1
ArbOpenFails ==
  /\ Then("open", "end")
  /\ UNCHANGED <<storeVars, result, getFailed, kept>>

PutBob ==
  /\ Then("put", "get")
  /\ Writes("bob")
  /\ UNCHANGED <<result, getFailed, kept>>

PutBobFails ==
  /\ Then("put", "get")
  /\ MayWrite("bob")
  /\ UNCHANGED <<result, getFailed, kept>>

\* NotFound leaves result empty.
GetBob ==
  /\ Then("get", "compare")
  /\ result' = IF "bob" \in Live THEN "bob" ELSE ""
  /\ UNCHANGED <<storeVars, getFailed, kept>>

GetBobFails ==
  /\ Then("get", "compare")
  /\ getFailed' = TRUE
  /\ UNCHANGED <<storeVars, result, kept>>

\* Unpack() of a record of sizeof(Bob) bytes: the structs match.
CompareBob ==
  /\ result = "bob"
  /\ Then("compare", "flush")
  /\ UNCHANGED <<storeVars, result, getFailed, kept>>

\* Unpack() of an empty string: pBob->a.
CompareNull ==
  /\ result = ""
  /\ Then("compare", "crash")
  /\ UNCHANGED <<storeVars, result, getFailed, kept>>

\* Mutant: the flush is not waited for.
FlushBobLater ==
  /\ Then("flush", "end")
  /\ kept' = TRUE
  /\ UNCHANGED <<storeVars, result, getFailed>>

\* Flush(), then delete db
FlushBob ==
  /\ Then("flush", "end")
  /\ kept' = TRUE
  /\ Flushes
  /\ UNCHANGED <<result, getFailed>>

FlushBobFails ==
  /\ Then("flush", "end")
  /\ UNCHANGED <<storeVars, result, getFailed, kept>>

\* The process is killed, or the power fails and the end of the log is lost.
ArbKill ==
  /\ step \notin {"end", "crash"}
  /\ step' = "end"
  /\ LosesTail
  /\ UNCHANGED <<result, getFailed, kept>>

\* The power may also fail between two runs.
ArbAgain ==
  /\ step \in {"end", "crash"}
  /\ step' = "open"
  /\ result' = ""
  /\ getFailed' = FALSE
  /\ LosesTail
  /\ UNCHANGED kept

ArbNext ==
  \/ ArbOpen \/ ArbOpenFails \/ PutBob \/ PutBobFails \/ GetBob \/ GetBobFails
  \/ CompareBob \/ CompareNull \/ FlushBob \/ FlushBobFails
  \/ ArbKill \/ ArbAgain

ArbSpec == ArbInit /\ [][ArbNext]_arbVars

-----------------------------------------------------------------------------
\* Properties

\* Once some run has come as far as its flush, only a failing Get() makes a
\* later one dereference the null pointer: neither a failing Put() nor a kill
\* nor a power failure does.
FlushedIsRead == step = "crash" => getFailed \/ ~ kept
=============================================================================
