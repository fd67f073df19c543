----------------------------- MODULE AeroRecord -----------------------------
(***************************************************************************)
(* The two Aerospike programs, src/src/aerospike_simple_test.cpp and       *)
(* src/src/aerospike_rw_speed_test.cpp.  Every process of either removes,  *)
(* writes and reads the same record of the server: namespace "test", set   *)
(* "eg-set", key "eg-key".                                                 *)
(*                                                                         *)
(* The server is external.  A record is the set of its bins, the empty set *)
(* when there is none; a put adds bins to those there are.  A call that    *)
(* returns an error may have been carried out all the same, or be carried  *)
(* out later.                                                              *)
(***************************************************************************)
EXTENDS Integers, Sequences, FiniteSets

CONSTANTS
  Procs,      \* the processes
  Files,      \* files for the speed test: for each line the bin it sets (a
              \* line of fewer than four fields, if it does not kill the
              \* process, sets one with some other name)
  LongNames,  \* bins whose names are too long for Aerospike
  Leftover,   \* what the record may hold before the first process runs
  MaxLate     \* bound: calls that may still be carried out after an error

\* The bins of the simple test.
TestBins == {"test-bin-1", "test-bin-2"}

\* What a process may run; an argument that is no file is an empty one.
Jobs == [prog : {"simple"}, file : {<<>>}] \cup [prog : {"speed"}, file : Files]

ASSUME AeroAssumption == Procs # {} /\ MaxLate \in Nat /\ \A b \in Leftover : b # {}

VARIABLES
  job,     \* the program and the file of each process
  at,      \* where each process is
  line,    \* lines each speed test has done
  rec,     \* rec: the bins of the record each process has in memory
  record,  \* the record on the server
  late,    \* calls that may still be carried out: the bins of a put, {} for
           \* a remove
  got,     \* history: the bins each process has read last
  odd      \* history: what went wrong with a call and no process noticed

aeroVars == <<job, at, line, rec, record, late, got, odd>>

Ended == {"passed", "failed", "refused", "killed"}

Init ==
  /\ job \in [Procs -> Jobs]
  /\ at = [p \in Procs |-> "connect"]
  /\ line = [p \in Procs |-> 0]
  /\ rec = [p \in Procs |-> {}]
  /\ record \in Leftover \cup {{}}
  /\ late = {}
  /\ got = [p \in Procs |-> {}]
  /\ odd = {}

Goes(p, from, to) == at[p] = from /\ at' = [at EXCEPT ![p] = to]

\* A call that fails may be carried out later.
MayComeLate(call) ==
  \/ UNCHANGED late
  \/ Cardinality(late \cup {call}) <= MaxLate /\ late' = late \cup {call}

-----------------------------------------------------------------------------
\* One process

Connect(p) ==
  /\ Goes(p, "connect", "clean")
  /\ UNCHANGED <<job, line, rec, record, late, got, odd>>

\* exit(-1) before anything is done
ConnectFails(p) ==
  /\ Goes(p, "connect", "refused")
  /\ UNCHANGED <<job, line, rec, record, late, got, odd>>

\* Mutant: nothing is removed.
RemovesNothing == UNCHANGED <<record, late, odd>>

\* remove_test_record(): the error is not looked at.
Removes ==
  \/ record' = {} /\ UNCHANGED <<late, odd>>
  \/ odd' = odd \cup {"not removed"} /\ MayComeLate({}) /\ UNCHANGED record

\* The next line, or the end of main()
NextLine(p, n) ==
  IF job[p].prog = "speed" /\ n >= Len(job[p].file) THEN "passed" ELSE "put"

StartClean(p) ==
  /\ Goes(p, "clean", NextLine(p, 0))
  /\ Removes
  /\ UNCHANGED <<job, line, rec, got>>

\* Mutant: the simple test forgets its second bin.
SetOne(p) == IF job[p].prog = "simple" THEN {"test-bin-1"} ELSE rec[p]

\* The bins set before a put.  rec has room for two (as_record_inita), and a
\* bin that does not fit or has too long a name is left out without a word.
\* In the speed test rec is the same for all lines.
Set(p) ==
  IF job[p].prog = "simple" THEN TestBins
  ELSE LET b == job[p].file[line[p] + 1]
       IN  IF b \notin LongNames /\ Cardinality(rec[p] \cup {b}) <= 2
           THEN rec[p] \cup {b} ELSE rec[p]

\* A record without bins cannot be put.
Put(p) ==
  /\ Goes(p, "put", "read")
  /\ Set(p) # {}
  /\ rec' = [rec EXCEPT ![p] = Set(p)]
  /\ record' = record \cup Set(p)
  /\ UNCHANGED <<job, line, late, got, odd>>

\* The put was not carried out, or it was, or it may be later.
PutFails(p) ==
  /\ Goes(p, "put", "cleanup")
  /\ rec' = [rec EXCEPT ![p] = Set(p)]
  /\ \/ record' = record \cup Set(p) /\ UNCHANGED late
     \/ Set(p) # {} /\ MayComeLate(Set(p)) /\ UNCHANGED record
  /\ UNCHANGED <<job, line, got, odd>>

\* read_test_record() only looks whether there is a record.
Read(p) ==
  /\ Goes(p, "read", IF job[p].prog = "simple" THEN "passed" ELSE "unpack")
  /\ record # {}
  /\ got' = [got EXCEPT ![p] = record]
  /\ UNCHANGED <<job, line, rec, record, late, odd>>

\* Mutant: without a record, the put is tried again.
PutsAgain(p) ==
  /\ Goes(p, "read", "put")
  /\ UNCHANGED <<job, line, rec, record, late, got, odd>>

\* No record, or an error.
ReadFails(p) ==
  /\ Goes(p, "read", "cleanup")
  /\ UNCHANGED <<job, line, rec, record, late, got, odd>>

\* cleanup() and exit(-1)
Cleanup(p) ==
  /\ Goes(p, "cleanup", "failed")
  /\ Removes
  /\ UNCHANGED <<job, line, rec, got>>

\* Mutant: the speed test cleans up when it is done, too.
UnpackAndRemove(p) ==
  /\ Goes(p, "unpack", NextLine(p, line[p] + 1))
  /\ line' = [line EXCEPT ![p] = @ + 1]
  /\ record' = IF at'[p] = "passed" THEN {} ELSE record
  /\ UNCHANGED <<job, rec, late, got, odd>>

\* The speed test unpacks a string that nothing has filled in, and goes on
\* with the next line.
Unpack(p) ==
  /\ Goes(p, "unpack", NextLine(p, line[p] + 1))
  /\ line' = [line EXCEPT ![p] = @ + 1]
  /\ UNCHANGED <<job, rec, record, late, got, odd>>

\* An exception in the callback: read_file_line() prints it and returns, and
\* the speed test ends as after its last line.
ReadStops(p) ==
  /\ job[p].prog = "speed"
  /\ Goes(p, "put", "passed") \/ Goes(p, "unpack", "passed")
  /\ UNCHANGED <<job, line, rec, record, late, got, odd>>

\* A process is killed from outside, by a wild read in Unpack, or by one in a
\* line of fewer than four fields.
Kill(p) ==
  /\ at[p] \notin Ended
  /\ at' = [at EXCEPT ![p] = "killed"]
  /\ UNCHANGED <<job, line, rec, record, late, got, odd>>

\* A program is run again.
Again(p) ==
  /\ at[p] \in Ended
  /\ at' = [at EXCEPT ![p] = "connect"]
  /\ line' = [line EXCEPT ![p] = 0]
  /\ rec' = [rec EXCEPT ![p] = {}]
  /\ got' = [got EXCEPT ![p] = {}]
  /\ UNCHANGED <<job, record, late, odd>>

\* The server carries out a call that the client has given up.
Late(call) ==
  /\ late' = late \ {call}
  /\ IF call = {} THEN /\ record' = {}
                       /\ odd' = odd \cup {"late remove"}
                  ELSE /\ record' = record \cup call
                       /\ odd' = odd \cup {"late put"}
  /\ UNCHANGED <<job, at, line, rec, got>>

-----------------------------------------------------------------------------

\* What a process does of its own accord.
Step(p) ==
  \/ Connect(p) \/ ConnectFails(p) \/ StartClean(p) \/ Put(p) \/ PutFails(p)
  \/ Read(p) \/ ReadFails(p) \/ Cleanup(p) \/ Unpack(p) \/ ReadStops(p)

Next ==
  \/ \E p \in Procs : Step(p) \/ Kill(p) \/ Again(p)
  \/ \E call \in late : Late(call)

\* Every call returns, at the latest after its timeout, so a process that is
\* not killed goes on.  None need be run again.
Spec == Init /\ [][Next]_aeroVars /\ \A p \in Procs : WF_aeroVars(Step(p))

-----------------------------------------------------------------------------
\* Properties

\* However their calls interleave, processes that all passed leave the record
\* behind, unless one had no line to write or a remove was carried out late:
\* the remove_test_record() with which one of them starts is never the last
\* word, since that process has put the record after it.
PassedKeepRecord ==
  /\ \A p \in Procs : at[p] = "passed" /\ (job[p].prog = "speed" => line[p] > 0)
  /\ "late remove" \notin odd
  => record # {}

\* Processes that all failed leave nothing behind, unless a remove failed or a
\* put was carried out late: each does cleanup() after its last put, also when
\* what made it fail was the remove of another.
FailedLeaveNothing ==
  /\ \A p \in Procs : at[p] = "failed"
  /\ odd \cap {"not removed", "late put"} = {}
  => record = {}

\* Among simple tests, one that passes has read both of its bins, although
\* the others may have removed the record and written it again in between.
\* read_test_record() does not check it, and with a speed test among them it
\* need not be so.
PassedReadOwn ==
  (\A p \in Procs : job[p].prog = "simple")
  => \A p \in Procs : at[p] = "passed" => TestBins \subseteq got[p]

\* Every process gets to an end, whatever the others do to the record.
RunsEnd == \A p \in Procs : at[p] \notin Ended ~> at[p] \in Ended
=============================================================================
