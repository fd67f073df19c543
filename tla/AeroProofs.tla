----------------------------- MODULE AeroProofs -----------------------------
(***************************************************************************)
(* For any number of processes on one Aerospike record, running any mix of *)
(* the two programs on any files: what they leave behind, and what those   *)
(* that pass have read.                                                    *)
(*                                                                         *)
(* AeroInv looks at all processes at once, since each may undo what        *)
(* another has done at any time.  A process that is between a put and its  *)
(* next remove vouches for the record (HasPut); as soon as one is not,     *)
(* nothing is claimed.                                                     *)
(***************************************************************************)
EXTENDS AeroRecord, TLAPS

Places == {"connect", "clean", "put", "read", "unpack", "cleanup"} \cup Ended

AeroTypeOK ==
  /\ job \in [Procs -> Jobs]
  /\ at \in [Procs -> Places]
  /\ line \in [Procs -> Nat]
  /\ DOMAIN got = Procs

\* Nothing has been written before the first remove, and only the speed test
\* counts lines.
LineCounts ==
  \A p \in Procs :
    /\ at[p] \in {"connect", "clean"} => line[p] = 0
    /\ job[p].prog = "simple" => line[p] = 0 /\ at[p] # "unpack"

\* Has p put the record since it last removed it?
HasPut(p) ==
  \/ at[p] \in {"read", "unpack"}
  \/ at[p] \in {"put", "passed"} /\ line[p] > 0
  \/ at[p] = "passed" /\ job[p].prog = "simple"

\* A record all have put is there, unless a remove came late.
AllPut ==
  (\A p \in Procs : HasPut(p)) /\ "late remove" \notin odd => record # {}

AllSimple == \A p \in Procs : job[p].prog = "simple"

\* Among simple tests: what may still be carried out, and what can be read.
SimpleLate == AllSimple => \A c \in late : c = {} \/ c = TestBins

SimpleRead ==
  AllSimple /\ (\E p \in Procs : at[p] = "read")
  => record = {} \/ TestBins \subseteq record

AeroInv ==
  /\ AeroTypeOK /\ LineCounts
  /\ AllPut /\ FailedLeaveNothing
  /\ SimpleLate /\ SimpleRead /\ PassedReadOwn

-----------------------------------------------------------------------------
\* The parts of a step

\* A step of p changes the place of p and of no other process.
LEMMA GoesOne ==
  ASSUME AeroTypeOK, NEW p \in Procs, NEW from, NEW to \in Places, Goes(p, from, to)
  PROVE  /\ at' \in [Procs -> Places]
         /\ at[p] = from /\ at'[p] = to
         /\ \A q \in Procs : q # p => at'[q] = at[q]
  BY DEF AeroTypeOK, Goes

\* A process that goes where nothing is claimed of it keeps the invariant,
\* if it leaves lines and what was read alone, and adds to the record only
\* what the other processes can expect.
LEMMA LeavesInv ==
  ASSUME AeroInv, NEW p \in Procs,
         NEW from, NEW to \in Places \ {"read", "unpack", "failed"},
         Goes(p, from, to),
         to \in {"put", "passed"} => line[p] = 0 /\ at[p] = "clean",
         to = "passed" => job[p].prog # "simple",
         to \in {"connect", "clean"} => line[p] = 0,
         UNCHANGED <<job, line, got>>,
         SimpleLate', SimpleRead'
  PROVE  AeroInv'
<1>1. /\ at' \in [Procs -> Places] /\ at'[p] = to
      /\ \A q \in Procs : q # p => at'[q] = at[q]
  BY GoesOne DEF AeroInv, Places
<1>2. job' = job /\ line' = line /\ got' = got
  OBVIOUS
<1>3. AeroTypeOK'
  BY <1>1, <1>2 DEF AeroInv, AeroTypeOK
<1>4. LineCounts'
  BY <1>1, <1>2 DEF AeroInv, LineCounts
<1>5. ~ HasPut(p)'
  <2>1. line[p] \in Nat
    BY DEF AeroInv, AeroTypeOK
  <2>2. QED
    BY <1>1, <1>2, <2>1 DEF HasPut
<1>6. AllPut'
  BY <1>5 DEF AllPut
<1>7. FailedLeaveNothing'
  BY <1>1 DEF FailedLeaveNothing
<1>8. PassedReadOwn'
  BY <1>1, <1>2 DEF AeroInv, PassedReadOwn
<1>9. QED
  BY <1>3, <1>4, <1>6, <1>7, <1>8 DEF AeroInv

\* Removing keeps what the other processes can expect.
LEMMA RemovesSimple ==
  ASSUME AeroInv, Removes, UNCHANGED job,
         \A p \in Procs : at'[p] = "read" => at[p] = "read"
  PROVE  SimpleLate' /\ SimpleRead'
<1>1. /\ record' = {} \/ record' = record
      /\ \A c \in late' : c \in late \/ c = {}
  BY DEF Removes, MayComeLate
<1>2. AllSimple' <=> AllSimple
  BY DEF AllSimple
<1>3. QED
  BY <1>1, <1>2 DEF AeroInv, SimpleLate, SimpleRead

-----------------------------------------------------------------------------
\* The steps

\* Steps that only change where p is.
LEMMA QuietInv ==
  ASSUME AeroInv, NEW p \in Procs,
         Connect(p) \/ ConnectFails(p) \/ ReadFails(p) \/ Kill(p)
  PROVE  AeroInv'
<1>1. PICK from \in Places, to \in {"clean", "refused", "cleanup", "killed"} :
        Goes(p, from, to) /\ (to = "clean" => at[p] = "connect")
  <2>1. at[p] \in Places
    BY DEF AeroInv, AeroTypeOK
  <2>2. QED
    BY <2>1 DEF Connect, ConnectFails, ReadFails, Kill, Goes, Places
<1>2. UNCHANGED <<job, line, got, record, late>>
  BY DEF Connect, ConnectFails, ReadFails, Kill
<1>3. to \in Places \ {"read", "unpack", "failed"}
  BY DEF Places, Ended
<1>4. to = "clean" => line[p] = 0
  BY <1>1 DEF AeroInv, LineCounts
<1>5. \A q \in Procs : at'[q] = "read" => at[q] = "read"
  BY <1>1, <1>3, GoesOne DEF AeroInv
<1>6. SimpleLate' /\ SimpleRead'
  BY <1>2, <1>5 DEF AeroInv, SimpleLate, SimpleRead, AllSimple
<1>7. QED
  BY <1>1, <1>2, <1>3, <1>4, <1>6, LeavesInv

\* The remove with which a process starts.
LEMMA StartCleanInv ==
  ASSUME AeroInv, NEW p \in Procs, StartClean(p)
  PROVE  AeroInv'
<1>1. PICK to \in {"put", "passed"} :
        Goes(p, "clean", to) /\ (to = "passed" => job[p].prog # "simple")
  BY DEF StartClean, NextLine
<1>2. UNCHANGED <<job, line, got>> /\ Removes
  BY DEF StartClean
<1>3. to \in Places \ {"read", "unpack", "failed"}
  BY DEF Places, Ended
<1>4. at[p] = "clean" /\ line[p] = 0
  BY <1>1 DEF Goes, AeroInv, LineCounts
<1>5. \A q \in Procs : at'[q] = "read" => at[q] = "read"
  BY <1>1, <1>3, GoesOne DEF AeroInv
<1>6. SimpleLate' /\ SimpleRead'
  BY <1>2, <1>5, RemovesSimple
<1>7. QED
  BY <1>1, <1>2, <1>3, <1>4, <1>6, LeavesInv

\* What a simple test puts.
LEMMA SimpleSet ==
  ASSUME NEW p \in Procs, AllSimple
  PROVE  Set(p) = TestBins
  BY DEF AllSimple, Set

\* A put that fails, and may have been carried out.
LEMMA PutFailsInv ==
  ASSUME AeroInv, NEW p \in Procs, PutFails(p)
  PROVE  AeroInv'
<1>1. Goes(p, "put", "cleanup") /\ UNCHANGED <<job, line, got>>
  BY DEF PutFails
<1>2. "cleanup" \in Places \ {"read", "unpack", "failed"}
  BY DEF Places, Ended
<1>3. \A q \in Procs : at'[q] = "read" => at[q] = "read"
  BY <1>1, <1>2, GoesOne DEF AeroInv
<1>4. /\ record' = record \/ record' = record \cup Set(p)
      /\ \A c \in late' : c \in late \/ c = Set(p)
  BY DEF PutFails, MayComeLate
<1>5. AllSimple' <=> AllSimple
  BY <1>1 DEF AllSimple
<1>6. SimpleLate'
  BY <1>4, <1>5, SimpleSet DEF AeroInv, SimpleLate
<1>7. SimpleRead'
  BY <1>3, <1>4, <1>5, SimpleSet DEF AeroInv, SimpleRead
<1>8. QED
  BY <1>1, <1>2, <1>6, <1>7, LeavesInv

\* A put: the record is there, whoever reads it next.
LEMMA PutInv ==
  ASSUME AeroInv, NEW p \in Procs, Put(p)
  PROVE  AeroInv'
<1>1. /\ Goes(p, "put", "read") /\ Set(p) # {} /\ record' = record \cup Set(p)
      /\ job' = job /\ line' = line /\ late' = late /\ got' = got /\ odd' = odd
  BY DEF Put
<1>2. /\ at' \in [Procs -> Places] /\ at[p] = "put" /\ at'[p] = "read"
      /\ \A q \in Procs : q # p => at'[q] = at[q]
  BY <1>1, GoesOne DEF AeroInv, Places
<1>3. AeroTypeOK' /\ LineCounts'
  BY <1>1, <1>2 DEF AeroInv, AeroTypeOK, LineCounts
<1>4. AllPut'
  BY <1>1 DEF AllPut
<1>5. FailedLeaveNothing'
  BY <1>2 DEF FailedLeaveNothing
<1>6. AllSimple' <=> AllSimple
  BY <1>1 DEF AllSimple
<1>7. SimpleLate' /\ SimpleRead'
  BY <1>1, <1>6, SimpleSet DEF AeroInv, SimpleLate, SimpleRead
<1>8. PassedReadOwn'
  BY <1>1, <1>2 DEF AeroInv, PassedReadOwn
<1>9. QED
  BY <1>3, <1>4, <1>5, <1>7, <1>8 DEF AeroInv

\* A read that finds a record: among simple tests it holds both bins.
LEMMA ReadInv ==
  ASSUME AeroInv, NEW p \in Procs, Read(p)
  PROVE  AeroInv'
<1>1. /\ record # {} /\ got' = [got EXCEPT ![p] = record] /\ record' = record
      /\ job' = job /\ line' = line /\ late' = late /\ odd' = odd
  BY DEF Read
<1>2. PICK to \in {"passed", "unpack"} :
        Goes(p, "read", to) /\ (to = "passed" <=> job[p].prog = "simple")
  BY DEF Read
<1>3. /\ at' \in [Procs -> Places] /\ at[p] = "read" /\ at'[p] = to
      /\ \A q \in Procs : q # p => at'[q] = at[q]
  BY <1>2, GoesOne DEF AeroInv, Places, Ended
<1>4. /\ DOMAIN got' = Procs /\ got'[p] = record
      /\ \A q \in Procs : q # p => got'[q] = got[q]
  BY <1>1 DEF AeroInv, AeroTypeOK
<1>5. AeroTypeOK' /\ LineCounts'
  BY <1>1, <1>2, <1>3, <1>4 DEF AeroInv, AeroTypeOK, LineCounts
<1>6. AllPut'
  BY <1>1 DEF AllPut
<1>7. FailedLeaveNothing'
  BY <1>3 DEF FailedLeaveNothing
<1>8. AllSimple' <=> AllSimple
  BY <1>1 DEF AllSimple
<1>9. SimpleLate' /\ SimpleRead'
  BY <1>1, <1>3, <1>8 DEF AeroInv, SimpleLate, SimpleRead
<1>10. PassedReadOwn'
  <2>1. AllSimple => TestBins \subseteq record
    BY <1>1, <1>3 DEF AeroInv, SimpleRead
  <2>2. QED
    BY <1>1, <1>3, <1>4, <2>1 DEF AeroInv, PassedReadOwn, AllSimple
<1>11. QED
  BY <1>5, <1>6, <1>7, <1>9, <1>10 DEF AeroInv

\* The remove of a process that fails.
LEMMA CleanupInv ==
  ASSUME AeroInv, NEW p \in Procs, Cleanup(p)
  PROVE  AeroInv'
<1>1. /\ Goes(p, "cleanup", "failed") /\ Removes
      /\ job' = job /\ line' = line /\ got' = got
  BY DEF Cleanup
<1>2. /\ at' \in [Procs -> Places] /\ at'[p] = "failed"
      /\ \A q \in Procs : q # p => at'[q] = at[q]
  BY <1>1, GoesOne DEF AeroInv, Places, Ended
<1>3. AeroTypeOK' /\ LineCounts'
  BY <1>1, <1>2 DEF AeroInv, AeroTypeOK, LineCounts
<1>4. AllPut'
  BY <1>2 DEF AllPut, HasPut
<1>5. FailedLeaveNothing'
  BY <1>1 DEF FailedLeaveNothing, Removes
<1>6. SimpleLate' /\ SimpleRead'
  BY <1>1, <1>2, RemovesSimple
<1>7. PassedReadOwn'
  BY <1>1, <1>2 DEF AeroInv, PassedReadOwn
<1>8. QED
  BY <1>3, <1>4, <1>5, <1>6, <1>7 DEF AeroInv

\* The end of a line of the speed test.
LEMMA UnpackInv ==
  ASSUME AeroInv, NEW p \in Procs, Unpack(p)
  PROVE  AeroInv'
<1>1. /\ line' = [line EXCEPT ![p] = @ + 1] /\ job' = job
      /\ record' = record /\ late' = late /\ got' = got /\ odd' = odd
  BY DEF Unpack
<1>2. PICK to \in {"put", "passed"} : Goes(p, "unpack", to)
  BY DEF Unpack, NextLine
<1>3. /\ at' \in [Procs -> Places] /\ at[p] = "unpack" /\ at'[p] = to
      /\ \A q \in Procs : q # p => at'[q] = at[q]
  BY <1>2, GoesOne DEF AeroInv, Places, Ended
<1>4. line' \in [Procs -> Nat] /\ \A q \in Procs : q # p => line'[q] = line[q]
  BY <1>1 DEF AeroInv, AeroTypeOK
<1>5. job[p].prog # "simple"
  BY <1>3 DEF AeroInv, LineCounts
<1>6. AeroTypeOK' /\ LineCounts'
  BY <1>1, <1>3, <1>4, <1>5 DEF AeroInv, AeroTypeOK, LineCounts
<1>7. AllPut'
  <2>1. HasPut(p)
    BY <1>3 DEF HasPut
  <2>2. \A q \in Procs : q # p => (HasPut(q)' <=> HasPut(q))
    BY <1>1, <1>3, <1>4 DEF HasPut
  <2>3. QED
    BY <1>1, <2>1, <2>2 DEF AeroInv, AllPut
<1>8. FailedLeaveNothing'
  BY <1>3 DEF FailedLeaveNothing
<1>9. ~ AllSimple'
  BY <1>1, <1>5 DEF AllSimple
<1>10. SimpleLate' /\ SimpleRead' /\ PassedReadOwn'
  BY <1>9 DEF SimpleLate, SimpleRead, PassedReadOwn, AllSimple
<1>11. QED
  BY <1>6, <1>7, <1>8, <1>10 DEF AeroInv

\* A speed test that ends with an exception has put what it has put.
LEMMA ReadStopsInv ==
  ASSUME AeroInv, NEW p \in Procs, ReadStops(p)
  PROVE  AeroInv'
<1>1. /\ job' = job /\ line' = line /\ record' = record /\ late' = late
      /\ got' = got /\ odd' = odd /\ job[p].prog # "simple"
  BY DEF ReadStops
<1>2. PICK from \in {"put", "unpack"} : Goes(p, from, "passed")
  BY DEF ReadStops
<1>3. /\ at' \in [Procs -> Places] /\ at[p] = from /\ at'[p] = "passed"
      /\ \A q \in Procs : q # p => at'[q] = at[q]
  BY <1>2, GoesOne DEF AeroInv, Places, Ended
<1>4. AeroTypeOK' /\ LineCounts'
  BY <1>1, <1>3 DEF AeroInv, AeroTypeOK, LineCounts
<1>5. AllPut'
  <2>1. \A q \in Procs : HasPut(q)' => HasPut(q)
    BY <1>1, <1>3 DEF HasPut
  <2>2. QED
    BY <1>1, <2>1 DEF AeroInv, AllPut
<1>6. FailedLeaveNothing'
  BY <1>3 DEF FailedLeaveNothing
<1>7. ~ AllSimple'
  BY <1>1 DEF AllSimple
<1>8. SimpleLate' /\ SimpleRead' /\ PassedReadOwn'
  BY <1>7 DEF SimpleLate, SimpleRead, PassedReadOwn, AllSimple
<1>9. QED
  BY <1>4, <1>5, <1>6, <1>8 DEF AeroInv

\* A program that is run again.
LEMMA AgainInv ==
  ASSUME AeroInv, NEW p \in Procs, Again(p)
  PROVE  AeroInv'
<1>1. /\ line' = [line EXCEPT ![p] = 0] /\ got' = [got EXCEPT ![p] = {}]
      /\ job' = job /\ record' = record /\ late' = late /\ odd' = odd
  BY DEF Again
<1>2. /\ at' \in [Procs -> Places] /\ at'[p] = "connect"
      /\ \A q \in Procs : q # p => at'[q] = at[q]
  BY GoesOne DEF Again, Goes, AeroInv, Places
<1>3. /\ line' \in [Procs -> Nat] /\ line'[p] = 0 /\ DOMAIN got' = Procs
      /\ \A q \in Procs : q # p => line'[q] = line[q] /\ got'[q] = got[q]
  BY <1>1 DEF AeroInv, AeroTypeOK
<1>4. AeroTypeOK' /\ LineCounts'
  BY <1>1, <1>2, <1>3 DEF AeroInv, AeroTypeOK, LineCounts
<1>5. AllPut'
  BY <1>2 DEF AllPut, HasPut
<1>6. FailedLeaveNothing'
  BY <1>2 DEF FailedLeaveNothing
<1>7. SimpleLate' /\ SimpleRead'
  BY <1>1, <1>2 DEF AeroInv, SimpleLate, SimpleRead, AllSimple
<1>8. PassedReadOwn'
  BY <1>1, <1>2, <1>3 DEF AeroInv, PassedReadOwn
<1>9. QED
  BY <1>4, <1>5, <1>6, <1>7, <1>8 DEF AeroInv

\* A call that the server carries out late.
LEMMA LateInv ==
  ASSUME AeroInv, NEW call \in late, Late(call)
  PROVE  AeroInv'
<1>1. /\ job' = job /\ at' = at /\ line' = line /\ got' = got
      /\ late' \subseteq late
  BY DEF Late
<1>2. /\ call = {} => record' = {} /\ odd' = odd \cup {"late remove"}
      /\ call # {} => record' = record \cup call /\ odd' = odd \cup {"late put"}
  BY DEF Late
<1>3. AeroTypeOK' /\ LineCounts' /\ PassedReadOwn'
  BY <1>1 DEF AeroInv, AeroTypeOK, LineCounts, PassedReadOwn
<1>4. AllPut'
  BY <1>1, <1>2 DEF AeroInv, AllPut, HasPut
<1>5. FailedLeaveNothing'
  BY <1>1, <1>2 DEF AeroInv, FailedLeaveNothing
<1>6. SimpleLate' /\ SimpleRead'
  BY <1>1, <1>2 DEF AeroInv, SimpleLate, SimpleRead, AllSimple
<1>7. QED
  BY <1>3, <1>4, <1>5, <1>6 DEF AeroInv

\* The invariant holds before any process runs.
LEMMA AeroInitInv == Init => AeroInv
<1> SUFFICES ASSUME Init PROVE AeroInv
  OBVIOUS
<1>1. /\ job \in [Procs -> Jobs] /\ at = [p \in Procs |-> "connect"]
      /\ line = [p \in Procs |-> 0] /\ got = [p \in Procs |-> {}] /\ late = {}
  BY DEF Init
<1>2. PICK p \in Procs : at[p] = "connect"
  BY <1>1, AeroAssumption
<1>3. AeroTypeOK /\ LineCounts
  BY <1>1 DEF AeroTypeOK, LineCounts, Places
<1>4. AllPut /\ FailedLeaveNothing
  BY <1>2 DEF AllPut, HasPut, FailedLeaveNothing
<1>5. SimpleLate /\ SimpleRead /\ PassedReadOwn
  BY <1>1 DEF SimpleLate, SimpleRead, PassedReadOwn
<1>6. QED
  BY <1>3, <1>4, <1>5 DEF AeroInv

\* Every step keeps the invariant.
LEMMA AeroNextInv == AeroInv /\ [Next]_aeroVars => AeroInv'
<1> SUFFICES ASSUME AeroInv, [Next]_aeroVars PROVE AeroInv'
  OBVIOUS
<1>1. ASSUME NEW p \in Procs, Step(p) \/ Kill(p) \/ Again(p) PROVE AeroInv'
  <2>1. CASE Connect(p) \/ ConnectFails(p) \/ ReadFails(p) \/ Kill(p)
    BY <2>1, QuietInv
  <2>2. CASE StartClean(p)
    BY <2>2, StartCleanInv
  <2>3. CASE Put(p)
    BY <2>3, PutInv
  <2>4. CASE PutFails(p)
    BY <2>4, PutFailsInv
  <2>5. CASE Read(p)
    BY <2>5, ReadInv
  <2>6. CASE Cleanup(p)
    BY <2>6, CleanupInv
  <2>7. CASE Unpack(p)
    BY <2>7, UnpackInv
  <2>8. CASE Again(p)
    BY <2>8, AgainInv
  <2>9. CASE ReadStops(p)
    BY <2>9, ReadStopsInv
  <2>10. QED
    BY <1>1, <2>1, <2>2, <2>3, <2>4, <2>5, <2>6, <2>7, <2>8, <2>9 DEF Step
<1>2. ASSUME NEW call \in late, Late(call) PROVE AeroInv'
  BY <1>2, LateInv
<1>3. CASE UNCHANGED aeroVars
  <2>1. /\ job' = job /\ at' = at /\ line' = line /\ record' = record
        /\ late' = late /\ got' = got /\ odd' = odd
    BY <1>3 DEF aeroVars
  <2>2. AeroTypeOK' /\ LineCounts' /\ AllPut' /\ FailedLeaveNothing'
    BY <2>1 DEF AeroInv, AeroTypeOK, LineCounts, AllPut, HasPut, FailedLeaveNothing
  <2>3. SimpleLate' /\ SimpleRead' /\ PassedReadOwn'
    BY <2>1 DEF AeroInv, SimpleLate, SimpleRead, AllSimple, PassedReadOwn
  <2>4. QED
    BY <2>2, <2>3 DEF AeroInv
<1>4. QED
  BY <1>1, <1>2, <1>3 DEF Next

\* Any number of processes that remove, put and read the same record: those
\* that all pass leave it behind, those that all fail leave nothing, and a
\* simple test that passes among its like has read its own bins.
THEOREM AeroCorrect ==
  Spec => [](PassedKeepRecord /\ FailedLeaveNothing /\ PassedReadOwn)
<1>1. AeroInv => PassedKeepRecord /\ FailedLeaveNothing /\ PassedReadOwn
  <2> SUFFICES ASSUME AeroInv PROVE PassedKeepRecord
    BY DEF AeroInv
  <2>1. \A p \in Procs : job[p].prog \in {"simple", "speed"}
    BY DEF AeroInv, AeroTypeOK, Jobs
  <2>2. QED
    BY <2>1 DEF AeroInv, AllPut, HasPut, PassedKeepRecord
<1>2. QED
  BY <1>1, AeroInitInv, AeroNextInv, PTL DEF Spec
=============================================================================
