------------------------------ MODULE TestPut ------------------------------
(***************************************************************************)
(* The driver src/test/LSMTree/test.c: `lsm data_size buffer_size nops put *)
(* [sorted]`.  test_put() puts the keys 0 .. data_size - 1 into a new tree *)
(* and prints it.  The program is run again and again in one directory, so *)
(* a run finds the file that earlier runs, killed or not, left behind.     *)
(*                                                                         *)
(* sorted is TRUE when there is a sixth argument, whatever it says, and    *)
(* FALSE otherwise: both are in SortedModes.                               *)
(***************************************************************************)
EXTENDS LSM

CONSTANT DataSizes   \* the values of data_size the program is run with

ASSUME TestAssumption ==
  /\ DataSizes \subseteq Nat
  /\ \A n \in DataSizes : 0..(n - 1) \subseteq Keys /\ n <= MaxPuts
  /\ "put" \in Ops

VARIABLES
  dataSize, \* data_size of this run
  i,        \* the loop variable of test_put()
  printed   \* what test_print_tree() has printed: a subset of
            \* {"buffer", "disk"}, or NotYet

NotYet == {"not yet"}

testVars == <<vars, dataSize, i, printed>>

TestInit == Init /\ dataSize \in DataSizes /\ i = 0 /\ printed = NotYet

\* strncpy(testing, argv[4], 3) leaves testing[3] as it was on the stack.  When
\* that is not 0, strcmp() does not find "put" and main() returns.
NotPut ==
  /\ pc = "idle" /\ i = 0 /\ printed = NotYet
  /\ UNCHANGED <<fileVars, dataSize, i, printed>>
  /\ Dies

\* for (i = 0; i < data_size; ++i) put(i)
PutNext ==
  /\ i < dataSize
  /\ PutRoom(i) \/ PutFull(i)
  /\ i' = i + 1
  /\ UNCHANGED <<dataSize, printed>>

TestCallStep == CallStep /\ UNCHANGED <<dataSize, i, printed>>

\* test_print_tree() is entered.
Prints == pc = "idle" /\ i = dataSize /\ printed = NotYet

\* Mutant: the section for data in both places prints the buffer only.
SectionsOne(sz) ==
  CASE block # <<>> -> {"buffer"}
    [] sz = "positive" /\ block = <<>> -> {"disk"}
    [] OTHER -> {}

\* The sections that a file of the given size ("zero" or "positive") and the
\* buffer select.
Sections(sz) ==
  CASE sz = "zero" /\ block # <<>> -> {"buffer"}
    [] sz = "positive" /\ block = <<>> -> {"disk"}
    [] sz = "positive" /\ block # <<>> -> {"buffer", "disk"}
    [] OTHER -> {}

\* stat() succeeds.  An existing file is at least its header, unless a run was
\* killed after truncating it.  A file with fewer nodes than its header says is
\* printed like any other: print_disk_data() allocates as many as the header
\* says and prints them all.
PrintTree ==
  /\ Prints /\ fileState # "absent"
  /\ printed' = Sections(IF fileState = "empty" THEN "zero" ELSE "positive")
  /\ UNCHANGED <<vars, dataSize, i>>

\* stat() fails, perror(), and st_size is whatever the stack held.  A size that
\* is not positive selects the buffer or nothing.
PrintNoFile ==
  /\ Prints /\ fileState = "absent"
  /\ \E sz \in {"zero", "negative"} : printed' = Sections(sz)
  /\ UNCHANGED <<vars, dataSize, i>>

\* A positive one leads to print_disk_data(), where fopen() returns NULL and
\* fread() dereferences it.
PrintDies ==
  /\ Prints /\ fileState = "absent"
  /\ UNCHANGED <<fileVars, dataSize, i, printed>>
  /\ Dies

\* main() returns; the buffer is not written.
Exit ==
  /\ pc = "idle" /\ printed # NotYet
  /\ UNCHANGED <<fileVars, dataSize, i, printed>>
  /\ Dies

\* A run may be killed anywhere, inside the write of the file too.
TestKill == (Kill \/ KillTorn) /\ UNCHANGED <<dataSize, i, printed>>

\* The program is run again, as long as the bound leaves room for a whole run.
TestRestart ==
  /\ Restart
  /\ dataSize' \in {n \in DataSizes : puts + n <= MaxPuts}
  /\ i' = 0
  /\ printed' = NotYet

\* The steps of the program itself.
TestStep ==
  \/ NotPut \/ PutNext \/ TestCallStep
  \/ PrintTree \/ PrintNoFile \/ PrintDies \/ Exit

TestNext == TestStep \/ TestKill \/ TestRestart

\* One thread that never waits.
TestSpec == TestInit /\ [][TestNext]_testVars /\ WF_testVars(TestStep)

-----------------------------------------------------------------------------
\* Properties

\* However many runs there were, killed or not, the header counts whole blocks:
\* put() flushes only a full one, and adds block_size to it.  The nodes are as
\* many as it says once this run has flushed, though an earlier one may have
\* been killed inside the write: the flush fills the gap with whatever memory
\* it allocated.
WholeBlocks ==
  /\ count % BlockSize = 0
  /\ pc = "idle" /\ Len(block) < i => Len(nodes) = count

\* When test_put() is about to print, every key it was to put is in the tree:
\* the last ones, at least one of them, in the buffer in the order they were
\* put, and all before them in the file.  put() flushes before it appends, so
\* the buffer is never left empty.
EveryKeyStored ==
  Prints /\ dataSize > 0 =>
    LET m == dataSize - Len(block)
    IN  /\ block # <<>>
        /\ \A j \in 1..Len(block) : block[j].key = m + j - 1
        /\ \A k \in 0..(m - 1) : \E j \in 1..Len(nodes) : nodes[j].key = k

\* If there is a file, test_print_tree() prints the buffer when it holds nodes
\* and the file when its header says that it does.  A run that flushed prints
\* what the file holds.  A shorter one may find a file that lost nodes to a kill
\* inside the write, and then prints uninitialised memory in their place; the
\* next flush writes such memory to the file.
PrintsWhatThereIs ==
  pc = "idle" /\ printed # NotYet /\ fileState # "absent" =>
    /\ "buffer" \in printed <=> block # <<>>
    /\ "disk" \in printed <=> count > 0
    /\ dataSize > BlockSize => "disk" \in printed /\ Len(nodes) = count

\* A run that is not killed gets to its end.
TestEnds == pc # "dead" ~> pc = "dead"
=============================================================================
