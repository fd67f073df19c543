# Verification of DBTest

DBTest is a collection of small programs around key-value stores: an LSM tree
written from scratch (`test/LSMTree`), read/write speed tests and demos for
RocksDB, Redis and Aerospike (`src/src`), and try-outs of libraries (`test`).
This directory holds TLA+ models of the programs that keep state, the TLC
configurations that check them, and TLAPS proofs. Paths below are relative to
the repository.

## 1. Inventory

| component | state | operations | what is hard | what makes it correct |
|---|---|---|---|---|
| LSM tree, `test/LSMTree/lsm.c` | the in-memory block (`block`, `next_empty`), the file `disk_storage.txt` (a header with the number of nodes, then the nodes) | `init_new_lsm`, `put`, `get`, `update`, `delete`, `write_to_disk`, `merge_sort`, `merge`, `destruct_lsm` | a flush truncates the only copy before it rewrites it; short writes are ignored; uninitialised memory is read after a crash; processes rewrite one file without a lock; the order of equal keys must survive every rewrite; searches never see the file | file sorted, newest node of a key first; header right; nothing flushed is lost; reads never go back; every call returns |
| LSM driver, `test/LSMTree/test.c` | the loop index; the file of earlier runs | `main`, `test_put`, `test_print_tree` | runs share one file and may be killed, inside the write too; `st_size` read after a failed `stat`; `testing[3]` not initialised | every key put is in the tree; the right sections are printed; a run ends |
| RocksDB speed test, `src/src/rocksdb_rw_speed_test.cpp` | a record under construction, the database `./db`, counters | `split`, pack, `Put`, `Get`, unpack, report | 16-bit offsets; ignored statuses; short lines; exceptions around the loop | unpacking stays in the record and returns the field packed |
| Redis speed test, `src/src/redis_rw_speed_test.cpp` | a connection, counters | the same loop, `SET`/`GET` | binary data as a C string; NULL replies; answers after a timeout; the reply is never copied | a reply is that of its own command; a lost server does not hold up the run |
| Aerospike simple and speed tests, `src/src/aerospike_*.cpp` | one record on a server, shared by all processes | remove, put, get, cleanup | interleavings of processes; calls in doubt after a timeout | processes that passed leave the record, processes that failed leave none; a run ends |
| RocksDB checkpoint and SST ingestion, `src/src/rocksdb_checkpoint.cpp`, `rocksdb_ingest_sst_files.cpp` | a database, a checkpoint directory, SST files | batches, checkpoint, ingest | overlapping and second runs; unsynced writes; one program uses the files of the other | the checkpoint holds the first batch and not the second, and the database keeps what it holds |
| Arbitrary store, `src/src/rocksdb_arbitrary_store.cpp` | one key | pack, unpack | unpack after a failed read; unsynced writes | what was flushed is read back |
| Fortune server, `src/src/libevent_demo.cpp` | a cookie index, connections | three callbacks | does not compile | - |

The LSM tree is called by its driver. The other programs are independent of
it and of each other, except that the ingestion program reads a file of the
checkpoint program's database, the two Aerospike programs use the same record,
and all three speed tests share the record format and the input file.

## 2. Modules

| module | models | extends |
|---|---|---|
| `Merge` | `merge()`: its three loops, and the order `merge_sort()` establishes | |
| `MergeSort` | `merge_sort()`: recursion as a stack of activations | `Merge` |
| `LSM` | all of `lsm.c` that changes state | `Merge` |
| `VersionStore` | abstract: what `put`/`get` promise | |
| `LSMRefinement` | the mapping of `LSM` to `VersionStore` | `LSM` |
| `TestPut` | `test.c` driving the tree | `LSM` |
| `LSMShared` | several processes that `put()` into one `disk_storage.txt` | (an instance of `Merge`) |
| `RocksSpeed` | `rocksdb_rw_speed_test.cpp` | |
| `RedisSpeed` | `redis_rw_speed_test.cpp`: the same loop over a connection | `RocksSpeed` |
| `RocksStore` | external: what the demos rely on in RocksDB | |
| `Checkpoint` | `rocksdb_checkpoint.cpp`, several processes | `RocksStore` |
| `ArbitraryStore` | `rocksdb_arbitrary_store.cpp` | `RocksStore` |
| `AeroRecord` | `aerospike_simple_test.cpp` and `aerospike_rw_speed_test.cpp`, several processes | |
| `MC*` | bounds and input sets for TLC | the module they check |
| `*Proofs` | theorems and lemmas | the module they are about, `TLAPS` |

### The tree (`Merge`, `MergeSort`, `LSM`)

`block` is `tree->block[0 .. next_empty-1]`; a C index is a position minus one.
The file is three variables: `fileState` (absent, zero bytes, or with a header),
`count` (the header) and `nodes`. They can disagree: a short or torn write
leaves fewer nodes than the header says, and what a reader then finds in the
array it allocated is any node of `Garbage` (`Padded`).

A value is copied and never inspected by the code, so each `put()` or `update()`
gets a fresh one, its *stamp*: 1, 2, 3... A larger stamp is a later value, which
is how "newest", "lost" and "read back" are stated.

Calls that do not write the file are one step (`PutRoom`, `GetFromBuffer`,
`GetFromDisk`, `Update`, `DeleteFromBuffer`, `Destruct`). A rewrite of the file
is `PutFull` or `Flush`, then `Sort`, `ReadNoFile` or `ReadFile`,
the iterations of `MergeLoop`, `MergeEnd`, `OpenWrite` (the truncation) and
`Write`; a kill can fall between any two of them, and `KillTorn` inside the
write. The `fseek()` behind the `fwrite()` of the header writes the header out and
the nodes follow in `fclose()`, so a kill inside the write finds the header and
none or some of the nodes; up to it the file is empty. Runs and theorems with
`Faults = {"kill"}` have the kills outside the write, those with `"torn"` the others
as well. `WriteShort` is a
failing `fwrite()` or `fclose()`, after which the code goes on. `UpdateDies` and
`DeleteDies` are the NULL dereference and the failed assertion. `Restart` is a new process, possibly with the other
value of `sorted`.

`Memmove` moves bytes, as the code does: `SpliceNode` puts together a node of
the first bytes of one and the last bytes of another, little-endian.

`search_disk()` opens `disk_storae.txt`, a file that nothing creates, and returns
NULL for every key. So in the model, as in the program, `get()` finds what is in the
buffer and nothing else: `GetFromDisk` is the search that fails, and `missed` keeps
for which keys the last `get()` returned NULL. `delete()` of a key that is not in the
buffer ends with `assert(ni)`, and `update()` of one before that. The code behind
these points cannot be reached and has no action: the search loop of `search_disk()`
(lsm.c:182-212), the branch of `delete()` that rewrites the file (367-419) and the
`else` of `update()` (446-450).

`MergeSort` runs the recursion with `merge()` inlined, so `IsMergeSortOf`, the one
step `Sort` takes in `LSM`, is checked against the code.

History variables (no guard of the code reads them): `puts`, `size`, `ret`,
`missed`, `flushed`, `wiped`, and in `Merge` `posL`, `posR`.

### The abstract store (`VersionStore`, `LSMRefinement`)

A key has versions in memory and versions on disk. `Put` adds one to memory;
`SpillAndPut` moves all of memory to disk first; `Get` reads the oldest in
memory (the code's linear search finds the first) and `GetNull` is what a reader gets
when memory has none: the disk is not read, versions only gather there. A process that ends loses memory; killed in the truncation window it loses the
disk too. There are no blocks, sorting, headers or files in it. The mapping:
memory is the buffer; disk is the file, or between truncation and write the
array about to be written, less what comes from the buffer, so the abstract step
of a flush is `Write` and everything before it stutters.

### Processes that share the file (`LSMShared`)

Each process has its own block, and `at[p]` says which system call of
`write_to_disk()` it makes next: `StatFails` or `ReadHeader`, `ReadData`,
`OpenWrite`, `WriteHeader`, `WriteNodes`. Any two may interleave. A header read
before another process truncates the file counts nodes that are gone
(`ReadArray` fills up with `Garbage`); a process that writes its nodes after
another has truncated the file leaves a hole for a header; writing replaces a
prefix of what is there. `Kill` is a kill at any of these calls and a new process.
`SortedProcs` are the processes that run with `sorted` set.
What one process does on its own between two system calls, the sort and the
merge, is one step: `LSM`, `MergeSort` and `Merge` have it in detail.
`alone`, `raced`, `wiped`, `flushed` and `flushes` are history.

### The driver (`TestPut`)

`NotPut` is a run in which `strcmp(testing, "put")` fails, because `strncpy()` has left
the last byte of `testing` as it was. `PutNext` is one iteration of `test_put()`, `TestCallStep` the flush inside it,
`PrintTree`, `PrintNoFile` and `PrintDies` the outcomes of `test_print_tree()`
(after a failed `stat()` the size is arbitrary), `Exit` the end of `main()`, and
`TestRestart` the next run, with its own `data_size`, on the file that is there.
`TestKill` is a kill anywhere. Inside the write it leaves a header with too few
nodes: a later run that flushes fills the gap from uninitialised memory and so makes
the file whole, one that does not prints such memory. `PrintsWhatThereIs` says what is
left: the file is printed when its header counts nodes, and a run that has flushed
prints what is in it.

### The RocksDB speed test (`RocksSpeed`)

The two loops that build a record are steps (`AddBlock`, `AddField`): the first
cuts the numbers to 16 bits (`UInt16`, `% Wrap`) and adds up the cut lengths, the
second appends the fields whole. `starts` is history: where each field really
is. `Put`, `Get` and their failures are external: `Put` is atomic and survives
a kill of the process (RocksDB's log), and a failed call leaves database or
string alone. `ReadShortLine` and `UnpackGarbage` are undefined behaviour: the
process crashes, or an exception ends the reading of the file, or garbage is
used. `DB::Open()` succeeds: if it does not the program aborts without a step.

### The Redis speed test (`RedisSpeed`)

`Connect`, `Ping`, `Set` and `GetReply` take the place of opening the database, `Put`
and `Get`; all other steps are the actions of `RocksSpeed` (`SameCode`). The server
and hiredis are external: `Answered` takes the first reply on the connection
(`wire`), `Unanswered` is a timeout or a lost connection, after which an answer may
still arrive, and `NotSent` every later command on a context whose `err` is set.
The program never looks at the value: it is cut at its first zero byte on the way
out, and on the way back the reply is freed and an empty string is unpacked
(`UnpackGarbage`). So the model has no values.

### The RocksDB demos (`RocksStore`, `Checkpoint`, `ArbitraryStore`)

The library is not in the repository (`include/rocksdb/version.h` says 6.6).
`RocksStore` is what the programs rely on: a write goes to a log that is not
synced, a flush moves the log to synced files, `DB::Open()` ends with a flush of
what it recovered, a power failure takes the end of the log. The batches are
always the same, so a database is the set of those it holds.

In `Checkpoint`, `stage[p]` is the call that process p makes next. A process that has
the database open holds its LOCK; one that finds it taken fails its assertion.
Asserted statuses end the process (`PutNameFails`, `CreateCheckpointFails`), the
others are ignored (`WriteFirstFails`, `WriteSecondFails`); a failed write may be in
the log all the same. `CreateCheckpoint()` is two steps, `FlushForCopy` and
`LinkFiles`, so that kills and power failures fall between them. Nothing removes
the checkpoint: later runs fail at it.

`ArbitraryStore` is one process at a time, run again and again: `CompareNull` is the
null pointer that `Unpack()` returns for an empty string.

### The Aerospike programs (`AeroRecord`)

Every process of either program works on one record, so they are one module.
`job` says what each process runs; the programs differ in what they set before
a put (`Set`) and in the loop over lines (`NextLine`, `Unpack`). Each call to the
server is a step. The server is external: a put adds bins to the record
(`record`), a call that fails may have been carried out, or be carried out later
(`late`, `Late`). `Removes` is `remove_test_record()`, whose error nobody looks at.
`as_record_inita(&rec, 2)` gives the record in memory room for two bins, and the
speed test keeps that record for all lines: `Set` drops bins that do not fit or
have too long a name, as `as_record_set_str()` does, whose result is ignored. The
speed test unpacks a string that was never filled in; that wild read either does
nothing or ends the process, which is `Kill`. So does a line of fewer than four
fields, or it sets a bin of some other name, which is a line of `Files` like any other.
`ReadStops` is the exception that `read_file_line()` catches: the program ends as if
the file had. `got` and `odd` are history.

## 3. Runs

| run | checks | bounds |
|---|---|---|
| `merge_sort` | `MergeInterleaves`, `MergeSorts`, `MergeRightFirst`, `SortCorrect`, `StackShallow`, `SortReturns` | all arrays of up to 6 nodes, 3 keys: three levels of recursion, odd and even halves, every order of equal and different keys in a merge |
| `lsm_store` | `LSMTypeOK`, `DiskOrdered`, `HeaderMatches`, `DurableUnlessWiped`, `MonotonicReads`, `ImplementsVersionStore` | block of 2, 2 keys: three flushes, kills at every step but inside the write, restarts |
| `lsm_flush` | `NothingLost`, `CallsReturn` | partly filled blocks, sorted and unsorted, no faults |
| `lsm_faults` | `HeaderBounded`, `SizeAccounting` | all calls but a direct flush, kills, torn and short writes, garbage; keys 1 and 258, so that bytes moved by halves make new keys |
| `lsm_shared` | `SharedHeaderBounded`, `LostOnlyByRace`, `RewriteRepairs` | two processes, one with `sorted` set, blocks of one node, 6 puts: four rewrites interleaved at every system call, so that a rewrite reads what a race of two others left; kills |
| `test_put` | `WholeBlocks`, `EveryKeyStored`, `PrintsWhatThereIs`, `TestEnds` | data sizes 0, 1, 3, 5, block of 2, 11 puts over all runs, kills inside and outside the write |
| `db_clients` | speed tests: `RocksTypeOK`, `UnpackInBounds`, `CustomerUnpacked`, `ReportsBatch`, `ReplyIsMine`, `SpeedEnds`; demos: `CopyBeforeSecond`, `CopyExact`, `CopyKept`, `FlushedIsRead` | one program in each behaviour. Files of one line with lengths on both sides of `Wrap = 4`; two runs on one database over files with a key that comes back, two customers and a short line; failing calls, kills, commands that time out at any place. Three processes of the checkpoint program and runs of the other demo without limit |
| `aero_record` | `PassedKeepRecord`, `FailedLeaveNothing`, `PassedReadOwn`, `RunsEnd` | two processes, each of either program, run again without limit; files that are empty, have only too long a name, or more bins than fit; one late call at a time |

Four runs show a disagreement between the code and its comments:

| run | comment | what happens |
|---|---|---|
| `lsm_get` | "search through the file on disk for this item" | a key that was flushed is never found: the file name is misspelled |
| `lsm_delete` | "Deletes the node containing the given key." | the node behind it gets the value of the deleted one: bytes for nodes in `memmove` |
| `lsm_update` | "Search buffer & disk for key, update associated value." | update of a key that was flushed dereferences NULL: only the buffer is searched, and the result is used before it is tested |
| `lsm_sorted` | "if true data on disk will be sorted" | not if an unsorted tree wrote the file before |

`MaxPuts`, `MaxNodes`, `MaxRuns`, `MaxLen`, `MaxLate` are the only bounds in guards. Three
flushes are enough for a file that has itself been merged to be merged again. In
`lsm_shared` blocks of one node leave nothing to sort: what is at stake there is the
order of the system calls, and a second node in a block would cost the rewrites that
come after a race. The
proofs below remove the bounds for the properties they cover. Deadlock is checked
except in the run in which a program may really be over (`db_clients`).

**Fairness.** `FairSpec` asks weak fairness of `CallStep`, the steps of a call
that has started; `TestSpec` and `MCSpec` of `MergeSort` the same of the program's
own steps. The code is single-threaded, takes no lock and waits for nobody, so a
process that is not killed keeps running. `Spec` of `AeroRecord` asks it of each
process's own steps: every call of the client has a timeout, and nothing is tried
again. `Spec` of `RocksSpeed` and `RedisSpec` ask it of the steps of the loop: RocksDB's
calls return, and a Redis command returns at the latest after the timeout of 1.5
seconds given to `redisConnectWithTimeout()`. No caller is required to make calls,
and kills and restarts are never required.

## 4. Proofs

Every safety property of the runs in the first table is a theorem, for every block
size, set of keys, number of processes and bound that satisfies the named
assumptions of the modules. The assumptions a theorem makes beyond those are named
below.

**`merge()` and `merge_sort()`** (`MergeProofs`)

* `MergeCorrect`: `merge()` interleaves, sorts sorted arrays, and puts the right
  array first on equal keys. `MergeInv` adds that everything copied is not larger
  than everything still to be copied (`MergeFrontier`).
* `MergeSortCorrect`: `SortCorrect` for an array of every length. The recursion is a
  stack of activations, so that no induction over the data is needed: `StackInv` says
  of each activation which of its halves are sorted (`HalvesDone`), and of its
  neighbour on the stack that it sorts the half the activation waits for
  (`WaitsFor`). `MergeOfSorts` shows that merging two stably sorted halves sorts the
  whole: a node of the right half comes later in the block, and `merge()` puts it first.
* `MergeSortShallow`: `StackShallow`, from the same invariant. The array at depth d,
  less one node, is at most the 2^(d - 1)-th part of the input, less one
  (`DepthHalves`). The provers know nothing about powers; `PowerDoubles` gets it from the
  library's fact that a set of n elements has 2^n subsets. `SetInduction` is induction
  over the numbers for a set: the library states it for a predicate, which the provers
  cannot instantiate. It follows from the fact that a one-to-one map of a
  finite set into itself is onto.

**The tree** (`LSMProofs`)

* `LSMTypeCorrect`: the type invariant, under all calls and faults. `LSMInv` adds
  `Len(out) <= outCount`, that the merged arrays fit, and `MergeInv`, because
  `MergeEnd` takes its array from the loop.
* `LSMHeaderBounded`: the header and the buffer together never claim more nodes than
  `put()` and `update()` were called, under all faults. Assumes that `write_to_disk()` is not called
  directly. `BoundInv` follows the number through the steps of a rewrite: there the
  block is counted in `outCount`.
* `LSMSizeAccounting`: `SizeAccounting`, with the same assumption. `NodesCounted` says
  at each step of a rewrite where the nodes are that `size` counts: in the
  block and the file, in the array to be written, and one in the `put()` under way.
* `LSMStoreCorrect`: `DiskOrdered`, `HeaderMatches` and `DurableUnlessWiped`, for a
  sorted tree used through `put()` and `get()` (`PutGetOnly`; kills allowed, torn and short
  writes not). `StoreInv` has four parts: how far a flush has come (`Progress`), that
  stamps reach the file in the order they were handed out (`Stamps`), that a block is
  filled in rising order and sorted from then on (`Orders`), and that what was
  flushed is in the file or about to be written (`Kept`). Sorting by key a block whose
  stamps rise, with later nodes first among equals, gives the order of the file
  (`SortOrders`), and merging a newer block as the right array keeps it
  (`MergeOrders`).
* `LSMNothingLost`: `NothingLost` without faults and without `delete()` and `update()`
  (`NoFaults`), sorted or not, direct calls of `write_to_disk()` included. `AllThere`
  says where the values are: in the block and the file until the array to be written
  has both (`SortKeeps`, `MergeKeeps`).

**The driver** (`TestPutProofs`)

* `TestPutCorrect`: `WholeBlocks`, `EveryKeyStored` and `PrintsWhatThereIs`, for any
  sequence of runs of any sizes over one file, killed anywhere or not. Assumes that
  `fwrite()` and `fclose()` do not fail. `FileWhole` says that the header and the array to
  be written are whole blocks, and that what is read of a file has as many nodes as
  its header says and all that are there; `PutSoFar` which keys are where when the loop is at `i`, `PrintedLast` that
  the tree is printed once, after the last `put()`.

**The abstract store** (`VersionStoreProofs`, `LSMRefinementProofs`)

* `VSNeverReadsBack`: the abstract store never reads back. It assumes that versions
  are integers.
* `LSMImplementsVersionStore`: the tree implements it, assuming `PutGetOnly`.
  `RefineInv` adds to `StoreInv` where the buffer is during a flush; the
  invariants of the store make the first match of a search the oldest in the
  buffer.
* `LSMMonotonicReads`: `MonotonicReads` of the tree, from the other two.

**Processes that share the file** (`LSMSharedProofs`)

* `SharedHeaderIsBounded`: the header never claims more than a block for each
  rewrite. `SharedInv` says the same of the `num_elements` that each process carries
  from its read to its write: it was a header once, and the number of rewrites
  only grows.
* `SharedLostOnlyByRace` and `SharedRewriteRepairs`: `LostOnlyByRace` and
  `RewriteRepairs`. `KeepInv` says that a process that has met no other has the file to
  itself (`AloneInFile`), that none has met another unless two have raced
  (`AloneUnlessRaced`), that the array a process will write has as many nodes as its
  header will say and has its block (`Carried`), and that what was flushed is in the
  file or in that array (`FileKept`). `MergeKeepsAll` shows that the result of `merge()`
  has every node of both arrays, though neither need be sorted here; it is an induction
  over the rounds of the loops, and `RoundsExist` the one that shows that the recursive
  function has a value.

**The programs on databases** (`ClientProofs`, `AeroProofs`)

* `CheckpointCorrect`: `CopyBeforeSecond`, `CopyExact` and `CopyKept` for any set of
  processes. `CkInv` says what each stage knows: the name is in the database from the
  second call on, the first batch is or has failed, a checkpoint is there at the
  second batch. `CopyKept` needs that the checkpoint is in synced files, so that the
  log is empty from the flush to the links (`AtLink`), and for this that only one
  process has the database open (`OneHolder`).
* `ArbitraryCorrect`: `FlushedIsRead`. `ArbInv` adds that what was flushed is in an SST
  file, and that what was read is in the database until the flush.
* `RocksCorrect`: `RocksTypeOK`, `UnpackInBounds`, `CustomerUnpacked` and `ReportsBatch` for
  every file, `Wrap` and `Batch`. `SpeedInv` follows the two loops of `Pack()`: each block
  starts where the one before ends, modulo `Wrap` (`Chained`), so it is never behind
  the place of its field, and at it as long as the numbers fit (`Placed`,
  `NextBlock`). Every record of the database is of this kind, and of a line with the
  customer of its key (`GoodStore`); `TimesAdded` is about the sums.
* `RedisCorrect`: `ReplyIsMine`, and what of the above holds for the Redis speed test.
  No reply is left over on a connection that still works (`NoLeftover`): after a
  time-out hiredis has set `c->err` and does not read from it again.
* `AeroCorrect`: `PassedKeepRecord`, `FailedLeaveNothing` and `PassedReadOwn` for any
  number of processes, at least one. `AeroInv` looks at all processes at once: if each
  has put the record since its last remove (`HasPut`), the record is there, whoever
  was last (`AllPut`).

Only model-checked: liveness (`CallsReturn`, `SortReturns`, `TestEnds`, `RunsEnd`,
`SpeedEnds`), which needs fairness and `ENABLED`; and the violations of the second
table, which are counterexamples.

## 5. Abstractions and what is left out

* Keys and counts are integers without a width; an LSM file of 2^31 nodes is out of
  reach of the bounds.
* `malloc()` succeeds, and so does `fopen()` of the data file. `malloc(sizeof(nodei))`
  allocates 8 bytes for a 16-byte struct; the layout of the heap is not modelled.
* A torn or short write ends at a node boundary: a node cut in half is read back
  as bytes of the file followed by bytes of the heap, which `Garbage` stands for.
* `buffer_size` is the same in all runs on one file.
* `LSMShared` has `put()` only: `get()`, `delete()` and `update()` do not see the file. A
  read or a write of all the nodes is one system call, which it is for files of up to
  4 KiB; larger ones are written in pieces.
* Times, messages and the text of keys are left out. The key of the speed test is
  the tuple of the fields it is joined from: the fields are numbers and contain no
  separator.
* Not modelled: the SST ingestion program, a straight line of calls that ends in an
  error on every run (its file was made by a flush, and `IngestExternalFile()` takes
  only files of an `SstFileWriter`) and changes nothing another program sees; the
  fortune server `libevent_demo.cpp`, which does not compile (`t` is used at line 133
  and its declaration is commented out at 130); the date demo, which is one call of
  a vendored header; the library try-outs, a few calls each without state; the data
  generator; the build file. `include/` and `lib/` are other projects' headers and
  archives, most of the lines in the repository: they are no code of DBTest, and
  what its programs use of them appears as external actions.

## 6. Plan

Done, in this order: `Merge`, `LSM`, their proofs, `VersionStore` and the
refinement, `MergeSort`, `TestPut`, `RocksSpeed`, `AeroRecord`; then `LSMShared`,
`RedisSpeed`, `RocksStore`, `Checkpoint`, `ArbitraryStore`; then the proofs of every
safety property of the runs. Every program with state of its own that compiles has
a model.

Next: `NothingLost` with kills, as a statement about what was flushed or is still in a
living process; that `MergeRounds` of `LSMShared` is the `merge()` of `Merge` step by
step; that one process of `LSMShared` on its own implements the flush of `LSM`.
