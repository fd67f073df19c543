----------------------------- MODULE RocksSpeed -----------------------------
(***************************************************************************)
(* src/src/rocksdb_rw_speed_test.cpp: for every line of a file of comma-   *)
(* separated fields, pack the fields into a record, Put() it in a RocksDB  *)
(* database, Get() it back and unpack one field.                           *)
(*                                                                         *)
(* A record is a count, one block of two 16-bit numbers per field (where   *)
(* the field starts and how long it is) and the fields one after another.  *)
(* It is built by two loops; the first adds up the numbers it has stored,  *)
(* the second appends the fields as they are.                              *)
(*                                                                         *)
(* A field is its contents, an opaque id, and its length in bytes.  Times  *)
(* are left out: usetime1 and usetime2 are the number of times added up.   *)
(***************************************************************************)
EXTENDS Integers, Sequences

CONSTANTS
  Files,        \* the input files: sequences of lines
  Wrap,         \* 2^16, the range of uint16_t
  Batch,        \* 10000, the lines between two reports
  GarbageKeys,  \* keys that may be built from memory behind a short vector
  Faults,       \* "kill": the process may be killed; "io": a Put() or a Get()
                \* may fail
  MaxRuns       \* bound: runs of the program on one database

Field == [id : Int, len : Nat]
Line == Seq(Field)

ASSUME RocksAssumption ==
  /\ Files \subseteq Seq(Line)
  /\ Wrap \in Nat \ {0}
  /\ Batch \in Nat \ {0}
  /\ Faults \subseteq {"kill", "io"}
  /\ MaxRuns \in Nat

VARIABLES
  file,      \* the file this run reads
  pc,        \* "line" when the next line is due; "end" after main() returned,
             \* "dead" after a crash
  pos,       \* lines read
  key,       \* key
  blocks,    \* the blocks in buffer
  boff,      \* boff
  body,      \* the fields in buffer
  starts,    \* history: where in buffer each of them starts, and the end
  db,        \* the database: key -> record, kept from run to run
  out,       \* out: a record, or NoRecord when it is an empty string
  value,     \* what was unpacked: where it starts and its size, or Garbage
  n,         \* lines done
  usetime,   \* times added to usetime1 (and usetime2) since the last report
  runs       \* history: runs started

recVars == <<blocks, boff, body, starts>>
rocksVars == <<file, pc, pos, key, recVars, db, out, value, n, usetime, runs>>

NoRecord == [blocks |-> <<>>, body |-> <<>>, starts |-> <<0>>]
Garbage == [at |-> -1, size |-> 0]

\* cafe_key_e
trans_date == 1
trans_time == 2
ref_nbr == 3
customer_id == 4

\* Mutant: the customer is not part of the key.
KeyNoCustomer(line) ==
  <<line[trans_date].id, line[trans_time].id, line[ref_nbr].id>>

\* The key is those fields joined by ':' and '_', neither of which is in a
\* field (they are numbers: sbin/create_cafe_data.sh).
KeyOf(line) ==
  <<line[customer_id].id, line[trans_date].id, line[trans_time].id, line[ref_nbr].id>>

Fields == file[pos]

\* Mutant: the numbers are stored whole.
Whole(x) == x

\* An int stored in a uint16_t.
UInt16(x) == x % Wrap

\* The first run, up to the place where this program touches its store.
StartsAt(first) ==
  /\ file \in Files
  /\ pc = first
  /\ pos = 0
  /\ key = <<>>
  /\ blocks = <<>> /\ boff = 0
  /\ body = <<>> /\ starts = <<0>>
  /\ db = [k \in {} |-> NoRecord]
  /\ out = NoRecord
  /\ value = Garbage
  /\ n = 0
  /\ usetime = 0
  /\ runs = 1

\* DB::Open() on a new directory
Init == StartsAt("line")

-----------------------------------------------------------------------------
\* One line: the callback of read_file_line()

\* The locals of the callback are new for every line.
StartLine(k) ==
  /\ key' = k
  /\ pc' = "blocks"
  /\ pos' = pos + 1
  /\ blocks' = <<>> /\ boff' = 0
  /\ body' = <<>> /\ starts' = <<0>>
  /\ out' = NoRecord
  /\ value' = Garbage
  /\ UNCHANGED <<file, db, n, usetime, runs>>

ReadLine ==
  /\ pc = "line" /\ pos < Len(file)
  /\ Len(file[pos + 1]) >= customer_id
  /\ StartLine(KeyOf(file[pos + 1]))

\* The program ends, by main() or by a signal.
Ends(how) ==
  /\ pc' = how
  /\ UNCHANGED <<file, pos, key, recVars, db, out, value, n, usetime, runs>>

\* Undefined behaviour may crash, or throw an exception: read_file_line()
\* catches it and returns, so the rest of the file is skipped.
GoesWrong == Ends("dead") \/ Ends("end")

\* ret[customer_id] is behind the end of the vector.
ReadShortLine ==
  /\ pc = "line" /\ pos < Len(file)
  /\ Len(file[pos + 1]) < customer_id
  /\ GoesWrong \/ \E k \in GarbageKeys : StartLine(k)

\* Mutant: the offset is counted from the start of the record, not of the body.
AddBlockFromHeader ==
  /\ pc = "blocks" /\ Len(blocks) < Len(Fields)
  /\ LET f == Fields[Len(blocks) + 1]
         block == [off |-> UInt16(boff + 1), size |-> UInt16(f.len)]
     IN  blocks' = Append(blocks, block) /\ boff' = boff + block.size
  /\ UNCHANGED <<file, pc, pos, key, body, starts, db, out, value, n, usetime, runs>>

\* The first loop.  boff is advanced by block.size, the 16-bit number.
AddBlock ==
  /\ pc = "blocks" /\ Len(blocks) < Len(Fields)
  /\ LET f == Fields[Len(blocks) + 1]
         block == [off |-> UInt16(boff), size |-> UInt16(f.len)]
     IN  blocks' = Append(blocks, block) /\ boff' = boff + block.size
  /\ UNCHANGED <<file, pc, pos, key, body, starts, db, out, value, n, usetime, runs>>

BlocksDone ==
  /\ pc = "blocks" /\ Len(blocks) = Len(Fields)
  /\ pc' = "body"
  /\ UNCHANGED <<file, pos, key, recVars, db, out, value, n, usetime, runs>>

\* The second loop.
AddField ==
  /\ pc = "body" /\ Len(body) < Len(Fields)
  /\ LET f == Fields[Len(body) + 1]
     IN  /\ body' = Append(body, f)
         /\ starts' = Append(starts, starts[Len(starts)] + f.len)
  /\ UNCHANGED <<file, pc, pos, key, blocks, boff, db, out, value, n, usetime, runs>>

\* db->Put(): the status is not looked at.
Buffer == [blocks |-> blocks, body |-> body, starts |-> starts]

PutTimed ==
  /\ pc = "body" /\ Len(body) = Len(Fields)
  /\ pc' = "get"
  /\ UNCHANGED <<file, pos, key, recVars, out, value, n, usetime, runs>>

Put ==
  /\ PutTimed
  /\ db' = [k \in DOMAIN db \cup {key} |-> IF k = key THEN Buffer ELSE db[k]]

PutFails ==
  /\ "io" \in Faults
  /\ PutTimed
  /\ UNCHANGED db

\* db->Get(): nor is this one.  Both times are added up by now.
GetTimed ==
  /\ pc = "get"
  /\ pc' = "unpack"
  /\ usetime' = usetime + 1
  /\ UNCHANGED <<file, pos, key, recVars, db, value, n, runs>>

Get ==
  /\ GetTimed
  /\ out' = IF key \in DOMAIN db THEN db[key] ELSE NoRecord

GetFails ==
  /\ "io" \in Faults
  /\ GetTimed
  /\ UNCHANGED out

\* The block of customer_id says which bytes of the body to copy.
Unpack ==
  /\ pc = "unpack" /\ Len(out.blocks) >= customer_id
  /\ LET blk == out.blocks[customer_id]
     IN  value' = [at |-> blk.off, size |-> blk.size]
  /\ pc' = "count"
  /\ UNCHANGED <<file, pos, key, recVars, db, out, n, usetime, runs>>

\* There is no such block: an empty string, or a record of a short line.
UnpackGarbage ==
  /\ pc = "unpack" /\ Len(out.blocks) < customer_id
  /\ \/ GoesWrong
     \/ /\ value' = Garbage
        /\ pc' = "count"
        /\ UNCHANGED <<file, pos, key, recVars, db, out, n, usetime, runs>>

\* Mutant: usetime1 is not reset.
CountLineNoReset ==
  /\ pc = "count"
  /\ n' = n + 1
  /\ pc' = "line"
  /\ UNCHANGED <<file, pos, key, recVars, db, out, value, usetime, runs>>

\* ++n, and a report every Batch lines.
CountLine ==
  /\ pc = "count"
  /\ n' = n + 1
  /\ usetime' = IF n' % Batch = 0 THEN 0 ELSE usetime
  /\ pc' = "line"
  /\ UNCHANGED <<file, pos, key, recVars, db, out, value, runs>>

-----------------------------------------------------------------------------

\* getline() finds the end of the file; delete db.
EndOfFile == pc = "line" /\ pos = Len(file) /\ Ends("end")

Kill == "kill" \in Faults /\ pc \notin {"end", "dead"} /\ Ends("dead")

\* The program is run again on the database it left.
RunFrom(first) ==
  /\ pc \in {"end", "dead"} /\ runs < MaxRuns
  /\ runs' = runs + 1
  /\ file' \in Files
  /\ pc' = first
  /\ pos' = 0
  /\ key' = <<>>
  /\ blocks' = <<>> /\ boff' = 0
  /\ body' = <<>> /\ starts' = <<0>>
  /\ out' = NoRecord
  /\ value' = Garbage
  /\ n' = 0
  /\ usetime' = 0
  /\ UNCHANGED db

Run == RunFrom("line")

LineStep ==
  \/ ReadLine \/ ReadShortLine
  \/ AddBlock \/ BlocksDone \/ AddField
  \/ Put \/ PutFails \/ Get \/ GetFails
  \/ Unpack \/ UnpackGarbage \/ CountLine

Next == LineStep \/ EndOfFile \/ Kill \/ Run

\* One thread that waits for nobody; Put() and Get() return.
Spec == Init /\ [][Next]_rocksVars /\ WF_rocksVars(LineStep \/ EndOfFile)

-----------------------------------------------------------------------------
\* Properties

Record == [blocks : Seq([off : 0..(Wrap - 1), size : 0..(Wrap - 1)]),
           body : Line, starts : Seq(Nat)]

RocksTypeOK ==
  /\ file \in Files
  /\ pc \in {"connect", "ping", "line", "blocks", "body", "get", "unpack", "count",
              "end", "dead"}
  /\ pos \in 0..Len(file)
  /\ blocks \in Seq([off : 0..(Wrap - 1), size : 0..(Wrap - 1)])
  /\ boff \in Nat
  /\ body \in Line
  /\ starts \in Seq(Nat) /\ Len(starts) = Len(body) + 1
  /\ \A k \in DOMAIN db : db[k] \in Record
  /\ out \in Record
  /\ value = Garbage \/ (value.at \in 0..(Wrap - 1) /\ value.size \in 0..(Wrap - 1))
  /\ n \in 0..pos
  /\ usetime \in Nat
  /\ runs \in Nat

Unpacked == pc = "count" /\ value # Garbage

\* Unpacking a record never reads behind its end, whatever the lengths of the
\* fields: where an offset or a length does not fit in 16 bits, what is stored
\* is smaller.
UnpackInBounds ==
  Unpacked => value.at + value.size <= out.starts[Len(out.starts)]

\* Where the numbers do fit, the value is the whole customer_id of this very
\* line, although the record may be an older one of the same key because the
\* Put() failed.
CustomerUnpacked ==
  Unpacked /\ key \notin GarbageKeys
    /\ out.starts[customer_id] < Wrap /\ out.body[customer_id].len < Wrap =>
      /\ value.at = out.starts[customer_id]
      /\ value.size = out.body[customer_id].len
      /\ out.body[customer_id].id = Fields[customer_id].id

\* Every report is over the last Batch lines: as many times were added up
\* since the one before.
ReportsBatch == pc = "count" /\ (n + 1) % Batch = 0 => usetime = Batch

Running == pc \notin {"end", "dead"}

\* A run gets to the end of its file, or dies: no line, failed call or broken
\* connection holds it up for ever.
SpeedEnds == Running ~> ~ Running
=============================================================================
