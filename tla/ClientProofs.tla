---------------------------- MODULE ClientProofs ----------------------------
(***************************************************************************)
(* The programs that use RocksDB and Redis, for any set of processes, any  *)
(* files and any batch sizes: the checkpoint, the arbitrary store and the  *)
(* two speed tests.                                                        *)
(***************************************************************************)
EXTENDS RedisSpeed, Checkpoint, ArbitraryStore, TLAPS

-----------------------------------------------------------------------------
\* The checkpoint is exact, comes before the second batch and is never ahead
\* of the database.  CkInv adds to the properties what each stage knows.  That
\* the log is empty from the flush to the link (AtLink) needs the LOCK: no
\* other process can write in between (OneHolder).

Batches == {"name", "first", "second"}

CkTypeOK ==
  /\ stage \in [Runners -> Holding \cup {"off"}]
  /\ synced \subseteq Batches
  /\ log \in Seq(Batches)
  /\ failed \in BOOLEAN

OneHolder ==
  \A p, q \in Runners : stage[p] \in Holding /\ stage[q] \in Holding => p = q

AtLink ==
  \A p \in Runners : stage[p] = "link" => log = <<>> /\ copy = NoDir

NameWritten ==
  \A p \in Runners : stage[p] \in {"first", "flush", "link"} => "name" \in Live

FirstWritten ==
  \A p \in Runners :
    stage[p] \in {"flush", "link"} => "first" \in Live \/ failed = TRUE

CopyMade ==
  \A p \in Runners : stage[p] \in {"second", "close"} => HasCopy

\* In SST files, not only in the log.
CopySynced == HasCopy => copy \subseteq synced

CkInv ==
  /\ CkTypeOK /\ OneHolder /\ AtLink /\ NameWritten /\ FirstWritten /\ CopyMade
  /\ CopySynced /\ CopyBeforeSecond /\ CopyExact

-----------------------------------------------------------------------------
\* What the operations of RocksStore do to Live.

\* A write adds its batch.
LEMMA WritesAdds ==
  ASSUME NEW B, log \in Seq(B), NEW b \in B, Writes(b)
  PROVE  /\ Live' = Live \cup {b}
         /\ synced' = synced /\ log' \in Seq(B)
<1>1. log \in Seq(B) /\ log' = Append(log, b) /\ synced' = synced
  BY DEF Writes
<1>2. /\ Len(log') = Len(log) + 1 /\ Len(log) \in Nat
      /\ log'[Len(log) + 1] = b
      /\ \A i \in 1..Len(log) : log'[i] = log[i]
  BY <1>1
<1>3. Logged(log') = Logged(log) \cup {b}
  BY <1>2 DEF Logged
<1>4. Live' = synced' \cup Logged(log')
  BY DEF Live, Logged
<1>5. QED
  BY <1>1, <1>3, <1>4 DEF Live

\* A failed one may add it.
LEMMA MayWriteAdds ==
  ASSUME NEW B, log \in Seq(B), NEW b \in B, MayWrite(b)
  PROVE  /\ Live' = Live \/ Live' = Live \cup {b}
         /\ synced' = synced /\ log' \in Seq(B)
<1>1. CASE log' = log
  BY <1>1 DEF MayWrite, Live, Logged
<1>2. CASE log' = Append(log, b)
  BY <1>2, WritesAdds DEF MayWrite, Writes
<1>3. QED
  BY <1>1, <1>2 DEF MayWrite

\* A flush changes where the batches are, not which.
LEMMA FlushesKeeps ==
  ASSUME NEW B, log \in Seq(B), synced \subseteq B, Flushes
  PROVE  /\ Live' = Live /\ synced' = Live
         /\ log' = <<>> /\ log' \in Seq(B) /\ synced' \subseteq B
<1>1. synced' = Live /\ log' = <<>>
  BY DEF Flushes
<1>2. Logged(log') = {}
  BY <1>1 DEF Logged
<1>3. Live' = synced' \cup Logged(log')
  BY DEF Live, Logged
<1>4. Logged(log) \subseteq B
  BY DEF Logged
<1>5. Live \subseteq B
  BY <1>4 DEF Live
<1>6. QED
  BY <1>1, <1>2, <1>3, <1>5

\* A power failure adds nothing and leaves the SST files.
LEMMA LosesTailShrinks ==
  ASSUME NEW B, log \in Seq(B), LosesTail
  PROVE  /\ Live' \subseteq Live
         /\ synced' = synced /\ log' \in Seq(B)
<1>1. log \in Seq(B) /\ synced' = synced
  BY DEF LosesTail
<1>2. PICK i \in 0..Len(log) : log' = SubSeq(log, 1, i)
  BY DEF LosesTail
<1>3. /\ log' \in Seq(B) /\ Len(log') = i
      /\ \A j \in 1..i : log'[j] = log[j]
  BY <1>1, <1>2
<1>4. Logged(log') \subseteq Logged(log)
  BY <1>1, <1>3 DEF Logged
<1>5. Live' = synced' \cup Logged(log')
  BY DEF Live, Logged
<1>6. QED
  BY <1>1, <1>3, <1>4, <1>5 DEF Live

-----------------------------------------------------------------------------
\* The steps

\* A step of p changes the stage of p and of no other process.
LEMMA MovesOne ==
  ASSUME CkTypeOK, NEW p \in Runners, NEW from \in Holding \cup {"off"},
         NEW to \in Holding \cup {"off"}, Moves(p, from, to)
  PROVE  /\ stage' \in [Runners -> Holding \cup {"off"}]
         /\ stage[p] = from /\ stage'[p] = to
         /\ \A q \in Runners : q # p => stage'[q] = stage[q]
  BY DEF CkTypeOK, Moves

\* A process that holds the LOCK or lets go of it keeps it to itself.
LEMMA StaysAlone ==
  ASSUME CkInv, NEW p \in Runners, NEW from \in Holding,
         NEW to \in Holding \cup {"off"}, Moves(p, from, to)
  PROVE  /\ OneHolder'
         /\ \A q \in Runners : q # p => stage'[q] \notin Holding
<1>1. /\ stage[p] = from /\ stage'[p] = to
      /\ \A q \in Runners : q # p => stage'[q] = stage[q]
  BY MovesOne DEF CkInv
<1>2. \A q \in Runners : q # p => stage'[q] \notin Holding
  BY <1>1 DEF CkInv, OneHolder
<1>3. QED
  BY <1>2 DEF OneHolder

\* Opening the database keeps the invariant.
LEMMA OpenInv ==
  ASSUME CkInv, NEW p \in Runners, CkOpen(p)
  PROVE  CkInv'
<1>1. /\ stage' \in [Runners -> Holding \cup {"off"}] /\ stage'[p] = "name"
      /\ \A q \in Runners : q # p => stage'[q] = stage[q] /\ stage'[q] \notin Holding
  BY MovesOne DEF CkInv, CkOpen, Holding
<1>2. /\ Live' = Live /\ synced' = Live /\ log' \in Seq(Batches)
      /\ synced' \subseteq Batches
  BY FlushesKeeps DEF CkInv, CkTypeOK, CkOpen
<1>3. copy' = copy /\ failed' = failed /\ synced \subseteq Live
  BY DEF CkOpen, Live
<1>4. \A q \in Runners : stage'[q] \notin Holding \/ (q = p /\ stage'[q] = "name")
  BY <1>1
<1>5. CkTypeOK' /\ OneHolder'
  BY <1>1, <1>2, <1>3, <1>4 DEF CkInv, CkTypeOK, OneHolder
<1>6. AtLink' /\ NameWritten' /\ FirstWritten' /\ CopyMade'
  BY <1>4 DEF AtLink, NameWritten, FirstWritten, CopyMade, Holding
<1>7. CopySynced' /\ CopyBeforeSecond' /\ CopyExact'
  BY <1>2, <1>3 DEF CkInv, CopySynced, CopyBeforeSecond, CopyExact, HasCopy
<1>8. QED
  BY <1>5, <1>6, <1>7 DEF CkInv

\* A process that ends without touching the files keeps the invariant.
LEMMA EndsInv ==
  ASSUME CkInv, NEW p \in Runners, NEW from \in Holding, Moves(p, from, "off"),
         UNCHANGED <<storeVars, copy, failed>>
  PROVE  CkInv'
<1>1. stage' \in [Runners -> Holding \cup {"off"}]
  BY MovesOne DEF CkInv
<1>2. OneHolder' /\ \A q \in Runners : stage'[q] \notin Holding
  <2>1. stage'[p] = "off"
    BY MovesOne DEF CkInv
  <2>2. QED
    BY <2>1, StaysAlone DEF Holding
<1>3. /\ Live' = Live /\ synced' = synced /\ log' = log
      /\ copy' = copy /\ failed' = failed
  BY DEF storeVars, Live, Logged
<1>4. CkTypeOK'
  BY <1>1, <1>3 DEF CkInv, CkTypeOK
<1>5. AtLink' /\ NameWritten' /\ FirstWritten' /\ CopyMade'
  BY <1>2 DEF AtLink, NameWritten, FirstWritten, CopyMade, Holding
<1>6. CopySynced' /\ CopyBeforeSecond' /\ CopyExact'
  BY <1>3 DEF CkInv, CopySynced, CopyBeforeSecond, CopyExact, HasCopy
<1>7. QED
  BY <1>2, <1>4, <1>5, <1>6 DEF CkInv

\* So does putting the name, whether it succeeds or not.
LEMMA PutNameInv ==
  ASSUME CkInv, NEW p \in Runners, PutName(p) \/ PutNameFails(p)
  PROVE  CkInv'
<1>1. PICK to \in {"first", "off"} :
        /\ Moves(p, "name", to)
        /\ to = "first" => "name" \in Live'
  BY WritesAdds DEF CkInv, CkTypeOK, PutName, PutNameFails, Batches
<1>2. /\ stage' \in [Runners -> Holding \cup {"off"}] /\ stage'[p] = to
      /\ OneHolder' /\ \A q \in Runners : q # p => stage'[q] \notin Holding
  BY <1>1, MovesOne, StaysAlone DEF CkInv, Holding
<1>3. /\ Live \subseteq Live' /\ Live' \subseteq Live \cup {"name"}
      /\ synced' = synced /\ log' \in Seq(Batches)
      /\ copy' = copy /\ failed' = failed
  BY WritesAdds, MayWriteAdds DEF CkInv, CkTypeOK, PutName, PutNameFails, Batches
<1>4. CkTypeOK'
  BY <1>2, <1>3 DEF CkInv, CkTypeOK
<1>5. AtLink' /\ NameWritten' /\ FirstWritten' /\ CopyMade'
  BY <1>1, <1>2 DEF AtLink, NameWritten, FirstWritten, CopyMade, Holding
<1>6. CopySynced' /\ CopyBeforeSecond' /\ CopyExact'
  BY <1>3 DEF CkInv, CopySynced, CopyBeforeSecond, CopyExact, HasCopy
<1>7. QED
  BY <1>2, <1>4, <1>5, <1>6 DEF CkInv

\* And writing the first batch: failed remembers what may be missing.
LEMMA WriteFirstInv ==
  ASSUME CkInv, NEW p \in Runners, WriteFirst(p) \/ WriteFirstFails(p)
  PROVE  CkInv'
<1>1. Moves(p, "first", "flush")
  BY DEF WriteFirst, WriteFirstFails
<1>2. /\ stage' \in [Runners -> Holding \cup {"off"}]
      /\ stage[p] = "first" /\ stage'[p] = "flush"
      /\ OneHolder' /\ \A q \in Runners : q # p => stage'[q] \notin Holding
  BY <1>1, MovesOne, StaysAlone DEF CkInv, Holding
<1>3. /\ Live \subseteq Live' /\ Live' \subseteq Live \cup {"first"}
      /\ synced' = synced /\ log' \in Seq(Batches)
      /\ copy' = copy
  BY WritesAdds, MayWriteAdds DEF CkInv, CkTypeOK, WriteFirst, WriteFirstFails, Batches
<1>4. /\ "first" \in Live' \/ failed' = TRUE
      /\ failed' \in BOOLEAN /\ (failed => failed')
  BY WritesAdds DEF CkInv, CkTypeOK, WriteFirst, WriteFirstFails, Batches
<1>5. CkTypeOK'
  BY <1>2, <1>3, <1>4 DEF CkInv, CkTypeOK
<1>6. "name" \in Live'
  BY <1>2, <1>3 DEF CkInv, NameWritten
<1>7. AtLink' /\ NameWritten' /\ FirstWritten' /\ CopyMade'
  BY <1>2, <1>4, <1>6 DEF AtLink, NameWritten, FirstWritten, CopyMade, Holding
<1>8. CopySynced' /\ CopyBeforeSecond' /\ CopyExact'
  BY <1>3, <1>4 DEF CkInv, CopySynced, CopyBeforeSecond, CopyExact, HasCopy
<1>9. QED
  BY <1>2, <1>5, <1>7, <1>8 DEF CkInv

\* The flush of CreateCheckpoint() empties the log.
LEMMA FlushForCopyInv ==
  ASSUME CkInv, NEW p \in Runners, FlushForCopy(p)
  PROVE  CkInv'
<1>1. Moves(p, "flush", "link") /\ copy = NoDir /\ copy' = copy /\ failed' = failed
  BY DEF FlushForCopy
<1>2. /\ stage' \in [Runners -> Holding \cup {"off"}]
      /\ stage[p] = "flush" /\ stage'[p] = "link"
      /\ OneHolder' /\ \A q \in Runners : q # p => stage'[q] \notin Holding
  BY <1>1, MovesOne, StaysAlone DEF CkInv, Holding
<1>3. /\ Live' = Live /\ synced' = Live /\ log' = <<>>
      /\ log' \in Seq(Batches) /\ synced' \subseteq Batches
  BY FlushesKeeps DEF CkInv, CkTypeOK, FlushForCopy
<1>4. CkTypeOK'
  BY <1>1, <1>2, <1>3 DEF CkInv, CkTypeOK
<1>5. "name" \in Live' /\ ("first" \in Live' \/ failed' = TRUE)
  BY <1>1, <1>2, <1>3 DEF CkInv, NameWritten, FirstWritten
<1>6. AtLink' /\ NameWritten' /\ FirstWritten' /\ CopyMade'
  BY <1>1, <1>2, <1>3, <1>5
  DEF AtLink, NameWritten, FirstWritten, CopyMade, Holding
<1>7. CopySynced' /\ CopyBeforeSecond' /\ CopyExact'
  BY <1>1, <1>3 DEF CkInv, CopySynced, CopyBeforeSecond, CopyExact, HasCopy
<1>8. QED
  BY <1>2, <1>4, <1>6, <1>7 DEF CkInv

\* The log is empty, so what is linked is synced; nobody has written the second
\* batch, because there was no checkpoint.
LEMMA LinkFilesInv ==
  ASSUME CkInv, NEW p \in Runners, LinkFiles(p)
  PROVE  CkInv'
<1>1. /\ Moves(p, "link", "second") /\ copy' = Live /\ failed' = failed
      /\ synced' = synced /\ log' = log /\ Live' = Live
  BY DEF LinkFiles, storeVars, Live, Logged
<1>2. /\ stage' \in [Runners -> Holding \cup {"off"}]
      /\ stage[p] = "link" /\ stage'[p] = "second"
      /\ OneHolder' /\ \A q \in Runners : q # p => stage'[q] \notin Holding
  BY <1>1, MovesOne, StaysAlone DEF CkInv, Holding
<1>3. log = <<>> /\ copy = NoDir
  BY <1>2 DEF CkInv, AtLink
<1>4. Logged(log) = {}
  BY <1>3 DEF Logged
<1>5. Live = synced /\ Live \subseteq Batches
  BY <1>4 DEF Live, CkInv, CkTypeOK
<1>6. "second" \notin Live
  BY <1>3 DEF CkInv, CopyBeforeSecond, HasCopy
<1>7. "name" \in Live /\ ("first" \in Live \/ failed = TRUE)
  BY <1>2 DEF CkInv, NameWritten, FirstWritten
<1>8. HasCopy'
  <2>1. "name" \notin NoDir
    BY DEF NoDir
  <2>2. "name" \in copy'
    BY <1>1, <1>7
  <2>3. QED
    BY <2>1, <2>2 DEF HasCopy, NoDir
<1>9. CkTypeOK'
  BY <1>1, <1>2 DEF CkInv, CkTypeOK
<1>10. AtLink' /\ NameWritten' /\ FirstWritten' /\ CopyMade'
  BY <1>2, <1>8 DEF AtLink, NameWritten, FirstWritten, CopyMade, Holding
<1>11. CopySynced' /\ CopyBeforeSecond'
  BY <1>1, <1>5, <1>8 DEF CopySynced, CopyBeforeSecond
<1>12. CopyExact'
  BY <1>1, <1>5, <1>6, <1>7 DEF CopyExact, Batches
<1>13. QED
  BY <1>2, <1>9, <1>10, <1>11, <1>12 DEF CkInv

\* The second batch is written by a process that has made the checkpoint.
LEMMA WriteSecondInv ==
  ASSUME CkInv, NEW p \in Runners, WriteSecond(p) \/ WriteSecondFails(p)
  PROVE  CkInv'
<1>1. Moves(p, "second", "close") /\ copy' = copy /\ failed' = failed
  BY DEF WriteSecond, WriteSecondFails
<1>2. /\ stage' \in [Runners -> Holding \cup {"off"}]
      /\ stage[p] = "second" /\ stage'[p] = "close"
      /\ OneHolder' /\ \A q \in Runners : q # p => stage'[q] \notin Holding
  BY <1>1, MovesOne, StaysAlone DEF CkInv, Holding
<1>3. synced' = synced /\ log' \in Seq(Batches)
  BY WritesAdds, MayWriteAdds DEF CkInv, CkTypeOK, WriteSecond, WriteSecondFails, Batches
<1>4. HasCopy /\ HasCopy'
  BY <1>1, <1>2 DEF CkInv, CopyMade, HasCopy
<1>5. CkTypeOK'
  BY <1>1, <1>2, <1>3 DEF CkInv, CkTypeOK
<1>6. AtLink' /\ NameWritten' /\ FirstWritten' /\ CopyMade'
  BY <1>2, <1>4 DEF AtLink, NameWritten, FirstWritten, CopyMade, Holding
<1>7. CopySynced' /\ CopyBeforeSecond' /\ CopyExact'
  BY <1>1, <1>3, <1>4 DEF CkInv, CopySynced, CopyBeforeSecond, CopyExact
<1>8. QED
  BY <1>2, <1>5, <1>6, <1>7 DEF CkInv

\* A power failure takes at most what only the log had.
LEMMA PowerFailsInv ==
  ASSUME CkInv, PowerFails
  PROVE  CkInv'
<1>1. /\ stage' = [p \in Runners |-> "off"] /\ copy' = copy /\ failed' = failed
      /\ \A p \in Runners : stage'[p] \notin Holding
  BY DEF PowerFails, Holding
<1>2. Live' \subseteq Live /\ synced' = synced /\ log' \in Seq(Batches)
  BY LosesTailShrinks DEF CkInv, CkTypeOK, PowerFails
<1>3. CkTypeOK' /\ OneHolder'
  BY <1>1, <1>2 DEF CkInv, CkTypeOK, OneHolder
<1>4. AtLink' /\ NameWritten' /\ FirstWritten' /\ CopyMade'
  BY <1>1 DEF AtLink, NameWritten, FirstWritten, CopyMade, Holding
<1>5. CopySynced' /\ CopyBeforeSecond' /\ CopyExact'
  BY <1>1, <1>2 DEF CkInv, CopySynced, CopyBeforeSecond, CopyExact, HasCopy
<1>6. QED
  BY <1>3, <1>4, <1>5 DEF CkInv

\* A new directory satisfies the invariant.
LEMMA CkInitInv == CkInit => CkInv
<1> SUFFICES ASSUME CkInit PROVE CkInv
  OBVIOUS
<1>1. /\ stage = [p \in Runners |-> "off"] /\ synced = {} /\ log = <<>>
      /\ copy = NoDir /\ failed = FALSE
  BY DEF CkInit, StoreEmpty
<1>2. Live = {}
  BY <1>1 DEF Live, Logged
<1>3. CkTypeOK /\ OneHolder /\ AtLink
  <2>1. <<>> \in Seq(Batches)
    OBVIOUS
  <2>2. CkTypeOK
    BY <1>1, <2>1 DEF CkTypeOK
  <2>3. QED
    BY <1>1, <2>2 DEF OneHolder, AtLink, Holding
<1>4. NameWritten /\ FirstWritten /\ CopyMade
  BY <1>1 DEF NameWritten, FirstWritten, CopyMade
<1>5. CopySynced /\ CopyBeforeSecond /\ CopyExact
  BY <1>1, <1>2 DEF CopySynced, CopyBeforeSecond, CopyExact, HasCopy
<1>6. QED
  BY <1>3, <1>4, <1>5 DEF CkInv

\* Every step keeps the invariant.
LEMMA CkNextInv == CkInv /\ [CkNext]_ckVars => CkInv'
<1> SUFFICES ASSUME CkInv, [CkNext]_ckVars PROVE CkInv'
  OBVIOUS
<1>1. ASSUME NEW p \in Runners, CkStep(p) PROVE CkInv'
  <2>1. CASE CkOpen(p)
    BY <2>1, OpenInv
  <2>2. CASE PutName(p) \/ PutNameFails(p)
    BY <2>2, PutNameInv
  <2>3. CASE WriteFirst(p) \/ WriteFirstFails(p)
    BY <2>3, WriteFirstInv
  <2>4. CASE FlushForCopy(p)
    BY <2>4, FlushForCopyInv
  <2>5. CASE LinkFiles(p)
    BY <2>5, LinkFilesInv
  <2>6. CASE CreateCheckpointFails(p)
    BY <2>6, EndsInv DEF CreateCheckpointFails, Holding
  <2>7. CASE WriteSecond(p) \/ WriteSecondFails(p)
    BY <2>7, WriteSecondInv
  <2>8. CASE CkClose(p)
    BY <2>8, EndsInv DEF CkClose, Holding
  <2>9. CASE CkKill(p)
    BY <2>9, EndsInv DEF CkKill
  <2>10. QED
    BY <1>1, <2>1, <2>2, <2>3, <2>4, <2>5, <2>6, <2>7, <2>8, <2>9 DEF CkStep
<1>2. CASE PowerFails
  BY <1>2, PowerFailsInv
<1>3. CASE UNCHANGED ckVars
  <2>1. /\ stage' = stage /\ synced' = synced /\ log' = log
        /\ copy' = copy /\ failed' = failed
    BY <1>3 DEF ckVars, storeVars
  <2>2. QED
    BY <2>1 DEF CkInv, CkTypeOK, OneHolder, AtLink, NameWritten, FirstWritten,
      CopyMade, CopySynced, CopyBeforeSecond, CopyExact, HasCopy, Live, Logged
<1>4. QED
  BY <1>1, <1>2, <1>3 DEF CkNext

\* However many processes run the checkpoint program, and wherever they are
\* killed, refused or cut off by a power failure: the checkpoint is the
\* database between the two batches, it is there before the second one, and
\* the database never falls behind it.
THEOREM CheckpointCorrect == CkSpec => [](CopyBeforeSecond /\ CopyExact /\ CopyKept)
<1>1. CkInv => CopyBeforeSecond /\ CopyExact /\ CopyKept
  BY DEF CkInv, CopySynced, CopyKept, Live
<1>2. QED
  BY <1>1, CkInitInv, CkNextInv, PTL DEF CkSpec

-----------------------------------------------------------------------------
\* The arbitrary store

ArbTypeOK ==
  /\ synced \subseteq {"bob"} /\ log \in Seq({"bob"})
  /\ getFailed \in BOOLEAN /\ kept \in BOOLEAN

\* What has been flushed is in an SST file.
KeptSynced == kept => "bob" \in synced

\* Nothing has been read yet.
NotRead == step \in {"open", "put", "get"} => result = ""

\* What was read is in the database, until the flush.
ReadLive ==
  step = "flush" \/ (step = "compare" /\ result = "bob") => "bob" \in Live

\* What was not read was not there, or could not be.
ReadNothing == step = "compare" /\ result = "" => getFailed \/ ~ kept

ArbInv ==
  /\ ArbTypeOK /\ KeptSynced
  /\ NotRead /\ ReadLive /\ ReadNothing /\ FlushedIsRead

\* The steps that write, flush or lose the log come before the read or after
\* the comparison.
LEMMA ArbStoreInv ==
  ASSUME ArbInv,
         ArbOpen \/ PutBob \/ PutBobFails \/ FlushBob \/ ArbKill \/ ArbAgain
  PROVE  ArbInv'
<1>1. "bob" \in {"bob"} /\ synced \subseteq {"bob"} /\ log \in Seq({"bob"})
  BY DEF ArbInv, ArbTypeOK
<1>2. /\ synced \subseteq synced' /\ synced' \subseteq {"bob"}
      /\ log' \in Seq({"bob"})
  <2>1. CASE Flushes
    BY <1>1, <2>1, FlushesKeeps DEF Live
  <2>2. CASE Writes("bob")
    BY <1>1, <2>2, WritesAdds
  <2>3. CASE MayWrite("bob")
    BY <1>1, <2>3, MayWriteAdds
  <2>4. CASE LosesTail
    BY <1>1, <2>4, LosesTailShrinks
  <2>5. QED
    BY <2>1, <2>2, <2>3, <2>4
    DEF ArbOpen, PutBob, PutBobFails, FlushBob, ArbKill, ArbAgain
<1>3. /\ step' \in {"put", "get", "end", "open"}
      /\ getFailed' \in BOOLEAN /\ kept' \in BOOLEAN
  BY DEF ArbInv, ArbTypeOK, ArbOpen, PutBob, PutBobFails, FlushBob, ArbKill, ArbAgain, Then
<1>4. KeptSynced'
  <2>1. CASE FlushBob
    <3>1. step = "flush" /\ synced' = Live
      BY <2>1 DEF FlushBob, Then, Flushes
    <3>2. QED
      BY <3>1 DEF ArbInv, ReadLive, KeptSynced
  <2>2. CASE ~ FlushBob
    BY <1>2, <2>2
    DEF ArbInv, KeptSynced, ArbOpen, PutBob, PutBobFails, ArbKill, ArbAgain
  <2>3. QED
    BY <2>1, <2>2
<1>5. NotRead'
  BY DEF ArbInv, NotRead, ArbOpen, PutBob, PutBobFails, FlushBob, ArbKill, ArbAgain, Then
<1>6. QED
  BY <1>2, <1>3, <1>4, <1>5 DEF ArbInv, ArbTypeOK, ReadLive, ReadNothing, FlushedIsRead

\* Steps that leave the database alone.
LEMMA ArbReadInv ==
  ASSUME ArbInv,
         \/ ArbOpenFails \/ GetBob \/ GetBobFails
         \/ CompareBob \/ CompareNull \/ FlushBobFails
  PROVE  ArbInv'
<1>1. /\ synced' = synced /\ log' = log /\ kept' = kept /\ Live' = Live
  BY DEF ArbOpenFails, GetBob, GetBobFails, CompareBob, CompareNull, FlushBobFails,
    storeVars, Live, Logged
<1>2. getFailed' \in BOOLEAN /\ (getFailed => getFailed')
  BY DEF ArbInv, ArbTypeOK,
    ArbOpenFails, GetBob, GetBobFails, CompareBob, CompareNull, FlushBobFails
<1>3. ArbTypeOK' /\ KeptSynced'
  BY <1>1, <1>2 DEF ArbInv, ArbTypeOK, KeptSynced
<1>4. kept => "bob" \in Live
  BY DEF ArbInv, KeptSynced, Live
<1>5. NotRead' /\ ReadLive'
  BY <1>1 DEF ArbInv, NotRead, ReadLive, Then,
    ArbOpenFails, GetBob, GetBobFails, CompareBob, CompareNull, FlushBobFails
<1>6. ReadNothing'
  BY <1>1, <1>4 DEF ArbInv, ReadNothing, Then,
    ArbOpenFails, GetBob, GetBobFails, CompareBob, CompareNull, FlushBobFails
<1>7. FlushedIsRead'
  BY <1>1, <1>2 DEF ArbInv, ReadNothing, FlushedIsRead, Then,
    ArbOpenFails, GetBob, GetBobFails, CompareBob, CompareNull, FlushBobFails
<1>8. QED
  BY <1>3, <1>5, <1>6, <1>7 DEF ArbInv

\* However many times the program is run, and wherever it is killed or cut off
\* by a power failure: once a run has flushed the struct, a later one finds
\* it, unless its Get() fails.
THEOREM ArbitraryCorrect == ArbSpec => []FlushedIsRead
<1>1. ArbInit => ArbInv
  <2>1. <<>> \in Seq({"bob"})
    OBVIOUS
  <2>2. ASSUME ArbInit PROVE ArbTypeOK
    BY <2>1, <2>2 DEF ArbInit, StoreEmpty, ArbTypeOK
  <2>3. QED
    BY <2>2 DEF ArbInit, ArbInv, KeptSynced, NotRead, ReadLive, ReadNothing, FlushedIsRead
<1>2. ArbInv /\ [ArbNext]_arbVars => ArbInv'
  <2> SUFFICES ASSUME ArbInv, [ArbNext]_arbVars PROVE ArbInv'
    OBVIOUS
  <2>1. CASE UNCHANGED arbVars
    BY <2>1 DEF arbVars, storeVars, ArbInv, ArbTypeOK, KeptSynced, NotRead,
      ReadLive, ReadNothing, FlushedIsRead, Live, Logged
  <2>2. QED
    BY <2>1, ArbStoreInv, ArbReadInv DEF ArbNext
<1>3. ArbInv => FlushedIsRead
  BY DEF ArbInv
<1>4. QED
  BY <1>1, <1>2, <1>3, PTL DEF ArbSpec

-----------------------------------------------------------------------------
\* Numbers modulo w

\* Division with remainder.
LEMMA ModDiv ==
  ASSUME NEW x \in Nat, NEW w \in Nat \ {0}
  PROVE  x \div w \in Nat /\ x = w * (x \div w) + (x % w)
  OBVIOUS

\* The remainder is in range, and no larger than what it is the remainder of.
LEMMA ModBounds ==
  ASSUME NEW x \in Nat, NEW w \in Nat \ {0}
  PROVE  x % w \in 0..(w - 1) /\ x % w <= x /\ (x < w => x % w = x)
  OBVIOUS

\* The only multiple of w nearer to 0 than w is 0.
LEMMA NearMultiple ==
  ASSUME NEW k \in Int, NEW w \in Nat \ {0}, NEW d \in Int,
         d = w * k, -w < d, d < w
  PROVE  d = 0
<1>1. ASSUME k >= 1 PROVE FALSE
  <2>1. w * k >= w
    BY <1>1
  <2>2. QED
    BY <2>1
<1>2. ASSUME k <= -1 PROVE FALSE
  <2>1. w * k <= -w
    BY <1>2
  <2>2. QED
    BY <2>1
<1>3. QED
  BY <1>1, <1>2

\* The remainder is the only one.
LEMMA ModUnique ==
  ASSUME NEW q \in Int, NEW w \in Nat \ {0}, NEW r \in 0..(w - 1), NEW x \in Nat,
         x = w * q + r
  PROVE  x % w = r
<1> DEFINE d == r - (x % w)
           k == (x \div w) - q
<1>1. x % w \in 0..(w - 1)
  BY ModBounds
<1>2. d \in Int /\ k \in Int /\ -w < d /\ d < w
  BY ModDiv, <1>1
<1>3. d = w * k
  <2>1. w * k = w * (x \div w) - w * q
    BY ModDiv
  <2>2. QED
    BY ModDiv, <2>1, <1>1
<1> HIDE DEF d, k
<1>4. d = 0
  BY <1>2, <1>3, NearMultiple
<1>5. QED
  BY <1>1, <1>4 DEF d

\* A number may be reduced before another is added.
LEMMA ModAdd ==
  ASSUME NEW a \in Nat, NEW s \in Nat, NEW w \in Nat \ {0}
  PROVE  ((a % w) + s) % w = (a + s) % w
<1> DEFINE m == a % w
           y == m + s
           r == y % w
           q == (a \div w) + (y \div w)
           x == a + s
<1>1. m \in Nat /\ y \in Nat /\ r \in 0..(w - 1) /\ x \in Nat
  OBVIOUS
<1>2. /\ a \div w \in Nat /\ a = w * (a \div w) + m
      /\ y \div w \in Nat /\ y = w * (y \div w) + r
  BY ModDiv, <1>1
<1>3. q \in Int /\ w * q = w * (a \div w) + w * (y \div w)
  BY <1>2
<1>4. x = w * q + r
  <2> HIDE DEF m, r, q
  <2>1. QED
    BY <1>1, <1>2, <1>3
<1>5. q \in Int /\ r \in 0..(w - 1) /\ x \in Nat
  BY <1>1, <1>3
<1> HIDE DEF r, q, x
<1>6. x % w = r
  BY <1>4, <1>5, ModUnique
<1>7. QED
  BY <1>6 DEF r, x

\* The remainder of the next number.
LEMMA ModSucc ==
  ASSUME NEW a \in Nat, NEW w \in Nat \ {0}
  PROVE  (a + 1) % w = IF a % w = w - 1 THEN 0 ELSE (a % w) + 1
<1> DEFINE m == a % w
           q == a \div w
           x == a + 1
<1>1. m \in 0..(w - 1) /\ q \in Nat /\ a = w * q + m /\ x \in Nat
  BY ModDiv
<1>2. CASE m = w - 1
  <2>1. w * (q + 1) = w * q + w /\ q + 1 \in Int
    BY <1>1
  <2> HIDE DEF m, q
  <2>2. x = w * (q + 1) + 0
    BY <1>1, <1>2, <2>1
  <2> HIDE DEF x
  <2>3. x % w = 0
    BY <1>1, <2>1, <2>2, ModUnique
  <2>4. QED
    BY <1>2, <2>3 DEF m, x
<1>3. CASE m # w - 1
  <2> HIDE DEF m, q
  <2>1. x = w * q + (m + 1) /\ m + 1 \in 0..(w - 1)
    BY <1>1, <1>3
  <2> HIDE DEF x
  <2>2. x % w = m + 1
    BY <1>1, <2>1, ModUnique
  <2>3. QED
    BY <1>3, <2>2 DEF m, x
<1>4. QED
  BY <1>2, <1>3

-----------------------------------------------------------------------------
\* The inductive invariant of the two speed tests

Block == [off : 0..(Wrap - 1), size : 0..(Wrap - 1)]

InLine == pc \in {"blocks", "body", "get", "unpack", "count"}

\* A line is being worked on that has not been counted.
LineRead == InLine => pos >= 1 /\ n < pos

\* Each block starts where the one before it ends, modulo 2^16.
Chained(bs) ==
  /\ Len(bs) > 0 => bs[1].off = 0
  /\ \A i \in 1..(Len(bs) - 1) : bs[i + 1].off = UInt16(bs[i].off + bs[i].size)

SizesOf(bs, line) == \A i \in 1..Len(bs) : bs[i].size = UInt16(line[i].len)

\* Where the first loop is.
BlocksLoop ==
  pc = "blocks" =>
    /\ Len(blocks) <= Len(Fields)
    /\ Chained(blocks) /\ SizesOf(blocks, Fields)
    /\ Len(blocks) = 0 => boff = 0
    /\ Len(blocks) > 0 =>
         UInt16(boff) = UInt16(blocks[Len(blocks)].off + blocks[Len(blocks)].size)
    /\ body = <<>> /\ starts = << 0 >>

\* The i-th block is within the body, and exact where the numbers fit.
Placed(rcd, i) ==
  LET b == rcd.blocks[i]
  IN  /\ b.off + b.size <= rcd.starts[Len(rcd.starts)]
      /\ rcd.starts[i] < Wrap /\ rcd.body[i].len < Wrap =>
           b.off = rcd.starts[i] /\ b.size = rcd.body[i].len

\* Where the second loop is: what is known of the block it comes to next.
NextBlock ==
  Len(body) < Len(blocks) =>
    LET off == blocks[Len(body) + 1].off
        end == starts[Len(starts)]
    IN  off <= end /\ (end < Wrap => off = end)

BodyLoop ==
  pc = "body" =>
    /\ Len(blocks) = Len(Fields) /\ Len(body) <= Len(Fields)
    /\ Chained(blocks) /\ SizesOf(blocks, Fields)
    /\ \A i \in 1..Len(body) : body[i] = Fields[i] /\ Placed(Buffer, i)
    /\ NextBlock

Good(rcd) ==
  /\ Len(rcd.blocks) = Len(rcd.body)
  /\ \A i \in 1..Len(rcd.blocks) : Placed(rcd, i)

\* A record under a key is of a line with that customer.
Mine(rcd, k) ==
  k \notin GarbageKeys /\ Len(rcd.blocks) >= customer_id =>
    rcd.body[customer_id].id = k[1]

KeyOfLine ==
  InLine /\ key \notin GarbageKeys =>
    Len(Fields) >= customer_id /\ key[1] = Fields[customer_id].id

GoodStore == \A k \in DOMAIN db : Good(db[k]) /\ Mine(db[k], k)

GoodOut ==
  /\ Good(out)
  /\ pc \in {"blocks", "body", "get"} => out = NoRecord
  /\ InLine => Mine(out, key)

ValueOfBlock ==
  Unpacked =>
    /\ Len(out.blocks) >= customer_id
    /\ value.at = out.blocks[customer_id].off
    /\ value.size = out.blocks[customer_id].size

\* One time is added up for every line since the last report.
TimesAdded ==
  /\ pc \in {"connect", "ping", "line", "blocks", "body", "get"} =>
       usetime = n % Batch
  /\ pc \in {"unpack", "count"} => usetime = (n % Batch) + 1

SpeedInv ==
  /\ RocksTypeOK /\ LineRead /\ BlocksLoop /\ BodyLoop /\ KeyOfLine
  /\ GoodStore /\ GoodOut /\ ValueOfBlock /\ TimesAdded

-----------------------------------------------------------------------------

\* The line that is being worked on.
LEMMA FieldsType ==
  ASSUME SpeedInv, InLine
  PROVE  /\ Fields \in Seq(Field) /\ Len(Fields) \in Nat
         /\ \A i \in 1..Len(Fields) : Fields[i] \in Field /\ Fields[i].len \in Nat
<1>1. file \in Seq(Seq(Field)) /\ pos \in 1..Len(file)
  BY RocksAssumption DEF SpeedInv, RocksTypeOK, LineRead, Line
<1>2. Fields \in Seq(Field)
  BY <1>1 DEF Fields
<1>3. \A i \in 1..Len(Fields) : Fields[i] \in Field
  BY <1>2
<1>4. \A x \in Field : x.len \in Nat
  BY DEF Field
<1>5. QED
  BY <1>2, <1>3, <1>4

\* What a number becomes in 16 bits.
LEMMA UInt16Of ==
  ASSUME NEW x \in Nat
  PROVE  UInt16(x) \in 0..(Wrap - 1) /\ UInt16(x) <= x /\ (x < Wrap => UInt16(x) = x)
  BY ModBounds, RocksAssumption DEF UInt16

\* A sum in 16 bits.
LEMMA UInt16Add ==
  ASSUME NEW x \in Nat, NEW y \in Nat
  PROVE  UInt16(UInt16(x) + y) = UInt16(x + y)
  BY ModAdd, RocksAssumption DEF UInt16

\* The empty string.
LEMMA NoRecordGood ==
  /\ NoRecord \in Record /\ Good(NoRecord) /\ \A k : Mine(NoRecord, k)
<1>1. /\ <<>> \in Seq(Block) /\ <<>> \in Line /\ << 0 >> \in Seq(Nat)
      /\ Len(<<>>) = 0
  BY DEF Line
<1>2. QED
  BY <1>1 DEF NoRecord, Record, Block, Good, Mine, customer_id

\* The first loop: the next block starts where the last one ends.
LEMMA AddBlockInv ==
  ASSUME SpeedInv, AddBlock
  PROVE  SpeedInv'
<1> DEFINE f == Fields[Len(blocks) + 1]
           b == [off |-> UInt16(boff), size |-> UInt16(f.len)]
<1>1. /\ pc = "blocks" /\ Len(blocks) < Len(Fields)
      /\ blocks' = Append(blocks, b) /\ boff' = boff + b.size
      /\ UNCHANGED <<file, pc, pos, key, body, starts, db, out, value, n, usetime, runs>>
  BY DEF AddBlock
<1>2. InLine /\ blocks \in Seq(Block) /\ boff \in Nat /\ Len(blocks) \in Nat
  BY <1>1 DEF InLine, SpeedInv, RocksTypeOK, Block
<1>3. f \in Field /\ f.len \in Nat
  BY <1>1, <1>2, FieldsType
<1>4. b \in Block /\ b.off = UInt16(boff) /\ b.size = UInt16(f.len) /\ b.size \in Nat
  <2>1. UInt16(boff) \in 0..(Wrap - 1) /\ UInt16(f.len) \in 0..(Wrap - 1)
    BY <1>2, <1>3, UInt16Of
  <2> HIDE DEF f
  <2>2. QED
    BY <2>1 DEF Block
<1>5. /\ blocks' \in Seq(Block) /\ Len(blocks') = Len(blocks) + 1
      /\ blocks'[Len(blocks) + 1] = b
      /\ \A i \in 1..Len(blocks) : blocks'[i] = blocks[i]
  BY <1>1, <1>2, <1>4
<1>6. Fields' = Fields /\ pc' = pc /\ pos' = pos
  BY <1>1 DEF Fields
<1>7. RocksTypeOK'
  BY <1>1, <1>2, <1>4, <1>5 DEF SpeedInv, RocksTypeOK, Block
<1>8. BlocksLoop'
  <2>1. /\ Chained(blocks) /\ SizesOf(blocks, Fields)
        /\ Len(blocks) = 0 => boff = 0
        /\ Len(blocks) > 0 =>
             UInt16(boff) = UInt16(blocks[Len(blocks)].off + blocks[Len(blocks)].size)
        /\ body = <<>> /\ starts = << 0 >>
    BY <1>1 DEF SpeedInv, BlocksLoop
  <2>2. UInt16(0) = 0
    BY RocksAssumption, UInt16Of
  <2> HIDE DEF b
  <2>3. Chained(blocks')
    <3>1. Len(blocks') > 0 => blocks'[1].off = 0
      BY <1>2, <1>4, <1>5, <2>1, <2>2 DEF Chained
    <3>2. ASSUME NEW i \in 1..(Len(blocks') - 1)
          PROVE  blocks'[i + 1].off = UInt16(blocks'[i].off + blocks'[i].size)
      <4>1. CASE i = Len(blocks)
        BY <4>1, <1>2, <1>4, <1>5, <2>1
      <4>2. CASE i # Len(blocks)
        <5>1. i \in 1..(Len(blocks) - 1) /\ i + 1 \in 1..Len(blocks) /\ i \in 1..Len(blocks)
          BY <4>2, <1>2, <1>5
        <5>2. QED
          BY <5>1, <1>5, <2>1 DEF Chained
      <4>3. QED
        BY <4>1, <4>2
    <3>3. QED
      BY <3>1, <3>2 DEF Chained
  <2>4. SizesOf(blocks', Fields)
    BY <1>2, <1>4, <1>5, <2>1 DEF SizesOf
  <2>5. UInt16(boff') = UInt16(b.off + b.size)
    BY <1>1, <1>2, <1>4, UInt16Add
  <2>6. QED
    BY <1>1, <1>2, <1>5, <1>6, <2>1, <2>3, <2>4, <2>5 DEF BlocksLoop
<1>9. LineRead' /\ BodyLoop' /\ KeyOfLine'
  BY <1>1, <1>6 DEF SpeedInv, LineRead, BodyLoop, KeyOfLine, InLine
<1>10. GoodStore' /\ GoodOut' /\ ValueOfBlock' /\ TimesAdded'
  BY <1>1 DEF SpeedInv, GoodStore, GoodOut, ValueOfBlock, Unpacked, TimesAdded, InLine
<1>11. QED
  BY <1>7, <1>8, <1>9, <1>10 DEF SpeedInv

\* Between the loops: the first block starts where the first field does.
LEMMA BlocksDoneInv ==
  ASSUME SpeedInv, BlocksDone
  PROVE  SpeedInv'
<1>1. /\ pc = "blocks" /\ Len(blocks) = Len(Fields) /\ pc' = "body"
      /\ UNCHANGED <<file, pos, key, blocks, boff, body, starts, db, out, value, n,
                     usetime, runs>>
  BY DEF BlocksDone, recVars
<1>2. /\ Fields' = Fields /\ body = <<>> /\ starts = << 0 >>
      /\ Chained(blocks) /\ SizesOf(blocks, Fields)
  BY <1>1 DEF Fields, SpeedInv, BlocksLoop
<1>3. Len(body) = 0 /\ Len(starts) = 1 /\ starts[1] = 0 /\ InLine /\ Len(Fields) \in Nat
  BY <1>1, <1>2, FieldsType DEF InLine
<1>4. RocksTypeOK' /\ LineRead' /\ KeyOfLine'
  BY <1>1, <1>2, <1>3 DEF SpeedInv, RocksTypeOK, LineRead, KeyOfLine, InLine
<1>5. NextBlock
  BY <1>2, <1>3 DEF NextBlock, Chained
<1>6. BlocksLoop' /\ BodyLoop'
  BY <1>1, <1>2, <1>3, <1>5 DEF BlocksLoop, BodyLoop, NextBlock
<1>7. GoodStore' /\ GoodOut' /\ ValueOfBlock' /\ TimesAdded'
  BY <1>1, <1>3 DEF SpeedInv, GoodStore, GoodOut, ValueOfBlock, Unpacked, TimesAdded, InLine
<1>8. QED
  BY <1>4, <1>6, <1>7 DEF SpeedInv

\* The second loop: the next field is where its block says, or behind it.
LEMMA AddFieldInv ==
  ASSUME SpeedInv, AddField
  PROVE  SpeedInv'
<1> DEFINE m == Len(body)
           f == Fields[m + 1]
           end == starts[m + 1]
           off == blocks[m + 1].off
           size == blocks[m + 1].size
<1>1. /\ pc = "body" /\ m < Len(Fields) /\ body' = Append(body, f)
      /\ starts' = Append(starts, starts[Len(starts)] + f.len)
      /\ UNCHANGED <<file, pc, pos, key, blocks, boff, db, out, value, n, usetime, runs>>
  BY DEF AddField
<1>2. InLine /\ Fields' = Fields
  BY <1>1 DEF InLine, Fields
<1>3. /\ m \in Nat /\ Len(Fields) \in Nat /\ m + 1 \in 1..Len(Fields)
      /\ f \in Field /\ f.len \in Nat
  BY <1>1, <1>2, FieldsType DEF SpeedInv, RocksTypeOK, Line
<1>4. /\ Len(blocks) = Len(Fields)
      /\ Chained(blocks) /\ SizesOf(blocks, Fields) /\ NextBlock
      /\ \A i \in 1..m : body[i] = Fields[i] /\ Placed(Buffer, i)
  BY <1>1 DEF SpeedInv, BodyLoop
<1>5. /\ body \in Seq(Field) /\ starts \in Seq(Nat) /\ Len(starts) = m + 1
      /\ end \in Nat
  BY <1>3 DEF SpeedInv, RocksTypeOK, Line
<1>6. /\ body' \in Seq(Field) /\ Len(body') = m + 1 /\ body'[m + 1] = f
      /\ \A i \in 1..m : body'[i] = body[i]
  BY <1>1, <1>3, <1>5
<1>7. /\ starts' \in Seq(Nat) /\ Len(starts') = m + 2 /\ starts'[m + 2] = end + f.len
      /\ \A i \in 1..(m + 1) : starts'[i] = starts[i]
  BY <1>1, <1>3, <1>5
<1>8. /\ off \in Nat /\ size = UInt16(f.len) /\ size \in 0..(Wrap - 1) /\ size <= f.len
      /\ (f.len < Wrap => size = f.len)
      /\ off <= end /\ (end < Wrap => off = end)
  <2>1. blocks \in Seq(Block) /\ m + 1 \in 1..Len(blocks)
    BY <1>3, <1>4 DEF SpeedInv, RocksTypeOK, Block
  <2>2. blocks[m + 1] \in Block
    BY <2>1
  <2>3. off \in Nat
    BY <2>2, RocksAssumption DEF Block
  <2>4. size = UInt16(f.len)
    BY <1>4, <2>1 DEF SizesOf
  <2>5. off <= end /\ (end < Wrap => off = end)
    BY <1>3, <1>4, <1>5, <2>1 DEF NextBlock
  <2>6. QED
    BY <1>3, <2>3, <2>4, <2>5, UInt16Of
<1>9. Buffer' = [blocks |-> blocks, body |-> body', starts |-> starts']
  BY <1>1 DEF Buffer
<1>10. ASSUME NEW i \in 1..(m + 1)
       PROVE  body'[i] = Fields[i] /\ Placed(Buffer', i)
  <2>1. CASE i = m + 1
    <3>1. off + size <= end + f.len
      BY <1>3, <1>5, <1>8
    <3>2. end < Wrap /\ f.len < Wrap => off = end /\ size = f.len
      BY <1>8
    <3> HIDE DEF f, end, off, size, m
    <3>3. starts'[Len(starts')] = end + f.len /\ starts'[m + 1] = end
      BY <1>3, <1>7 DEF end
    <3>4. QED
      BY <2>1, <1>6, <1>9, <3>1, <3>2, <3>3 DEF Placed, off, size, f
  <2>2. CASE i \in 1..m
    <3>1. /\ blocks[i].off + blocks[i].size <= starts[m + 1]
          /\ starts[i] < Wrap /\ body[i].len < Wrap =>
               blocks[i].off = starts[i] /\ blocks[i].size = body[i].len
      BY <2>2, <1>4, <1>5 DEF Placed, Buffer
    <3>2. blocks[i].off \in Nat /\ blocks[i].size \in Nat
      <4>1. blocks \in Seq(Block) /\ i \in 1..Len(blocks)
        BY <1>3, <1>4, <2>2 DEF SpeedInv, RocksTypeOK, Block
      <4>2. blocks[i] \in Block
        BY <4>1
      <4>3. QED
        BY <4>2, RocksAssumption DEF Block
    <3>3. /\ body'[i] = body[i] /\ starts'[i] = starts[i]
          /\ starts'[Len(starts')] = end + f.len
      BY <2>2, <1>3, <1>6, <1>7
    <3>4. blocks[i].off + blocks[i].size <= end
      BY <3>1
    <3> HIDE DEF f, end, off, size, m
    <3>5. blocks[i].off + blocks[i].size <= end + f.len
      <4>1. f.len \in Nat /\ end \in Nat
        BY <1>3, <1>5
      <4>2. QED
        BY <3>2, <3>4, <4>1
    <3>6. QED
      BY <2>2, <1>4, <1>9, <3>1, <3>3, <3>5 DEF Placed
  <2>3. QED
    BY <1>3, <2>1, <2>2
<1>11. NextBlock'
  <2>1. ASSUME m + 1 < Len(blocks)
        PROVE  /\ blocks[m + 2].off <= end + f.len
               /\ (end + f.len < Wrap => blocks[m + 2].off = end + f.len)
    <3>1. blocks[m + 2].off = UInt16(off + size)
      <4>1. m + 1 \in 1..(Len(blocks) - 1) /\ (m + 1) + 1 = m + 2
        BY <2>1, <1>3, <1>4
      <4>2. QED
        BY <4>1, <1>4 DEF Chained
    <3> HIDE DEF f, end, off, size, m
    <3>2. off + size \in Nat /\ off + size <= end + f.len
      BY <1>3, <1>5, <1>8
    <3>3. UInt16(off + size) <= off + size
          /\ (off + size < Wrap => UInt16(off + size) = off + size)
          /\ UInt16(off + size) \in Nat
      BY <3>2, UInt16Of
    <3>4. end + f.len < Wrap => off + size = end + f.len
      BY <1>3, <1>5, <1>8, RocksAssumption
    <3>5. QED
      BY <3>1, <3>2, <3>3, <3>4, <1>3, <1>5
  <2>2. /\ Len(body') = m + 1 /\ Len(body') + 1 = m + 2 /\ blocks' = blocks
        /\ starts'[Len(starts')] = end + f.len
    BY <1>1, <1>3, <1>6, <1>7
  <2> HIDE DEF f, end, off, size, m
  <2>3. QED
    BY <2>1, <2>2 DEF NextBlock
<1>12. BodyLoop' /\ BlocksLoop'
  <2>1. Len(body') <= Len(Fields)
    BY <1>3, <1>6
  <2>2. \A i \in 1..Len(body') : body'[i] = Fields[i] /\ Placed(Buffer', i)
    BY <1>6, <1>10
  <2>3. BlocksLoop'
    BY <1>1 DEF BlocksLoop
  <2>4. QED
    BY <1>1, <1>2, <1>4, <1>11, <2>1, <2>2, <2>3 DEF BodyLoop
<1>13. RocksTypeOK'
  <2> HIDE DEF f, end, off, size, m
  <2>1. Len(starts') = Len(body') + 1
    BY <1>3, <1>6, <1>7
  <2>2. QED
    BY <1>1, <1>6, <1>7, <2>1 DEF SpeedInv, RocksTypeOK, Line
<1>14. LineRead' /\ KeyOfLine'
  BY <1>1, <1>2 DEF SpeedInv, LineRead, KeyOfLine, InLine
<1>15. GoodStore' /\ GoodOut' /\ ValueOfBlock' /\ TimesAdded'
  BY <1>1 DEF SpeedInv, GoodStore, GoodOut, ValueOfBlock, Unpacked, TimesAdded, InLine
<1>16. QED
  BY <1>12, <1>13, <1>14, <1>15 DEF SpeedInv

\* A line is read: its key is of its own customer, or garbage.
LEMMA StartLineInv ==
  ASSUME SpeedInv, pc = "line", pos < Len(file), NEW k,
         \/ k \in GarbageKeys
         \/ Len(file[pos + 1]) >= customer_id /\ k = KeyOf(file[pos + 1]),
         StartLine(k)
  PROVE  SpeedInv'
<1>1. /\ key' = k /\ pc' = "blocks" /\ pos' = pos + 1
      /\ blocks' = <<>> /\ boff' = 0 /\ body' = <<>> /\ starts' = << 0 >>
      /\ out' = NoRecord /\ value' = Garbage
      /\ UNCHANGED <<file, db, n, usetime, runs>>
  BY DEF StartLine
<1>2. /\ <<>> \in Seq(Block) /\ <<>> \in Line /\ << 0 >> \in Seq(Nat)
      /\ Len(<<>>) = 0 /\ Len(<< 0 >>) = 1
  BY DEF Line
<1>3. pos + 1 \in 0..Len(file) /\ pos + 1 >= 1 /\ n \in 0..(pos + 1) /\ n < pos + 1
  <2>1. Len(file) \in Nat
    BY RocksAssumption DEF SpeedInv, RocksTypeOK
  <2>2. QED
    BY <2>1 DEF SpeedInv, RocksTypeOK
<1>4. RocksTypeOK'
  BY <1>1, <1>2, <1>3, NoRecordGood DEF SpeedInv, RocksTypeOK, Block
<1>5. Fields' = file[pos + 1]
  BY <1>1 DEF Fields
<1>6. Len(Fields') \in Nat
  BY <1>3, <1>5, RocksAssumption DEF SpeedInv, RocksTypeOK, Line
<1>7. LineRead'
  BY <1>1, <1>3 DEF LineRead
<1>8. KeyOfLine'
  BY <1>1, <1>5 DEF KeyOfLine, KeyOf
<1>9. BlocksLoop'
  BY <1>1, <1>2, <1>6 DEF BlocksLoop, Chained, SizesOf
<1>10. BodyLoop' /\ ValueOfBlock'
  BY <1>1 DEF BodyLoop, ValueOfBlock, Unpacked
<1>11. GoodStore' /\ GoodOut'
  BY <1>1, NoRecordGood DEF SpeedInv, GoodStore, GoodOut
<1>12. TimesAdded'
  BY <1>1 DEF SpeedInv, TimesAdded
<1>13. QED
  BY <1>4, <1>7, <1>8, <1>9, <1>10, <1>11, <1>12 DEF SpeedInv

\* The program ends, or has not come to its first line.
LEMMA MovesInv ==
  ASSUME SpeedInv,
         \/ pc' \in {"end", "dead"}
         \/ pc \in {"connect", "ping"} /\ pc' \in {"ping", "line"},
         UNCHANGED <<file, pos, key, recVars, db, out, value, n, usetime, runs>>
  PROVE  SpeedInv'
<1>1. /\ UNCHANGED <<file, pos, key, blocks, boff, body, starts, db, out, value, n,
                     usetime, runs>>
      /\ pc' \in {"end", "dead", "ping", "line"}
      /\ pc' \in {"ping", "line"} => pc \in {"connect", "ping"}
  BY DEF recVars
<1>2. RocksTypeOK'
  BY <1>1 DEF SpeedInv, RocksTypeOK
<1>3. LineRead' /\ BlocksLoop' /\ BodyLoop' /\ KeyOfLine'
  BY <1>1 DEF LineRead, BlocksLoop, BodyLoop, KeyOfLine, InLine
<1>4. GoodStore' /\ GoodOut' /\ ValueOfBlock' /\ TimesAdded'
  BY <1>1 DEF SpeedInv, GoodStore, GoodOut, ValueOfBlock, Unpacked, TimesAdded, InLine
<1>5. QED
  BY <1>2, <1>3, <1>4 DEF SpeedInv

\* What is put is a good record of this line.
LEMMA BufferGood ==
  ASSUME SpeedInv, pc = "body", Len(body) = Len(Fields)
  PROVE  Buffer \in Record /\ Good(Buffer) /\ Mine(Buffer, key)
<1>1. InLine /\ Len(blocks) = Len(Fields)
  BY DEF InLine, SpeedInv, BodyLoop
<1>2. /\ Buffer.blocks = blocks /\ Buffer.body = body
      /\ \A i \in 1..Len(body) : body[i] = Fields[i] /\ Placed(Buffer, i)
  BY DEF SpeedInv, BodyLoop, Buffer
<1>3. Buffer \in Record
  BY DEF SpeedInv, RocksTypeOK, Record, Buffer
<1>4. Good(Buffer)
  BY <1>1, <1>2 DEF Good
<1>5. Mine(Buffer, key)
  <2>1. customer_id \in Nat /\ customer_id >= 1 /\ Len(Fields) \in Nat
    BY <1>1, FieldsType DEF customer_id
  <2>2. QED
    BY <1>1, <1>2, <2>1 DEF SpeedInv, KeyOfLine, Mine
<1>6. QED
  BY <1>3, <1>4, <1>5

\* A Put() or SET, carried out or not.
LEMMA PutInv ==
  ASSUME SpeedInv, PutTimed,
         \/ UNCHANGED db
         \/ db' = [k \in DOMAIN db \cup {key} |-> IF k = key THEN Buffer ELSE db[k]]
  PROVE  SpeedInv'
<1>1. /\ pc = "body" /\ Len(body) = Len(Fields) /\ pc' = "get"
      /\ UNCHANGED <<file, pos, key, blocks, boff, body, starts, out, value, n, usetime,
                     runs>>
  BY DEF PutTimed, recVars
<1>2. \A k \in DOMAIN db' : (k \in DOMAIN db /\ db'[k] = db[k]) \/ (k = key /\ db'[k] = Buffer)
  OBVIOUS
<1>3. Buffer \in Record /\ Good(Buffer) /\ Mine(Buffer, key)
  BY <1>1, BufferGood
<1>4. \A k \in DOMAIN db' : db'[k] \in Record
  BY <1>2, <1>3 DEF SpeedInv, RocksTypeOK
<1>5. RocksTypeOK'
  BY <1>1, <1>4 DEF SpeedInv, RocksTypeOK
<1>6. GoodStore'
  BY <1>2, <1>3 DEF SpeedInv, GoodStore
<1>7. LineRead' /\ KeyOfLine' /\ BlocksLoop' /\ BodyLoop'
  BY <1>1 DEF SpeedInv, LineRead, KeyOfLine, BlocksLoop, BodyLoop, InLine, Fields
<1>8. GoodOut' /\ ValueOfBlock' /\ TimesAdded'
  BY <1>1 DEF SpeedInv, GoodOut, ValueOfBlock, Unpacked, TimesAdded, InLine
<1>9. QED
  BY <1>5, <1>6, <1>7, <1>8 DEF SpeedInv

\* A Get() or GET, whatever comes back.
LEMMA GetInv ==
  ASSUME SpeedInv, GetTimed,
         \/ UNCHANGED out
         \/ out' = IF key \in DOMAIN db THEN db[key] ELSE NoRecord
  PROVE  SpeedInv'
<1>1. /\ pc = "get" /\ pc' = "unpack" /\ usetime' = usetime + 1
      /\ UNCHANGED <<file, pos, key, blocks, boff, body, starts, db, value, n, runs>>
  BY DEF GetTimed, recVars
<1>2. out' \in Record /\ Good(out') /\ Mine(out', key)
  <2>1. CASE UNCHANGED out
    BY <1>1, <2>1 DEF SpeedInv, RocksTypeOK, GoodOut, InLine
  <2>2. CASE out' = IF key \in DOMAIN db THEN db[key] ELSE NoRecord
    BY <2>2, NoRecordGood DEF SpeedInv, RocksTypeOK, GoodStore
  <2>3. QED
    BY <2>1, <2>2
<1>3. RocksTypeOK'
  BY <1>1, <1>2 DEF SpeedInv, RocksTypeOK
<1>4. GoodStore' /\ GoodOut'
  BY <1>1, <1>2 DEF SpeedInv, GoodStore, GoodOut
<1>5. LineRead' /\ KeyOfLine' /\ BlocksLoop' /\ BodyLoop'
  BY <1>1 DEF SpeedInv, LineRead, KeyOfLine, BlocksLoop, BodyLoop, InLine, Fields
<1>6. ValueOfBlock' /\ TimesAdded'
  BY <1>1 DEF SpeedInv, ValueOfBlock, Unpacked, TimesAdded
<1>7. QED
  BY <1>3, <1>4, <1>5, <1>6 DEF SpeedInv

\* The value is the one the block of customer_id names, or garbage.
LEMMA UnpackInv ==
  ASSUME SpeedInv, pc = "unpack", pc' = "count",
         \/ value' = Garbage
         \/ /\ Len(out.blocks) >= customer_id
            /\ LET blk == out.blocks[customer_id]
               IN  value' = [at |-> blk.off, size |-> blk.size],
         UNCHANGED <<file, pos, key, recVars, db, out, n, usetime, runs>>
  PROVE  SpeedInv'
<1>1. UNCHANGED <<file, pos, key, blocks, boff, body, starts, db, out, n, usetime, runs>>
  BY DEF recVars
<1>2. /\ value' = Garbage \/ (value'.at \in 0..(Wrap - 1) /\ value'.size \in 0..(Wrap - 1))
      /\ ValueOfBlock'
  <2>1. CASE value' = Garbage
    BY <2>1 DEF ValueOfBlock, Unpacked
  <2>2. CASE value' # Garbage
    <3>1. /\ Len(out.blocks) >= customer_id
          /\ value'.at = out.blocks[customer_id].off
          /\ value'.size = out.blocks[customer_id].size
      BY <2>2
    <3>2. out.blocks \in Seq(Block)
      BY DEF SpeedInv, RocksTypeOK, Record, Block
    <3>3. out.blocks[customer_id] \in Block
      BY <3>1, <3>2 DEF customer_id
    <3>4. value'.at \in 0..(Wrap - 1) /\ value'.size \in 0..(Wrap - 1)
      BY <3>1, <3>3 DEF Block
    <3>5. QED
      BY <1>1, <3>1, <3>4 DEF ValueOfBlock
  <2>3. QED
    BY <2>1, <2>2
<1>3. RocksTypeOK'
  BY <1>1, <1>2 DEF SpeedInv, RocksTypeOK
<1>4. LineRead' /\ KeyOfLine' /\ BlocksLoop' /\ BodyLoop'
  BY <1>1 DEF SpeedInv, LineRead, KeyOfLine, BlocksLoop, BodyLoop, InLine, Fields
<1>5. GoodStore' /\ GoodOut' /\ TimesAdded'
  BY <1>1 DEF SpeedInv, GoodStore, GoodOut, TimesAdded, InLine
<1>6. QED
  BY <1>2, <1>3, <1>4, <1>5 DEF SpeedInv

\* The line is counted; the times start at 0 again after a report.
LEMMA CountLineInv ==
  ASSUME SpeedInv, CountLine
  PROVE  SpeedInv'
<1>1. /\ pc = "count" /\ pc' = "line" /\ n' = n + 1
      /\ usetime' = IF n' % Batch = 0 THEN 0 ELSE usetime
      /\ UNCHANGED <<file, pos, key, blocks, boff, body, starts, db, out, value, runs>>
  BY DEF CountLine, recVars
<1>2. n \in Nat /\ n + 1 \in 0..pos /\ usetime = (n % Batch) + 1 /\ usetime \in Nat
  BY <1>1, RocksAssumption DEF SpeedInv, RocksTypeOK, LineRead, InLine, TimesAdded
<1>3. RocksTypeOK'
  BY <1>1, <1>2 DEF SpeedInv, RocksTypeOK
<1>4. usetime' = n' % Batch
  <2>1. n % Batch \in 0..(Batch - 1)
    BY <1>2, ModBounds, RocksAssumption
  <2>2. (n + 1) % Batch = IF n % Batch = Batch - 1 THEN 0 ELSE (n % Batch) + 1
    BY <1>2, ModSucc, RocksAssumption
  <2>3. QED
    BY <1>1, <1>2, <2>1, <2>2
<1>5. TimesAdded'
  BY <1>1, <1>4 DEF TimesAdded
<1>6. LineRead' /\ KeyOfLine' /\ BlocksLoop' /\ BodyLoop' /\ ValueOfBlock'
  BY <1>1 DEF LineRead, KeyOfLine, BlocksLoop, BodyLoop, ValueOfBlock, Unpacked, InLine
<1>7. GoodStore' /\ GoodOut'
  BY <1>1 DEF SpeedInv, GoodStore, GoodOut, InLine
<1>8. QED
  BY <1>3, <1>5, <1>6, <1>7 DEF SpeedInv

\* A new run, on the database that is there.
LEMMA FreshInv ==
  ASSUME file \in Files, pc \in {"connect", "line"}, pos = 0,
         blocks = <<>>, boff = 0, body = <<>>, starts = << 0 >>,
         \A k \in DOMAIN db : db[k] \in Record, GoodStore,
         out = NoRecord, value = Garbage, n = 0, usetime = 0, runs \in Nat
  PROVE  SpeedInv
<1>1. /\ <<>> \in Seq(Block) /\ <<>> \in Line /\ << 0 >> \in Seq(Nat)
      /\ Len(<<>>) = 0 /\ Len(<< 0 >>) = 1
  BY DEF Line
<1>2. 0 \in 0..Len(file)
  BY RocksAssumption
<1>3. RocksTypeOK
  BY <1>1, <1>2, NoRecordGood DEF RocksTypeOK, Block
<1>4. LineRead /\ BlocksLoop /\ BodyLoop /\ KeyOfLine /\ ValueOfBlock
  BY DEF LineRead, BlocksLoop, BodyLoop, KeyOfLine, ValueOfBlock, Unpacked, InLine
<1>5. GoodOut
  BY NoRecordGood DEF GoodOut
<1>6. TimesAdded
  <2>1. 0 % Batch = 0
    BY ModBounds, RocksAssumption
  <2>2. QED
    BY <2>1 DEF TimesAdded
<1>7. QED
  BY <1>3, <1>4, <1>5, <1>6 DEF SpeedInv

\* The first run finds an empty database.
LEMMA StartsAtInv ==
  ASSUME NEW first \in {"connect", "line"}, StartsAt(first)
  PROVE  SpeedInv
<1>1. GoodStore /\ \A k \in DOMAIN db : db[k] \in Record
  BY DEF StartsAt, GoodStore
<1>2. QED
  BY <1>1, FreshInv DEF StartsAt

\* The program is run again.
LEMMA RunFromInv ==
  ASSUME SpeedInv, NEW first \in {"connect", "line"}, RunFrom(first)
  PROVE  SpeedInv'
<1>1. /\ file' \in Files /\ pc' = first /\ pos' = 0 /\ blocks' = <<>> /\ boff' = 0
      /\ body' = <<>> /\ starts' = << 0 >> /\ out' = NoRecord /\ value' = Garbage
      /\ n' = 0 /\ usetime' = 0 /\ runs' = runs + 1 /\ db' = db
  BY DEF RunFrom
<1>2. /\ \A k \in DOMAIN db' : db'[k] \in Record
      /\ runs' \in Nat /\ GoodStore'
  BY <1>1 DEF SpeedInv, RocksTypeOK, GoodStore
<1>3. /\ <<>> \in Seq(Block) /\ <<>> \in Line /\ << 0 >> \in Seq(Nat)
      /\ Len(<<>>) = 0 /\ Len(<< 0 >>) = 1
  BY DEF Line
<1>4. 0 \in 0..Len(file')
  BY <1>1, RocksAssumption
<1>5. RocksTypeOK'
  BY <1>1, <1>2, <1>3, <1>4, NoRecordGood DEF RocksTypeOK, Block
<1>6. LineRead' /\ BlocksLoop' /\ BodyLoop' /\ KeyOfLine' /\ ValueOfBlock'
  BY <1>1 DEF LineRead, BlocksLoop, BodyLoop, KeyOfLine, ValueOfBlock, Unpacked, InLine
<1>7. GoodOut'
  BY <1>1, NoRecordGood DEF GoodOut
<1>8. TimesAdded'
  <2>1. 0 % Batch = 0
    BY ModBounds, RocksAssumption
  <2>2. QED
    BY <1>1, <2>1 DEF TimesAdded
<1>9. QED
  BY <1>2, <1>5, <1>6, <1>7, <1>8 DEF SpeedInv

\* The steps that the two programs share.
LEMMA SameCodeInv ==
  ASSUME SpeedInv,
         \/ ReadLine \/ ReadShortLine \/ AddBlock \/ BlocksDone \/ AddField
         \/ UnpackGarbage \/ CountLine \/ EndOfFile \/ Kill
  PROVE  SpeedInv'
<1>1. CASE ReadLine
  BY <1>1, StartLineInv DEF ReadLine
<1>2. CASE GoesWrong \/ EndOfFile \/ Kill
  BY <1>2, MovesInv DEF GoesWrong, EndOfFile, Kill, Ends
<1>3. CASE ReadShortLine
  BY <1>2, <1>3, StartLineInv DEF ReadShortLine
<1>4. CASE UnpackGarbage
  BY <1>2, <1>4, UnpackInv DEF UnpackGarbage
<1>5. QED
  BY <1>1, <1>2, <1>3, <1>4, AddBlockInv, BlocksDoneInv, AddFieldInv, CountLineInv

\* Nothing moves.
LEMMA StutterInv ==
  ASSUME SpeedInv, UNCHANGED rocksVars
  PROVE  SpeedInv'
<1>1. UNCHANGED <<file, pc, pos, key, blocks, boff, body, starts, db, out, value, n,
                  usetime, runs>>
  BY DEF rocksVars, recVars
<1>2. RocksTypeOK' /\ LineRead' /\ BlocksLoop' /\ BodyLoop' /\ KeyOfLine'
  BY <1>1 DEF SpeedInv, RocksTypeOK, LineRead, BlocksLoop, BodyLoop, NextBlock, KeyOfLine,
    InLine, Fields, Buffer
<1>3. GoodStore' /\ GoodOut' /\ ValueOfBlock' /\ TimesAdded'
  BY <1>1 DEF SpeedInv, GoodStore, GoodOut, ValueOfBlock, Unpacked, TimesAdded, InLine
<1>4. QED
  BY <1>2, <1>3 DEF SpeedInv

\* Every step of the RocksDB program keeps the invariant.
LEMMA RocksNextInv == SpeedInv /\ [Next]_rocksVars => SpeedInv'
<1> SUFFICES ASSUME SpeedInv, [Next]_rocksVars PROVE SpeedInv'
  OBVIOUS
<1>1. CASE Put \/ PutFails
  BY <1>1, PutInv DEF Put, PutFails
<1>2. CASE Get \/ GetFails
  BY <1>2, GetInv DEF Get, GetFails
<1>3. CASE Unpack
  BY <1>3, UnpackInv DEF Unpack
<1>4. CASE Run
  BY <1>4, RunFromInv DEF Run
<1>5. CASE UNCHANGED rocksVars
  BY <1>5, StutterInv
<1>6. QED
  BY <1>1, <1>2, <1>3, <1>4, <1>5, SameCodeInv DEF Next, LineStep

\* What the invariant says of a value that was unpacked, and of a report.
LEMMA SpeedInvGives ==
  SpeedInv => RocksTypeOK /\ UnpackInBounds /\ CustomerUnpacked /\ ReportsBatch
<1> SUFFICES ASSUME SpeedInv
    PROVE RocksTypeOK /\ UnpackInBounds /\ CustomerUnpacked /\ ReportsBatch
  OBVIOUS
<1>1. ASSUME Unpacked
      PROVE  /\ Placed(out, customer_id) /\ Mine(out, key)
             /\ Len(out.blocks) >= customer_id
             /\ value.at = out.blocks[customer_id].off
             /\ value.size = out.blocks[customer_id].size
  <2>1. /\ Len(out.blocks) >= customer_id /\ Good(out) /\ Mine(out, key)
        /\ value.at = out.blocks[customer_id].off
        /\ value.size = out.blocks[customer_id].size
    BY <1>1 DEF SpeedInv, ValueOfBlock, GoodOut, Unpacked, InLine
  <2>2. out.blocks \in Seq(Block)
    BY DEF SpeedInv, RocksTypeOK, Record, Block
  <2>3. customer_id \in 1..Len(out.blocks)
    BY <2>1, <2>2 DEF customer_id
  <2>4. QED
    BY <2>1, <2>3 DEF Good
<1>2. UnpackInBounds
  BY <1>1 DEF UnpackInBounds, Placed
<1>3. CustomerUnpacked
  <2>1. Unpacked /\ key \notin GarbageKeys => key[1] = Fields[customer_id].id
    BY DEF SpeedInv, KeyOfLine, InLine, Unpacked
  <2>2. QED
    BY <1>1, <2>1 DEF CustomerUnpacked, Placed, Mine
<1>4. ReportsBatch
  <2>1. SUFFICES ASSUME pc = "count", (n + 1) % Batch = 0 PROVE usetime = Batch
    BY DEF ReportsBatch
  <2>2. n \in Nat /\ usetime = (n % Batch) + 1
    BY <2>1 DEF SpeedInv, RocksTypeOK, TimesAdded
  <2>3. /\ n % Batch \in 0..(Batch - 1)
        /\ (n + 1) % Batch = IF n % Batch = Batch - 1 THEN 0 ELSE (n % Batch) + 1
    BY <2>2, ModBounds, ModSucc, RocksAssumption
  <2>4. QED
    BY <2>1, <2>2, <2>3, RocksAssumption
<1>5. QED
  BY <1>2, <1>3, <1>4 DEF SpeedInv

\* The RocksDB speed test, for files of any lines, a 2^16 and a batch of any
\* size: what it unpacks is within the record, is the customer of the line
\* where the numbers fit, and every report is over one batch.
THEOREM RocksCorrect ==
  Spec => [](RocksTypeOK /\ UnpackInBounds /\ CustomerUnpacked /\ ReportsBatch)
<1>1. Init => SpeedInv
  BY StartsAtInv DEF Init
<1>2. QED
  BY <1>1, RocksNextInv, SpeedInvGives, PTL DEF Spec

-----------------------------------------------------------------------------
\* Redis

\* No reply is left over on a connection that still works.
NoLeftover == conn = "up" => wire = <<>>

RedisInv == SpeedInv /\ NoLeftover /\ ReplyIsMine

\* A command is answered by the reply to it, or not at all.
LEMMA CommandReply ==
  ASSUME NoLeftover, NEW cmd, Command(cmd)
  PROVE  NoLeftover' /\ (reply' = cmd \/ reply' = NoReply)
<1>1. CASE Answered(cmd)
  <2>1. wire = <<>> /\ reply' = Head(Append(wire, cmd)) /\ wire' = Tail(Append(wire, cmd))
    BY <1>1 DEF Answered, NoLeftover
  <2>2. reply' = cmd /\ wire' = <<>>
    BY <2>1
  <2>3. QED
    BY <2>2 DEF NoLeftover
<1>2. CASE Unanswered(cmd) \/ NotSent
  BY <1>2 DEF Unanswered, NotSent, NoLeftover
<1>3. QED
  BY <1>1, <1>2 DEF Command

\* Every step of the Redis program keeps the invariant.
LEMMA RedisNextInv == RedisInv /\ [RedisNext]_redisVars => RedisInv'
<1> SUFFICES ASSUME RedisInv, [RedisNext]_redisVars PROVE RedisInv'
  OBVIOUS
<1>1. SpeedInv /\ NoLeftover /\ ReplyIsMine
  BY DEF RedisInv
<1>2. CASE Connect
  <2>1. SpeedInv'
    BY <1>1, <1>2, MovesInv DEF Connect
  <2>2. NoLeftover' /\ ReplyIsMine'
    BY <1>2 DEF Connect, NoLeftover, ReplyIsMine
  <2>3. QED
    BY <2>1, <2>2 DEF RedisInv
<1>3. CASE ConnectFails
  <2>1. SpeedInv'
    BY <1>1, <1>3, MovesInv DEF ConnectFails, Ends
  <2>2. NoLeftover' /\ ReplyIsMine'
    BY <1>1, <1>3 DEF ConnectFails, Ends, NoLeftover, ReplyIsMine
  <2>3. QED
    BY <2>1, <2>2 DEF RedisInv
<1>4. CASE Ping
  <2>1. pc = "ping" /\ pc' \in {"dead", "line"}
    BY <1>4 DEF Ping
  <2>2. SpeedInv'
    BY <1>1, <1>4, <2>1, MovesInv DEF Ping
  <2>3. NoLeftover'
    BY <1>1, <1>4, CommandReply DEF Ping
  <2>4. QED
    BY <2>1, <2>2, <2>3 DEF RedisInv, ReplyIsMine
<1>5. CASE Set
  <2>1. SpeedInv'
    BY <1>1, <1>5, PutInv DEF Set
  <2>2. NoLeftover'
    BY <1>1, <1>5, CommandReply DEF Set
  <2>3. ReplyIsMine'
    BY <1>5 DEF Set, PutTimed, ReplyIsMine
  <2>4. QED
    BY <2>1, <2>2, <2>3 DEF RedisInv
<1>6. CASE GetReply
  <2>1. SpeedInv'
    BY <1>1, <1>6, GetInv DEF GetReply
  <2>2. NoLeftover' /\ (reply' = [cmd |-> "GET", key |-> key] \/ reply' = NoReply)
    BY <1>1, <1>6, CommandReply DEF GetReply
  <2>3. key' = key
    BY <1>6 DEF GetReply, GetTimed
  <2>4. QED
    BY <2>1, <2>2, <2>3 DEF RedisInv, ReplyIsMine
<1>7. CASE SameCode \/ RedisKill
  <2>1. SpeedInv' /\ conn' = conn /\ wire' = wire
    BY <1>1, <1>7, SameCodeInv DEF SameCode, RedisKill
  <2>2. pc' # "unpack"
    BY <1>7 DEF SameCode, RedisKill, ReadLine, ReadShortLine, StartLine, AddBlock, BlocksDone,
      AddField, UnpackGarbage, CountLine, EndOfFile, Kill, GoesWrong, Ends
  <2>3. QED
    BY <1>1, <2>1, <2>2 DEF RedisInv, NoLeftover, ReplyIsMine
<1>8. CASE RedisRun
  <2>1. SpeedInv'
    BY <1>1, <1>8, RunFromInv DEF RedisRun
  <2>2. QED
    BY <2>1, <1>8 DEF RedisRun, RunFrom, RedisInv, NoLeftover, ReplyIsMine
<1>9. CASE UNCHANGED redisVars
  <2>1. UNCHANGED <<rocksVars, conn, wire, reply>> /\ pc' = pc /\ key' = key
    BY <1>9 DEF redisVars, rocksVars
  <2>2. QED
    BY <1>1, <2>1, StutterInv DEF RedisInv, NoLeftover, ReplyIsMine
<1>10. QED
  BY <1>2, <1>3, <1>4, <1>5, <1>6, <1>7, <1>8, <1>9 DEF RedisNext, RedisStep

\* The Redis speed test: a reply that is timed answers the GET of its line,
\* whatever has timed out before, and every report is over one batch.
THEOREM RedisCorrect == RedisSpec => [](RocksTypeOK /\ ReportsBatch /\ ReplyIsMine)
<1>1. RedisInit => RedisInv
  BY StartsAtInv DEF RedisInit, StartsAt, RedisInv, NoLeftover, ReplyIsMine
<1>2. RedisInv => RocksTypeOK /\ ReportsBatch /\ ReplyIsMine
  BY SpeedInvGives DEF RedisInv
<1>3. QED
  BY <1>1, <1>2, RedisNextInv, PTL DEF RedisSpec
=============================================================================
