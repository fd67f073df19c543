----------------------------- MODULE MCClients ------------------------------
(***************************************************************************)
(* The programs that use a database library or server, one of them in each *)
(* behaviour; they share no data, so nothing is gained by interleaving     *)
(* them.  The variables of the others keep their initial values.           *)
(*                                                                         *)
(* With Wrap = 4 the lengths of the fields are on both sides of it.        *)
(***************************************************************************)
EXTENDS RedisSpeed, Checkpoint, ArbitraryStore

VARIABLE program  \* which one runs

clientVars == <<redisVars, ckVars, arbVars, program>>

\* The line of the fields with these contents and lengths.
L(ids, lens) == [i \in 1..Len(lens) |-> [id |-> ids[i], len |-> lens[i]]]

\* Lines of four fields, alone: every way for the numbers to fit or not.
OneLine ==
  { <<L(<<1, 2, 3, 4>>, lens)>> : lens \in [1..4 -> {1, 5}] \cup [1..4 -> {0, 4}] }

\* A few lines: a key that comes back with a longer record, two customers, a
\* record that wraps around, a line that is too short.
FewLines ==
  LET a == L(<<1, 2, 3, 4>>, <<1, 1, 1, 2>>)
      b == L(<<1, 2, 3, 4, 5>>, <<1, 1, 1, 2, 5>>)
      c == L(<<1, 2, 3, 6>>, <<1, 1, 1, 2>>)
      d == L(<<1, 2, 3, 6, 7>>, <<1, 0, 1, 2, 1>>)
      e == L(<<8, 2, 3, 4>>, <<5, 1, 1, 2>>)
  IN  {<<a, b, c, d>>, <<d, e, a>>, <<c, L(<<1, 2>>, <<1, 1>>), d>>}

MCFiles == OneLine \cup FewLines

MCGarbageKeys == {<<-1>>}

ClientsInit ==
  /\ program \in {"rocks", "redis", "checkpoint", "arbitrary"}
  /\ \/ program = "rocks" /\ Init
     \/ program = "redis" /\ StartsAt("connect")
     \/ program \in {"checkpoint", "arbitrary"} /\ StartsAt("end") /\ Len(file) = 4
  /\ conn = "none" /\ wire = <<>> /\ reply = NoReply
  /\ CkInit
  /\ step = "open" /\ result = "" /\ getFailed = FALSE /\ kept = FALSE

NotRocks == UNCHANGED <<conn, wire, reply, ckVars, arbVars, program>>
NotRedis == UNCHANGED <<ckVars, arbVars, program>>

RocksRuns == program = "rocks" /\ Next /\ NotRocks
RedisRuns == program = "redis" /\ RedisNext /\ NotRedis
CheckpointRuns ==
  /\ program = "checkpoint"
  /\ CkNext
  /\ UNCHANGED <<redisVars, step, result, getFailed, kept, program>>
ArbitraryRuns ==
  /\ program = "arbitrary"
  /\ ArbNext
  /\ UNCHANGED <<redisVars, stage, copy, failed, program>>

ClientsNext == RocksRuns \/ RedisRuns \/ CheckpointRuns \/ ArbitraryRuns

\* The fairness of Spec and of RedisSpec.
ClientsSpec ==
  /\ ClientsInit
  /\ [][ClientsNext]_clientVars
  /\ WF_clientVars(program = "rocks" /\ (LineStep \/ EndOfFile) /\ NotRocks)
  /\ WF_clientVars(program = "redis" /\ RedisStep /\ NotRedis)

=============================================================================
