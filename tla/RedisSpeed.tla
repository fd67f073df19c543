----------------------------- MODULE RedisSpeed -----------------------------
(***************************************************************************)
(* src/src/redis_rw_speed_test.cpp: the loop of RocksSpeed, with a SET and *)
(* a GET over one connection to a Redis server in place of Put() and Get().*)
(*                                                                         *)
(* The value of a SET is a C string that starts with a binary count, so    *)
(* the server gets no more than the count; and the reply to the GET is     *)
(* freed without a look at it.  No value comes back into the program: out  *)
(* is the empty string for every line, and values are left out.            *)
(*                                                                         *)
(* The server and hiredis are external.  redisCommand() sends a command    *)
(* and takes the first reply that arrives.  When none does within the      *)
(* timeout given to redisConnectWithTimeout(), or the connection breaks,   *)
(* it returns NULL, and so does every later call on this context.          *)
(***************************************************************************)
EXTENDS RocksSpeed

VARIABLES
  conn,   \* c: "none", "up", or "down" once c->err is set
  wire,   \* replies the server has sent and nobody has read
  reply   \* reply: the command it answers, or NoReply for NULL

redisVars == <<rocksVars, conn, wire, reply>>

NoReply == [cmd |-> "none", key |-> <<>>]

RedisInit == StartsAt("connect") /\ conn = "none" /\ wire = <<>> /\ reply = NoReply

-----------------------------------------------------------------------------
\* hiredis and the server

\* redisCommand(c, cmd) is answered.
Answered(cmd) ==
  /\ conn = "up"
  /\ reply' = Head(Append(wire, cmd))
  /\ wire' = Tail(Append(wire, cmd))
  /\ UNCHANGED conn

\* It times out or the connection breaks; an answer may still be on its way.
Unanswered(cmd) ==
  /\ conn = "up"
  /\ conn' = "down"
  /\ reply' = NoReply
  /\ wire' \in {wire, Append(wire, cmd)}

\* c->err is set: nothing is sent or read.
NotSent ==
  /\ conn = "down"
  /\ reply' = NoReply
  /\ UNCHANGED <<conn, wire>>

Command(cmd) == Answered(cmd) \/ Unanswered(cmd) \/ NotSent

-----------------------------------------------------------------------------
\* The program

Connect ==
  /\ pc = "connect"
  /\ conn' = "up" /\ wire' = <<>>
  /\ pc' = "ping"
  /\ UNCHANGED <<file, pos, key, recVars, db, out, value, n, usetime, runs, reply>>

\* exit(1)
ConnectFails ==
  /\ pc = "connect"
  /\ Ends("dead")
  /\ UNCHANGED <<conn, wire, reply>>

\* reply->str is printed: without a reply the process crashes.
Ping ==
  /\ pc = "ping"
  /\ Command([cmd |-> "PING", key |-> <<>>])
  /\ pc' = IF reply' = NoReply THEN "dead" ELSE "line"
  /\ UNCHANGED <<file, pos, key, recVars, db, out, value, n, usetime, runs>>

\* Mutant: redisAppendCommand(), which sends and leaves the reply unread.
SetUnread ==
  /\ PutTimed
  /\ wire' = IF conn = "up" THEN Append(wire, [cmd |-> "SET", key |-> key]) ELSE wire
  /\ UNCHANGED <<db, conn, reply>>

\* Whatever the reply to the SET is, it is freed.
Set ==
  /\ PutTimed
  /\ Command([cmd |-> "SET", key |-> key])
  /\ UNCHANGED db

\* Mutant: a GET without a reply is sent again.
GetReplyRetries ==
  /\ pc = "get"
  /\ Command([cmd |-> "GET", key |-> key])
  /\ pc' = IF reply' = NoReply THEN "get" ELSE "unpack"
  /\ usetime' = IF reply' = NoReply THEN usetime ELSE usetime + 1
  /\ UNCHANGED <<file, pos, key, recVars, db, out, value, n, runs>>

\* The reply to the GET is freed too, and out stays empty.
GetReply ==
  /\ GetTimed
  /\ Command([cmd |-> "GET", key |-> key])
  /\ UNCHANGED out

\* The steps that are the same code as in RocksSpeed.
SameCode ==
  /\ \/ ReadLine \/ ReadShortLine \/ AddBlock \/ BlocksDone \/ AddField
     \/ UnpackGarbage \/ CountLine \/ EndOfFile
  /\ UNCHANGED <<conn, wire, reply>>

RedisKill == Kill /\ UNCHANGED <<conn, wire, reply>>

\* The program is run again; its connection is a new one.
RedisRun == RunFrom("connect") /\ conn' = "none" /\ wire' = <<>> /\ reply' = NoReply

RedisStep == Connect \/ ConnectFails \/ Ping \/ Set \/ GetReply \/ SameCode

RedisNext == RedisStep \/ RedisKill \/ RedisRun

\* Every command returns, at the latest after the timeout of 1.5 seconds.
RedisSpec == RedisInit /\ [][RedisNext]_redisVars /\ WF_redisVars(RedisStep)

-----------------------------------------------------------------------------
\* Properties

\* The reply that is timed as the answer to the GET of a line is the answer to
\* that very command, although earlier ones may have timed out and been
\* answered late: replies never shift by one.
ReplyIsMine ==
  pc = "unpack" /\ reply # NoReply => reply = [cmd |-> "GET", key |-> key]
=============================================================================
