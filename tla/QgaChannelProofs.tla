-------------------------- MODULE QgaChannelProofs --------------------------
(***************************************************************************)
(* The safety properties of QgaChannel hold for any number of pings,       *)
(* chunks and polls.                                                       *)
(*                                                                         *)
(* IInv is inductive.  The client only appends to the requests and takes   *)
(* replies from the front; closing a connection cuts the requests at the   *)
(* end and the replies at the front; the agent turns the first request     *)
(* into the last reply.  So no request and no reply overtakes another, and *)
(* each part of IInv follows from positions alone.                         *)
(***************************************************************************)
EXTENDS QgaChannel, SequenceTheorems, TLAPS

-----------------------------------------------------------------------------
(* The port *)

\* t is s without its first k elements; t is s cut at the end.
Dropped(s, t, k) == Len(t) = Len(s) - k /\ \A i \in 1..Len(t) : t[i] = s[i + k]
Cut(s, t) == Len(t) <= Len(s) /\ \A i \in 1..Len(t) : t[i] = s[i]

LEMMA Suffixes ==
  ASSUME NEW S, NEW s \in Seq(S), NEW n \in 1..(Len(s) + 1)
  PROVE  /\ SubSeq(s, n, Len(s)) \in Seq(S)
         /\ Dropped(s, SubSeq(s, n, Len(s)), n - 1)
<1>1. Len(s) \in Nat
  OBVIOUS
<1>2. SubSeq(s, n, Len(s)) \in Seq(S)
  BY <1>1
<1>3. Len(SubSeq(s, n, Len(s))) = Len(s) - (n - 1)
  BY <1>1
<1>4. \A i \in 1..(Len(s) - (n - 1)) : SubSeq(s, n, Len(s))[i] = s[i + (n - 1)]
  BY <1>1
<1> QED
  BY <1>2, <1>3, <1>4 DEF Dropped

LEMMA Prefixes ==
  ASSUME NEW S, NEW s \in Seq(S), NEW n \in 0..Len(s)
  PROVE  SubSeq(s, 1, n) \in Seq(S) /\ Cut(s, SubSeq(s, 1, n))
<1>1. Len(s) \in Nat
  OBVIOUS
<1>2. SubSeq(s, 1, n) \in Seq(S) /\ Len(SubSeq(s, 1, n)) = n
  BY <1>1
<1>3. \A i \in 1..n : SubSeq(s, 1, n)[i] = s[i]
  BY <1>1
<1> QED
  BY <1>1, <1>2, <1>3 DEF Cut

LEMMA Ports ==
  ASSUME TypeOK
  PROVE  /\ requests \in Seq(RequestRecord) /\ Len(requests) \in Nat
         /\ replies \in Seq(Bodies) /\ Len(replies) \in Nat
         /\ \A i \in 1..Len(requests) : requests[i] \in RequestRecord
         /\ \A i \in 1..Len(replies) : replies[i] \in Bodies
         /\ requests # <<>> => Len(requests) > 0 /\ Head(requests) = requests[1]
         /\ replies # <<>> => Len(replies) > 0 /\ Head(replies) = replies[1]
         /\ Len(requests) = 0 => requests = <<>>
         /\ Len(replies) = 0 => replies = <<>>
<1>1. requests \in Seq(RequestRecord) /\ replies \in Seq(Bodies)
  BY DEF TypeOK
<1> QED
  BY <1>1

LEMMA Sends ==
  ASSUME TypeOK, NEW op \in Ops, NEW arg \in Jobs \cup {"none", "int", "dict"}, Send(op, arg)
  PROVE  /\ requests' \in Seq(RequestRecord)
         /\ Len(requests') = Len(requests) + 1
         /\ \A i \in 1..Len(requests) : requests'[i] = requests[i]
         /\ requests'[Len(requests) + 1] = Request(op, arg)
         /\ requests = <<>> => requests' = <<Request(op, arg)>>
         /\ Request(op, arg).op = op /\ Request(op, arg).arg = arg
<1>1. Request(op, arg) \in RequestRecord /\ Request(op, arg).op = op /\ Request(op, arg).arg = arg
  BY DEF Request, RequestRecord
<1>2. requests' = Append(requests, Request(op, arg))
  BY DEF Send
<1>3. requests \in Seq(RequestRecord)
  BY DEF TypeOK
<1> DEFINE r == Request(op, arg)
<1> HIDE DEF r
<1>4. r \in RequestRecord /\ requests' = Append(requests, r)
  BY <1>1, <1>2 DEF r
<1>5. /\ requests' \in Seq(RequestRecord)
      /\ Len(requests') = Len(requests) + 1
      /\ \A i \in 1..Len(requests) : requests'[i] = requests[i]
      /\ requests'[Len(requests) + 1] = r
  BY <1>3, <1>4
<1>6. requests = <<>> => requests' = <<r>>
  BY <1>4
<1> QED
  BY <1>1, <1>5, <1>6 DEF r

LEMMA Receives ==
  ASSUME TypeOK, NEW body, Receive(body)
  PROVE  /\ replies' \in Seq(Bodies)
         /\ Len(replies) > 0 /\ replies[1] = body
         /\ \E k \in 1..Len(replies) : Dropped(replies, replies', k)
<1>1. replies \in Seq(Bodies) /\ Len(replies) > 0 /\ replies[1] = body
  BY Ports DEF Receive
<1>2. PICK n \in 2..Len(replies) + 1 : replies' = SubSeq(replies, n, Len(replies))
  BY DEF Receive
<1>3. n \in 1..(Len(replies) + 1) /\ n - 1 \in 1..Len(replies) /\ Len(replies) \in Nat
  BY <1>1, <1>2
<1>4. replies' \in Seq(Bodies) /\ Dropped(replies, replies', n - 1)
  BY <1>1, <1>2, <1>3, Suffixes
<1> QED
  BY <1>1, <1>3, <1>4

LEMMA Disconnects ==
  ASSUME TypeOK, NEW reps \in Seq(Bodies), Disconnect(requests, reps)
  PROVE  /\ requests' \in Seq(RequestRecord) /\ Cut(requests, requests')
         /\ replies' \in Seq(Bodies)
         /\ \E k \in 0..Len(reps) : Dropped(reps, replies', k)
<1>1. PICK n \in 0..Len(requests) : requests' = SubSeq(requests, 1, n)
  BY DEF Disconnect
<1>2. PICK m \in 1..Len(reps) + 1 : replies' = SubSeq(reps, m, Len(reps))
  BY DEF Disconnect
<1>3. requests \in Seq(RequestRecord)
  BY DEF TypeOK
<1>4. Len(reps) \in Nat /\ m \in 1..(Len(reps) + 1) /\ m - 1 \in 0..Len(reps)
  BY <1>2
<1>5. requests' \in Seq(RequestRecord) /\ Cut(requests, requests')
  BY <1>1, <1>3, Prefixes
<1>6. replies' \in Seq(Bodies) /\ Dropped(reps, replies', m - 1)
  BY <1>2, <1>4, Suffixes
<1> QED
  BY <1>4, <1>5, <1>6

\* The reply that ends a connection is the first; no later one moves up by less.
LEMMA LastReceives ==
  ASSUME TypeOK, NEW body, ReceiveLast(body)
  PROVE  /\ requests' \in Seq(RequestRecord) /\ Cut(requests, requests')
         /\ replies' \in Seq(Bodies)
         /\ Len(replies) > 0 /\ replies[1] = body
         /\ \E k \in 1..Len(replies) : Dropped(replies, replies', k)
<1>1. replies \in Seq(Bodies) /\ Len(replies) > 0 /\ replies[1] = body
  BY Ports DEF ReceiveLast
<1>2. /\ Tail(replies) \in Seq(Bodies) /\ Len(Tail(replies)) = Len(replies) - 1
      /\ Len(replies) \in Nat
      /\ \A i \in 1..Len(Tail(replies)) : Tail(replies)[i] = replies[i + 1]
  BY <1>1
<1>3. Disconnect(requests, Tail(replies))
  BY DEF ReceiveLast
<1>4. /\ requests' \in Seq(RequestRecord) /\ Cut(requests, requests')
      /\ replies' \in Seq(Bodies)
  BY <1>2, <1>3, Disconnects
<1>5. PICK k \in 0..Len(Tail(replies)) : Dropped(Tail(replies), replies', k)
  BY <1>2, <1>3, Disconnects
<1>6. k + 1 \in 1..Len(replies) /\ Len(replies') = Len(replies) - (k + 1)
  BY <1>2, <1>5 DEF Dropped
<1>7. ASSUME NEW i \in 1..Len(replies') PROVE replies'[i] = replies[i + (k + 1)]
  <2>1. i + k \in 1..Len(Tail(replies)) /\ replies'[i] = Tail(replies)[i + k]
    BY <1>2, <1>5, <1>6 DEF Dropped
  <2> QED
    BY <1>2, <1>5, <2>1
<1> QED
  BY <1>1, <1>4, <1>6, <1>7 DEF Dropped

LEMMA Lates ==
  ASSUME TypeOK, NEW op \in Ops, Late(op)
  PROVE  /\ requests' \in Seq(RequestRecord) /\ Cut(requests, requests')
         /\ replies' \in Seq(Bodies)
         /\ \E k \in 0..Len(replies) : Dropped(replies, replies', k)
         /\ late' = [late EXCEPT ![op] = @ + 1]
BY Disconnects, Ports DEF Late

LEMMA AgentAnswers ==
  ASSUME TypeOK, NEW body \in Bodies, requests # <<>>, Answer(body)
  PROVE  /\ requests' \in Seq(RequestRecord) /\ replies' \in Seq(Bodies)
         /\ Dropped(requests, requests', 1) /\ Len(requests) > 0
         /\ \/ /\ Len(replies') = Len(replies) + 1
               /\ \A i \in 1..Len(replies) : replies'[i] = replies[i]
               /\ replies'[Len(replies) + 1] = body
               /\ replies = <<>> => replies' = <<body>>
            \/ ~Connected /\ replies' = replies
         /\ Len(requests) = 1 => requests' = <<>>
<1>1. requests \in Seq(RequestRecord) /\ replies \in Seq(Bodies)
  BY DEF TypeOK
<1>2. requests' = Tail(requests)
  BY DEF Answer
<1>3. /\ requests' \in Seq(RequestRecord) /\ Len(requests') = Len(requests) - 1
      /\ Len(requests) > 0
      /\ \A i \in 1..Len(requests') : requests'[i] = requests[i + 1]
  BY <1>1, <1>2
<1>4. Len(requests) = 1 => requests' = <<>>
  BY <1>3
<1>5. CASE replies' = Append(replies, body)
  <2>1. /\ replies' \in Seq(Bodies) /\ Len(replies') = Len(replies) + 1
        /\ \A i \in 1..Len(replies) : replies'[i] = replies[i]
        /\ replies'[Len(replies) + 1] = body
    BY <1>1, <1>5
  <2>2. replies = <<>> => replies' = <<body>>
    BY <1>5
  <2> QED
    BY <1>3, <1>4, <2>1, <2>2 DEF Dropped
<1>6. CASE ~Connected /\ replies' = replies
  BY <1>1, <1>3, <1>4, <1>6 DEF Dropped
<1> QED
  BY <1>5, <1>6 DEF Answer

-----------------------------------------------------------------------------
(* The steps *)

\* What the agent can answer a request with.
Answers(r) ==
  CASE r.op = "ping"  -> {"empty", "error"}
    [] r.op = "open"  -> {"handle", "error"}
    [] r.op = "write" -> IF r.arg = "int" THEN {"count", "error"} ELSE {"error"}
    [] r.op = "close" -> IF r.arg = "int" THEN {"empty", "error"} ELSE {"error"}
    [] r.op = "exec"  -> {"pid", "error"}
    [] OTHER          -> {"running", "exited", "error"}

LEMMA AgentStep ==
  ASSUME TypeOK, Agent
  PROVE  /\ UNCHANGED <<pc, job, pings, handle, offset, polls, late>>
         /\ \/ UNCHANGED <<requests, replies>> /\ \E j \in Jobs : ProcessExits(j)
            \/ /\ requests # <<>>
               /\ \E body \in Answers(requests[1]) : body \in Bodies /\ Answer(body)
<1>1. UNCHANGED <<pc, job, pings, handle, offset, polls, late>>
  BY DEF Agent, client
<1>2. requests # <<>> => Head(requests) = requests[1]
  BY Ports
<1>3. CASE \E j \in Jobs : ProcessExits(j)
  BY <1>1, <1>3 DEF ProcessExits
<1>4. CASE AgentPings \/ AgentOpens
  BY <1>1, <1>2, <1>4 DEF AgentPings, AgentOpens, Takes, Answers, Bodies
<1>5. CASE AgentWrites
  BY <1>1, <1>2, <1>5 DEF AgentWrites, Takes, Answers, Bodies
<1>6. CASE AgentCloses
  BY <1>1, <1>2, <1>6 DEF AgentCloses, Takes, Answers, Bodies
<1>7. CASE AgentStarts
  BY <1>1, <1>2, <1>7 DEF AgentStarts, Takes, Answers, Bodies
<1>8. CASE AgentReports
  BY <1>1, <1>2, <1>8 DEF AgentReports, Takes, Answers, Bodies
<1> QED
  BY <1>3, <1>4, <1>5, <1>6, <1>7, <1>8 DEF Agent

\* Which requests change the file, which the processes.
LEMMA AgentFile ==
  ASSUME TypeOK, Agent
  PROVE  \/ UNCHANGED <<buffered, disk>>
         \/ requests[1].op = "open" /\ disk' = {0} /\ buffered' = 0
         \/ /\ requests[1].op = "write" /\ requests[1].arg = "int"
            /\ buffered' = buffered + 1 /\ disk' \in {disk, {buffered'}, 0..buffered'}
            /\ Answer("count") /\ requests # <<>>
         \/ /\ requests[1].op = "close" /\ requests[1].arg = "int"
            /\ buffered' = buffered /\ disk' \in {disk, {buffered}, 0..buffered}
<1>1. requests # <<>> => Head(requests) = requests[1]
  BY Ports
<1>2. CASE AgentOpens
  BY <1>1, <1>2 DEF AgentOpens, Takes
<1>3. CASE AgentWrites
  BY <1>1, <1>3 DEF AgentWrites, Takes
<1>4. CASE AgentCloses
  BY <1>1, <1>4 DEF AgentCloses, Takes
<1>5. CASE ~AgentOpens /\ ~AgentWrites /\ ~AgentCloses
  BY <1>5 DEF Agent, AgentPings, AgentStarts, AgentReports, ProcessExits, guest
<1> QED
  BY <1>2, <1>3, <1>4, <1>5

\* A close that failed is not forgotten.
LEMMA AgentUnflushed ==
  ASSUME TypeOK, Agent
  PROVE  unflushed' \in BOOLEAN /\ (unflushed => unflushed')
<1>1. unflushed \in BOOLEAN
  BY DEF TypeOK
<1>2. unflushed' = unflushed \/ unflushed' = TRUE
  BY DEF Agent, AgentPings, AgentOpens, AgentWrites, AgentCloses, AgentStarts,
     AgentReports, ProcessExits, guest
<1> QED
  BY <1>1, <1>2

LEMMA AgentProcess ==
  ASSUME TypeOK, Agent
  PROVE  \/ UNCHANGED <<process, ran, outcome>>
         \/ /\ requests # <<>> /\ requests[1].op = "exec" /\ Answer("pid") /\ outcome' = outcome
            /\ process' = [process EXCEPT ![requests[1].arg] = "running"]
            /\ ran' = IF requests[1].arg = "script" THEN disk ELSE ran
         \/ /\ requests # <<>> /\ requests[1].op = "status" /\ Answer("exited")
            /\ process[requests[1].arg] = "exited" /\ UNCHANGED <<ran, outcome>>
            /\ process' = [process EXCEPT ![requests[1].arg] = "reported"]
         \/ \E j \in Jobs : /\ process[j] = "running" /\ UNCHANGED <<requests, replies, ran>>
                            /\ process' = [process EXCEPT ![j] = "exited"]
                            /\ IF j = "script" THEN outcome' \in OutcomesOf(ran)
                                               ELSE outcome' = outcome
<1>1. requests # <<>> => Head(requests) = requests[1]
  BY Ports
<1>2. CASE AgentStarts
  BY <1>1, <1>2 DEF AgentStarts, Takes
<1>3. CASE AgentReports
  BY <1>1, <1>3 DEF AgentReports, Takes
<1>4. ASSUME NEW j \in Jobs, ProcessExits(j)
      PROVE  /\ process[j] = "running" /\ UNCHANGED <<requests, replies, ran>>
             /\ process' = [process EXCEPT ![j] = "exited"]
             /\ IF j = "script" THEN outcome' \in OutcomesOf(ran) ELSE outcome' = outcome
  BY <1>4 DEF ProcessExits
<1>5. CASE AgentPings \/ AgentOpens \/ AgentWrites \/ AgentCloses
  BY <1>5 DEF AgentPings, AgentOpens, AgentWrites, AgentCloses, guest
<1> QED
  BY <1>2, <1>3, <1>4, <1>5 DEF Agent

\* A command is started when its pid is answered; a status is told as it is.
LEMMA AgentTakesExec ==
  ASSUME TypeOK, Agent, requests # <<>>, requests[1].op = "exec"
  PROVE  \/ UNCHANGED <<requests, replies>>
         \/ Answer("pid") /\ process' = [process EXCEPT ![requests[1].arg] = "running"]
         \/ Answer("error") /\ UNCHANGED process
<1>1. Head(requests) = requests[1]
  BY Ports
<1> QED
  BY <1>1 DEF Agent, AgentPings, AgentOpens, AgentWrites, AgentCloses, AgentStarts,
     AgentReports, ProcessExits, Takes

LEMMA AgentTakesStatus ==
  ASSUME TypeOK, Agent, requests # <<>>, requests[1].op = "status", NEW j, j = requests[1].arg
  PROVE  \/ UNCHANGED <<requests, replies>>
         \/ process[j] = "running" /\ Answer("running") /\ UNCHANGED process
         \/ /\ process[j] = "exited" /\ Answer("exited")
            /\ process' = [process EXCEPT ![j] = "reported"]
         \/ process[j] \in {"none", "reported"} /\ Answer("error") /\ UNCHANGED process
<1>1. Head(requests) = requests[1]
  BY Ports
<1> QED
  BY <1>1 DEF Agent, AgentPings, AgentOpens, AgentWrites, AgentCloses, AgentStarts,
     AgentReports, ProcessExits, Takes

\* From where the kick gets to a phase.
LEMMA Goes ==
  ASSUME Kick
  PROVE  /\ pc' \in Pinging => Ping \/ PingReply \/ PingTimeout
         /\ pc' = "await-open" => OpenFile
         /\ pc' \in Writing => OpenReply \/ WriteChunk \/ WriteReply
         /\ pc' = "exec" => CloseReply \/ CloseTimeout \/ Judge
         /\ pc' = "await-pid" => StartExec
         /\ pc' \in Watching => PidReply \/ Poll \/ StatusReply \/ StatusTimeout
BY DEF Kick, Ping, PingReply, PingTimeout, OpenFile, OpenReply, OpenTimeout, WriteChunk,
   WriteBreaks, WriteReply, WriteTimeout, CloseReply, CloseTimeout, StartExec, PidReply, PidTimeout, Poll,
   StatusReply, StatusTimeout, Judge, Goto, ExecNone, Pinging, Writing, Watching

\* What no step of the kick touches, and what it counts.
LEMMA KickFrame ==
  ASSUME TypeOK, Kick
  PROVE  /\ UNCHANGED <<buffered, disk, process, ran, outcome, unflushed>>
         /\ job' = job \/ (Judge /\ job = "script" /\ job' = "tty1" /\ pc' = "exec")
         /\ handle' = handle \/ OpenReply
         /\ \A op \in Ops : late[op] \in Nat /\ late'[op] \in Nat /\ late'[op] >= late[op]
<1>1. UNCHANGED <<buffered, disk, process, ran, outcome, unflushed>>
  BY DEF Kick, Ping, PingReply, PingTimeout, OpenFile, OpenReply, OpenTimeout, WriteChunk,
     WriteBreaks, WriteReply, WriteTimeout, CloseReply, CloseTimeout, StartExec, PidReply, PidTimeout, Poll,
     StatusReply, StatusTimeout, Judge, guest
<1>2. job' = job \/ (Judge /\ job = "script" /\ job' = "tty1" /\ pc' = "exec")
  BY DEF Kick, Ping, PingReply, PingTimeout, OpenFile, OpenReply, OpenTimeout, WriteChunk,
     WriteBreaks, WriteReply, WriteTimeout, CloseReply, CloseTimeout, StartExec, PidReply, PidTimeout, Poll,
     StatusReply, StatusTimeout, Judge, client, Goto
<1>3. handle' = handle \/ OpenReply
  BY DEF Kick, Ping, PingReply, PingTimeout, OpenFile, OpenTimeout, WriteChunk,
     WriteBreaks, WriteReply, WriteTimeout, CloseReply, CloseTimeout, StartExec, PidReply, PidTimeout, Poll,
     StatusReply, StatusTimeout, Judge, client
<1>4. late' = late \/ \E op \in Ops : late' = [late EXCEPT ![op] = @ + 1]
  BY DEF Kick, Ping, PingReply, PingTimeout, OpenFile, OpenReply, OpenTimeout, WriteChunk,
     WriteBreaks, WriteReply, WriteTimeout, CloseReply, CloseTimeout, StartExec, PidReply, PidTimeout, Poll,
     StatusReply, StatusTimeout, Judge, Late, Ops
<1>5. late \in [Ops -> Nat]
  BY DEF TypeOK
<1>6. \A op \in Ops : late[op] \in Nat /\ late'[op] \in Nat /\ late'[op] >= late[op]
  BY <1>4, <1>5
<1> QED
  BY <1>1, <1>2, <1>3, <1>6

-----------------------------------------------------------------------------
(* Types *)

LEMMA Bounds == MaxPings \in Nat \ {0} /\ Chunks \in Nat \ {0} /\ MaxPolls \in Nat \ {0}
BY BoundsAssumption

LEMMA KickPorts ==
  ASSUME TypeOK, Kick
  PROVE  requests' \in Seq(RequestRecord) /\ replies' \in Seq(Bodies)
<1>1. requests \in Seq(RequestRecord) /\ replies \in Seq(Bodies)
  BY DEF TypeOK
<1>2. job \in Jobs /\ handle \in {"none", "int", "dict"}
  BY DEF TypeOK
<1>3. \A op \in Ops, arg \in Jobs \cup {"none", "int", "dict"} :
        Send(op, arg) => requests' \in Seq(RequestRecord)
  BY Sends
<1>4. /\ Send("ping", "none") => requests' \in Seq(RequestRecord)
      /\ Send("open", "none") => requests' \in Seq(RequestRecord)
      /\ Send("write", handle) => requests' \in Seq(RequestRecord)
      /\ Send("close", handle) => requests' \in Seq(RequestRecord)
      /\ Send("exec", job) => requests' \in Seq(RequestRecord)
      /\ Send("status", job) => requests' \in Seq(RequestRecord)
  BY <1>2, <1>3 DEF Ops
<1>5. \A body : Receive(body) => replies' \in Seq(Bodies)
  BY Receives
<1>6. \A body : ReceiveLast(body) => requests' \in Seq(RequestRecord) /\ replies' \in Seq(Bodies)
  BY LastReceives
<1>7. \A op \in Ops : Late(op) => requests' \in Seq(RequestRecord) /\ replies' \in Seq(Bodies)
  BY Lates
<1>8. CASE Ping \/ PingReply \/ PingTimeout
  BY <1>1, <1>4, <1>6, <1>7, <1>8 DEF Ping, PingReply, PingTimeout, NoUse, Ops
<1>9. CASE OpenFile \/ OpenReply \/ OpenTimeout
  BY <1>1, <1>4, <1>5, <1>6, <1>7, <1>9 DEF OpenFile, OpenReply, OpenTimeout, NoUse, Ops
<1>10. CASE WriteChunk \/ WriteBreaks \/ WriteReply \/ WriteTimeout
  <2>1. CASE WriteBreaks
    BY <1>1, <2>1, Disconnects DEF WriteBreaks
  <2> QED
    BY <1>1, <1>4, <1>5, <1>10, <2>1 DEF WriteChunk, WriteReply, WriteTimeout
<1>11. CASE CloseReply \/ CloseTimeout
  BY <1>6, <1>7, <1>11 DEF CloseReply, CloseTimeout, Ops
<1>12. CASE StartExec \/ PidReply \/ PidTimeout
  BY <1>1, <1>4, <1>6, <1>7, <1>12 DEF StartExec, PidReply, PidTimeout, NoUse, Ops
<1>13. CASE Poll \/ StatusReply \/ StatusTimeout
  BY <1>1, <1>4, <1>6, <1>7, <1>13 DEF Poll, StatusReply, StatusTimeout, NoUse, Ops
<1>14. CASE Judge
  BY <1>1, <1>14 DEF Judge
<1> QED
  BY <1>8, <1>9, <1>10, <1>11, <1>12, <1>13, <1>14 DEF Kick

LEMMA TypeKick ==
  ASSUME TypeOK, FileInv, Kick
  PROVE  TypeOK'
<1>1. requests' \in Seq(RequestRecord) /\ replies' \in Seq(Bodies)
  BY KickPorts
<1>2. UNCHANGED <<buffered, disk, process, ran, outcome, unflushed>>
  BY KickFrame
<1>3. late' \in [Ops -> Nat]
  <2>1. late \in [Ops -> Nat]
    BY DEF TypeOK
  <2>2. late' = late \/ \E op \in Ops : late' = [late EXCEPT ![op] = @ + 1]
    BY DEF Kick, Ping, PingReply, PingTimeout, OpenFile, OpenReply, OpenTimeout, WriteChunk,
       WriteBreaks, WriteReply, WriteTimeout, CloseReply, CloseTimeout, StartExec, PidReply, PidTimeout, Poll,
       StatusReply, StatusTimeout, Judge, Late, Ops
  <2> QED
    BY <2>1, <2>2
<1>4. pc' \in {"ping", "await-ping", "open", "await-open", "write", "await-write",
               "await-close", "abandon", "exec", "await-pid", "status",
               "await-status", "judge", "done", "failed"}
  BY DEF TypeOK, Kick, Ping, PingReply, PingTimeout, OpenFile, OpenReply, OpenTimeout, WriteChunk,
     WriteBreaks, WriteReply, WriteTimeout, CloseReply, CloseTimeout, StartExec, PidReply, PidTimeout, Poll,
     StatusReply, StatusTimeout, Judge, Goto, ExecNone
<1>5. job' \in Jobs
  BY KickFrame DEF TypeOK, Jobs
<1>6. handle' \in {"none", "int", "dict"}
  BY KickFrame DEF TypeOK, OpenReply
<1>7. pings' \in 0..MaxPings
  <2>1. pings' = pings \/ (pings < MaxPings /\ pings' = pings + 1)
    BY DEF Kick, Ping, PingReply, PingTimeout, OpenFile, OpenReply, OpenTimeout, WriteChunk,
       WriteBreaks, WriteReply, WriteTimeout, CloseReply, CloseTimeout, StartExec, PidReply, PidTimeout, Poll,
       StatusReply, StatusTimeout, Judge, client
  <2>2. pings \in 0..MaxPings /\ MaxPings \in Nat
    BY Bounds DEF TypeOK
  <2> QED
    BY <2>1, <2>2
<1>8. offset' \in 0..Chunks
  <2>1. offset' = offset \/ (pc = "await-write" /\ offset' = offset + 1)
    BY DEF Kick, Ping, PingReply, PingTimeout, OpenFile, OpenReply, OpenTimeout, WriteChunk,
       WriteBreaks, WriteReply, WriteTimeout, CloseReply, CloseTimeout, StartExec, PidReply, PidTimeout, Poll,
       StatusReply, StatusTimeout, Judge, client
  <2>2. offset \in 0..Chunks /\ Chunks \in Nat
    BY Bounds DEF TypeOK
  <2>3. pc = "await-write" => offset < Chunks
    BY DEF FileInv
  <2>4. CASE offset' = offset
    BY <2>2, <2>4
  <2>5. CASE offset < Chunks /\ offset' = offset + 1
    BY <2>2, <2>5
  <2> QED
    BY <2>1, <2>3, <2>4, <2>5
<1>9. polls' \in 0..MaxPolls
  <2>1. polls' = polls \/ polls' = 0 \/ (polls < MaxPolls /\ polls' = polls + 1)
    BY DEF Kick, Ping, PingReply, PingTimeout, OpenFile, OpenReply, OpenTimeout, WriteChunk,
       WriteBreaks, WriteReply, WriteTimeout, CloseReply, CloseTimeout, StartExec, PidReply, PidTimeout, Poll,
       StatusReply, StatusTimeout, Judge, client
  <2>2. polls \in 0..MaxPolls /\ MaxPolls \in Nat
    BY Bounds DEF TypeOK
  <2>3. CASE polls' = 0
    BY <2>2, <2>3
  <2>4. CASE polls' # 0
    BY <2>1, <2>2, <2>4
  <2> QED
    BY <2>3, <2>4
<1>10. /\ buffered' \in 0..Chunks
       /\ disk' \in Contents /\ ran' \in Contents
       /\ process' \in [Jobs -> {"none", "running", "exited", "reported"}]
       /\ outcome' \in Outcomes /\ unflushed' \in BOOLEAN
  BY <1>2 DEF TypeOK
<1> QED
  BY <1>1, <1>3, <1>4, <1>5, <1>6, <1>7, <1>8, <1>9, <1>10 DEF TypeOK

LEMMA Judgements ==
  ASSUME NEW content, NEW o \in OutcomesOf(content)
  PROVE  o \in Outcomes /\ (content = {} => ~o.ok /\ ~o.prepared)
<1>1. /\ NoOutcome \in Outcomes /\ ~NoOutcome.ok /\ ~NoOutcome.prepared
      /\ [ok |-> TRUE, prepared |-> FALSE] \in Outcomes
  BY DEF NoOutcome, Outcomes
<1>2. CASE content = {}
  BY <1>1, <1>2 DEF OutcomesOf
<1>3. CASE content # {}
  BY <1>1, <1>3 DEF OutcomesOf
<1> QED
  BY <1>2, <1>3

LEMMA TypeAgent ==
  ASSUME TypeOK, FileInv, Agent
  PROVE  TypeOK'
<1>1. UNCHANGED <<pc, job, pings, handle, offset, polls, late>>
  BY AgentStep
<1>2. requests' \in Seq(RequestRecord) /\ replies' \in Seq(Bodies)
  <2>1. CASE UNCHANGED <<requests, replies>>
    BY <2>1 DEF TypeOK
  <2>2. ASSUME NEW body \in Bodies, requests # <<>>, Answer(body)
        PROVE  requests' \in Seq(RequestRecord) /\ replies' \in Seq(Bodies)
    BY <2>2, AgentAnswers
  <2> QED
    BY <2>1, <2>2, AgentStep
<1>3. buffered \in 0..Chunks /\ disk \in Contents /\ Chunks \in Nat
  BY Bounds DEF TypeOK
<1>4. requests # <<>> /\ requests[1].op = "write" /\ requests[1].arg = "int" => buffered < Chunks
  <2> SUFFICES ASSUME requests # <<>>, requests[1].op = "write", requests[1].arg = "int"
               PROVE  buffered < Chunks
    OBVIOUS
  <2>1. 1 \in 1..Len(requests) /\ requests[1] \in RequestRecord
    BY Ports
  <2>2. requests[1] = Request("write", "int")
    BY <2>1 DEF Request, RequestRecord
  <2> QED
    BY <2>1, <2>2 DEF FileInv
<1>5. buffered' \in 0..Chunks /\ disk' \in Contents
  <2> \A n \in 0..Chunks : {n} \in Contents /\ 0..n \in Contents
    BY DEF Contents
  <2>1. CASE UNCHANGED <<buffered, disk>>
    BY <1>3, <2>1
  <2>2. CASE buffered' = 0 /\ disk' = {0}
    BY <1>3, <2>2
  <2>3. CASE buffered' = buffered + 1 /\ buffered < Chunks /\ disk' \in {disk, {buffered'}, 0..buffered'}
    <3>1. buffered' \in 0..Chunks
      BY <1>3, <2>3
    <3> QED
      BY <1>3, <2>3, <3>1
  <2>4. CASE buffered' = buffered /\ disk' \in {disk, {buffered}, 0..buffered}
    BY <1>3, <2>4
  <2> QED
    BY <1>4, <2>1, <2>2, <2>3, <2>4, AgentFile
<1>6. /\ ran' \in Contents
      /\ process' \in [Jobs -> {"none", "running", "exited", "reported"}]
      /\ outcome' \in Outcomes
  <2>1. /\ ran \in Contents
        /\ process \in [Jobs -> {"none", "running", "exited", "reported"}]
        /\ outcome \in Outcomes
    BY DEF TypeOK
  <2>2. ran' \in {ran, disk}
    BY AgentProcess
  <2>3. process' = process \/ \E j, s : /\ s \in {"running", "exited", "reported"}
                                        /\ process' = [process EXCEPT ![j] = s]
    BY AgentProcess
  <2>4. process' \in [Jobs -> {"none", "running", "exited", "reported"}]
    BY <2>1, <2>3
  <2>5. outcome' = outcome \/ outcome' \in OutcomesOf(ran)
    BY AgentProcess
  <2> QED
    BY <1>3, <2>1, <2>2, <2>4, <2>5, Judgements
<1> QED
  BY <1>1, <1>2, <1>5, <1>6, AgentUnflushed DEF TypeOK

-----------------------------------------------------------------------------
(* What cutting and dropping keep *)

LEMMA Lengths ==
  ASSUME TypeOK
  PROVE  Len(requests) \in Nat /\ Len(replies) \in Nat /\ late["ping"] \in Nat
<1>1. late \in [Ops -> Nat] /\ "ping" \in Ops
  BY DEF TypeOK, Ops
<1> QED
  BY <1>1, Ports

LEMMA LengthsNext ==
  ASSUME TypeOK'
  PROVE  Len(requests') \in Nat /\ Len(replies') \in Nat
<1>1. requests' \in Seq(RequestRecord) /\ replies' \in Seq(Bodies)
  BY DEF TypeOK
<1> QED
  BY <1>1

LEMMA PendingKept ==
  ASSUME TypeOK, TypeOK', NEW ops, Pending(ops),
         requests' = requests \/ Cut(requests, requests') \/ Dropped(requests, requests', 1)
  PROVE  Pending(ops)'
<1>1. Len(requests) \in Nat /\ Len(requests') \in Nat
  BY Lengths, LengthsNext
<1>2. CASE requests' = requests
  BY <1>2 DEF Pending
<1>3. CASE Cut(requests, requests')
  BY <1>1, <1>3 DEF Pending, Cut
<1>4. CASE Dropped(requests, requests', 1)
  BY <1>1, <1>4 DEF Pending, Dropped
<1> QED
  BY <1>2, <1>3, <1>4

LEMMA ComingKept ==
  ASSUME TypeOK, TypeOK', NEW bodies, Coming(bodies), NEW k \in 0..Len(replies),
         Dropped(replies, replies', k)
  PROVE  Coming(bodies)'
<1>1. Len(replies) \in Nat /\ Len(replies') \in Nat /\ Len(replies') = Len(replies) - k
  BY Lengths, LengthsNext DEF Dropped
<1>2. ASSUME NEW i \in 1..Len(replies') PROVE replies'[i] \in bodies
  <2>1. i + k \in 1..Len(replies) /\ replies'[i] = replies[i + k]
    BY <1>1 DEF Dropped
  <2> QED
    BY <2>1 DEF Coming
<1> QED
  BY <1>2 DEF Coming

LEMMA SendPends ==
  ASSUME TypeOK, NEW op \in Ops, NEW arg \in Jobs \cup {"none", "int", "dict"}, Send(op, arg),
         NEW ops, Pending(ops), op \in ops
  PROVE  Pending(ops)'
<1>1. Len(requests) \in Nat
  BY Ports
<1> QED
  BY <1>1, Sends DEF Pending

LEMMA AnswerComes ==
  ASSUME TypeOK, NEW body \in Bodies, requests # <<>>, Answer(body),
         NEW bodies, Coming(bodies), body \in bodies
  PROVE  Coming(bodies)'
<1>1. Len(replies) \in Nat
  BY Ports
<1> QED
  BY <1>1, AgentAnswers DEF Coming

\* A reply that is read brings the replies to given-up pings forward.
LEMMA StaleRead ==
  ASSUME TypeOK, TypeOK', NEW n \in Nat, StaleAfter(n), NEW k \in 1..Len(replies),
         Dropped(replies, replies', k), requests' = requests, late' = late
  PROVE  StaleAfter(n + 1)'
<1>1. /\ Len(replies) \in Nat /\ Len(replies') = Len(replies) - k /\ Len(requests) \in Nat
      /\ late["ping"] \in Nat
  BY Lengths DEF Dropped
<1>2. ASSUME NEW i \in 1..Len(requests'), requests'[i].op = "ping"
      PROVE  Len(replies') + i + (n + 1) <= late["ping"]
  <2>1. Len(replies) + i + n <= late["ping"]
    BY <1>2 DEF StaleAfter
  <2> QED
    BY <1>1, <2>1
<1>3. ASSUME NEW i \in 1..Len(replies'), replies'[i] = "empty"
      PROVE  i + (n + 1) <= late["ping"]
  <2>1. Len(replies') \in Nat
    BY LengthsNext
  <2>2. i + k \in 1..Len(replies) /\ replies[i + k] = "empty"
    BY <1>1, <1>3, <2>1 DEF Dropped
  <2>3. (i + k) + n <= late["ping"]
    BY <2>2 DEF StaleAfter
  <2> QED
    BY <1>1, <2>3
<1> QED
  BY <1>2, <1>3 DEF StaleAfter

\* An answer takes its place among the replies: the place of its request.
LEMMA StaleAnswered ==
  ASSUME TypeOK, NEW n \in Nat, StaleAfter(n), requests # <<>>, late' = late,
         NEW body \in Answers(requests[1]), body \in Bodies, Answer(body),
         requests[1] # Request("close", "int")
  PROVE  StaleAfter(n)'
<1>1. /\ Len(replies) \in Nat /\ Len(requests) \in Nat /\ late["ping"] \in Nat
      /\ Len(requests) > 0 /\ requests[1] \in RequestRecord
  BY Ports, Lengths
<1>2. /\ Len(requests') = Len(requests) - 1
      /\ \A i \in 1..Len(requests') : requests'[i] = requests[i + 1]
  BY AgentAnswers DEF Dropped
<1>3. \/ /\ Len(replies') = Len(replies) + 1
         /\ \A i \in 1..Len(replies) : replies'[i] = replies[i]
         /\ replies'[Len(replies) + 1] = body
      \/ replies' = replies
  BY AgentAnswers
<1>4. body = "empty" => requests[1].op = "ping"
  BY <1>1 DEF Answers, Request, RequestRecord
<1>5. ASSUME NEW i \in 1..Len(requests'), requests'[i].op = "ping"
      PROVE  Len(replies') + i + n <= late["ping"]
  <2>1. i + 1 \in 1..Len(requests) /\ requests[i + 1].op = "ping"
    BY <1>1, <1>2, <1>5
  <2>2. Len(replies) + (i + 1) + n <= late["ping"]
    BY <2>1 DEF StaleAfter
  <2>3. Len(replies') \in {Len(replies), Len(replies) + 1}
    BY <1>3
  <2> QED
    BY <1>1, <2>2, <2>3
<1>6. ASSUME NEW i \in 1..Len(replies'), replies'[i] = "empty"
      PROVE  i + n <= late["ping"]
  <2>1. CASE i \in 1..Len(replies) /\ replies'[i] = replies[i]
    BY <1>6, <2>1 DEF StaleAfter
  <2>2. CASE i = Len(replies) + 1 /\ replies'[i] = body
    <3>1. 1 \in 1..Len(requests) /\ requests[1].op = "ping"
      BY <1>1, <1>4, <1>6, <2>2
    <3>2. Len(replies) + 1 + n <= late["ping"]
      BY <3>1 DEF StaleAfter
    <3> QED
      BY <2>2, <3>2
  <2> QED
    BY <1>1, <1>3, <1>6, <2>1, <2>2
<1> QED
  BY <1>5, <1>6 DEF StaleAfter

-----------------------------------------------------------------------------
(* Pings *)

LEMMA PingInvKick ==
  ASSUME TypeOK, TypeOK', PingInv, Kick
  PROVE  PingInv'
<1> SUFFICES ASSUME pc' \in Pinging
             PROVE  /\ Pending({"ping"})' /\ Coming({"empty", "error"})'
                    /\ Len(requests') + Len(replies')
                         <= late'["ping"] + IF pc' = "await-ping" THEN 1 ELSE 0
  BY DEF PingInv
<1>1. /\ Len(requests) \in Nat /\ Len(replies) \in Nat /\ late["ping"] \in Nat
      /\ Len(requests') \in Nat /\ Len(replies') \in Nat
  BY Lengths, LengthsNext
<1>2. CASE Ping
  <2>1. /\ pc = "ping" /\ late' = late /\ replies' = replies
        /\ \/ Send("ping", "none") /\ pc' = "await-ping"
           \/ requests' = requests /\ pc' = "ping"
    BY <1>2 DEF Ping, Goto, NoUse, Pinging
  <2>2. /\ Pending({"ping"}) /\ Coming({"empty", "error"})
        /\ Len(requests) + Len(replies) <= late["ping"]
    BY <1>1, <2>1 DEF PingInv, Pinging
  <2>3. Coming({"empty", "error"})'
    BY <2>1, <2>2 DEF Coming
  <2>4. CASE Send("ping", "none") /\ pc' = "await-ping"
    <3>1. Len(requests') = Len(requests) + 1
      BY <2>4, Sends DEF Ops
    <3>2. Pending({"ping"})'
      BY <2>2, <2>4, SendPends DEF Ops
    <3> QED
      BY <1>1, <2>1, <2>2, <2>3, <2>4, <3>1, <3>2
  <2>5. CASE requests' = requests /\ pc' = "ping"
    BY <1>1, <2>1, <2>2, <2>3, <2>5 DEF Pending
  <2> QED
    BY <2>1, <2>4, <2>5
<1>3. CASE PingReply
  <2>1. pc = "await-ping" /\ late' = late /\ pc' # "await-ping" /\ \E body : ReceiveLast(body)
    BY <1>3 DEF PingReply, Goto
  <2>2. /\ Pending({"ping"}) /\ Coming({"empty", "error"})
        /\ Len(requests) + Len(replies) <= late["ping"] + 1
    BY <2>1 DEF PingInv, Pinging
  <2>3. PICK k \in 1..Len(replies) : Cut(requests, requests') /\ Dropped(replies, replies', k)
    BY <2>1, LastReceives
  <2>4. k \in 0..Len(replies)
    BY <1>1, <2>3
  <2>5. Pending({"ping"})' /\ Coming({"empty", "error"})'
    BY <2>2, <2>3, <2>4, PendingKept, ComingKept
  <2>6. Len(requests') <= Len(requests) /\ Len(replies') = Len(replies) - k
    BY <2>3 DEF Cut, Dropped
  <2> QED
    BY <1>1, <2>1, <2>2, <2>3, <2>5, <2>6
<1>4. CASE PingTimeout
  <2>1. pc = "await-ping" /\ pc' = "ping" /\ Late("ping") /\ "ping" \in Ops
    BY <1>4 DEF PingTimeout, Goto, Ops
  <2>2. /\ Pending({"ping"}) /\ Coming({"empty", "error"})
        /\ Len(requests) + Len(replies) <= late["ping"] + 1
    BY <2>1 DEF PingInv, Pinging
  <2>3. /\ Cut(requests, requests') /\ late' = [late EXCEPT !["ping"] = @ + 1]
        /\ \E k \in 0..Len(replies) : Dropped(replies, replies', k)
    BY <2>1, Lates
  <2>4. PICK k \in 0..Len(replies) : Dropped(replies, replies', k)
    BY <2>3
  <2>5. Pending({"ping"})' /\ Coming({"empty", "error"})'
    BY <2>2, <2>3, <2>4, PendingKept, ComingKept
  <2>6. Len(requests') <= Len(requests) /\ Len(replies') = Len(replies) - k
    BY <2>3, <2>4 DEF Cut, Dropped
  <2>7. late'["ping"] = late["ping"] + 1
    BY <2>1, <2>3 DEF TypeOK
  <2> QED
    BY <1>1, <2>1, <2>2, <2>4, <2>5, <2>6, <2>7
<1> QED
  BY <1>2, <1>3, <1>4, Goes

LEMMA PingInvAgent ==
  ASSUME TypeOK, TypeOK', PingInv, Agent
  PROVE  PingInv'
<1> SUFFICES ASSUME pc \in Pinging
             PROVE  /\ Pending({"ping"})' /\ Coming({"empty", "error"})'
                    /\ Len(requests') + Len(replies')
                         <= late["ping"] + IF pc = "await-ping" THEN 1 ELSE 0
  BY AgentStep DEF PingInv
<1>1. /\ Pending({"ping"}) /\ Coming({"empty", "error"})
      /\ Len(requests) + Len(replies) <= late["ping"] + IF pc = "await-ping" THEN 1 ELSE 0
  BY DEF PingInv
<1>2. Len(requests) \in Nat /\ Len(replies) \in Nat /\ late["ping"] \in Nat
  BY Lengths
<1>3. CASE UNCHANGED <<requests, replies>>
  BY <1>1, <1>3 DEF Pending, Coming
<1>4. ASSUME requests # <<>>, NEW body \in Answers(requests[1]), body \in Bodies, Answer(body)
      PROVE  /\ Pending({"ping"})' /\ Coming({"empty", "error"})'
             /\ Len(requests') + Len(replies')
                  <= late["ping"] + IF pc = "await-ping" THEN 1 ELSE 0
  <2>1. Len(requests) > 0 /\ Dropped(requests, requests', 1)
    BY <1>4, AgentAnswers
  <2>2. requests[1].op = "ping"
    BY <1>1, <1>2, <2>1 DEF Pending
  <2>3. body \in {"empty", "error"}
    BY <1>4, <2>2 DEF Answers
  <2>4. Pending({"ping"})'
    BY <1>1, <2>1, PendingKept
  <2>5. Coming({"empty", "error"})'
    <3>1. CASE replies' = replies
      BY <1>1, <3>1 DEF Coming
    <3>2. CASE replies' # replies
      BY <1>1, <1>4, <2>3, AnswerComes
    <3> QED
      BY <3>1, <3>2
  <2>6. Len(requests') = Len(requests) - 1
    BY <2>1 DEF Dropped
  <2>7. Len(replies') \in {Len(replies), Len(replies) + 1}
    BY <1>4, AgentAnswers
  <2> QED
    BY <1>1, <1>2, <2>4, <2>5, <2>6, <2>7
<1> QED
  BY <1>3, <1>4, AgentStep

-----------------------------------------------------------------------------
(* The handle *)

LEMMA OpenInvKick ==
  ASSUME TypeOK, TypeOK', PingInv, Kick
  PROVE  OpenInv'
<1> SUFFICES ASSUME pc' = "await-open"
             PROVE  /\ Pending({"ping", "open"})' /\ Coming({"empty", "error", "handle"})'
                    /\ \A i \in 1..Len(requests') : requests'[i].op = "open" => i = Len(requests')
                    /\ \A i \in 1..Len(replies') : replies'[i] # "handle"
                    /\ StaleAfter(0)'
  BY DEF OpenInv
<1>1. /\ pc = "open" /\ late' = late /\ replies' = replies
      /\ Send("open", "none") /\ "open" \in Ops
  BY Goes DEF OpenFile, Goto, Ops
<1>2. /\ Pending({"ping"}) /\ Coming({"empty", "error"})
      /\ Len(requests) + Len(replies) <= late["ping"]
  <2>1. Len(requests) \in Nat /\ Len(replies) \in Nat /\ late["ping"] \in Nat
    BY Lengths
  <2> QED
    BY <1>1, <2>1 DEF PingInv, Pinging
<1>3. Len(requests) \in Nat /\ Len(replies) \in Nat /\ late["ping"] \in Nat
  BY Lengths
<1>4. /\ Len(requests') = Len(requests) + 1
      /\ \A i \in 1..Len(requests) : requests'[i] = requests[i]
      /\ requests'[Len(requests) + 1].op = "open"
  BY <1>1, Sends
<1>5. \A i \in 1..Len(requests) : requests'[i].op = "ping"
  BY <1>2, <1>4 DEF Pending
<1>6. Pending({"ping", "open"})'
  BY <1>3, <1>4, <1>5 DEF Pending
<1>7. Coming({"empty", "error", "handle"})'
  BY <1>1, <1>2 DEF Coming
<1>8. \A i \in 1..Len(requests') : requests'[i].op = "open" => i = Len(requests')
  BY <1>3, <1>4, <1>5
<1>9. \A i \in 1..Len(replies') : replies'[i] # "handle"
  BY <1>1, <1>2 DEF Coming
<1>10. ASSUME NEW i \in 1..Len(requests'), requests'[i].op = "ping"
       PROVE  Len(replies') + i + 0 <= late'["ping"]
  <2>1. i \in 1..Len(requests)
    BY <1>3, <1>4, <1>10
  <2> QED
    BY <1>1, <1>2, <1>3, <2>1
<1>11. ASSUME NEW i \in 1..Len(replies') PROVE i + 0 <= late'["ping"]
  BY <1>1, <1>2, <1>3
<1> QED
  BY <1>6, <1>7, <1>8, <1>9, <1>10, <1>11 DEF StaleAfter

LEMMA OpenInvAgent ==
  ASSUME TypeOK, TypeOK', OpenInv, Agent
  PROVE  OpenInv'
<1> SUFFICES ASSUME pc = "await-open"
             PROVE  /\ Pending({"ping", "open"})' /\ Coming({"empty", "error", "handle"})'
                    /\ \A i \in 1..Len(requests') : requests'[i].op = "open" => i = Len(requests')
                    /\ \A i \in 1..Len(replies') :
                         replies'[i] = "handle" => i = Len(replies') /\ requests' = <<>>
                    /\ StaleAfter(0)'
  BY AgentStep DEF OpenInv
<1>1. /\ Pending({"ping", "open"}) /\ Coming({"empty", "error", "handle"})
      /\ \A i \in 1..Len(requests) : requests[i].op = "open" => i = Len(requests)
      /\ \A i \in 1..Len(replies) : replies[i] = "handle" => i = Len(replies) /\ requests = <<>>
      /\ StaleAfter(0)
  BY DEF OpenInv
<1>2. Len(requests) \in Nat /\ Len(replies) \in Nat /\ late' = late
  BY Lengths, AgentStep
<1>3. CASE UNCHANGED <<requests, replies>>
  BY <1>1, <1>2, <1>3 DEF Pending, Coming, StaleAfter
<1>4. ASSUME requests # <<>>, NEW body \in Answers(requests[1]), body \in Bodies, Answer(body)
      PROVE  /\ Pending({"ping", "open"})' /\ Coming({"empty", "error", "handle"})'
             /\ \A i \in 1..Len(requests') : requests'[i].op = "open" => i = Len(requests')
             /\ \A i \in 1..Len(replies') :
                  replies'[i] = "handle" => i = Len(replies') /\ requests' = <<>>
             /\ StaleAfter(0)'
  <2>1. /\ Len(requests) > 0 /\ Dropped(requests, requests', 1)
        /\ Len(replies') = Len(replies) + 1
        /\ \A i \in 1..Len(replies) : replies'[i] = replies[i]
        /\ replies'[Len(replies) + 1] = body
        /\ Len(requests) = 1 => requests' = <<>>
    BY <1>4, AgentAnswers DEF Connected
  <2>2. requests[1].op \in {"ping", "open"}
    BY <1>1, <1>2, <2>1 DEF Pending
  <2>3. body \in {"empty", "error"} \/ (body \in {"handle", "error"} /\ Len(requests) = 1)
    <3>1. CASE requests[1].op = "ping"
      BY <1>4, <3>1 DEF Answers
    <3>2. CASE requests[1].op = "open"
      <4>1. body \in {"handle", "error"}
        BY <1>4, <3>2 DEF Answers
      <4>2. 1 \in 1..Len(requests)
        BY <1>2, <2>1
      <4>3. 1 = Len(requests)
        BY <1>1, <3>2, <4>2
      <4> QED
        BY <4>1, <4>3
    <3> QED
      BY <2>2, <3>1, <3>2
  <2>4. Pending({"ping", "open"})'
    BY <1>1, <2>1, PendingKept
  <2>5. Coming({"empty", "error", "handle"})'
    BY <1>1, <1>4, <2>3, AnswerComes
  <2>6. \A i \in 1..Len(requests') : requests'[i].op = "open" => i = Len(requests')
    BY <1>1, <1>2, <2>1 DEF Dropped
  <2>7. \A i \in 1..Len(replies') :
          replies'[i] = "handle" => i = Len(replies') /\ requests' = <<>>
    BY <1>1, <1>2, <1>4, <2>1, <2>3
  <2>8. requests[1] # Request("close", "int")
    BY <2>2 DEF Request
  <2>9. StaleAfter(0)'
    BY <1>1, <1>2, <1>4, <2>8, StaleAnswered
  <2> QED
    BY <2>4, <2>5, <2>6, <2>7, <2>9
<1> QED
  BY <1>3, <1>4, AgentStep

-----------------------------------------------------------------------------
(* A reply to a ping for a handle *)

LEMMA FalseHandleInvKick ==
  ASSUME TypeOK, TypeOK', OpenInv, FalseHandleInv, FileInv, Kick
  PROVE  FalseHandleInv'
<1> SUFFICES ASSUME pc' \in Writing, handle' = "dict"
             PROVE  /\ Pending({"ping", "open", "write", "close"})'
                    /\ Coming({"empty", "error", "handle"})'
                    /\ \A i \in 1..Len(requests') :
                         requests'[i].op \in {"write", "close"} => requests'[i].arg = "dict"
                    /\ 1 + offset' <= late'["ping"] /\ StaleAfter(1 + offset)'
  BY DEF FalseHandleInv
<1>1. /\ Len(requests) \in Nat /\ Len(replies) \in Nat /\ late["ping"] \in Nat
      /\ Len(requests') \in Nat /\ Len(replies') \in Nat
  BY Lengths, LengthsNext
<1>2. offset \in Nat
  BY Bounds DEF TypeOK
<1>3. CASE OpenReply
  <2>1. /\ pc = "await-open" /\ late' = late /\ offset' = offset /\ offset = 0
        /\ requests' = requests
        /\ \E body \in Bodies \ {"error", "handle"} : Receive(body)
    BY <1>3 DEF OpenReply, Goto, Writing, FileInv
  <2>2. /\ Pending({"ping", "open"}) /\ Coming({"empty", "error", "handle"}) /\ StaleAfter(0)
    BY <2>1 DEF OpenInv
  <2>3. PICK body \in Bodies \ {"error", "handle"} : Receive(body)
    BY <2>1
  <2>4. Len(replies) > 0 /\ replies[1] = body
    BY <2>3, Receives
  <2>5. replies[1] = "empty"
    BY <1>1, <2>2, <2>3, <2>4 DEF Coming
  <2>6. 1 <= late["ping"]
    BY <1>1, <2>2, <2>4, <2>5 DEF StaleAfter
  <2>7. PICK k \in 1..Len(replies) : Dropped(replies, replies', k)
    BY <2>3, Receives
  <2>8. k \in 0..Len(replies) /\ k \in Nat /\ 0 + k = k /\ 1 <= k
    BY <1>1, <2>7
  <2>9. Pending({"ping", "open"})' /\ Coming({"empty", "error", "handle"})'
    BY <2>1, <2>2, <2>7, <2>8, PendingKept, ComingKept
  <2>10. StaleAfter(0 + 1)'
    BY <2>1, <2>2, <2>7, StaleRead
  <2>11. 0 + 1 = 1
    OBVIOUS
  <2>12. 1 + offset' = 1
    BY <2>1
  <2>13. StaleAfter(1 + offset)'
    BY <2>10, <2>11, <2>12 DEF StaleAfter
  <2> QED
    BY <2>1, <2>6, <2>9, <2>12, <2>13, <1>1 DEF Pending
<1>4. CASE WriteChunk
  <2>1. /\ pc = "write" /\ late' = late /\ offset' = offset /\ handle = "dict"
        /\ replies' = replies
        /\ \E op \in {"write", "close"} : Send(op, "dict")
    BY <1>4 DEF WriteChunk, Goto, client
  <2>2. /\ Pending({"ping", "open", "write", "close"}) /\ Coming({"empty", "error", "handle"})
        /\ \A i \in 1..Len(requests) :
             requests[i].op \in {"write", "close"} => requests[i].arg = "dict"
        /\ 1 + offset <= late["ping"] /\ StaleAfter(1 + offset)
    BY <2>1 DEF FalseHandleInv, Writing
  <2>3. PICK op \in {"write", "close"} : Send(op, "dict")
    BY <2>1
  <2>4. op \in Ops /\ op \in {"ping", "open", "write", "close"} /\ op # "ping"
    BY <2>3 DEF Ops
  <2>5. /\ Len(requests') = Len(requests) + 1
        /\ \A i \in 1..Len(requests) : requests'[i] = requests[i]
        /\ requests'[Len(requests) + 1].op = op /\ requests'[Len(requests) + 1].arg = "dict"
    BY <2>3, <2>4, Sends
  <2>6. Pending({"ping", "open", "write", "close"})'
    BY <2>2, <2>3, <2>4, SendPends
  <2>7. Coming({"empty", "error", "handle"})'
    BY <2>1, <2>2 DEF Coming
  <2>8. \A i \in 1..Len(requests') :
          requests'[i].op \in {"write", "close"} => requests'[i].arg = "dict"
    BY <1>1, <2>2, <2>5
  <2>9. ASSUME NEW i \in 1..Len(requests'), requests'[i].op = "ping"
        PROVE  Len(replies') + i + (1 + offset') <= late'["ping"]
    <3>1. i \in 1..Len(requests) /\ requests[i].op = "ping"
      BY <1>1, <2>4, <2>5, <2>9
    <3>2. Len(replies) + i + (1 + offset) <= late["ping"]
      BY <2>2, <3>1 DEF StaleAfter
    <3> QED
      BY <2>1, <3>2
  <2>10. \A i \in 1..Len(replies') : replies'[i] = "empty" => i + (1 + offset') <= late'["ping"]
    BY <2>1, <2>2 DEF StaleAfter
  <2> QED
    BY <2>1, <2>2, <2>6, <2>7, <2>8, <2>9, <2>10 DEF StaleAfter
<1>5. CASE WriteReply
  <2>1. /\ pc = "await-write" /\ late' = late /\ offset' = offset + 1 /\ handle = "dict"
        /\ requests' = requests
        /\ \E body \in Bodies \ {"error", "handle"} : Receive(body)
    BY <1>5 DEF WriteReply, Goto, Writing
  <2>2. /\ Pending({"ping", "open", "write", "close"}) /\ Coming({"empty", "error", "handle"})
        /\ \A i \in 1..Len(requests) :
             requests[i].op \in {"write", "close"} => requests[i].arg = "dict"
        /\ 1 + offset <= late["ping"] /\ StaleAfter(1 + offset)
    BY <2>1 DEF FalseHandleInv, Writing
  <2>3. PICK body \in Bodies \ {"error", "handle"} : Receive(body)
    BY <2>1
  <2>4. Len(replies) > 0 /\ replies[1] = body
    BY <2>3, Receives
  <2>5. replies[1] = "empty"
    BY <1>1, <2>2, <2>3, <2>4 DEF Coming
  <2>6. 1 + (1 + offset) <= late["ping"]
    BY <1>1, <2>2, <2>4, <2>5 DEF StaleAfter
  <2>7. PICK k \in 1..Len(replies) : Dropped(replies, replies', k)
    BY <2>3, Receives
  <2>8. k \in 0..Len(replies) /\ k \in Nat /\ 1 <= k
    BY <1>1, <2>7
  <2>9. Pending({"ping", "open", "write", "close"})' /\ Coming({"empty", "error", "handle"})'
    BY <2>1, <2>2, <2>7, <2>8, PendingKept, ComingKept
  <2>10. PICK n \in Nat : n = 1 + offset
    BY <1>2
  <2>11. StaleAfter(n + 1)'
    <3>1. StaleAfter(n)
      BY <2>2, <2>10
    <3> QED
      BY <2>1, <2>7, <3>1, StaleRead
  <2>12. StaleAfter(1 + offset)'
    <3>1. n + 1 = 1 + offset'
      BY <1>2, <2>1, <2>10
    <3> QED
      BY <2>11, <3>1 DEF StaleAfter
  <2> QED
    BY <1>2, <2>1, <2>2, <2>6, <2>9, <2>12
<1> QED
  BY <1>3, <1>4, <1>5, Goes

LEMMA FalseHandleInvAgent ==
  ASSUME TypeOK, TypeOK', FalseHandleInv, Agent
  PROVE  FalseHandleInv'
<1> SUFFICES ASSUME pc \in Writing, handle = "dict"
             PROVE  /\ Pending({"ping", "open", "write", "close"})'
                    /\ Coming({"empty", "error", "handle"})'
                    /\ \A i \in 1..Len(requests') :
                         requests'[i].op \in {"write", "close"} => requests'[i].arg = "dict"
                    /\ StaleAfter(1 + offset)'
  BY AgentStep DEF FalseHandleInv
<1>1. /\ Pending({"ping", "open", "write", "close"}) /\ Coming({"empty", "error", "handle"})
      /\ \A i \in 1..Len(requests) :
           requests[i].op \in {"write", "close"} => requests[i].arg = "dict"
      /\ 1 + offset <= late["ping"] /\ StaleAfter(1 + offset)
  BY DEF FalseHandleInv
<1>2. Len(requests) \in Nat /\ Len(replies) \in Nat /\ late' = late /\ offset' = offset
  BY Lengths, AgentStep
<1>3. CASE UNCHANGED <<requests, replies>>
  BY <1>1, <1>2, <1>3 DEF Pending, Coming, StaleAfter
<1>4. ASSUME requests # <<>>, NEW body \in Answers(requests[1]), body \in Bodies, Answer(body)
      PROVE  /\ Pending({"ping", "open", "write", "close"})'
             /\ Coming({"empty", "error", "handle"})'
             /\ \A i \in 1..Len(requests') :
                  requests'[i].op \in {"write", "close"} => requests'[i].arg = "dict"
             /\ StaleAfter(1 + offset)'
  <2>1. Len(requests) > 0 /\ Dropped(requests, requests', 1)
    BY <1>4, AgentAnswers
  <2>2. /\ requests[1].op \in {"ping", "open", "write", "close"}
        /\ requests[1].op \in {"write", "close"} => requests[1].arg = "dict"
    <3>1. 1 \in 1..Len(requests)
      BY <1>2, <2>1
    <3> QED
      BY <1>1, <3>1 DEF Pending
  <2>3. body \in {"empty", "error", "handle"}
    BY <1>4, <2>2 DEF Answers
  <2>4. Pending({"ping", "open", "write", "close"})'
    BY <1>1, <2>1, PendingKept
  <2>5. Coming({"empty", "error", "handle"})'
    BY <1>1, <1>4, <2>3, AnswerComes
  <2>6. \A i \in 1..Len(requests') :
          requests'[i].op \in {"write", "close"} => requests'[i].arg = "dict"
    BY <1>1, <1>2, <2>1 DEF Dropped
  <2>7. requests[1] # Request("close", "int")
    BY <2>2 DEF Request
  <2>8. PICK n \in Nat : n = 1 + offset
    BY Bounds DEF TypeOK
  <2>9. StaleAfter(n)'
    <3>1. StaleAfter(n)
      BY <1>1, <2>8
    <3> QED
      BY <1>2, <1>4, <2>7, <3>1, StaleAnswered
  <2>10. StaleAfter(1 + offset)'
    BY <1>2, <2>8, <2>9 DEF StaleAfter
  <2> QED
    BY <2>4, <2>5, <2>6, <2>10
<1> QED
  BY <1>3, <1>4, AgentStep

-----------------------------------------------------------------------------
(* The agent's handle *)

\* What the kick asks for, and when.
LEMMA KickRequests ==
  ASSUME TypeOK, Kick
  PROVE  \/ requests' = requests
         \/ Cut(requests, requests')
         \/ Send("ping", "none") /\ Ping /\ pc' = "await-ping"
         \/ Send("open", "none") /\ OpenFile /\ pc' = "await-open"
         \/ Send("write", handle) /\ WriteChunk /\ offset < Chunks
         \/ Send("close", handle) /\ pc \in {"write", "await-write"} /\ pc' \in {"await-close", "abandon"}
         \/ Send("exec", job) /\ StartExec /\ pc' = "await-pid"
         \/ Send("status", job) /\ Poll /\ pc' = "await-status"
<1>1. \A body : ReceiveLast(body) => Cut(requests, requests')
  BY LastReceives
<1>2. \A op \in Ops : Late(op) => Cut(requests, requests')
  BY Lates
<1>3. CASE Ping \/ PingReply \/ PingTimeout
  BY <1>1, <1>2, <1>3 DEF Ping, PingReply, PingTimeout, NoUse, Ops, Goto
<1>4. CASE OpenFile \/ OpenReply \/ OpenTimeout
  BY <1>1, <1>2, <1>4 DEF OpenFile, OpenReply, OpenTimeout, NoUse, Ops, Goto
<1>5. CASE WriteChunk \/ WriteBreaks \/ WriteReply \/ WriteTimeout
  <2>1. CASE WriteBreaks
    BY <2>1, Ports, Disconnects DEF WriteBreaks
  <2> QED
    BY <1>1, <1>5, <2>1 DEF WriteChunk, WriteReply, WriteTimeout, Goto
<1>6. CASE CloseReply \/ CloseTimeout
  BY <1>1, <1>2, <1>6 DEF CloseReply, CloseTimeout, Ops
<1>7. CASE StartExec \/ PidReply \/ PidTimeout
  BY <1>1, <1>2, <1>7 DEF StartExec, PidReply, PidTimeout, NoUse, Ops, Goto
<1>8. CASE Poll \/ StatusReply \/ StatusTimeout
  BY <1>1, <1>2, <1>8 DEF Poll, StatusReply, StatusTimeout, NoUse, Ops, Goto
<1>9. CASE Judge
  BY <1>9 DEF Judge
<1> QED
  BY <1>3, <1>4, <1>5, <1>6, <1>7, <1>8, <1>9 DEF Kick

LEMMA AgentTakesWrite ==
  ASSUME TypeOK, Agent, requests # <<>>, requests[1].op = "write"
  PROVE  \/ UNCHANGED <<requests, replies, buffered, disk>>
         \/ requests[1].arg = "int" /\ Answer("count") /\ buffered' = buffered + 1
         \/ Answer("error") /\ UNCHANGED <<buffered, disk>>
<1>1. Head(requests) = requests[1]
  BY Ports
<1> QED
  BY <1>1 DEF Agent, AgentPings, AgentOpens, AgentWrites, AgentCloses, AgentStarts,
     AgentReports, ProcessExits, Takes

LEMMA AgentTakesClose ==
  ASSUME TypeOK, Agent, requests # <<>>, requests[1].op = "close"
  PROVE  \/ UNCHANGED <<requests, replies, buffered, disk>>
         \/ requests[1].arg = "int" /\ Answer("empty") /\ disk' = {buffered} /\ buffered' = buffered
         \/ requests[1].arg = "int" /\ Answer("error") /\ unflushed' /\ buffered' = buffered
         \/ requests[1].arg # "int" /\ Answer("error") /\ UNCHANGED <<buffered, disk>>
<1>1. Head(requests) = requests[1]
  BY Ports
<1> QED
  BY <1>1 DEF Agent, AgentPings, AgentOpens, AgentWrites, AgentCloses, AgentStarts,
     AgentReports, ProcessExits, Takes

\* Reading the only reply leaves none.
LEMMA OnlyReply ==
  ASSUME TypeOK, NEW body, Receive(body) \/ ReceiveLast(body), Len(replies) = 1
  PROVE  replies' = <<>>
<1>1. replies' \in Seq(Bodies) /\ \E k \in 1..Len(replies) : Dropped(replies, replies', k)
  BY Receives, LastReceives
<1>2. Len(replies') = 0
  BY <1>1 DEF Dropped
<1> QED
  BY <1>1, <1>2

LEMMA TrueHandleInvKick ==
  ASSUME TypeOK, TypeOK', OpenInv, TrueHandleInv, FileInv, Kick
  PROVE  TrueHandleInv'
<1> SUFFICES ASSUME handle' = "int", pc' \in Writing
             PROVE  /\ pc' = "write" => requests' = <<>> /\ replies' = <<>> /\ buffered' = offset'
                    /\ pc' = "await-write" =>
                         requests' = <<Request("write", "int")>> /\ replies' = <<>>
                         /\ buffered' = offset'
                    /\ pc' = "await-close" =>
                         requests' = <<Request("close", "int")>> /\ replies' = <<>>
                         /\ buffered' = Chunks
  BY DEF TrueHandleInv, Writing
<1>1. buffered' = buffered /\ Len(replies) \in Nat /\ Len(requests) \in Nat
  BY KickFrame, Lengths
<1>2. CASE OpenReply
  <2>1. /\ pc = "await-open" /\ pc' = "write" /\ offset' = offset /\ offset = 0 /\ buffered = 0
        /\ requests' = requests /\ Receive("handle")
    BY <1>2 DEF OpenReply, Goto, Writing, FileInv
  <2>2. Len(replies) > 0 /\ replies[1] = "handle"
    BY <2>1, Receives
  <2>3. Len(replies) = 1 /\ requests = <<>>
    <3>1. 1 \in 1..Len(replies)
      BY <1>1, <2>2
    <3> QED
      BY <2>1, <2>2, <3>1 DEF OpenInv
  <2>4. replies' = <<>>
    BY <2>1, <2>3, OnlyReply
  <2> QED
    BY <1>1, <2>1, <2>3, <2>4
<1>3. CASE WriteChunk
  <2>1. /\ pc = "write" /\ handle = "int" /\ offset' = offset /\ replies' = replies
        /\ \/ offset < Chunks /\ Send("write", "int") /\ pc' = "await-write"
           \/ ~(offset < Chunks) /\ Send("close", "int") /\ pc' = "await-close"
    BY <1>3 DEF WriteChunk, Goto, client
  <2>2. requests = <<>> /\ replies = <<>> /\ buffered = offset
    BY <2>1 DEF TrueHandleInv
  <2>3. \/ requests' = <<Request("write", "int")>> /\ pc' = "await-write"
        \/ requests' = <<Request("close", "int")>> /\ pc' = "await-close" /\ ~(offset < Chunks)
    BY <2>1, <2>2, Sends DEF Ops
  <2>4. ~(offset < Chunks) => offset = Chunks
    BY Bounds DEF TypeOK
  <2> QED
    BY <1>1, <2>1, <2>2, <2>3, <2>4
<1>4. CASE WriteReply
  <2>1. /\ pc = "await-write" /\ pc' = "write" /\ handle = "int" /\ offset' = offset + 1
        /\ requests' = requests
        /\ \E body \in Bodies \ {"error", "handle"} : Receive(body)
    BY <1>4 DEF WriteReply, Goto, Writing
  <2>2. PICK body \in Bodies \ {"error", "handle"} : Receive(body)
    BY <2>1
  <2>3. Len(replies) > 0 /\ replies[1] = body
    BY <2>2, Receives
  <2>4. requests = <<>> /\ replies = <<"count">> /\ buffered = offset + 1
    BY <2>1, <2>2, <2>3 DEF TrueHandleInv
  <2>5. Len(replies) = 1
    BY <2>4
  <2>6. replies' = <<>>
    BY <2>2, <2>5, OnlyReply
  <2> QED
    BY <1>1, <2>1, <2>4, <2>6
<1> QED
  BY <1>2, <1>3, <1>4, Goes

LEMMA TrueHandleInvAgent ==
  ASSUME TypeOK, TypeOK', TrueHandleInv, Agent
  PROVE  TrueHandleInv'
<1>1. UNCHANGED <<pc, handle, offset>>
  BY AgentStep
<1> SUFFICES ASSUME handle = "int", pc \in Writing
             PROVE  /\ pc = "write" => requests' = <<>> /\ replies' = <<>> /\ buffered' = offset
                    /\ pc = "await-write" =>
                         \/ requests' = <<Request("write", "int")>> /\ replies' = <<>>
                            /\ buffered' = offset
                         \/ requests' = <<>> /\ replies' = <<"count">> /\ buffered' = offset + 1
                         \/ requests' = <<>> /\ replies' = <<"error">> /\ buffered' = offset
                    /\ pc = "await-close" =>
                         \/ requests' = <<Request("close", "int")>> /\ replies' = <<>>
                            /\ buffered' = Chunks
                         \/ requests' = <<>> /\ replies' = <<"empty">> /\ disk' = {Chunks}
                         \/ requests' = <<>> /\ replies' = <<"error">> /\ unflushed'
  BY <1>1 DEF TrueHandleInv, Writing
<1>2. \A op, arg : /\ Request(op, arg).op = op /\ Request(op, arg).arg = arg
                   /\ <<Request(op, arg)>> # <<>> /\ <<Request(op, arg)>>[1] = Request(op, arg)
                   /\ Len(<<Request(op, arg)>>) = 1
  BY DEF Request
<1>3. requests = <<>> => UNCHANGED <<requests, replies, buffered, disk, unflushed>>
  BY AgentStep DEF ProcessExits
<1>4. \A body \in Bodies : Connected /\ requests # <<>> /\ Answer(body) /\ Len(requests) = 1 /\ replies = <<>>
        => requests' = <<>> /\ replies' = <<body>>
  BY AgentAnswers
<1>5. Connected \/ pc \notin Writing
  BY DEF Connected, Writing
<1>6. CASE pc = "write"
  BY <1>3, <1>6 DEF TrueHandleInv
<1>7. CASE pc = "await-write"
  <2>1. CASE requests = <<>>
    BY <1>3, <1>7, <2>1 DEF TrueHandleInv
  <2>2. CASE requests # <<>>
    <3>1. requests = <<Request("write", "int")>> /\ replies = <<>> /\ buffered = offset
      BY <1>7, <2>2 DEF TrueHandleInv
    <3>2. requests[1].op = "write" /\ Len(requests) = 1
      BY <1>2, <3>1
    <3>3. "count" \in Bodies /\ "error" \in Bodies
      BY DEF Bodies
    <3>4. \/ UNCHANGED <<requests, replies, buffered, disk>>
          \/ Answer("count") /\ buffered' = buffered + 1
          \/ Answer("error") /\ buffered' = buffered
      BY <2>2, <3>2, AgentTakesWrite
    <3> QED
      BY <1>4, <1>5, <1>7, <2>2, <3>1, <3>2, <3>3, <3>4
  <2> QED
    BY <2>1, <2>2
<1>8. CASE pc = "await-close"
  <2>1. CASE requests = <<>>
    BY <1>3, <1>8, <2>1 DEF TrueHandleInv
  <2>2. CASE requests # <<>>
    <3>1. requests = <<Request("close", "int")>> /\ replies = <<>> /\ buffered = Chunks
      BY <1>8, <2>2 DEF TrueHandleInv
    <3>2. requests[1].op = "close" /\ requests[1].arg = "int" /\ Len(requests) = 1
      BY <1>2, <3>1
    <3>3. "empty" \in Bodies /\ "error" \in Bodies
      BY DEF Bodies
    <3>4. \/ UNCHANGED <<requests, replies, buffered, disk>>
          \/ Answer("empty") /\ disk' = {buffered}
          \/ Answer("error") /\ unflushed'
      BY <2>2, <3>2, AgentTakesClose
    <3> QED
      BY <1>4, <1>5, <1>8, <2>2, <3>1, <3>2, <3>3, <3>4
  <2> QED
    BY <2>1, <2>2
<1> QED
  BY <1>6, <1>7, <1>8 DEF Writing

-----------------------------------------------------------------------------
(* The file *)

LEMMA FileInvKick ==
  ASSUME TypeOK, TypeOK', TrueHandleInv, FileInv, Kick
  PROVE  FileInv'
<1>1. UNCHANGED <<buffered, disk>> /\ Len(requests) \in Nat /\ Len(requests') \in Nat
  BY KickFrame, Lengths, LengthsNext
<1>2. pc' \in Pinging \cup {"await-open"} => handle' = "none" /\ offset' = 0 /\ buffered' = 0
  <2> SUFFICES ASSUME pc' \in Pinging \cup {"await-open"}
               PROVE  handle' = "none" /\ offset' = 0 /\ buffered' = 0
    OBVIOUS
  <2>1. pc \in Pinging /\ handle' = handle /\ offset' = offset
    BY Goes DEF Ping, PingReply, PingTimeout, OpenFile, client, Pinging
  <2> QED
    BY <1>1, <2>1 DEF FileInv
<1>3. pc' \in Writing => handle' \in {"int", "dict"}
  BY Goes DEF FileInv, Writing, OpenReply, WriteChunk, WriteReply, client, Goto
<1>4. pc' = "await-write" => offset' < Chunks
  BY Goes DEF Writing, OpenReply, WriteChunk, WriteReply, client, Goto
<1>5. pc' = "await-close" => offset' = Chunks
  <2> SUFFICES ASSUME pc' = "await-close" PROVE offset' = Chunks
    OBVIOUS
  <2>1. WriteChunk /\ offset' = offset /\ ~(offset < Chunks)
    BY Goes DEF Writing, OpenReply, WriteChunk, WriteReply, client, Goto
  <2> QED
    BY <2>1, Bounds DEF TypeOK
<1>6. ASSUME NEW i \in 1..Len(requests'), requests'[i] = Request("write", "int")
      PROVE  i = 1 /\ buffered' < Chunks
  <2>1. ASSUME i \in 1..Len(requests), requests'[i] = requests[i]
        PROVE  i = 1 /\ buffered' < Chunks
    BY <1>1, <1>6, <2>1 DEF FileInv
  <2>2. CASE requests' = requests \/ Cut(requests, requests')
    BY <1>1, <2>1, <2>2 DEF Cut
  <2>3. ASSUME NEW op \in Ops, NEW arg \in Jobs \cup {"none", "int", "dict"}, Send(op, arg)
        PROVE  \/ i \in 1..Len(requests) /\ requests'[i] = requests[i]
               \/ op = "write" /\ arg = "int" /\ i = Len(requests) + 1
    <3>1. /\ Len(requests') = Len(requests) + 1
          /\ \A m \in 1..Len(requests) : requests'[m] = requests[m]
          /\ requests'[Len(requests) + 1].op = op /\ requests'[Len(requests) + 1].arg = arg
      BY <2>3, Sends
    <3>2. Request("write", "int").op = "write" /\ Request("write", "int").arg = "int"
      BY DEF Request
    <3> QED
      BY <1>1, <1>6, <3>1, <3>2
  <2>4. CASE Send("write", handle) /\ WriteChunk /\ offset < Chunks
    <3>1. handle \in Jobs \cup {"none", "int", "dict"} /\ "write" \in Ops
      BY DEF TypeOK, Ops
    <3>2. CASE i \in 1..Len(requests) /\ requests'[i] = requests[i]
      BY <2>1, <3>2
    <3>3. CASE handle = "int" /\ i = Len(requests) + 1
      <4>1. requests = <<>> /\ buffered = offset
        BY <2>4, <3>3 DEF TrueHandleInv, WriteChunk
      <4>2. Len(requests) = 0
        BY <4>1
      <4> QED
        BY <1>1, <2>4, <3>3, <4>1, <4>2
    <3> QED
      BY <2>3, <2>4, <3>1, <3>2, <3>3
  <2>5. CASE \E op \in Ops \ {"write"}, arg \in Jobs \cup {"none", "int", "dict"} : Send(op, arg)
    BY <2>1, <2>3, <2>5
  <2>6. /\ {"ping", "open", "close", "exec", "status"} \subseteq Ops \ {"write"}
        /\ handle \in {"none", "int", "dict"} /\ job \in Jobs
    BY DEF Ops, TypeOK
  <2> QED
    BY <2>2, <2>4, <2>5, <2>6, KickRequests
<1> QED
  BY <1>2, <1>3, <1>4, <1>5, <1>6 DEF FileInv

LEMMA FileInvAgent ==
  ASSUME TypeOK, TypeOK', PingInv, OpenInv, FileInv, Agent
  PROVE  FileInv'
<1>1. UNCHANGED <<pc, handle, offset>> /\ Len(requests) \in Nat
  BY AgentStep, Lengths
<1>2. CASE UNCHANGED <<requests, replies>> /\ \E j \in Jobs : ProcessExits(j)
  BY <1>1, <1>2 DEF FileInv, ProcessExits
<1>3. ASSUME requests # <<>>, NEW body \in Bodies, Answer(body)
      PROVE  FileInv'
  <2>1. Len(requests) > 0 /\ Dropped(requests, requests', 1)
    BY <1>3, AgentAnswers
  <2>2. \A i \in 1..Len(requests') : requests'[i] # Request("write", "int")
    <3> SUFFICES ASSUME NEW i \in 1..Len(requests'), requests'[i] = Request("write", "int")
                 PROVE  FALSE
      OBVIOUS
    <3>1. i + 1 \in 1..Len(requests) /\ requests[i + 1] = Request("write", "int")
      BY <1>1, <2>1 DEF Dropped
    <3>2. i + 1 = 1
      BY <3>1 DEF FileInv
    <3> QED
      BY <1>1, <2>1, <3>2 DEF Dropped
  <2>3. pc \in Pinging \cup {"await-open"} => buffered' = 0
    <3> SUFFICES ASSUME pc \in Pinging \cup {"await-open"} PROVE buffered' = 0
      OBVIOUS
    <3>1. 1 \in 1..Len(requests)
      BY <1>1, <2>1
    <3>2. requests[1].op \in {"ping", "open"}
      BY <3>1 DEF PingInv, OpenInv, Pending
    <3>3. buffered = 0
      BY DEF FileInv
    <3> QED
      BY <3>2, <3>3, AgentFile
  <2> QED
    BY <1>1, <2>2, <2>3 DEF FileInv
<1> QED
  BY <1>2, <1>3, AgentStep

-----------------------------------------------------------------------------
(* What is on the line after a step *)

LEMMA NewRequest ==
  ASSUME TypeOK, TypeOK', Kick, NEW i \in 1..Len(requests')
  PROVE  \/ i \in 1..Len(requests) /\ requests'[i] = requests[i]
         \/ /\ requests'[i].op \in {"ping", "open", "write", "close"}
            /\ pc \in Pinging \cup Writing
            /\ pc' \in Pinging \cup Writing \cup {"await-open", "abandon"}
         \/ /\ requests'[i].op = "exec" /\ requests'[i].arg = job /\ StartExec
            /\ pc' = "await-pid"
            /\ i = Len(requests') /\ Len(requests') = Len(requests) + 1
         \/ requests'[i] = Request("status", job) /\ requests'[i].op = "status" /\ Poll
            /\ pc' = "await-status"
<1>1. Len(requests) \in Nat /\ Len(requests') \in Nat
  BY Lengths, LengthsNext
<1>2. CASE requests' = requests \/ Cut(requests, requests')
  BY <1>1, <1>2 DEF Cut
<1>3. ASSUME NEW op \in Ops, NEW arg \in Jobs \cup {"none", "int", "dict"}, Send(op, arg)
      PROVE  \/ i \in 1..Len(requests) /\ requests'[i] = requests[i]
             \/ /\ i = Len(requests) + 1 /\ Len(requests') = Len(requests) + 1
                /\ requests'[i] = Request(op, arg)
                /\ requests'[i].op = op /\ requests'[i].arg = arg
  BY <1>1, <1>3, Sends
<1>4. handle \in {"none", "int", "dict"} /\ job \in Jobs
  BY DEF TypeOK
<1>5. CASE Send("ping", "none") /\ Ping /\ pc' = "await-ping"
  BY <1>3, <1>5 DEF Ops, Ping, Pinging, Goto
<1>6. CASE Send("open", "none") /\ OpenFile /\ pc' = "await-open"
  BY <1>3, <1>6 DEF Ops, OpenFile, Pinging, Goto
<1>7. CASE Send("write", handle) /\ WriteChunk
  BY <1>3, <1>4, <1>7 DEF Ops, WriteChunk, Writing, Goto
<1>8. CASE /\ Send("close", handle) /\ pc \in {"write", "await-write"}
           /\ pc' \in {"await-close", "abandon"}
  BY <1>3, <1>4, <1>8 DEF Ops, Writing
<1>9. CASE Send("exec", job) /\ StartExec /\ pc' = "await-pid"
  BY <1>3, <1>4, <1>9 DEF Ops
<1>10. CASE Send("status", job) /\ Poll /\ pc' = "await-status"
  BY <1>3, <1>4, <1>10 DEF Ops
<1> QED
  BY <1>2, <1>5, <1>6, <1>7, <1>8, <1>9, <1>10, KickRequests

LEMMA NewReply ==
  ASSUME TypeOK, TypeOK', Kick, NEW i \in 1..Len(replies')
  PROVE  \E m \in 1..Len(replies) : replies'[i] = replies[m]
<1>1. Len(replies) \in Nat /\ Len(replies') \in Nat
  BY Lengths, LengthsNext
<1>2. ASSUME NEW k \in 0..Len(replies), Dropped(replies, replies', k)
      PROVE  \E m \in 1..Len(replies) : replies'[i] = replies[m]
  <2>1. i + k \in 1..Len(replies) /\ replies'[i] = replies[i + k]
    BY <1>1, <1>2 DEF Dropped
  <2> QED
    BY <2>1
<1>3. \A k \in 1..Len(replies) : k \in 0..Len(replies)
  BY <1>1
<1>4. \A body : Receive(body) \/ ReceiveLast(body)
        => \E m \in 1..Len(replies) : replies'[i] = replies[m]
  BY <1>2, <1>3, Receives, LastReceives
<1>5. \A op \in Ops : Late(op) => \E m \in 1..Len(replies) : replies'[i] = replies[m]
  BY <1>2, Lates
<1>6. replies' = replies => \E m \in 1..Len(replies) : replies'[i] = replies[m]
  OBVIOUS
<1>7. CASE Ping \/ PingReply \/ PingTimeout \/ OpenFile
  BY <1>4, <1>5, <1>6, <1>7 DEF Ping, PingReply, PingTimeout, OpenFile, NoUse, Ops
<1>8. CASE OpenReply \/ OpenTimeout
  BY <1>4, <1>5, <1>6, <1>8 DEF OpenReply, OpenTimeout, Ops
<1>9. CASE WriteChunk \/ WriteBreaks \/ WriteReply \/ WriteTimeout
  <2>1. CASE WriteBreaks
    BY <1>2, <2>1, Ports, Disconnects DEF WriteBreaks
  <2> QED
    BY <1>4, <1>6, <1>9, <2>1 DEF WriteChunk, WriteReply, WriteTimeout
<1>10. CASE CloseReply \/ CloseTimeout
  BY <1>4, <1>5, <1>10 DEF CloseReply, CloseTimeout, Ops
<1>11. CASE StartExec \/ PidReply \/ PidTimeout
  BY <1>4, <1>5, <1>6, <1>11 DEF StartExec, PidReply, PidTimeout, NoUse, Ops
<1>12. CASE Poll \/ StatusReply \/ StatusTimeout \/ Judge
  BY <1>4, <1>5, <1>6, <1>12 DEF Poll, StatusReply, StatusTimeout, Judge, NoUse, Ops
<1> QED
  BY <1>7, <1>8, <1>9, <1>10, <1>11, <1>12 DEF Kick

LEMMA AgentLine ==
  ASSUME TypeOK, TypeOK', Agent
  PROVE  /\ \A i \in 1..Len(requests') : \E m \in 1..Len(requests) :
              /\ requests'[i] = requests[m]
              /\ m = Len(requests) => i = Len(requests')
         /\ \A i \in 1..Len(replies') :
              \/ i \in 1..Len(replies) /\ replies'[i] = replies[i]
                 /\ (i = Len(replies) /\ requests = <<>> => i = Len(replies') /\ requests' = <<>>)
              \/ /\ requests # <<>> /\ i = Len(replies')
                 /\ replies'[i] \in Answers(requests[1])
                 /\ Len(requests) = 1 => requests' = <<>>
<1>1. /\ Len(requests) \in Nat /\ Len(requests') \in Nat
      /\ Len(replies) \in Nat /\ Len(replies') \in Nat
  BY Lengths, LengthsNext
<1>2. CASE UNCHANGED <<requests, replies>>
  BY <1>1, <1>2
<1>3. ASSUME requests # <<>>, NEW body \in Answers(requests[1]), body \in Bodies, Answer(body)
      PROVE  /\ \A i \in 1..Len(requests') : \E m \in 1..Len(requests) :
                  /\ requests'[i] = requests[m]
                  /\ m = Len(requests) => i = Len(requests')
             /\ \A i \in 1..Len(replies') :
                  \/ i \in 1..Len(replies) /\ replies'[i] = replies[i]
                  \/ /\ i = Len(replies') /\ replies'[i] \in Answers(requests[1])
                     /\ Len(requests) = 1 => requests' = <<>>
  <2>1. /\ Len(requests) > 0 /\ Len(requests') = Len(requests) - 1
        /\ \A i \in 1..Len(requests') : requests'[i] = requests[i + 1]
        /\ Len(requests) = 1 => requests' = <<>>
    BY <1>3, AgentAnswers DEF Dropped
  <2>2. ASSUME NEW i \in 1..Len(requests')
        PROVE  \E m \in 1..Len(requests) :
                 requests'[i] = requests[m] /\ (m = Len(requests) => i = Len(requests'))
    <3>1. i + 1 \in 1..Len(requests) /\ (i + 1 = Len(requests) => i = Len(requests'))
      BY <1>1, <2>1
    <3> QED
      BY <2>1, <3>1
  <2>3. \/ /\ Len(replies') = Len(replies) + 1
           /\ \A i \in 1..Len(replies) : replies'[i] = replies[i]
           /\ replies'[Len(replies) + 1] = body
        \/ replies' = replies
    BY <1>3, AgentAnswers
  <2>4. ASSUME NEW i \in 1..Len(replies')
        PROVE  \/ i \in 1..Len(replies) /\ replies'[i] = replies[i]
               \/ i = Len(replies') /\ replies'[i] = body
    BY <1>1, <2>3
  <2> QED
    BY <1>3, <2>1, <2>2, <2>4
<1> QED
  BY <1>2, <1>3, AgentStep

-----------------------------------------------------------------------------
(* Delivery *)

After == Watching \cup {"exec", "await-pid", "done"}

LEMMA DeliveredInvKick ==
  ASSUME TypeOK, TypeOK', FalseHandleInv, TrueHandleInv, FileInv, DeliveredInv, ExecInv, Kick
  PROVE  DeliveredInv'
<1> SUFFICES ASSUME pc' \in After, ~Excused'
             PROVE  /\ disk' = {Chunks}
                    /\ Pending({"exec", "status"})'
                    /\ process'["script"] # "none" => ran' = {Chunks}
  BY DEF DeliveredInv, After, Excused
<1>1. UNCHANGED <<disk, process, ran, unflushed>>
  BY KickFrame
<1>2. ~Excused
  <2>1. /\ late["close"] \in Nat /\ late'["close"] \in Nat /\ late'["close"] >= late["close"]
        /\ late["ping"] \in Nat /\ late'["ping"] \in Nat /\ late'["ping"] >= late["ping"]
    BY KickFrame DEF Ops
  <2> QED
    BY <1>1, <2>1, Bounds DEF Excused
<1>3. CASE pc \in After
  <2>1. /\ disk = {Chunks} /\ Pending({"exec", "status"})
        /\ process["script"] # "none" => ran = {Chunks}
    BY <1>2, <1>3 DEF DeliveredInv, After
  <2>2. ASSUME NEW i \in 1..Len(requests') PROVE requests'[i].op \in {"exec", "status"}
    <3>1. pc \notin Pinging \cup Writing
      BY <1>3 DEF After, Watching, Pinging, Writing
    <3> QED
      BY <2>1, <3>1, NewRequest DEF Pending
  <2> QED
    BY <1>1, <2>1, <2>2 DEF Pending
<1>4. CASE pc \notin After
  <2>1. pc = "await-close" /\ pc' = "exec" /\ (CloseReply \/ CloseTimeout)
    BY <1>4, Goes DEF Kick, Ping, PingReply, PingTimeout, OpenFile, OpenReply, OpenTimeout,
       WriteChunk, WriteBreaks, WriteReply, WriteTimeout, CloseReply, CloseTimeout, StartExec, PidReply,
       PidTimeout, Poll, StatusReply, StatusTimeout, Judge, Goto, ExecNone, After, Watching
  <2>2. ~CloseTimeout
    <3> SUFFICES ASSUME CloseTimeout PROVE FALSE
      OBVIOUS
    <3>1. late' = [late EXCEPT !["close"] = @ + 1] /\ late \in [Ops -> Nat] /\ "close" \in Ops
      BY DEF CloseTimeout, Late, TypeOK, Ops
    <3>2. late'["close"] > 0
      BY <3>1
    <3> QED
      BY <3>2 DEF Excused
  <2>3. \E body : ReceiveLast(body)
    BY <2>1, <2>2 DEF CloseReply
  <2>4. Len(replies) > 0 /\ Cut(requests, requests')
    BY <2>3, LastReceives
  <2>5. handle = "int"
    <3>1. handle = "dict" => 1 + offset <= late["ping"] /\ offset = Chunks
      BY <2>1 DEF FalseHandleInv, FileInv, Writing
    <3>2. late["ping"] \in Nat /\ Chunks \in Nat
      BY Lengths, Bounds
    <3>3. handle # "dict"
      BY <1>2, <3>1, <3>2 DEF Excused
    <3> QED
      BY <2>1, <3>3 DEF FileInv, Writing
  <2>6. requests = <<>> /\ disk = {Chunks}
    <3>1. replies # <<>> /\ ~unflushed
      BY <1>2, <2>4 DEF Excused
    <3> QED
      BY <2>1, <2>5, <3>1 DEF TrueHandleInv
  <2>7. Len(requests') = 0
    <3>1. Len(requests) = 0
      BY <2>6
    <3> QED
      BY <2>4, <3>1, LengthsNext DEF Cut
  <2>8. process["script"] = "none"
    <3>1. job # "tty1" /\ process[job] = "none"
      BY <2>1 DEF ExecInv, Watching
    <3> QED
      BY <3>1 DEF TypeOK, Jobs
  <2> QED
    BY <1>1, <2>6, <2>7, <2>8 DEF Pending
<1> QED
  BY <1>3, <1>4

LEMMA DeliveredInvAgent ==
  ASSUME TypeOK, TypeOK', DeliveredInv, Agent
  PROVE  DeliveredInv'
<1>1. pc' = pc /\ late' = late /\ (unflushed => unflushed')
  BY AgentStep, AgentUnflushed
<1> SUFFICES ASSUME pc \in After, ~Excused
             PROVE  /\ disk' = {Chunks}
                    /\ Pending({"exec", "status"})'
                    /\ process'["script"] # "none" => ran' = {Chunks}
  BY <1>1 DEF DeliveredInv, After, Excused
<1>2. /\ disk = {Chunks} /\ Pending({"exec", "status"})
      /\ process["script"] # "none" => ran = {Chunks}
  BY DEF DeliveredInv, After
<1>3. Pending({"exec", "status"})'
  BY <1>2, AgentLine DEF Pending
<1>4. requests # <<>> => requests[1].op \in {"exec", "status"}
  BY <1>2, Ports DEF Pending
<1>5. disk' = {Chunks}
  <2>1. CASE requests # <<>>
    BY <1>2, <1>4, <2>1, AgentFile
  <2>2. CASE requests = <<>>
    BY <1>2, <2>2, AgentStep DEF ProcessExits
  <2> QED
    BY <2>1, <2>2
<1>6. process'["script"] # "none" => ran' = {Chunks}
  <2>1. process \in [Jobs -> {"none", "running", "exited", "reported"}] /\ "script" \in Jobs
    BY DEF TypeOK, Jobs
  <2>2. CASE UNCHANGED <<process, ran, outcome>>
    BY <1>2, <2>2
  <2>3. CASE /\ process' = [process EXCEPT ![requests[1].arg] = "running"]
             /\ ran' = IF requests[1].arg = "script" THEN disk ELSE ran
    BY <1>2, <2>1, <2>3
  <2>4. CASE /\ process[requests[1].arg] = "exited" /\ UNCHANGED <<ran, outcome>>
             /\ process' = [process EXCEPT ![requests[1].arg] = "reported"]
    BY <1>2, <2>1, <2>4
  <2>5. CASE \E j \in Jobs : /\ process[j] = "running" /\ UNCHANGED <<requests, replies, ran>>
                             /\ process' = [process EXCEPT ![j] = "exited"]
    BY <1>2, <2>1, <2>5
  <2> QED
    BY <2>2, <2>3, <2>4, <2>5, AgentProcess
<1> QED
  BY <1>3, <1>5, <1>6

-----------------------------------------------------------------------------
(* The processes *)

\* Where the kick goes once it has asked for the script to be run.
LEMMA LateGoes ==
  ASSUME TypeOK, ExecInv, Kick
  PROVE  /\ pc \notin {"done", "failed"}
         /\ pc = "await-pid" => pc' \in {"status", "done", "failed"}
         /\ pc \in Watching /\ ~Judge => pc' \in Watching \cup {"done", "failed"}
         /\ Judge => /\ pc = "judge" /\ UNCHANGED <<requests, replies>>
                     /\ pc' = "exec" => job' = "tty1" /\ job = "script"
                     /\ pc' # "exec" => job' = job
                     /\ pc' \in {"exec", "done", "failed"}
         /\ pc' = "done" => Judge \/ (job = "tty1" /\ job' = job)
         /\ job = "tty1" => pc' \in Watching \cup {"await-pid", "done"}
<1>1. /\ pc \notin {"done", "failed"}
      /\ pc = "await-pid" => pc' \in {"status", "done", "failed"}
  BY DEF Kick, Ping, PingReply, PingTimeout, OpenFile, OpenReply, OpenTimeout, WriteChunk,
     WriteBreaks, WriteReply, WriteTimeout, CloseReply, CloseTimeout, StartExec, PidReply, PidTimeout, Poll,
     StatusReply, StatusTimeout, Judge, Goto, ExecNone
<1>2. pc \in Watching /\ ~Judge => pc' \in Watching \cup {"done", "failed"}
  BY DEF Kick, Ping, PingReply, PingTimeout, OpenFile, OpenReply, OpenTimeout, WriteChunk,
     WriteBreaks, WriteReply, WriteTimeout, CloseReply, CloseTimeout, StartExec, PidReply, PidTimeout, Poll,
     StatusReply, StatusTimeout, Goto, ExecNone, Watching
<1>3. Judge => /\ pc = "judge" /\ UNCHANGED <<requests, replies>>
               /\ pc' = "exec" => job' = "tty1" /\ job = "script"
               /\ pc' # "exec" => job' = job
               /\ pc' \in {"exec", "done", "failed"}
  BY DEF Judge, Goto
<1>4. pc' = "done" => Judge \/ (job = "tty1" /\ job' = job)
  <2>1. job \in {"script", "tty1"}
    BY DEF TypeOK, Jobs
  <2> QED
    BY <2>1 DEF Kick, Ping, PingReply, PingTimeout, OpenFile, OpenReply, OpenTimeout, WriteChunk,
       WriteBreaks, WriteReply, WriteTimeout, CloseReply, CloseTimeout, StartExec, PidReply, PidTimeout, Poll,
       StatusReply, StatusTimeout, Goto, ExecNone, client
<1>5. job = "tty1" => pc' \in Watching \cup {"await-pid", "done"}
  <2> SUFFICES ASSUME job = "tty1" PROVE pc' \in Watching \cup {"await-pid", "done"}
    OBVIOUS
  <2>1. pc \in Watching \cup {"exec", "await-pid", "done"}
    BY DEF ExecInv
  <2> QED
    BY <2>1 DEF Kick, Ping, PingReply, PingTimeout, OpenFile, OpenReply, OpenTimeout, WriteChunk,
       WriteBreaks, WriteReply, WriteTimeout, CloseReply, CloseTimeout, StartExec, PidReply, PidTimeout, Poll,
       StatusReply, StatusTimeout, Judge, Goto, ExecNone, Watching
<1> QED
  BY <1>1, <1>2, <1>3, <1>4, <1>5

\* The pid is the last thing on the line.
LEMMA PidRead ==
  ASSUME TypeOK, TypeOK', ExecInv, Kick, pc = "await-pid", pc' = "status"
  PROVE  /\ requests' = <<>> /\ replies' = <<>> /\ process[job] # "none" /\ job' = job
         /\ late' = late
<1>1. PidReply
  BY DEF Kick, Ping, PingReply, PingTimeout, OpenFile, OpenReply, OpenTimeout, WriteChunk,
     WriteBreaks, WriteReply, WriteTimeout, CloseReply, CloseTimeout, StartExec, PidTimeout, Poll,
     StatusReply, StatusTimeout, Judge, Goto, ExecNone
<1>2. ReceiveLast("pid") /\ job' = job /\ late' = late
  BY <1>1 DEF PidReply, Goto, ExecNone
<1>3. Len(replies) > 0 /\ replies[1] = "pid" /\ Cut(requests, requests')
  BY <1>2, LastReceives
<1>4. 1 \in 1..Len(replies)
  BY <1>3, Lengths
<1>5. Len(replies) = 1 /\ requests = <<>> /\ process[job] # "none"
  BY <1>3, <1>4 DEF ExecInv
<1>6. replies' = <<>>
  BY <1>2, <1>5, OnlyReply
<1>7. Len(requests') = 0
  <2>1. Len(requests) = 0
    BY <1>5
  <2> QED
    BY <1>3, <2>1, LengthsNext DEF Cut
<1>8. requests' = <<>>
  <2>1. requests' \in Seq(RequestRecord)
    BY DEF TypeOK
  <2> QED
    BY <1>7, <2>1
<1> QED
  BY <1>2, <1>5, <1>6, <1>8

LEMMA ExecInvKick ==
  ASSUME TypeOK, TypeOK', ExecInv, WatchInv, Kick
  PROVE  ExecInv'
<1>1. /\ process' = process /\ job \in {"script", "tty1"}
      /\ job' = job \/ (Judge /\ job = "script" /\ job' = "tty1" /\ pc' = "exec")
  BY KickFrame DEF TypeOK, Jobs
<1>2. Len(requests) \in Nat /\ Len(requests') \in Nat
  BY Lengths, LengthsNext
<1>3. pc = "judge" => /\ \A i \in 1..Len(requests) : requests[i] = Request("status", job)
                      /\ process[job] = "reported"
  BY DEF WatchInv, Watching
<1>4. Request("status", job).op = "status" /\ Request("status", job).arg = job
  BY DEF Request
<1>5. \A i \in 1..Len(requests') : requests'[i].op = "exec" => requests'[i].arg = job'
  <2>1. CASE Judge
    BY <1>3, <1>4, <2>1, LateGoes
  <2>2. CASE ~Judge
    BY <1>1, <2>2, NewRequest DEF ExecInv
  <2> QED
    BY <2>1, <2>2
<1>6. pc' \notin {"await-pid", "done", "failed"} => Coming(Bodies \ {"pid"})'
  <2> SUFFICES ASSUME pc' \notin {"await-pid", "done", "failed"}
               PROVE  Coming(Bodies \ {"pid"})'
    OBVIOUS
  <2>1. CASE pc = "await-pid"
    <3>1. replies' = <<>>
      BY <2>1, LateGoes, PidRead
    <3> QED
      BY <3>1 DEF Coming
  <2>2. CASE pc # "await-pid"
    <3>1. Coming(Bodies \ {"pid"})
      BY <2>2, LateGoes DEF ExecInv
    <3> QED
      BY <3>1, NewReply DEF Coming
  <2> QED
    BY <2>1, <2>2
<1>7. pc' \notin {"await-pid", "failed"} /\ (pc' = "done" => job' = "script")
        => Pending(Ops \ {"exec"})'
  <2> SUFFICES ASSUME pc' \notin {"await-pid", "failed"}, pc' = "done" => job' = "script"
               PROVE  Pending(Ops \ {"exec"})'
    OBVIOUS
  <2>1. CASE pc = "await-pid"
    <3>1. pc' = "status"
      BY <2>1, LateGoes DEF Judge
    <3>2. requests' = <<>>
      BY <2>1, <3>1, PidRead
    <3> QED
      BY <3>2 DEF Pending
  <2>2. CASE pc # "await-pid"
    <3>1. Pending(Ops \ {"exec"})
      BY <2>2, LateGoes DEF ExecInv
    <3>2. ASSUME NEW i \in 1..Len(requests') PROVE requests'[i].op \in Ops \ {"exec"}
      BY <3>1, NewRequest DEF Pending, Ops
    <3> QED
      BY <3>2 DEF Pending
  <2> QED
    BY <2>1, <2>2
<1>8. pc' = "await-pid" =>
        /\ \A i \in 1..Len(requests') : requests'[i].op = "exec" => i = Len(requests')
        /\ \A i \in 1..Len(replies') : replies'[i] # "pid"
  <2> SUFFICES ASSUME pc' = "await-pid"
               PROVE  /\ \A i \in 1..Len(requests') : requests'[i].op = "exec" => i = Len(requests')
                      /\ \A i \in 1..Len(replies') : replies'[i] # "pid"
    OBVIOUS
  <2>1. StartExec /\ pc = "exec"
    BY Goes DEF StartExec
  <2>2. Pending(Ops \ {"exec"}) /\ Coming(Bodies \ {"pid"})
    BY <2>1 DEF ExecInv
  <2>3. \A i \in 1..Len(replies') : replies'[i] # "pid"
    BY <2>2, NewReply DEF Coming
  <2>4. \A i \in 1..Len(requests') : requests'[i].op = "exec" => i = Len(requests')
    BY <2>2, NewRequest DEF Pending
  <2> QED
    BY <2>3, <2>4
<1>9. pc' \notin Watching \cup {"done", "failed"} =>
        /\ process'[job'] = "none"
        /\ \A i \in 1..Len(requests') :
             requests'[i].op = "status" => job' = "tty1" /\ requests'[i].arg = "script"
  <2> SUFFICES ASSUME pc' \notin Watching \cup {"done", "failed"}
               PROVE  /\ process'[job'] = "none"
                      /\ \A i \in 1..Len(requests') :
                           requests'[i].op = "status" => job' = "tty1" /\ requests'[i].arg = "script"
    OBVIOUS
  <2>1. CASE Judge
    <3>1. job' = "tty1" /\ job = "script" /\ UNCHANGED requests /\ pc = "judge"
      BY <2>1, LateGoes
    <3> QED
      BY <1>1, <1>3, <1>4, <3>1 DEF ExecInv
  <2>2. CASE ~Judge
    <3>1. pc \notin Watching \cup {"done", "failed", "await-pid"} /\ job' = job
      BY <1>1, <2>2, LateGoes DEF Watching
    <3>2. /\ process[job] = "none"
          /\ \A i \in 1..Len(requests) :
               requests[i].op = "status" => job = "tty1" /\ requests[i].arg = "script"
      BY <3>1 DEF ExecInv
    <3>3. ~Poll
      BY <3>1 DEF Poll, Watching
    <3> QED
      BY <1>1, <3>1, <3>2, <3>3, NewRequest
  <2> QED
    BY <2>1, <2>2
<1>10. job' = "script" => process'["tty1"] = "none"
  BY <1>1 DEF ExecInv
<1>11. job' = "tty1" \/ pc' = "done" => process'["script"] = "reported"
  <2>1. CASE Judge
    BY <1>1, <1>3, <2>1, LateGoes DEF ExecInv
  <2>2. CASE ~Judge
    BY <1>1, <2>2, LateGoes DEF ExecInv
  <2> QED
    BY <2>1, <2>2
<1>12. job' = "tty1" => pc' \in Watching \cup {"exec", "await-pid", "done"}
  BY <1>1, LateGoes
<1> QED
  BY <1>5, <1>6, <1>7, <1>8, <1>9, <1>10, <1>11, <1>12 DEF ExecInv

\* What becomes of a command of the guest.
LEMMA ProcessStep ==
  ASSUME TypeOK, Agent, NEW j \in Jobs
  PROVE  \/ process'[j] = process[j]
         \/ /\ requests # <<>> /\ requests[1].op = "exec" /\ requests[1].arg = j
            /\ process'[j] = "running"
         \/ /\ requests # <<>> /\ requests[1].op = "status" /\ requests[1].arg = j
            /\ process[j] = "exited" /\ process'[j] = "reported" /\ Answer("exited")
         \/ process[j] = "running" /\ process'[j] = "exited" /\ requests' = requests
<1>1. process \in [Jobs -> {"none", "running", "exited", "reported"}]
  BY DEF TypeOK
<1>2. CASE UNCHANGED <<process, ran, outcome>>
  BY <1>2
<1>3. CASE /\ requests # <<>> /\ requests[1].op = "exec"
           /\ process' = [process EXCEPT ![requests[1].arg] = "running"]
  BY <1>1, <1>3
<1>4. CASE /\ requests # <<>> /\ requests[1].op = "status"
           /\ process[requests[1].arg] = "exited" /\ Answer("exited")
           /\ process' = [process EXCEPT ![requests[1].arg] = "reported"]
  BY <1>1, <1>4
<1>5. CASE \E q \in Jobs : /\ process[q] = "running" /\ requests' = requests
                           /\ process' = [process EXCEPT ![q] = "exited"]
  BY <1>1, <1>5
<1> QED
  BY <1>2, <1>3, <1>4, <1>5, AgentProcess

LEMMA ExecInvAgent ==
  ASSUME TypeOK, TypeOK', ExecInv, Agent
  PROVE  ExecInv'
<1>1. /\ pc' = pc /\ job' = job /\ job \in {"script", "tty1"} /\ {"script", "tty1"} = Jobs
      /\ Len(requests) \in Nat /\ Len(replies) \in Nat
  BY AgentStep, Lengths DEF TypeOK, Jobs
<1>2. requests # <<>> => 1 \in 1..Len(requests)
  BY <1>1, Ports
<1>3. \A i \in 1..Len(requests') : requests'[i].op = "exec" => requests'[i].arg = job
  BY AgentLine DEF ExecInv
<1>4. pc \notin {"await-pid", "failed"} /\ (pc = "done" => job = "script")
        => Pending(Ops \ {"exec"}) /\ Pending(Ops \ {"exec"})'
  BY AgentLine DEF ExecInv, Pending
<1>5. pc \notin {"await-pid", "done", "failed"} => Coming(Bodies \ {"pid"})'
  <2> SUFFICES ASSUME pc \notin {"await-pid", "done", "failed"},
                      NEW i \in 1..Len(replies')
               PROVE  replies'[i] \in Bodies \ {"pid"}
    BY DEF Coming
  <2>1. requests # <<>> => requests[1].op # "exec"
    BY <1>2, <1>4 DEF Pending
  <2>2. requests # <<>> => Answers(requests[1]) \subseteq Bodies \ {"pid"}
    BY <2>1 DEF Answers, Bodies
  <2>3. Coming(Bodies \ {"pid"})
    BY DEF ExecInv
  <2> QED
    BY <2>2, <2>3, AgentLine DEF Coming
<1>6. pc = "await-pid" =>
        /\ \A i \in 1..Len(requests') : requests'[i].op = "exec" => i = Len(requests')
        /\ \A i \in 1..Len(replies') :
             replies'[i] = "pid" => i = Len(replies') /\ requests' = <<>> /\ process'[job] # "none"
  <2> SUFFICES ASSUME pc = "await-pid"
               PROVE  /\ \A i \in 1..Len(requests') : requests'[i].op = "exec" => i = Len(requests')
                      /\ \A i \in 1..Len(replies') : replies'[i] = "pid" =>
                           i = Len(replies') /\ requests' = <<>> /\ process'[job] # "none"
    OBVIOUS
  <2>1. /\ \A i \in 1..Len(requests) : requests[i].op = "exec" => i = Len(requests)
        /\ \A i \in 1..Len(replies) :
             replies[i] = "pid" => i = Len(replies) /\ requests = <<>> /\ process[job] # "none"
    BY DEF ExecInv
  <2>2. \A i \in 1..Len(requests') : requests'[i].op = "exec" => i = Len(requests')
    BY <2>1, AgentLine
  <2>3. process[job] # "none" => process'[job] # "none"
    BY <1>1, ProcessStep
  <2>4. ASSUME NEW i \in 1..Len(replies'), replies'[i] = "pid"
        PROVE  i = Len(replies') /\ requests' = <<>> /\ process'[job] # "none"
    <3>1. CASE /\ i \in 1..Len(replies) /\ replies'[i] = replies[i]
               /\ i = Len(replies) /\ requests = <<>> => i = Len(replies') /\ requests' = <<>>
      BY <2>1, <2>3, <2>4, <3>1
    <3>2. CASE /\ requests # <<>> /\ i = Len(replies') /\ replies'[i] \in Answers(requests[1])
               /\ Len(requests) = 1 => requests' = <<>>
               /\ ~(i \in 1..Len(replies) /\ replies'[i] = replies[i])
      <4>1. requests[1].op = "exec"
        BY <2>4, <3>2 DEF Answers
      <4>2. Len(requests) = 1 /\ requests[1].arg = job
        BY <1>2, <2>1, <3>2, <4>1 DEF ExecInv
      <4>3. requests' = <<>>
        BY <3>2, <4>2
      <4>4. ~UNCHANGED <<requests, replies>>
        BY <3>2, <4>3
      <4>5. "error" \in Bodies /\ Connected
        BY DEF Bodies, Connected
      <4>6. ~Answer("error")
        <5> SUFFICES ASSUME Answer("error") PROVE FALSE
          OBVIOUS
        <5>1. /\ Len(replies') = Len(replies) + 1
              /\ replies'[Len(replies) + 1] = "error"
          BY <3>2, <4>5, AgentAnswers
        <5> QED
          BY <2>4, <3>2, <5>1
      <4>7. process' = [process EXCEPT ![job] = "running"]
        BY <3>2, <4>1, <4>2, <4>4, <4>6, AgentTakesExec
      <4>8. process'[job] = "running"
        BY <1>1, <4>7 DEF TypeOK
      <4> QED
        BY <3>2, <4>3, <4>8
    <3> QED
      BY <3>1, <3>2, AgentLine
  <2> QED
    BY <2>2, <2>4
<1>7. pc \notin Watching \cup {"done", "failed"} =>
        /\ process'[job] = "none" \/ (pc = "await-pid" /\ process'[job] # "reported")
        /\ \A i \in 1..Len(requests') :
             requests'[i].op = "status" => job = "tty1" /\ requests'[i].arg = "script"
  <2> SUFFICES ASSUME pc \notin Watching \cup {"done", "failed"}
               PROVE  /\ process'[job] = "none" \/ (pc = "await-pid" /\ process'[job] # "reported")
                      /\ \A i \in 1..Len(requests') :
                           requests'[i].op = "status" => job = "tty1" /\ requests'[i].arg = "script"
    OBVIOUS
  <2>1. /\ process[job] = "none" \/ (pc = "await-pid" /\ process[job] # "reported")
        /\ \A i \in 1..Len(requests) :
             requests[i].op = "status" => job = "tty1" /\ requests[i].arg = "script"
    BY DEF ExecInv
  <2>2. requests # <<>> /\ requests[1].op = "exec" => pc = "await-pid"
    BY <1>2, <1>4 DEF Pending
  <2>3. requests # <<>> /\ requests[1].op = "status" => requests[1].arg # job
    BY <1>2, <2>1
  <2>4. process'[job] = "none" \/ (pc = "await-pid" /\ process'[job] # "reported")
    BY <1>1, <2>1, <2>2, <2>3, ProcessStep
  <2>5. \A i \in 1..Len(requests') :
          requests'[i].op = "status" => job = "tty1" /\ requests'[i].arg = "script"
    BY <2>1, AgentLine
  <2> QED
    BY <2>4, <2>5
<1>8. requests # <<>> /\ requests[1].op = "exec" => requests[1].arg = job
  BY <1>2 DEF ExecInv
<1>9. job = "script" => process'["tty1"] = "none"
  BY <1>1, <1>8, ProcessStep DEF ExecInv
<1>10. job = "tty1" \/ pc = "done" => process'["script"] = "reported"
  <2> SUFFICES ASSUME job = "tty1" \/ pc = "done" PROVE process'["script"] = "reported"
    OBVIOUS
  <2>1. process["script"] = "reported"
    BY DEF ExecInv
  <2>2. requests # <<>> /\ requests[1].op = "exec" => requests[1].arg # "script"
    BY <1>1, <1>2, <1>4, <1>8 DEF Pending
  <2> QED
    BY <1>1, <2>1, <2>2, ProcessStep
<1>11. job = "tty1" => pc \in Watching \cup {"exec", "await-pid", "done"}
  BY DEF ExecInv
<1> QED
  BY <1>1, <1>3, <1>4, <1>5, <1>6, <1>7, <1>9, <1>10, <1>11 DEF ExecInv

-----------------------------------------------------------------------------
(* The status polls *)

LEMMA WatchInvKick ==
  ASSUME TypeOK, TypeOK', ExecInv, WatchInv, Kick
  PROVE  WatchInv'
<1> SUFFICES ASSUME pc' \in Watching
             PROVE  /\ \A i \in 1..Len(requests') : requests'[i] = Request("status", job')
                    /\ Coming({"running", "exited", "error"})'
                    /\ \A i \in 1..Len(replies') :
                         replies'[i] = "exited" => process'[job'] = "reported"
                    /\ process'[job'] # "none"
                    /\ pc' = "judge" => process'[job'] = "reported"
  BY DEF WatchInv
<1>1. process' = process /\ job' = job
  BY KickFrame DEF Watching
<1>2. CASE pc = "await-pid"
  <2>1. pc' = "status"
    BY <1>2, LateGoes DEF Watching
  <2>2. requests' = <<>> /\ replies' = <<>> /\ process[job] # "none"
    BY <1>2, <2>1, PidRead
  <2> QED
    BY <1>1, <2>1, <2>2 DEF Coming
<1>3. CASE pc # "await-pid"
  <2>1. pc \in Watching /\ (Poll \/ StatusReply \/ StatusTimeout)
    BY <1>3, Goes DEF PidReply, Poll, StatusReply, StatusTimeout, Watching
  <2>2. /\ \A i \in 1..Len(requests) : requests[i] = Request("status", job)
        /\ Coming({"running", "exited", "error"})
        /\ \A i \in 1..Len(replies) : replies[i] = "exited" => process[job] = "reported"
        /\ process[job] # "none"
    BY <2>1 DEF WatchInv
  <2>3. ASSUME NEW i \in 1..Len(requests') PROVE requests'[i] = Request("status", job)
    <3>1. pc \notin Pinging \cup Writing /\ pc' # "await-pid"
      BY <2>1 DEF Watching, Pinging, Writing
    <3> QED
      BY <2>2, <3>1, NewRequest
  <2>4. Coming({"running", "exited", "error"})'
    BY <2>2, NewReply DEF Coming
  <2>5. \A i \in 1..Len(replies') : replies'[i] = "exited" => process[job] = "reported"
    BY <2>2, NewReply
  <2>6. pc' = "judge" => process[job] = "reported"
    <3> SUFFICES ASSUME pc' = "judge" PROVE process[job] = "reported"
      OBVIOUS
    <3>1. ReceiveLast("exited")
      BY <2>1 DEF Poll, StatusReply, StatusTimeout, Goto, ExecNone
    <3>2. Len(replies) > 0 /\ replies[1] = "exited"
      BY <3>1, LastReceives
    <3>3. 1 \in 1..Len(replies)
      BY <3>2, Lengths
    <3> QED
      BY <2>2, <3>2, <3>3
  <2> QED
    BY <1>1, <2>2, <2>3, <2>4, <2>5, <2>6
<1> QED
  BY <1>2, <1>3

LEMMA WatchInvAgent ==
  ASSUME TypeOK, TypeOK', WatchInv, Agent
  PROVE  WatchInv'
<1>1. /\ pc' = pc /\ job' = job /\ job \in Jobs
      /\ Len(requests) \in Nat /\ Len(replies) \in Nat
  BY AgentStep, Lengths DEF TypeOK
<1> SUFFICES ASSUME pc \in Watching
             PROVE  /\ \A i \in 1..Len(requests') : requests'[i] = Request("status", job)
                    /\ Coming({"running", "exited", "error"})'
                    /\ \A i \in 1..Len(replies') :
                         replies'[i] = "exited" => process'[job] = "reported"
                    /\ process'[job] # "none"
                    /\ pc = "judge" => process'[job] = "reported"
  BY <1>1 DEF WatchInv
<1>2. /\ \A i \in 1..Len(requests) : requests[i] = Request("status", job)
      /\ Coming({"running", "exited", "error"})
      /\ \A i \in 1..Len(replies) : replies[i] = "exited" => process[job] = "reported"
      /\ process[job] # "none"
      /\ pc = "judge" => process[job] = "reported"
  BY DEF WatchInv
<1>3. requests # <<>> => /\ 1 \in 1..Len(requests)
                         /\ requests[1].op = "status" /\ requests[1].arg = job
  <2>1. requests # <<>> => 1 \in 1..Len(requests)
    BY <1>1, Ports
  <2>2. Request("status", job).op = "status" /\ Request("status", job).arg = job
    BY DEF Request
  <2> QED
    BY <1>2, <2>1, <2>2
<1>4. \A i \in 1..Len(requests') : requests'[i] = Request("status", job)
  BY <1>2, AgentLine
<1>5. requests # <<>> => Answers(requests[1]) = {"running", "exited", "error"}
  BY <1>3 DEF Answers
<1>6. Coming({"running", "exited", "error"})'
  BY <1>2, <1>5, AgentLine DEF Coming
<1>7. /\ process[job] = "reported" => process'[job] = "reported"
      /\ process'[job] # "none"
  BY <1>1, <1>2, <1>3, ProcessStep
<1>8. ASSUME NEW i \in 1..Len(replies'), replies'[i] = "exited"
      PROVE  process'[job] = "reported"
  <2>1. CASE i \in 1..Len(replies) /\ replies'[i] = replies[i]
    BY <1>2, <1>7, <1>8, <2>1
  <2>2. CASE ~(i \in 1..Len(replies) /\ replies'[i] = replies[i])
    <3>1. requests # <<>> /\ i = Len(replies')
      BY <2>2, AgentLine
    <3>2. ~UNCHANGED <<requests, replies>>
      BY <1>8, <2>2
    <3>3. ASSUME NEW body \in Bodies \ {"exited"}, Answer(body) PROVE FALSE
      <4>1. \/ /\ Len(replies') = Len(replies) + 1
               /\ replies'[Len(replies) + 1] = body
            \/ replies' = replies
        BY <3>1, <3>3, AgentAnswers
      <4> QED
        BY <1>8, <2>2, <3>1, <3>3, <4>1
    <3>4. {"running", "error"} \subseteq Bodies \ {"exited"}
      BY DEF Bodies
    <3>5. process' = [process EXCEPT ![job] = "reported"]
      BY <1>3, <3>1, <3>2, <3>3, <3>4, AgentTakesStatus
    <3> QED
      BY <1>1, <3>5 DEF TypeOK
  <2> QED
    BY <2>1, <2>2
<1> QED
  BY <1>2, <1>4, <1>6, <1>7, <1>8

LEMMA LastAlone ==
  ASSUME TypeOK, TypeOK', NEW body, ReceiveLast(body), requests = <<>>
  PROVE  requests' = <<>> /\ (Len(replies) = 1 => replies' = <<>>) /\ replies # <<>> /\ replies[1] = body
<1>1. Cut(requests, requests') /\ Len(replies) > 0 /\ replies[1] = body
  BY LastReceives
<1>2. Len(requests) = 0
  OBVIOUS
<1>3. Len(requests') = 0 /\ requests' \in Seq(RequestRecord)
  BY <1>1, <1>2, LengthsNext DEF Cut, TypeOK
<1> QED
  BY <1>1, <1>3, OnlyReply

LEMMA PolledInvKick ==
  ASSUME TypeOK, TypeOK', ExecInv, PolledInv, Kick
  PROVE  PolledInv'
<1> SUFFICES ASSUME late'["status"] = 0, pc' \in {"status", "await-status", "judge", "failed"}
             PROVE  /\ pc' = "status" => /\ requests' = <<>> /\ replies' = <<>>
                                         /\ process'[job'] # "reported"
                    /\ pc' = "await-status" =>
                         /\ requests' = <<Request("status", job')>> /\ replies' = <<>>
                         /\ process'[job'] # "reported"
                    /\ pc' = "judge" => requests' = <<>>
                    /\ pc' = "failed" =>
                         /\ Pending(Ops \ {"status"})'
                         /\ process'["script"] = "reported" => ~outcome'.ok /\ ~outcome'.prepared
  BY DEF PolledInv
<1>1. UNCHANGED <<process, outcome>> /\ job' = job /\ job \in {"script", "tty1"}
  BY KickFrame DEF TypeOK, Jobs
<1>2. late["status"] = 0
  <2>1. late["status"] \in Nat /\ late'["status"] >= late["status"]
    BY KickFrame DEF Ops
  <2> QED
    BY <2>1
<1>3. CASE pc \notin Watching
  <2>1. pc' = "status" \/ pc' = "failed"
    BY <1>3, Goes DEF Watching, PidReply, Poll, StatusReply, StatusTimeout, Goto, ExecNone
  <2>2. CASE pc' = "status"
    <3>1. pc = "await-pid"
      BY <1>3, <2>2, Goes DEF Watching, PidReply, Poll, StatusReply, StatusTimeout
    <3>2. requests' = <<>> /\ replies' = <<>>
      BY <2>2, <3>1, PidRead
    <3>3. process[job] # "reported"
      BY <3>1 DEF ExecInv, Watching
    <3> QED
      BY <1>1, <2>2, <3>2, <3>3
  <2>3. CASE pc' = "failed"
    <3>1. job = "script" /\ pc \notin Watching \cup {"done", "failed"} /\ ~Poll
      BY <1>1, <1>3, <2>3, LateGoes DEF Watching, Poll
    <3>2. /\ process["script"] # "reported"
          /\ \A i \in 1..Len(requests) : requests[i].op # "status"
      BY <3>1 DEF ExecInv
    <3>3. Pending(Ops \ {"status"})'
      <4>1. ASSUME NEW i \in 1..Len(requests') PROVE requests'[i].op \in Ops \ {"status"}
        <5>1. \A m \in 1..Len(requests) : requests[m].op \in Ops
          BY Ports DEF RequestRecord
        <5> QED
          BY <3>1, <3>2, <5>1, NewRequest DEF Ops
      <4> QED
        BY <4>1 DEF Pending
    <3> QED
      BY <1>1, <2>3, <3>2, <3>3
  <2> QED
    BY <2>1, <2>2, <2>3
<1>4. CASE pc = "status"
  <2>1. requests = <<>> /\ replies = <<>> /\ process[job] # "reported"
    BY <1>2, <1>4 DEF PolledInv
  <2>2. Poll
    BY <1>4 DEF Kick, Ping, PingReply, PingTimeout, OpenFile, OpenReply, OpenTimeout, WriteChunk,
       WriteBreaks, WriteReply, WriteTimeout, CloseReply, CloseTimeout, StartExec, PidReply, PidTimeout,
       StatusReply, StatusTimeout, Judge
  <2>3. \/ Send("status", job) /\ pc' = "await-status" /\ replies' = replies
        \/ pc' \in {"status", "done", "failed"} /\ UNCHANGED <<requests, replies>>
    BY <1>4, <2>2 DEF Poll, Goto, ExecNone, NoUse
  <2>4. Send("status", job) => requests' = <<Request("status", job)>>
    BY <1>1, <2>1, Sends DEF Ops, Jobs
  <2>5. process[job] = process["script"] \/ pc' # "failed"
    BY <1>1, LateGoes DEF Watching
  <2>6. requests' = <<>> => Pending(Ops \ {"status"})'
    BY DEF Pending
  <2> QED
    BY <1>1, <2>1, <2>3, <2>4, <2>5, <2>6
<1>5. CASE pc = "await-status"
  <2>1. \/ requests = <<Request("status", job)>> /\ replies = <<>> /\ process[job] # "reported"
        \/ requests = <<>> /\ replies = <<"running">> /\ process[job] # "reported"
        \/ requests = <<>> /\ replies = <<"exited">>
    BY <1>2, <1>5 DEF PolledInv
  <2>2. StatusReply \/ StatusTimeout
    BY <1>5 DEF Kick, Ping, PingReply, PingTimeout, OpenFile, OpenReply, OpenTimeout, WriteChunk,
       WriteBreaks, WriteReply, WriteTimeout, CloseReply, CloseTimeout, StartExec, PidReply, PidTimeout, Poll,
       Judge
  <2>3. ~StatusTimeout
    <3> SUFFICES ASSUME StatusTimeout PROVE FALSE
      OBVIOUS
    <3>1. late' = [late EXCEPT !["status"] = @ + 1] /\ late \in [Ops -> Nat] /\ "status" \in Ops
      BY DEF StatusTimeout, Late, TypeOK, Ops
    <3> QED
      BY <1>2, <3>1
  <2>4. \/ ReceiveLast("running") /\ pc' = "status"
        \/ ReceiveLast("error")
        \/ ReceiveLast("exited") /\ pc' = "judge"
    BY <2>2, <2>3 DEF StatusReply, Goto
  <2>5. requests = <<>>
    BY <2>1, <2>4 DEF ReceiveLast
  <2>6. /\ <<"running">> # <<>> /\ Len(<<"running">>) = 1 /\ <<"running">>[1] = "running"
        /\ <<"exited">> # <<>> /\ Len(<<"exited">>) = 1 /\ <<"exited">>[1] = "exited"
    OBVIOUS
  <2>7. ~ReceiveLast("error")
    BY <2>1, <2>5, <2>6, LastAlone
  <2>8. ReceiveLast("running") => requests' = <<>> /\ replies' = <<>> /\ process[job] # "reported"
    BY <2>1, <2>5, <2>6, LastAlone
  <2>9. ReceiveLast("exited") => requests' = <<>>
    BY <2>5, LastAlone
  <2> QED
    BY <1>1, <2>4, <2>7, <2>8, <2>9
<1>6. CASE pc = "judge"
  <2>1. requests = <<>>
    BY <1>2, <1>6 DEF PolledInv
  <2>2. Judge
    BY <1>6 DEF Kick, Ping, PingReply, PingTimeout, OpenFile, OpenReply, OpenTimeout, WriteChunk,
       WriteBreaks, WriteReply, WriteTimeout, CloseReply, CloseTimeout, StartExec, PidReply, PidTimeout, Poll,
       StatusReply, StatusTimeout
  <2>3. pc' = "failed" /\ requests' = requests /\ ~outcome.ok /\ ~outcome.prepared
    BY <2>2 DEF Judge, Goto
  <2> QED
    BY <1>1, <2>1, <2>3 DEF Pending
<1> QED
  BY <1>3, <1>4, <1>5, <1>6 DEF Watching

LEMMA PolledInvAgent ==
  ASSUME TypeOK, TypeOK', WatchInv, PolledInv, Agent
  PROVE  PolledInv'
<1>1. /\ pc' = pc /\ job' = job /\ late' = late /\ job \in Jobs
      /\ Len(requests) \in Nat
  BY AgentStep, Lengths DEF TypeOK
<1> SUFFICES ASSUME late["status"] = 0
             PROVE  /\ pc = "status" => /\ requests' = <<>> /\ replies' = <<>>
                                        /\ process'[job] # "reported"
                    /\ pc = "await-status" =>
                         \/ /\ requests' = <<Request("status", job)>> /\ replies' = <<>>
                            /\ process'[job] # "reported"
                         \/ /\ requests' = <<>> /\ replies' = <<"running">>
                            /\ process'[job] # "reported"
                         \/ requests' = <<>> /\ replies' = <<"exited">>
                    /\ pc = "judge" => requests' = <<>>
                    /\ pc = "failed" =>
                         /\ Pending(Ops \ {"status"})'
                         /\ process'["script"] = "reported" => ~outcome'.ok /\ ~outcome'.prepared
  BY <1>1 DEF PolledInv
<1>2. requests = <<>> => /\ UNCHANGED <<requests, replies>>
                         /\ process[job] # "reported" => process'[job] # "reported"
  BY <1>1, AgentStep, ProcessStep
<1>3. CASE pc \in {"status", "judge"}
  BY <1>2, <1>3 DEF PolledInv
<1>4. CASE pc = "await-status"
  <2>1. CASE requests = <<>>
    BY <1>2, <1>4, <2>1 DEF PolledInv
  <2>2. CASE requests # <<>>
    <3>1. requests = <<Request("status", job)>> /\ replies = <<>> /\ process[job] # "reported"
      BY <1>4, <2>2 DEF PolledInv
    <3>2. /\ Request("status", job).op = "status" /\ Request("status", job).arg = job
          /\ <<Request("status", job)>>[1] = Request("status", job)
          /\ Len(<<Request("status", job)>>) = 1
      BY DEF Request
    <3>3. requests[1].op = "status" /\ requests[1].arg = job /\ Len(requests) = 1
      BY <3>1, <3>2
    <3>4. /\ {"running", "exited", "error"} \subseteq Bodies
          /\ Connected
      BY <1>4 DEF Bodies, Connected
    <3>5. \A body \in Bodies : Answer(body) => requests' = <<>> /\ replies' = <<body>>
      BY <2>2, <3>1, <3>3, <3>4, AgentAnswers
    <3>6. CASE UNCHANGED <<requests, replies>>
      <4>1. process'[job] # "reported"
        <5>1. ~Answer("exited")
          BY <2>2, <3>4, <3>5, <3>6
        <5> QED
          BY <1>1, <3>1, <5>1, ProcessStep
      <4> QED
        BY <1>4, <3>1, <3>6, <4>1
    <3>7. CASE process[job] = "running" /\ Answer("running") /\ UNCHANGED process
      BY <1>4, <3>1, <3>4, <3>5, <3>7
    <3>8. CASE Answer("exited")
      BY <1>4, <3>4, <3>5, <3>8
    <3>9. process[job] # "none"
      BY <1>4 DEF WatchInv, Watching
    <3> QED
      BY <2>2, <3>1, <3>3, <3>6, <3>7, <3>8, <3>9, AgentTakesStatus
  <2> QED
    BY <2>1, <2>2
<1>5. CASE pc = "failed"
  <2>1. /\ Pending(Ops \ {"status"})
        /\ process["script"] = "reported" => ~outcome.ok /\ ~outcome.prepared
    BY <1>5 DEF PolledInv
  <2>2. Pending(Ops \ {"status"})'
    BY <2>1, AgentLine DEF Pending
  <2>3. requests # <<>> => requests[1].op # "status"
    BY <1>1, <2>1, Ports DEF Pending
  <2>4. process'["script"] = "reported" => process["script"] = "reported" /\ outcome' = outcome
    <3>1. process \in [Jobs -> {"none", "running", "exited", "reported"}] /\ "script" \in Jobs
      BY DEF TypeOK, Jobs
    <3> QED
      BY <2>3, <3>1, AgentProcess
  <2> QED
    BY <1>5, <2>1, <2>2, <2>4
<1> QED
  BY <1>3, <1>4, <1>5

-----------------------------------------------------------------------------
(* The inductive invariant *)

LEMMA IInvInit == Init => IInv
<1> SUFFICES ASSUME Init PROVE IInv
  OBVIOUS
<1>1. /\ requests = <<>> /\ replies = <<>> /\ pc = "ping" /\ job = "script" /\ handle = "none"
      /\ offset = 0 /\ buffered = 0
      /\ \A op \in Ops : late[op] = 0
      /\ \A j \in Jobs : process[j] = "none"
  BY DEF Init
<1>2. TypeOK
  <2>1. /\ 0 \in 0..MaxPings /\ 0 \in 0..Chunks /\ 0 \in 0..MaxPolls
    BY Bounds
  <2>2. <<>> \in Seq(RequestRecord) /\ <<>> \in Seq(Bodies)
    OBVIOUS
  <2>3. late \in [Ops -> Nat] /\ process \in [Jobs -> {"none", "running", "exited", "reported"}]
    BY DEF Init
  <2>4. outcome \in Outcomes
    BY DEF Init, NoOutcome, Outcomes
  <2> QED
    BY <2>1, <2>2, <2>3, <2>4 DEF Init, TypeOK, Contents, Jobs
<1>3. Len(requests) = 0 /\ Len(replies) = 0 /\ {"ping", "status"} \subseteq Ops /\ Jobs = {"script", "tty1"}
  BY <1>1 DEF Ops, Jobs
<1>4. PingInv /\ OpenInv
  BY <1>1, <1>3 DEF PingInv, OpenInv, Pending, Coming
<1>5. FalseHandleInv /\ TrueHandleInv /\ FileInv
  BY <1>1, <1>3 DEF FalseHandleInv, TrueHandleInv, FileInv, Pinging, Writing
<1>6. DeliveredInv /\ WatchInv /\ PolledInv
  BY <1>1, <1>3 DEF DeliveredInv, WatchInv, PolledInv, Watching
<1>7. ExecInv
  BY <1>1, <1>3 DEF ExecInv, Watching, Pending, Coming
<1> QED
  BY <1>2, <1>4, <1>5, <1>6, <1>7 DEF IInv

LEMMA IInvNext == IInv /\ [Next]_vars => IInv'
<1> SUFFICES ASSUME IInv, [Next]_vars PROVE IInv'
  OBVIOUS
<1>1. /\ TypeOK /\ PingInv /\ OpenInv /\ FalseHandleInv /\ TrueHandleInv /\ FileInv
      /\ DeliveredInv /\ ExecInv /\ WatchInv /\ PolledInv
  BY DEF IInv
<1>2. CASE Kick
  <2>1. TypeOK'
    BY <1>1, <1>2, TypeKick
  <2> QED
    BY <1>1, <1>2, <2>1, PingInvKick, OpenInvKick, FalseHandleInvKick, TrueHandleInvKick,
       FileInvKick, DeliveredInvKick, ExecInvKick, WatchInvKick, PolledInvKick DEF IInv
<1>3. CASE Agent
  <2>1. TypeOK'
    BY <1>1, <1>3, TypeAgent
  <2> QED
    BY <1>1, <1>3, <2>1, PingInvAgent, OpenInvAgent, FalseHandleInvAgent, TrueHandleInvAgent,
       FileInvAgent, DeliveredInvAgent, ExecInvAgent, WatchInvAgent, PolledInvAgent DEF IInv
<1>4. CASE UNCHANGED vars
  <2>1. UNCHANGED <<pc, job, handle, offset, pings, polls, requests, replies, late, buffered, disk,
                    process, ran, outcome, unflushed>>
    BY <1>4 DEF vars
  <2>2. TypeOK'
    BY <1>1, <2>1 DEF TypeOK
  <2>3. (PingInv /\ OpenInv /\ FalseHandleInv)'
    BY <1>1, <2>1 DEF PingInv, OpenInv, FalseHandleInv, Pending, Coming, StaleAfter
  <2>4. (TrueHandleInv /\ FileInv)'
    BY <1>1, <2>1 DEF TrueHandleInv, FileInv
  <2>5. DeliveredInv'
    BY <1>1, <2>1 DEF DeliveredInv, Excused, Pending
  <2>6. ExecInv'
    BY <1>1, <2>1 DEF ExecInv, Pending, Coming
  <2>7. (WatchInv /\ PolledInv)'
    BY <1>1, <2>1 DEF WatchInv, PolledInv, Pending, Coming
  <2> QED
    BY <2>2, <2>3, <2>4, <2>5, <2>6, <2>7 DEF IInv
<1> QED
  BY <1>2, <1>3, <1>4 DEF Next

-----------------------------------------------------------------------------
(* The theorems *)

\* The line between client and agent stays in order, for any number of pings,
\* chunks and polls (qga_command and the commands built on it, qemu.py).
THEOREM Inductive == Spec => []IInv
<1>1. Init => IInv
  BY IInvInit
<1>2. IInv /\ [Next]_vars => IInv'
  BY IInvNext
<1> QED
  BY <1>1, <1>2, PTL DEF Spec

\* Every variable keeps its type; among it, whatever the client took for replies to
\* its writes, the agent's file never holds more chunks than skip-wizard.sh has
\* (the loop of qga_guest_file_write, qemu.py).
THEOREM TypeCorrect == Spec => []TypeOK
<1>1. IInv => TypeOK
  BY DEF IInv
<1> QED
  BY <1>1, Inductive, PTL

\* When the kick returns as if the configurator were stubbed, the whole script
\* ran, unless replies were given up or the close failed
\* (qga_guest_file_write, qemu.py:338).
THEOREM ScriptIsDelivered == Spec => []ShortScriptIsExcused
<1>1. IInv => ShortScriptIsExcused
  <2> SUFFICES ASSUME IInv, pc = "done", ~Excused PROVE ran = {Chunks}
    BY DEF ShortScriptIsExcused, Excused
  <2>1. process["script"] = "reported"
    BY DEF IInv, ExecInv
  <2> QED
    BY <2>1 DEF IInv, DeliveredInv
<1> QED
  BY <1>1, Inductive, PTL

\* A guest-exec is judged after its command has exited (qga_guest_exec's loop).
THEOREM JudgedOnlyAfterExit == Spec => []JudgedAfterExit
<1>1. IInv => JudgedAfterExit
  BY DEF IInv, WatchInv, JudgedAfterExit, Watching
<1> QED
  BY <1>1, Inductive, PTL

\* The one report of the script's exit is not missed unless a poll was given up.
THEOREM ReportsAreNotLost == Spec => []ReportIsNotLost
<1>1. IInv => ReportIsNotLost
  <2> SUFFICES ASSUME IInv, pc = "failed", process["script"] = "reported",
                      outcome.ok \/ outcome.prepared, ~(late["status"] > 0)
               PROVE  FALSE
    BY DEF ReportIsNotLost
  <2>1. late["status"] \in Nat
    BY DEF IInv, TypeOK, Ops
  <2>2. late["status"] = 0
    BY <2>1
  <2> QED
    BY <2>2 DEF IInv, PolledInv
<1> QED
  BY <1>1, Inductive, PTL

-----------------------------------------------------------------------------
(* The kick ends *)

\* After the exec there is less to do than before it.
LEMMA ExecsLeftBounds ==
  ASSUME TypeOK
  PROVE  /\ ExecLeft \in 0..(2 * MaxPolls + 3)
         /\ ExecsLeft \in 0..(BeforeExec - 1) /\ BeforeExec \in Nat /\ BeforeWrite \in Nat
<1>1. MaxPolls \in Nat /\ polls \in 0..MaxPolls /\ Chunks \in Nat
  BY Bounds DEF TypeOK
<1>2. MaxPolls - polls \in 0..MaxPolls
  BY <1>1
<1>3. ExecLeft \in 0..(2 * MaxPolls + 3)
  BY <1>1, <1>2 DEF ExecLeft
<1>4. ExecsLeft \in {ExecLeft, ExecLeft + 2 * MaxPolls + 4}
  BY DEF ExecsLeft
<1> HIDE DEF ExecLeft
<1>5. ExecsLeft \in 0..(BeforeExec - 1) /\ BeforeExec \in Nat /\ BeforeWrite \in Nat
  BY <1>1, <1>3, <1>4 DEF BeforeExec, BeforeWrite
<1> QED
  BY <1>3, <1>5

LEMMA ExecsLeftBoundsNext ==
  TypeOK' => /\ ExecLeft' \in 0..(2 * MaxPolls + 3)
             /\ ExecsLeft' \in 0..(BeforeExec - 1)
<1>1. TypeOK => /\ ExecLeft \in 0..(2 * MaxPolls + 3)
                /\ ExecsLeft \in 0..(BeforeExec - 1)
  BY ExecsLeftBounds
<1>2. (TypeOK => /\ ExecLeft \in 0..(2 * MaxPolls + 3)
                 /\ ExecsLeft \in 0..(BeforeExec - 1))'
  BY <1>1, PTL
<1> QED
  BY <1>2 DEF BeforeExec

LEMMA LeftIsNat ==
  ASSUME TypeOK
  PROVE  Left \in Nat
<1>1. /\ MaxPings \in Nat /\ pings \in 0..MaxPings
      /\ Chunks \in Nat /\ offset \in 0..Chunks
  BY Bounds DEF TypeOK
<1>2. MaxPings - pings \in Nat /\ Chunks - offset \in Nat
  BY <1>1
<1>3. ExecsLeft \in Nat /\ BeforeExec \in Nat /\ BeforeWrite \in Nat
  BY ExecsLeftBounds
<1> QED
  BY <1>2, <1>3 DEF Left

LEMMA KickUses ==
  ASSUME TypeOK, TypeOK', FileInv, Kick
  PROVE  Left' < Left
<1>1. /\ MaxPings \in Nat /\ pings \in 0..MaxPings
      /\ Chunks \in Nat /\ offset \in 0..Chunks
      /\ MaxPolls \in Nat /\ polls \in 0..MaxPolls
      /\ job \in {"script", "tty1"}
  BY Bounds DEF TypeOK, Jobs
<1>2. BeforeExec = 4 * MaxPolls + 8 /\ BeforeWrite = BeforeExec + 2 * Chunks + 3
  BY DEF BeforeExec, BeforeWrite
<1>3. pc' \in {"done", "failed"} => Left' = 0
  BY DEF Left, ExecsLeft, ExecLeft, Watching
<1>4. CASE Ping
  <2>1. /\ Left = BeforeWrite + 2 * (MaxPings - pings) + 2
        /\ \/ pings < MaxPings /\ pings' = pings + 1 /\ pc' \in {"ping", "await-ping"}
           \/ pc' = "failed"
    BY <1>4 DEF Ping, Goto, Left
  <2>2. /\ pc' = "ping" => Left' = BeforeWrite + 2 * (MaxPings - pings') + 2
        /\ pc' = "await-ping" => Left' = BeforeWrite + 2 * (MaxPings - pings') + 3
    BY DEF Left, BeforeWrite, BeforeExec
  <2> QED
    BY <1>1, <1>2, <1>3, <2>1, <2>2
<1>5. CASE PingReply \/ PingTimeout
  <2>1. /\ Left = BeforeWrite + 2 * (MaxPings - pings) + 3
        /\ pings' = pings /\ pc' \in {"ping", "open"}
    BY <1>5 DEF PingReply, PingTimeout, Goto, Left, client
  <2>2. /\ pc' = "ping" => Left' = BeforeWrite + 2 * (MaxPings - pings') + 2
        /\ pc' = "open" => Left' = BeforeWrite + 1
    BY DEF Left, BeforeWrite, BeforeExec
  <2> QED
    BY <1>1, <1>2, <2>1, <2>2
<1>6. CASE OpenFile
  <2>1. Left = BeforeWrite + 1 /\ pc' \in {"await-open", "failed"}
    BY <1>6 DEF OpenFile, Goto, Left
  <2>2. pc' = "await-open" => Left' = BeforeWrite
    BY DEF Left, BeforeWrite, BeforeExec
  <2> QED
    BY <1>1, <1>2, <1>3, <2>1, <2>2
<1>7. CASE OpenReply \/ OpenTimeout
  <2>1. Left = BeforeWrite /\ pc' \in {"write", "failed"} /\ offset' = offset
    BY <1>7 DEF OpenReply, OpenTimeout, Goto, Left, client
  <2>2. pc' = "write" => Left' = BeforeExec + 2 * (Chunks - offset') + 2
    BY DEF Left, BeforeExec
  <2> QED
    BY <1>1, <1>2, <1>3, <2>1, <2>2
<1>8. CASE WriteChunk \/ WriteBreaks
  <2>1. /\ Left = BeforeExec + 2 * (Chunks - offset) + 2
        /\ offset' = offset /\ pc' \in {"await-write", "await-close", "failed"}
    BY <1>8 DEF WriteChunk, WriteBreaks, Goto, Left, client
  <2>2. /\ pc' = "await-write" => Left' = BeforeExec + 2 * (Chunks - offset') + 1
        /\ pc' = "await-close" => Left' = BeforeExec + 1
    BY DEF Left, BeforeExec
  <2> QED
    BY <1>1, <1>2, <1>3, <2>1, <2>2
<1>9. CASE WriteReply \/ WriteTimeout
  <2>1. /\ Left = BeforeExec + 2 * (Chunks - offset) + 1 /\ offset < Chunks
        /\ (offset' = offset + 1 /\ pc' = "write") \/ pc' = "abandon"
    BY <1>9 DEF WriteReply, WriteTimeout, Goto, Left, FileInv
  <2>2. /\ pc' = "write" => Left' = BeforeExec + 2 * (Chunks - offset') + 2
        /\ pc' = "abandon" => Left' = BeforeExec + 1
    BY DEF Left, BeforeExec
  <2> QED
    BY <1>1, <1>2, <2>1, <2>2
<1>10. CASE CloseReply \/ CloseTimeout
  <2>1. Left = BeforeExec + 1 /\ pc' \in {"exec", "failed"}
    BY <1>10 DEF CloseReply, CloseTimeout, Goto, Left
  <2>2. pc' = "exec" => Left' = ExecsLeft'
    BY DEF Left
  <2>3. ExecsLeft' \in 0..(BeforeExec - 1)
    BY ExecsLeftBoundsNext
  <2> QED
    BY <1>1, <1>2, <1>3, <2>1, <2>2, <2>3
<1>11. ASSUME pc \in Watching \cup {"exec", "await-pid"}
       PROVE  Left = IF job = "script" THEN ExecLeft + 2 * MaxPolls + 4 ELSE ExecLeft
  BY <1>11 DEF Left, ExecsLeft, Watching
<1>12. ASSUME pc' \in Watching \cup {"exec", "await-pid"}
       PROVE  Left' = IF job' = "script" THEN ExecLeft' + 2 * MaxPolls + 4 ELSE ExecLeft'
  BY <1>12 DEF Left, ExecsLeft, Watching
<1>13. ExecLeft \in 0..(2 * MaxPolls + 3) /\ ExecLeft' \in 0..(2 * MaxPolls + 3)
  BY ExecsLeftBounds, ExecsLeftBoundsNext
<1>14. ASSUME pc \in Watching \cup {"exec", "await-pid"},
              \/ job' = job /\ ExecLeft' < ExecLeft /\ pc' \in Watching \cup {"exec", "await-pid"}
              \/ pc' \in {"done", "failed"} /\ ExecLeft > 0
       PROVE  Left' < Left
  BY <1>1, <1>3, <1>11, <1>12, <1>13, <1>14
<1>15. CASE StartExec
  <2>1. /\ pc = "exec" /\ job' = job /\ ExecLeft = 2 * MaxPolls + 3
        /\ pc' \in {"await-pid", "done", "failed"}
    BY <1>15 DEF StartExec, ExecNone, Goto, ExecLeft, client
  <2>2. pc' = "await-pid" => ExecLeft' = 2 * MaxPolls + 2
    BY DEF ExecLeft
  <2> QED
    BY <1>1, <1>14, <2>1, <2>2
<1>16. CASE PidReply \/ PidTimeout
  <2>1. /\ pc = "await-pid" /\ job' = job /\ ExecLeft = 2 * MaxPolls + 2
        /\ (pc' = "status" /\ polls' = 0) \/ pc' \in {"done", "failed"}
    BY <1>16 DEF PidReply, PidTimeout, ExecNone, Goto, ExecLeft, client
  <2>2. pc' = "status" => ExecLeft' = 2 * (MaxPolls - polls') + 1
    BY DEF ExecLeft
  <2> QED
    BY <1>1, <1>14, <2>1, <2>2 DEF Watching
<1>17. CASE Poll
  <2>1. /\ pc = "status" /\ job' = job /\ ExecLeft = 2 * (MaxPolls - polls) + 1
        /\ \/ polls' = polls + 1 /\ pc' \in {"status", "await-status"}
           \/ pc' \in {"done", "failed"}
    BY <1>17 DEF Poll, ExecNone, Goto, ExecLeft
  <2>2. /\ pc' = "status" => ExecLeft' = 2 * (MaxPolls - polls') + 1
        /\ pc' = "await-status" => ExecLeft' = 2 * (MaxPolls - polls') + 2
    BY DEF ExecLeft
  <2> QED
    BY <1>1, <1>14, <2>1, <2>2 DEF Watching
<1>18. CASE StatusReply \/ StatusTimeout
  <2>1. /\ pc = "await-status" /\ job' = job /\ polls' = polls
        /\ ExecLeft = 2 * (MaxPolls - polls) + 2
        /\ pc' \in {"status", "judge", "done", "failed"}
    BY <1>18 DEF StatusReply, StatusTimeout, ExecNone, Goto, ExecLeft, client
  <2>2. /\ pc' = "status" => ExecLeft' = 2 * (MaxPolls - polls') + 1
        /\ pc' = "judge" => ExecLeft' = 1
    BY DEF ExecLeft
  <2> QED
    BY <1>1, <1>14, <2>1, <2>2 DEF Watching
<1>19. CASE Judge
  <2>1. /\ pc = "judge" /\ ExecLeft = 1
        /\ \/ pc' \in {"done", "failed"}
           \/ pc' = "exec" /\ job = "script" /\ job' = "tty1"
    BY <1>19 DEF Judge, Goto, ExecLeft
  <2>2. CASE pc' = "exec" /\ job = "script" /\ job' = "tty1"
    <3>1. ExecLeft' = 2 * MaxPolls + 3
      BY <2>2 DEF ExecLeft
    <3>2. Left = 1 + 2 * MaxPolls + 4
      BY <1>11, <2>1, <2>2 DEF Watching
    <3>3. Left' = 2 * MaxPolls + 3
      BY <1>12, <2>2, <3>1
    <3> QED
      BY <1>1, <3>2, <3>3
  <2> QED
    BY <1>1, <1>14, <2>1, <2>2 DEF Watching
<1> QED
  BY <1>4, <1>5, <1>6, <1>7, <1>8, <1>9, <1>10, <1>15, <1>16, <1>17, <1>18, <1>19 DEF Kick

\* The kick has at most as many steps as the counts of wait_qga,
\* qga_guest_file_write and qga_guest_exec allow, whatever the agent does.
THEOREM KickIsFinite == Spec => KickUsesItUp
<1>1. TypeOK => Left \in Nat
  BY LeftIsNat
<1>2. (TypeOK => Left \in Nat)'
  BY <1>1, PTL
<1>3. ASSUME IInv, Next
      PROVE  Left' \in Nat /\ (Kick => Left' < Left) /\ (Agent => Left' = Left)
  <2>1. TypeOK /\ FileInv /\ TypeOK'
    BY <1>3, IInvNext DEF IInv
  <2>2. Agent => Left' = Left
    BY DEF Agent, client, Left, ExecsLeft, ExecLeft, BeforeWrite, BeforeExec
  <2> QED
    BY <1>2, <2>1, <2>2, KickUses
<1>4. IInv /\ [Next]_vars
        => [Left' \in Nat /\ (Kick => Left' < Left) /\ (Agent => Left' = Left)]_vars
  BY <1>3
<1> QED
  BY <1>4, Inductive, PTL DEF Spec, KickUsesItUp
=============================================================================
