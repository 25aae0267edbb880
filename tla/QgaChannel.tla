----------------------------- MODULE QgaChannel -----------------------------
(***************************************************************************)
(* qemu-ga's virtio port as kick_omarchy3_skip_wizard uses it: pings until *)
(* the agent answers, one guest-file-write of skip-wizard.sh, one          *)
(* guest-exec of it with its status polls, perhaps a second guest-exec.    *)
(*                                                                         *)
(* The port outlives the connections made to it, replies carry no id and   *)
(* nobody sends guest-sync.  The agent works off its requests in order.  A *)
(* reply that comes after its client has timed out is lost, or is the      *)
(* first thing the next client reads.                                      *)
(*                                                                         *)
(* Simplifications:                                                        *)
(*   - a reply is what the clients can tell apart in it;                   *)
(*   - a chunk is written as a whole or refused;                           *)
(*   - deadlines are bounds on the number of pings and polls, and may also *)
(*     pass earlier;                                                       *)
(*   - timeout.png and qmp-timeout.png, taken before an error is raised,   *)
(*     are left out.                                                       *)
(***************************************************************************)
EXTENDS Naturals, Sequences

CONSTANTS
  MaxPings,   \* attempts of wait_qga
  Chunks,     \* chunks of QGA_FILE_WRITE_CHUNK in skip-wizard.sh
  MaxPolls    \* bound on the guest-exec-status polls of one guest-exec

ASSUME BoundsAssumption == {MaxPings, Chunks, MaxPolls} \subseteq Nat \ {0}

VARIABLES
  pc,         \* where kick_omarchy3_skip_wizard is
  job,        \* the command of the guest-exec under way
  pings,      \* attempts of wait_qga
  handle,     \* the local `handle`: the agent's integer, or what came instead
  offset,     \* the local `offset`, in chunks
  polls,      \* status polls of this guest-exec
  requests,   \* requests the agent has not taken yet
  replies,    \* replies no client has read yet
  late,       \* history: for each operation, calls that gave up on a reply
  buffered,   \* chunks written through the agent's open file
  disk,       \* chunks a reader of the file sees: {n}, {} while there is no
              \* file, 0..n while it may be any part of n chunks
  process,    \* the two commands as processes of the guest
  ran,        \* history: what `disk` was when the script was started
  outcome,    \* what the script exited with and printed
  unflushed   \* history: the close of the file was answered with an error

vars == <<pc, job, pings, handle, offset, polls, requests, replies, late,
          buffered, disk, process, ran, outcome, unflushed>>

client == <<job, pings, handle, offset, polls>>
guest  == <<buffered, disk, process, ran, outcome, unflushed>>

-----------------------------------------------------------------------------
Jobs == {"script", "tty1"}
Ops  == {"ping", "open", "write", "close", "exec", "status"}

\* A request's argument: the job of an exec or a status, or the handle of a
\* write or a close.
Request(op, arg) == [op |-> op, arg |-> arg]
RequestRecord == [op: Ops, arg: Jobs \cup {"none", "int", "dict"}]

\* "empty" is {"return": {}}; "handle" an integer; "count", "pid", "running"
\* and "exited" objects with that content; "error" an error object.
Bodies == {"empty", "handle", "count", "pid", "running", "exited", "error"}

\* Exit status 0 or not, and whether the output has one of the phrases of
\* _omarchy3_skip_wizard_prepared.
Outcomes == [ok: BOOLEAN, prepared: BOOLEAN]
NoOutcome == [ok |-> FALSE, prepared |-> FALSE]

\* What skip-wizard.sh can do, by how much of it there is: nothing at all
\* fails the chmod; an empty file succeeds and prints nothing; a truncated
\* one may do anything; the whole script prints a phrase wherever it exits 0.
OutcomesOf(content) ==
  CASE content = {}       -> {NoOutcome}
    [] content = {0}      -> {[ok |-> TRUE, prepared |-> FALSE]}
    [] content = {Chunks} -> {o \in Outcomes : o.ok => o.prepared}
    [] OTHER              -> Outcomes

Init ==
  /\ pc = "ping"
  /\ job = "script"
  /\ pings = 0
  /\ handle = "none"
  /\ offset = 0
  /\ polls = 0
  /\ requests = <<>>
  /\ replies = <<>>
  /\ late = [op \in Ops |-> 0]
  /\ buffered = 0
  /\ disk = {}
  /\ process = [j \in Jobs |-> "none"]
  /\ ran = {}
  /\ outcome = NoOutcome
  /\ unflushed = FALSE

-----------------------------------------------------------------------------
\* Using the socket.

Goto(p) == pc' = p

Send(op, arg) == requests' = Append(requests, Request(op, arg))

\* _recv_json_line returns the first line of what has arrived and drops the
\* other lines that arrived with it.
Receive(body) ==
  /\ replies # <<>>
  /\ Head(replies) = body
  /\ \E n \in 2..Len(replies) + 1 : replies' = SubSeq(replies, n, Len(replies))

\* Closing the connection.  Requests QEMU has not read are lost, and so are
\* replies that had reached the socket.
Disconnect(reqs, reps) ==
  /\ \E n \in 0..Len(reqs) : requests' = SubSeq(reqs, 1, n)
  /\ \E n \in 1..Len(reps) + 1 : replies' = SubSeq(reps, n, Len(reps))

\* The reply that ends a connection.
ReceiveLast(body) ==
  /\ replies # <<>>
  /\ Head(replies) = body
  /\ Disconnect(requests, Tail(replies))

\* No reply within the socket's timeout.
Late(op) == /\ late' = [late EXCEPT ![op] = @ + 1]
            /\ Disconnect(requests, replies)

NoUse == UNCHANGED <<requests, replies>>

-----------------------------------------------------------------------------
\* wait_qga.

\* A ping is sent; or the socket refuses and the loop naps; or QEMU is gone,
\* the attempts are used up or the deadline has passed.
Ping ==
  /\ pc = "ping"
  /\ \/ /\ pings < MaxPings
        /\ pings' = pings + 1
        /\ \/ Send("ping", "none") /\ Goto("await-ping") /\ UNCHANGED replies
           \/ UNCHANGED pc /\ NoUse
     \/ Goto("failed") /\ UNCHANGED pings /\ NoUse
  /\ UNCHANGED <<job, handle, offset, polls, late, guest>>

\* Any reply that is not an error has a "return".
PingReply ==
  /\ pc = "await-ping"
  /\ \/ \E body \in Bodies \ {"error"} : ReceiveLast(body) /\ Goto("open")
     \/ ReceiveLast("error") /\ Goto("ping")
  /\ UNCHANGED <<client, late, guest>>

PingTimeout ==
  /\ pc = "await-ping"
  /\ Late("ping")
  /\ Goto("ping")
  /\ UNCHANGED <<client, guest>>

-----------------------------------------------------------------------------
\* qga_guest_file_write: open, write and close on one connection.

OpenFile ==
  /\ pc = "open"
  /\ \/ Send("open", "none") /\ Goto("await-open") /\ UNCHANGED replies
     \/ Goto("failed") /\ NoUse
  /\ UNCHANGED <<client, late, guest>>

\* Whatever the first reply holds is the handle.
OpenReply ==
  /\ pc = "await-open"
  /\ \/ /\ \E body \in Bodies \ {"error"} :
             Receive(body) /\ handle' = IF body = "handle" THEN "int" ELSE "dict"
        /\ Goto("write")
        /\ UNCHANGED requests
     \/ ReceiveLast("error") /\ Goto("failed") /\ UNCHANGED handle
  /\ UNCHANGED <<job, pings, offset, polls, late, guest>>

OpenTimeout ==
  /\ pc = "await-open"
  /\ Late("open")
  /\ Goto("failed")
  /\ UNCHANGED <<client, guest>>

\* Mutant: one chunk more than there is data (`<=` for `<`).
WriteChunkOffByOne ==
  /\ pc = "write"
  /\ IF offset <= Chunks
     THEN Send("write", handle) /\ Goto("await-write")
     ELSE Send("close", handle) /\ Goto("await-close")
  /\ UNCHANGED <<client, replies, late, guest>>

\* The while loop: the next chunk, or after the last one the finally's close.
WriteChunk ==
  /\ pc = "write"
  /\ IF offset < Chunks
     THEN Send("write", handle) /\ Goto("await-write")
     ELSE Send("close", handle) /\ Goto("await-close")
  /\ UNCHANGED <<client, replies, late, guest>>

\* The chunk or the close cannot be sent: an OSError, and the write gives up.
WriteBreaks ==
  /\ pc = "write"
  /\ Disconnect(requests, replies)
  /\ Goto("failed")
  /\ UNCHANGED <<client, late, guest>>

\* Mutant: an error object counts as a chunk written.
WriteReplyUnchecked ==
  /\ pc = "await-write"
  /\ \/ /\ \E body \in Bodies \ {"handle"} : Receive(body)
        /\ offset' = offset + 1
        /\ Goto("write")
        /\ UNCHANGED requests
     \/ /\ Receive("handle")
        /\ Send("close", handle)
        /\ Goto("abandon")
        /\ UNCHANGED offset
  /\ UNCHANGED <<job, pings, handle, polls, late, guest>>

\* The chunk counts as written if the reply is an object, with or without a
\* count; an integer has no `get` and the AttributeError leaves the function.
\* After a failure the finally still sends the close.
WriteReply ==
  /\ pc = "await-write"
  /\ \/ /\ \E body \in Bodies \ {"error", "handle"} : Receive(body)
        /\ offset' = offset + 1
        /\ Goto("write")
        /\ UNCHANGED requests
     \/ /\ \E body \in {"error", "handle"} : Receive(body)
        /\ Send("close", handle)
        /\ Goto("abandon")
        /\ UNCHANGED offset
  /\ UNCHANGED <<job, pings, handle, polls, late, guest>>

WriteTimeout ==
  /\ pc = "await-write"
  /\ late' = [late EXCEPT !["write"] = @ + 1]
  /\ Send("close", handle)
  /\ Goto("abandon")
  /\ UNCHANGED <<client, replies, guest>>

\* The reply to the close is read, or not waited for any longer, and ignored.
\* "abandon" is the same close on the way out of a failure.
CloseReply ==
  /\ pc \in {"await-close", "abandon"}
  /\ \E body \in Bodies : ReceiveLast(body)
  /\ Goto(IF pc = "abandon" THEN "failed" ELSE "exec")
  /\ UNCHANGED <<client, late, guest>>

\* Mutant: the close of a complete write waits for its reply.
CloseTimeoutOnlyOnFailure ==
  /\ pc = "abandon"
  /\ Late("close")
  /\ Goto("failed")
  /\ UNCHANGED <<client, guest>>

CloseTimeout ==
  /\ pc \in {"await-close", "abandon"}
  /\ Late("close")
  /\ Goto(IF pc = "abandon" THEN "failed" ELSE "exec")
  /\ UNCHANGED <<client, guest>>

-----------------------------------------------------------------------------
\* qga_guest_exec, of the script and then of the kill of tty1.

\* None: an error of the kick for the script, ignored for the second job.
ExecNone == Goto(IF job = "script" THEN "failed" ELSE "done")

StartExec ==
  /\ pc = "exec"
  /\ \/ Send("exec", job) /\ Goto("await-pid") /\ UNCHANGED replies
     \/ ExecNone /\ NoUse
  /\ UNCHANGED <<client, late, guest>>

\* Only a reply with a pid will do.
PidReply ==
  /\ pc = "await-pid"
  /\ \/ ReceiveLast("pid") /\ polls' = 0 /\ Goto("status")
     \/ /\ \E body \in Bodies \ {"pid"} : ReceiveLast(body)
        /\ ExecNone
        /\ UNCHANGED polls
  /\ UNCHANGED <<job, pings, handle, offset, late, guest>>

PidTimeout ==
  /\ pc = "await-pid"
  /\ Late("exec")
  /\ ExecNone
  /\ UNCHANGED <<client, guest>>

\* Mutant: the deadline begins anew with each poll.
PollWithNewDeadline ==
  /\ pc = "status"
  /\ \/ Send("status", job) /\ Goto("await-status") /\ UNCHANGED replies
     \/ UNCHANGED pc /\ NoUse
     \/ ExecNone /\ NoUse
  /\ UNCHANGED <<client, late, guest>>

\* Another poll, one whose connection fails, or the deadline.
Poll ==
  /\ pc = "status"
  /\ \/ /\ polls < MaxPolls
        /\ polls' = polls + 1
        /\ \/ Send("status", job) /\ Goto("await-status") /\ UNCHANGED replies
           \/ UNCHANGED pc /\ NoUse
     \/ ExecNone /\ UNCHANGED polls /\ NoUse
  /\ UNCHANGED <<job, pings, handle, offset, late, guest>>

\* Mutant: the reply is taken for the outcome without a look at "exited".
StatusReplyUnread ==
  /\ pc = "await-status"
  /\ \/ ReceiveLast("running") /\ Goto("judge")
     \/ ReceiveLast("error") /\ ExecNone
     \/ ReceiveLast("exited") /\ Goto("judge")
  /\ UNCHANGED <<client, late, guest>>

\* Mutant: `exitcode` is looked at for `exited`, and 0 is no exit.
StatusReplyByCode ==
  /\ pc = "await-status"
  /\ \/ ReceiveLast("running") /\ Goto("status")
     \/ ReceiveLast("error") /\ ExecNone
     \/ ReceiveLast("exited") /\ Goto(IF outcome.ok THEN "status" ELSE "judge")
  /\ UNCHANGED <<client, late, guest>>

\* "exited" gives the outcome, an error gives up, any other object (only
\* "running" can come, once the pid is known) is "not yet".
StatusReply ==
  /\ pc = "await-status"
  /\ \/ ReceiveLast("running") /\ Goto("status")
     \/ ReceiveLast("error") /\ ExecNone
     \/ ReceiveLast("exited") /\ Goto("judge")
  /\ UNCHANGED <<client, late, guest>>

StatusTimeout ==
  /\ pc = "await-status"
  /\ Late("status")
  /\ Goto("status")
  /\ UNCHANGED <<client, guest>>

\* kick_omarchy3_skip_wizard on the result: status 0 is taken as it is; any
\* other needs one of the phrases, and then tty1 is killed from here.
Judge ==
  /\ pc = "judge"
  /\ \/ job = "tty1" /\ Goto("done") /\ UNCHANGED job
     \/ job = "script" /\ outcome.ok /\ Goto("done") /\ UNCHANGED job
     \/ /\ job = "script" /\ ~outcome.ok
        /\ IF outcome.prepared THEN Goto("exec") /\ job' = "tty1"
                               ELSE Goto("failed") /\ UNCHANGED job
  /\ UNCHANGED <<pings, handle, offset, polls, requests, replies, late, guest>>

-----------------------------------------------------------------------------
\* qemu-ga and the guest.

\* The agent may refuse any command.  A reply is handed to the port; without a
\* connected client it may be lost.
Connected == pc \in {"await-ping", "await-open", "await-write", "write",
                     "await-close", "abandon", "await-pid", "await-status"}

Answer(body) ==
  /\ requests' = Tail(requests)
  /\ \/ replies' = Append(replies, body)
     \/ ~Connected /\ UNCHANGED replies

Takes(op) == requests # <<>> /\ Head(requests).op = op

AgentPings ==
  /\ Takes("ping")
  /\ Answer("empty") \/ Answer("error")
  /\ UNCHANGED guest

\* Mode "w+" truncates.
AgentOpens ==
  /\ Takes("open")
  /\ \/ Answer("handle") /\ disk' = {0} /\ buffered' = 0
     \/ Answer("error") /\ UNCHANGED <<disk, buffered>>
  /\ UNCHANGED <<process, ran, outcome, unflushed>>

\* A handle that is no integer is refused.  What is written shows in the file
\* when the handle is closed, or before, or a part of it before.
AgentWrites ==
  /\ Takes("write")
  /\ \/ /\ Head(requests).arg = "int"
        /\ Answer("count")
        /\ buffered' = buffered + 1
        /\ disk' \in {disk, {buffered'}, 0..buffered'}
     \/ Answer("error") /\ UNCHANGED <<disk, buffered>>
  /\ UNCHANGED <<process, ran, outcome, unflushed>>

\* The close writes out what is still buffered; where that fails (a full disk)
\* the file stays as it was or gets a part, and the reply is an error.
AgentCloses ==
  /\ Takes("close")
  /\ \/ /\ Head(requests).arg = "int"
        /\ \/ /\ Answer("empty")
              /\ disk' = {buffered}
              /\ UNCHANGED unflushed
           \/ /\ Answer("error")
              /\ disk' \in {disk, {buffered}, 0..buffered}
              /\ unflushed' = TRUE
     \/ Head(requests).arg # "int" /\ Answer("error") /\ UNCHANGED <<disk, unflushed>>
  /\ UNCHANGED <<buffered, process, ran, outcome>>

AgentStarts ==
  /\ Takes("exec")
  /\ \/ /\ Answer("pid")
        /\ process' = [process EXCEPT ![Head(requests).arg] = "running"]
        /\ ran' = IF Head(requests).arg = "script" THEN disk ELSE ran
     \/ Answer("error") /\ UNCHANGED <<process, ran>>
  /\ UNCHANGED <<buffered, disk, outcome, unflushed>>

\* The status of an exited process is reported once and then forgotten.
AgentReports ==
  /\ Takes("status")
  /\ LET j == Head(requests).arg
     IN \/ process[j] = "running" /\ Answer("running") /\ UNCHANGED process
        \/ /\ process[j] = "exited"
           /\ Answer("exited")
           /\ process' = [process EXCEPT ![j] = "reported"]
        \/ process[j] \in {"none", "reported"} /\ Answer("error") /\ UNCHANGED process
  /\ UNCHANGED <<buffered, disk, ran, outcome, unflushed>>

ProcessExits(j) ==
  /\ process[j] = "running"
  /\ process' = [process EXCEPT ![j] = "exited"]
  /\ IF j = "script" THEN outcome' \in OutcomesOf(ran) ELSE UNCHANGED outcome
  /\ UNCHANGED <<requests, replies, buffered, disk, ran, unflushed>>

Agent ==
  /\ \/ AgentPings \/ AgentOpens \/ AgentWrites \/ AgentCloses \/ AgentStarts
     \/ AgentReports
     \/ \E j \in Jobs : ProcessExits(j)
  /\ UNCHANGED <<pc, client, late>>

-----------------------------------------------------------------------------
Kick ==
  \/ Ping \/ PingReply \/ PingTimeout
  \/ OpenFile \/ OpenReply \/ OpenTimeout
  \/ WriteChunk \/ WriteBreaks \/ WriteReply \/ WriteTimeout \/ CloseReply \/ CloseTimeout
  \/ StartExec \/ PidReply \/ PidTimeout \/ Poll \/ StatusReply \/ StatusTimeout
  \/ Judge

Next == Kick \/ Agent

Spec == Init /\ [][Next]_vars

\* The program proceeds: every recv has a timeout.  Nothing is assumed of the
\* agent.
FairSpec == Spec /\ WF_vars(Kick)
-----------------------------------------------------------------------------
Contents == {{}} \cup {{n} : n \in 0..Chunks} \cup {0..n : n \in 0..Chunks}

TypeOK ==
  /\ pc \in {"ping", "await-ping", "open", "await-open", "write", "await-write",
             "await-close", "abandon", "exec", "await-pid", "status",
             "await-status", "judge", "done", "failed"}
  /\ job \in Jobs
  /\ pings \in 0..MaxPings /\ offset \in 0..Chunks /\ polls \in 0..MaxPolls
  /\ handle \in {"none", "int", "dict"}
  /\ requests \in Seq(RequestRecord) /\ replies \in Seq(Bodies)
  /\ late \in [Ops -> Nat]
  /\ buffered \in 0..Chunks
  /\ disk \in Contents /\ ran \in Contents
  /\ process \in [Jobs -> {"none", "running", "exited", "reported"}]
  /\ outcome \in Outcomes
  /\ unflushed \in BOOLEAN

\* When the kick returns as if the configurator were stubbed, the whole script
\* ran - unless the close of its file went unanswered, or was answered with an
\* error (both are ignored, qemu.py:371), or so many pings were given up that
\* their replies could stand in for those to the open and to every write
\* (qga_guest_file_write takes any object for an answer, qemu.py:358; a script
\* that does nothing exits 0).
ShortScriptIsExcused ==
  pc = "done" /\ ran # {Chunks} =>
    late["close"] > 0 \/ unflushed \/ late["ping"] > Chunks

\* The kick judges, and kills tty1 or goes on to the installation, only after
\* the command it judges has exited, and nothing of it can be reported again
\* (qga_guest_exec's loop, qemu.py:281).
JudgedAfterExit == pc = "judge" => process[job] = "reported"

\* The agent reports an exit once.  If the script has done its work and that
\* was reported, the kick fails only when a poll was given up.
ReportIsNotLost ==
  pc = "failed" /\ process["script"] = "reported" /\ (outcome.ok \/ outcome.prepared)
    => late["status"] > 0

\* Whatever the agent does, the kick ends (every recv has a timeout, wait_qga
\* an attempt limit, the polls a deadline).
KickEnds == <>(pc \in {"done", "failed"})

-----------------------------------------------------------------------------
(* The inductive invariant behind the safety properties.  The port is a     *)
(* line of requests and replies that the agent and the client work off in   *)
(* order, so the positions in it tell what can still be mistaken for what.  *)

Pending(ops) == \A i \in 1..Len(requests) : requests[i].op \in ops
Coming(bodies) == \A i \in 1..Len(replies) : replies[i] \in bodies

\* When n replies to given-up pings were taken for others, the rest of them
\* are among the next late["ping"] - n.
StaleAfter(n) ==
  /\ \A i \in 1..Len(requests) :
       requests[i].op = "ping" => Len(replies) + i + n <= late["ping"]
  /\ \A i \in 1..Len(replies) : replies[i] = "empty" => i + n <= late["ping"]

Pinging == {"ping", "await-ping", "open"}
Writing == {"write", "await-write", "await-close"}
Watching == {"status", "await-status", "judge"}

\* Every reply on its way is one to a ping, and one was given up for each.
PingInv ==
  pc \in Pinging =>
    /\ Pending({"ping"}) /\ Coming({"empty", "error"})
    /\ Len(requests) + Len(replies) <= late["ping"] + IF pc = "await-ping" THEN 1 ELSE 0

\* The handle is the last reply: once it is read the port is silent.
OpenInv ==
  pc = "await-open" =>
    /\ Pending({"ping", "open"}) /\ Coming({"empty", "error", "handle"})
    /\ \A i \in 1..Len(requests) : requests[i].op = "open" => i = Len(requests)
    /\ \A i \in 1..Len(replies) : replies[i] = "handle" => i = Len(replies) /\ requests = <<>>
    /\ StaleAfter(0)

\* With the reply to a ping for a handle every write is refused, and only the
\* replies to further pings pass for those to the writes.
FalseHandleInv ==
  pc \in Writing /\ handle = "dict" =>
    /\ Pending({"ping", "open", "write", "close"}) /\ Coming({"empty", "error", "handle"})
    /\ \A i \in 1..Len(requests) :
         requests[i].op \in {"write", "close"} => requests[i].arg = "dict"
    /\ 1 + offset <= late["ping"] /\ StaleAfter(1 + offset)

\* With the agent's handle every reply is the one that was asked for.
TrueHandleInv ==
  handle = "int" =>
    /\ pc = "write" => requests = <<>> /\ replies = <<>> /\ buffered = offset
    /\ pc = "await-write" =>
         \/ requests = <<Request("write", "int")>> /\ replies = <<>> /\ buffered = offset
         \/ requests = <<>> /\ replies = <<"count">> /\ buffered = offset + 1
         \/ requests = <<>> /\ replies = <<"error">> /\ buffered = offset
    /\ pc = "await-close" =>
         \/ requests = <<Request("close", "int")>> /\ replies = <<>> /\ buffered = Chunks
         \/ requests = <<>> /\ replies = <<"empty">> /\ disk = {Chunks}
         \/ requests = <<>> /\ replies = <<"error">> /\ unflushed

FileInv ==
  /\ pc \in Pinging \cup {"await-open"} => handle = "none" /\ offset = 0 /\ buffered = 0
  /\ pc \in Writing => handle \in {"int", "dict"}
  /\ pc = "await-write" => offset < Chunks
  /\ pc = "await-close" => offset = Chunks
  /\ \A i \in 1..Len(requests) :
       requests[i] = Request("write", "int") => i = 1 /\ buffered < Chunks

\* What may stand for the file having been written.
Excused == late["close"] > 0 \/ unflushed \/ late["ping"] > Chunks

\* From the exec on the whole script is on the disk, and is what runs.
DeliveredInv ==
  pc \in Watching \cup {"exec", "await-pid", "done"} =>
    \/ Excused
    \/ /\ disk = {Chunks}
       /\ Pending({"exec", "status"})
       /\ process["script"] # "none" => ran = {Chunks}

\* The pid is the last reply, as the handle was.  Each command is started once,
\* the second when the first was reported.
ExecInv ==
  /\ \A i \in 1..Len(requests) : requests[i].op = "exec" => requests[i].arg = job
  /\ pc \notin {"await-pid", "done", "failed"} => Coming(Bodies \ {"pid"})
  /\ pc \notin {"await-pid", "failed"} /\ (pc = "done" => job = "script") => Pending(Ops \ {"exec"})
  /\ pc = "await-pid" =>
       /\ \A i \in 1..Len(requests) : requests[i].op = "exec" => i = Len(requests)
       /\ \A i \in 1..Len(replies) :
            replies[i] = "pid" => i = Len(replies) /\ requests = <<>> /\ process[job] # "none"
  /\ pc \notin Watching \cup {"done", "failed"} =>
       /\ process[job] = "none" \/ (pc = "await-pid" /\ process[job] # "reported")
       /\ \A i \in 1..Len(requests) :
            requests[i].op = "status" => job = "tty1" /\ requests[i].arg = "script"
  /\ job = "script" => process["tty1"] = "none"
  /\ job = "tty1" \/ pc = "done" => process["script"] = "reported"
  /\ job = "tty1" => pc \in Watching \cup {"exec", "await-pid", "done"}

\* Between the pid and the judgement the port speaks of the job alone.
WatchInv ==
  pc \in Watching =>
    /\ \A i \in 1..Len(requests) : requests[i] = Request("status", job)
    /\ Coming({"running", "exited", "error"})
    /\ \A i \in 1..Len(replies) : replies[i] = "exited" => process[job] = "reported"
    /\ process[job] # "none"
    /\ pc = "judge" => process[job] = "reported"

\* While no poll was given up, each has its reply and the exit is not missed.
PolledInv ==
  late["status"] = 0 =>
    /\ pc = "status" => requests = <<>> /\ replies = <<>> /\ process[job] # "reported"
    /\ pc = "await-status" =>
         \/ requests = <<Request("status", job)>> /\ replies = <<>> /\ process[job] # "reported"
         \/ requests = <<>> /\ replies = <<"running">> /\ process[job] # "reported"
         \/ requests = <<>> /\ replies = <<"exited">>
    /\ pc = "judge" => requests = <<>>
    /\ pc = "failed" =>
         /\ Pending(Ops \ {"status"})
         /\ process["script"] = "reported" => ~outcome.ok /\ ~outcome.prepared

IInv == /\ TypeOK /\ PingInv /\ OpenInv /\ FalseHandleInv /\ TrueHandleInv /\ FileInv
        /\ DeliveredInv /\ ExecInv /\ WatchInv /\ PolledInv

-----------------------------------------------------------------------------
(* Why the kick ends: each step of it uses up some of what is left to do, and *)
(* nothing the agent does gives any of it back.                               *)

\* What is left of a guest-exec, and of the whole from the exec on.
ExecLeft ==
  CASE pc = "exec"         -> 2 * MaxPolls + 3
    [] pc = "await-pid"    -> 2 * MaxPolls + 2
    [] pc = "status"       -> 2 * (MaxPolls - polls) + 1
    [] pc = "await-status" -> 2 * (MaxPolls - polls) + 2
    [] pc = "judge"        -> 1
    [] OTHER               -> 0
ExecsLeft ==
  IF pc \in Watching \cup {"exec", "await-pid"} /\ job = "script"
  THEN ExecLeft + 2 * MaxPolls + 4
  ELSE ExecLeft

BeforeExec == 4 * MaxPolls + 8
BeforeWrite == BeforeExec + 2 * Chunks + 3

Left ==
  CASE pc = "ping"        -> BeforeWrite + 2 * (MaxPings - pings) + 2
    [] pc = "await-ping"  -> BeforeWrite + 2 * (MaxPings - pings) + 3
    [] pc = "open"        -> BeforeWrite + 1
    [] pc = "await-open"  -> BeforeWrite
    [] pc = "write"       -> BeforeExec + 2 * (Chunks - offset) + 2
    [] pc = "await-write" -> BeforeExec + 2 * (Chunks - offset) + 1
    [] pc \in {"await-close", "abandon"} -> BeforeExec + 1
    [] OTHER              -> ExecsLeft

\* The kick takes at most as many steps as it starts with in Left, whatever the
\* agent answers and however often it has to ask again: the loops of wait_qga,
\* qga_guest_file_write and qga_guest_exec (qemu.py:280, 338, image_build.py:436)
\* are bounded, and none of them is entered again with a fresh bound but the
\* polls of the second guest-exec.
KickUsesItUp == [][Left' \in Nat /\ (Kick => Left' < Left) /\ (Agent => Left' = Left)]_vars
=============================================================================
