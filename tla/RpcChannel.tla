----------------------------- MODULE RpcChannel -----------------------------
(***************************************************************************)
(* Channel 1 of the core boundary (ipc/core1_rpc.cpp, the transport half   *)
(* of core1/rpc_server.cpp): Core 0 posts a request, Core 1 serves one at  *)
(* a time between planner runs, and the reply comes back on a second       *)
(* queue.  A synchronous call gives up after RPC_CALL_TIMEOUT_MS; a probe  *)
(* leg is started and polled for.  What is given up stays in the queues    *)
(* and is served and answered late.                                        *)
(***************************************************************************)
EXTENDS Naturals, Sequences

CONSTANTS NodeCmds,   \* CMD_* that go to a node
          Nodes,      \* bus addresses that answer
          Broadcast,  \* BUS_ADDR_BROADCAST
          Local,      \* the node field of a request Core 1 serves itself
          Depth,      \* RPC_QUEUE_DEPTH
          IdMax       \* the largest request id, 2^16 - 1

ASSUME RpcAssumption ==
  /\ Depth \in Nat \ {0} /\ IdMax \in Nat \ {0}
  /\ "MAKE_SAFE" \in NodeCmds
  /\ NodeCmds \cap {"STEP_DEBUG", "PROBE_LEG", "NONE"} = {}
  /\ Broadcast \notin Nodes /\ Local \notin Nodes \cup {Broadcast}

VARIABLES
  reqQ, repQ,      \* s_reqQ, s_repQ
  nextId,          \* s_nextId
  inFlight,        \* s_inFlight
  live,            \* s_liveId, s_liveCmd, s_liveNode
  call,            \* the synchronous call Core 0 is polling for
  legId,           \* the probe leg Core 0 polls for between commands, or 0
  answer,          \* how the last call or leg ended on Core 0
  serving,         \* the request Core 1 is serving
  motion           \* Core 1 is inside processPlanner and serves nothing

rpcVars == <<reqQ, repQ, nextId, inFlight, live, call, legId,
             answer, serving, motion>>

Cmds == NodeCmds \cup {"STEP_DEBUG", "PROBE_LEG"}
Addresses == Nodes \cup {Broadcast, Local}
Results == {"OK", "TIMEOUT", "NAK", "BAD_REPLY"}

\* `stale` is history: Core 0 gave this request up. No step reads it.
Requests == [id : 0..IdMax, cmd : Cmds, node : Addresses, stale : BOOLEAN]
Replies  == [id : 1..IdMax, cmd : Cmds, node : Addresses, result : Results, stale : BOOLEAN]

NoRequest == [id |-> 0, cmd |-> "NONE", node |-> Local, stale |-> FALSE]
NoLive    == [id |-> 0, cmd |-> "NONE", node |-> Local]
NoAnswer  == [result |-> "OK", stale |-> FALSE, mismatch |-> FALSE]

RpcInit ==
  /\ reqQ = <<>> /\ repQ = <<>>
  /\ nextId = 1 /\ inFlight = FALSE
  /\ live = NoLive
  /\ call = NoRequest /\ legId = 0 /\ answer = NoAnswer
  /\ serving = NoRequest /\ motion = FALSE

-----------------------------------------------------------------------------
(* Ids *)

\* A slip: the id wraps onto the reserved 0.
IdAfterWrapsToZero(i) == (i + 1) % (IdMax + 1)

\* rpcNextId: 0 is reserved for fire-and-forget requests.
IdAfter(i) == IF i = IdMax THEN 1 ELSE i + 1

InUse(id) == \/ serving.id = id
             \/ \E i \in DOMAIN reqQ : reqQ[i].id = id
             \/ \E i \in DOMAIN repQ : repQ[i].id = id

\* Bound: 65535 ids pass before one comes round again, and at most
\* 2 * RPC_QUEUE_DEPTH + 1 requests are anywhere in the channel.
IdHeadroom == ~InUse(nextId)

-----------------------------------------------------------------------------
(* Core 0 *)

\* rpcPost refuses while a reply is owed or the queue is full.
Refused == inFlight \/ Len(reqQ) = Depth

\* rpcStart for a request that is answered: the id is drawn before rpcPost may
\* refuse it, and what it left live is matched against the reply.
Start(cmd, node) ==
  /\ IdHeadroom
  /\ nextId' = IdAfter(nextId)
  /\ IF Refused THEN UNCHANGED <<reqQ, inFlight, live>>
     ELSE /\ reqQ' = Append(reqQ, [id |-> nextId, cmd |-> cmd, node |-> node, stale |-> FALSE])
          /\ inFlight' = TRUE
          /\ live' = [id |-> nextId, cmd |-> cmd, node |-> node]

\* rpcCall up to its poll loop
CallStart(cmd, node) ==
  /\ call = NoRequest
  /\ Start(cmd, node)
  /\ IF Refused
     THEN /\ answer' = [NoAnswer EXCEPT !.result = "TIMEOUT"]
          /\ UNCHANGED call
     ELSE /\ call' = [id |-> nextId, cmd |-> cmd, node |-> node, stale |-> FALSE]
          /\ UNCHANGED answer
  /\ UNCHANGED <<repQ, legId, serving, motion>>

\* rpcStepDebug: id 0, no reply, no claim on the in-flight slot; dropped when
\* the queue is full.
StepDebug ==
  /\ call = NoRequest
  /\ reqQ' = IF Len(reqQ) = Depth THEN reqQ
             ELSE Append(reqQ, [NoRequest EXCEPT !.cmd = "STEP_DEBUG"])
  /\ UNCHANGED <<repQ, nextId, inFlight, live, call, legId, answer, serving, motion>>

\* rpcProbeLegStart, from the `leg` command
LegStart ==
  /\ call = NoRequest /\ legId = 0
  /\ Start("PROBE_LEG", Local)
  /\ legId' = IF Refused THEN 0 ELSE nextId
  /\ UNCHANGED <<repQ, call, answer, serving, motion>>

\* rpcFinish on a reply that carries the id asked for
TakeMatching(id, rep) ==
  /\ inFlight' = FALSE /\ live' = NoLive   \* read no more
  /\ LET mismatch == id # live.id \/ rep.cmd # live.cmd \/ rep.node # live.node
     IN answer' = [stale |-> rep.stale, mismatch |-> mismatch,
                   result |-> IF mismatch THEN "BAD_REPLY" ELSE rep.result]

\* A slip: rpcFinish does not compare ids.
AnswersAny(id, rep) == TRUE

Answers(id, rep) == rep.id = id

\* One round of rpcFinish's loop in the poll of rpcCall: a reply to another id
\* is dropped.
CallPoll ==
  /\ call # NoRequest /\ repQ # <<>>
  /\ repQ' = Tail(repQ)
  /\ IF Answers(call.id, Head(repQ))
     THEN TakeMatching(call.id, Head(repQ)) /\ call' = NoRequest
     ELSE UNCHANGED <<inFlight, live, answer, call>>
  /\ UNCHANGED <<reqQ, nextId, legId, serving, motion>>

\* The same loop in probeTick.
LegPoll ==
  /\ call = NoRequest /\ legId # 0 /\ repQ # <<>>
  /\ repQ' = Tail(repQ)
  /\ IF Answers(legId, Head(repQ))
     THEN TakeMatching(legId, Head(repQ)) /\ legId' = 0
     ELSE UNCHANGED <<inFlight, live, answer, legId>>
  /\ UNCHANGED <<reqQ, nextId, call, serving, motion>>

MarkStale(id) ==
  /\ reqQ' = [i \in DOMAIN reqQ |-> [reqQ[i] EXCEPT !.stale = @ \/ reqQ[i].id = id]]
  /\ repQ' = [i \in DOMAIN repQ |-> [repQ[i] EXCEPT !.stale = @ \/ repQ[i].id = id]]
  /\ serving' = IF serving.id = id THEN [serving EXCEPT !.stale = TRUE] ELSE serving

\* rpcAbandon
Abandon(id) ==
  /\ IF id # 0 /\ id = live.id THEN inFlight' = FALSE /\ live' = NoLive
     ELSE UNCHANGED <<inFlight, live>>
  /\ MarkStale(id)

\* Only a planner run, a debug burst or a probe leg keeps Core 1 from a request
\* for RPC_CALL_TIMEOUT_MS.
Core1Held == motion \/ serving.cmd \in {"STEP_DEBUG", "PROBE_LEG"}

\* A slip: the deadline is looked at only when some reply has come.
CallTimeoutOnReply ==
  /\ call # NoRequest /\ repQ # <<>> /\ Core1Held
  /\ Abandon(call.id)
  /\ answer' = [NoAnswer EXCEPT !.result = "TIMEOUT"]
  /\ call' = NoRequest
  /\ UNCHANGED <<nextId, legId, motion>>

CallTimeout ==
  /\ call # NoRequest /\ repQ = <<>> /\ Core1Held
  /\ Abandon(call.id)
  /\ answer' = [NoAnswer EXCEPT !.result = "TIMEOUT"]
  /\ call' = NoRequest
  /\ UNCHANGED <<nextId, legId, motion>>

\* The leg's deadline in probeTick, or probeTeardown
LegAbandon ==
  /\ call = NoRequest /\ legId # 0
  /\ Abandon(legId)
  /\ legId' = 0
  /\ UNCHANGED <<nextId, call, answer, motion>>

\* rpcReset, with Core 1 parked
RpcReset ==
  /\ reqQ' = <<>> /\ repQ' = <<>> /\ inFlight' = FALSE /\ live' = NoLive
  /\ UNCHANGED <<nextId, call, legId, answer, serving, motion>>

-----------------------------------------------------------------------------
(* Core 1 *)

Core1Free == serving = NoRequest /\ ~motion

\* rpcServerTake
Take ==
  /\ Core1Free /\ reqQ # <<>>
  /\ serving' = Head(reqQ)
  /\ reqQ' = Tail(reqQ)
  /\ UNCHANGED <<repQ, nextId, inFlight, live, call, legId, answer, motion>>

\* Timing: Core 0 polls in a tight loop, or once a pass for a leg, and has
\* dropped the late replies before a bus transaction or a leg ends.
PollersAreFaster == (call # NoRequest \/ legId # 0) => repQ = <<>>

\* replyWith: a reply that finds its queue full is dropped.
ReplyWith(result) ==
  /\ serving.id # 0
  /\ PollersAreFaster
  /\ repQ' = IF Len(repQ) = Depth THEN repQ
             ELSE Append(repQ, [id |-> serving.id, cmd |-> serving.cmd, node |-> serving.node,
                                result |-> result, stale |-> serving.stale])
  /\ serving' = NoRequest
  /\ UNCHANGED <<reqQ, nextId, inFlight, live, call, legId, answer, motion>>

\* The debug burst has run out or an estop has cut it: no reply.
BurstEnds ==
  /\ serving.cmd = "STEP_DEBUG"
  /\ serving' = NoRequest
  /\ UNCHANGED <<reqQ, repQ, nextId, inFlight, live, call, legId, answer, motion>>

MotionBegins ==
  /\ Core1Free
  /\ motion' = TRUE
  /\ UNCHANGED <<reqQ, repQ, nextId, inFlight, live, call, legId, answer, serving>>

MotionEnds ==
  /\ motion
  /\ motion' = FALSE
  /\ UNCHANGED <<reqQ, repQ, nextId, inFlight, live, call, legId, answer, serving>>

-----------------------------------------------------------------------------
RpcTypeOK ==
  /\ reqQ \in Seq(Requests) /\ Len(reqQ) <= Depth
  /\ repQ \in Seq(Replies) /\ Len(repQ) <= Depth
  /\ nextId \in 1..IdMax
  /\ inFlight \in BOOLEAN
  /\ live \in [id : 0..IdMax, cmd : Cmds \cup {"NONE"}, node : Addresses]
  /\ call \in Requests \cup {NoRequest} /\ ~call.stale
  /\ legId \in 0..IdMax
  /\ answer \in [result : Results, stale : BOOLEAN, mismatch : BOOLEAN]
  /\ serving \in Requests \cup {NoRequest}
  /\ motion \in BOOLEAN

\* Where the request Core 0 still waits for, or its reply, is in the channel
Awaited(r) == r.id # 0 /\ ~r.stale

Places ==
  {<<"request", i>> : i \in {j \in DOMAIN reqQ : Awaited(reqQ[j])}} \cup
  {<<"reply", i>> : i \in {j \in DOMAIN repQ : Awaited(repQ[j])}} \cup
  {<<"serving", i>> : i \in {j \in {0} : Awaited(serving)}}

\* The in-flight claim is real: held exactly while one request is waited for,
\* that request or its reply is in one place of the channel, and the caller
\* polls for its id. A claim with nothing behind it would lock out every later
\* command.
ClaimIsReal ==
  /\ \A p, q \in Places : p = q
  /\ inFlight <=> Places # {}
  /\ inFlight <=> (call # NoRequest \/ legId # 0)
  /\ call # NoRequest => legId = 0 /\ call.id = live.id
  /\ legId # 0 => legId = live.id

\* No late reply is taken for the answer to a newer call, however many calls
\* were abandoned before it: the claim is real, rpcFinish matches by id, and its
\* assertion on the echoed command and node ("a bug, not a bus condition") never
\* fires.
AnswerIsMine == ClaimIsReal /\ ~answer.stale /\ ~answer.mismatch

\* rpcCall RETURNS: it ends with a reply or, when Core 1 is held, at its deadline.
CallsReturn == (call # NoRequest) ~> (call = NoRequest)
=============================================================================
