-------------------------- MODULE BusSafetyProofs --------------------------
(***************************************************************************)
(* Proofs about RpcChannel and BusSafety: for every set of nodes and       *)
(* commands, every depth of the queues and every number of request ids.    *)
(***************************************************************************)
EXTENDS BusSafety, TLAPS

(* What is waited for is what live describes; what was given up, or never   *)
(* waited for, does not carry its id.                                       *)
Kept(r) ==
  IF Awaited(r)
  THEN inFlight /\ r.id = live.id /\ r.cmd = live.cmd /\ r.node = live.node
  ELSE r.id # 0 => r.id # live.id

(* At most one request, reply or service is waited for.                     *)
OneAwaited ==
  /\ \A i, j \in DOMAIN reqQ : Awaited(reqQ[i]) /\ Awaited(reqQ[j]) => i = j
  /\ \A i, j \in DOMAIN repQ : Awaited(repQ[i]) /\ Awaited(repQ[j]) => i = j
  /\ \A i \in DOMAIN reqQ, j \in DOMAIN repQ : ~(Awaited(reqQ[i]) /\ Awaited(repQ[j]))
  /\ \A i \in DOMAIN reqQ : ~(Awaited(reqQ[i]) /\ Awaited(serving))
  /\ \A i \in DOMAIN repQ : ~(Awaited(repQ[i]) /\ Awaited(serving))

SomeAwaited ==
  \/ Awaited(serving)
  \/ \E i \in DOMAIN reqQ : Awaited(reqQ[i])
  \/ \E i \in DOMAIN repQ : Awaited(repQ[i])

(* The claim, between Core 0 and the channel.                               *)
Claim ==
  /\ \A i \in DOMAIN reqQ : Kept(reqQ[i])
  /\ \A i \in DOMAIN repQ : Kept(repQ[i])
  /\ Kept(serving)
  /\ OneAwaited
  /\ inFlight => SomeAwaited /\ live.id # 0
  /\ ~inFlight => live = NoLive
  /\ live.cmd # "STEP_DEBUG"

(* The claim, between Core 0's callers and the channel.                     *)
Callers ==
  /\ inFlight <=> (call # NoRequest \/ legId # 0)
  /\ call # NoRequest => legId = 0 /\ call.id = live.id /\ call.node = live.node
  /\ legId # 0 => legId = live.id
  /\ ~answer.stale /\ ~answer.mismatch

(* Only a command that switches on or off goes to every node at once.       *)
Switches(cmd) == cmd \in {"ENABLE", "DISABLE"}

(* Core 0's handlers: a reset waits with no call and no leg, and only an    *)
(* operator's command goes to more than one node.                           *)
Handlers ==
  /\ task # "none" => legId = 0
  /\ task \in {"clear", "park"} => call = NoRequest /\ pending = NoPending
  /\ call # NoRequest => pending # NoPending /\ call.node = pending.node
  /\ pending # NoPending => pending.node \in Nodes \/ (task = "none" /\ Switches(pending.cmd))

(* So no make-safe is ever in the channel for all of them.                  *)
Casts(r) == r.node = Broadcast => Switches(r.cmd)
BroadcastsOnOff == Casts(serving) /\ \A i \in DOMAIN reqQ : Casts(reqQ[i])

(* While the boot sweep runs the channel holds its make-safes alone: so a   *)
(* node that confirmed one stays off, and one that did not is counted.      *)
OnlyMakeSafe ==
  /\ serving # NoRequest => serving.cmd = "MAKE_SAFE"
  /\ \A i \in DOMAIN reqQ : reqQ[i].cmd = "MAKE_SAFE"
  /\ \A i \in DOMAIN repQ : repQ[i].result = "OK" => repQ[i].node \notin energised
Asked == IF pending = NoPending THEN {} ELSE {pending.node}
BootSweep ==
  task = "boot" =>
    /\ OnlyMakeSafe
    /\ energised \subseteq todo \cup unconfirmed \cup Asked
    /\ pending # NoPending /\ call = NoRequest /\ answer.result = "OK" => pending.node \notin energised

----------------------------------------------------------------------------
(* The queues.                                                              *)

LEMMA QueueTail ==
  ASSUME NEW S, NEW q \in Seq(S), q # <<>>
  PROVE  /\ Head(q) = q[1] /\ 1 \in DOMAIN q /\ q[1] \in S
         /\ Tail(q) \in Seq(S) /\ Len(Tail(q)) = Len(q) - 1 /\ Len(q) \in Nat
         /\ \A i \in DOMAIN Tail(q) : i + 1 \in DOMAIN q /\ i + 1 # 1 /\ Tail(q)[i] = q[i + 1]
         /\ \A i \in DOMAIN q : i = 1 \/ (i - 1 \in DOMAIN Tail(q) /\ Tail(q)[i - 1] = q[i])
         /\ \A i, j \in DOMAIN Tail(q) : i + 1 = j + 1 => i = j
OBVIOUS

LEMMA QueueAppend ==
  ASSUME NEW S, NEW q \in Seq(S), NEW e \in S
  PROVE  /\ Append(q, e) \in Seq(S) /\ Len(Append(q, e)) = Len(q) + 1 /\ Len(q) \in Nat
         /\ \A i \in DOMAIN Append(q, e) :
              \/ i \in DOMAIN q /\ Append(q, e)[i] = q[i]
              \/ i = Len(q) + 1 /\ i \notin DOMAIN q /\ Append(q, e)[i] = e
         /\ \A i \in DOMAIN q : i \in DOMAIN Append(q, e) /\ Append(q, e)[i] = q[i]
         /\ Len(q) + 1 \in DOMAIN Append(q, e) /\ Append(q, e)[Len(q) + 1] = e
OBVIOUS

LEMMA QueueMap ==
  ASSUME NEW S, NEW q \in Seq(S), NEW f \in [DOMAIN q -> S]
  PROVE  f \in Seq(S) /\ Len(f) = Len(q) /\ DOMAIN f = DOMAIN q
<1>1. DOMAIN q = 1..Len(q) /\ Len(q) \in Nat
  OBVIOUS
<1> QED BY <1>1

LEMMA QueueElements ==
  ASSUME NEW S, NEW q \in Seq(S)
  PROVE  /\ \A i \in DOMAIN q : q[i] \in S
         /\ DOMAIN q = 1..Len(q) /\ Len(q) \in Nat
         /\ (q = <<>> => DOMAIN q = {}) /\ (q # <<>> => Len(q) > 0)
OBVIOUS

----------------------------------------------------------------------------
(* The channel's steps: a step of the bus takes one of them, or none.       *)

ResetAtRest == RpcReset /\ call = NoRequest /\ legId = 0 /\ serving = NoRequest

Forget ==
  /\ answer' = NoAnswer
  /\ UNCHANGED <<reqQ, repQ, nextId, inFlight, live, call, legId, serving, motion>>

RpcStep ==
  \/ \E cmd \in NodeCmds, n \in Nodes \cup {Broadcast} :
       (n = Broadcast => Switches(cmd)) /\ CallStart(cmd, n)
  \/ StepDebug \/ LegStart \/ CallPoll \/ LegPoll \/ CallTimeout \/ LegAbandon
  \/ ResetAtRest \/ Forget
  \/ Take \/ (\E result \in Results : ReplyWith(result)) \/ BurstEnds \/ MotionBegins \/ MotionEnds
  \/ UNCHANGED rpcVars

LEMMA RpcSteps ==
  ASSUME TypeOK, Handlers, [Next]_busVars
  PROVE  RpcStep
<1> USE DEF RpcStep
<1>1. CASE EstopRead \/ SweptRead \/ SweepBroadcast \/ SweepNode \/ SweepEnds
  BY <1>1 DEF EstopRead, SweptRead, SweepBroadcast, SweepNode, SweepEnds
<1>2. CASE PollRequest
  BY <1>2 DEF PollRequest
<1>3. CASE ServeNode \/ ServeBroadcast \/ ServeLegEnds
  BY <1>3 DEF ServeNode, ServeBroadcast, ServeLegEnds, Results
<1>4. CASE ServeBurstEnds \/ PlannerEnds \/ PlannerRuns
  BY <1>4 DEF ServeBurstEnds, PlannerEnds, PlannerRuns
<1>5. CASE WriteCommand
  BY <1>5 DEF WriteCommand, Issue, Switches
<1>5a. CASE ReadCommand
  BY <1>5a, BusAssumption, RpcAssumption DEF ReadCommand, Issue
<1>5b. CASE StepCommand \/ ProbeLeg
  BY <1>5b DEF StepCommand, ProbeLeg
<1>6. CASE Stop \/ UnstopBegins \/ ResetCommand
  BY <1>6 DEF Stop, UnstopBegins, ResetCommand
<1>7. CASE Settle
  BY <1>7 DEF Settle, Forget
<1>8. CASE Poll \/ ProbeTick
  BY <1>8 DEF Poll, ProbeTick
<1>9. CASE AskNext
  <2>1. PICK n \in todo :
          IF task = "boot" \/ n \in busTouched THEN Issue("MAKE_SAFE", n) ELSE UNCHANGED <<rpcVars, pending>>
    BY <1>9 DEF AskNext
  <2>2. n \in Nodes
    BY <2>1 DEF TypeOK
  <2> QED BY <2>1, <2>2, RpcAssumption DEF Issue
<1>10. CASE UnstopEnds \/ SweptClear
  BY <1>10 DEF UnstopEnds, SweptClear
<1>11. CASE ResetWipe
  BY <1>11 DEF ResetWipe, Handlers, ResetAtRest, Core1Free
<1>12. CASE BootEnds
  BY <1>12 DEF BootEnds, rpcVars
<1>13. CASE UNCHANGED busVars
  BY <1>13 DEF busVars
<1>14. CASE NodeLoses
  BY <1>14 DEF NodeLoses
<1> QED
  BY <1>1, <1>2, <1>3, <1>4, <1>5, <1>5a, <1>5b, <1>6, <1>7, <1>8, <1>9, <1>10, <1>11, <1>12,
     <1>13, <1>14 DEF Next, Core1Round, Core1Long, Core0Commands, Core0Works

----------------------------------------------------------------------------
(* Type correctness of the channel.                                         *)

LEMMA StartType ==
  ASSUME RpcTypeOK, NEW cmd \in Cmds, NEW n \in Addresses, Start(cmd, n)
  PROVE  /\ reqQ' \in Seq(Requests) /\ Len(reqQ') <= Depth
         /\ nextId' \in 1..IdMax /\ inFlight' \in BOOLEAN
         /\ live' \in [id : 0..IdMax, cmd : Cmds \cup {"NONE"}, node : Addresses]
<1>1. nextId \in 0..IdMax /\ nextId' \in 1..IdMax
  BY RpcAssumption DEF RpcTypeOK, Start, IdAfter
<1>2. CASE Refused
  BY <1>1, <1>2 DEF Start, RpcTypeOK
<1>3. CASE ~Refused
  <2>1. /\ reqQ' = Append(reqQ, [id |-> nextId, cmd |-> cmd, node |-> n, stale |-> FALSE])
        /\ inFlight' = TRUE /\ live' = [id |-> nextId, cmd |-> cmd, node |-> n]
    BY <1>3 DEF Start
  <2>2. [id |-> nextId, cmd |-> cmd, node |-> n, stale |-> FALSE] \in Requests
    BY <1>1 DEF Requests
  <2>3. Len(reqQ) # Depth /\ Len(reqQ) <= Depth /\ Depth \in Nat /\ Len(reqQ) \in Nat
    BY <1>3, RpcAssumption, QueueElements DEF Refused, RpcTypeOK
  <2>4. reqQ' \in Seq(Requests) /\ Len(reqQ') = Len(reqQ) + 1
    BY <2>1, <2>2, QueueAppend DEF RpcTypeOK
  <2> QED BY <1>1, <2>1, <2>3, <2>4
<1> QED BY <1>2, <1>3

LEMMA StaleType ==
  ASSUME NEW id
  PROVE  /\ \A r \in Requests : [r EXCEPT !.stale = @ \/ r.id = id] \in Requests
         /\ \A r \in Replies : [r EXCEPT !.stale = @ \/ r.id = id] \in Replies
<1>1. ASSUME NEW r PROVE (r.stale \/ r.id = id) \in BOOLEAN
  OBVIOUS
<1>2. ASSUME NEW r \in Requests, NEW b \in BOOLEAN PROVE [r EXCEPT !.stale = b] \in Requests
  BY DEF Requests
<1>3. ASSUME NEW r \in Replies, NEW b \in BOOLEAN PROVE [r EXCEPT !.stale = b] \in Replies
  BY DEF Replies
<1> QED BY <1>1, <1>2, <1>3

LEMMA AbandonType ==
  ASSUME RpcTypeOK, NEW id, id # 0, Abandon(id)
  PROVE  /\ reqQ' \in Seq(Requests) /\ Len(reqQ') <= Depth
         /\ repQ' \in Seq(Replies) /\ Len(repQ') <= Depth
         /\ inFlight' \in BOOLEAN /\ serving' \in Requests \cup {NoRequest}
         /\ live' \in [id : 0..IdMax, cmd : Cmds \cup {"NONE"}, node : Addresses]
<1>1. /\ reqQ' = [i \in DOMAIN reqQ |-> [reqQ[i] EXCEPT !.stale = @ \/ reqQ[i].id = id]]
      /\ repQ' = [i \in DOMAIN repQ |-> [repQ[i] EXCEPT !.stale = @ \/ repQ[i].id = id]]
      /\ serving' = IF serving.id = id THEN [serving EXCEPT !.stale = TRUE] ELSE serving
  BY DEF Abandon, MarkStale
<1>2. \A i \in DOMAIN reqQ : [reqQ[i] EXCEPT !.stale = @ \/ reqQ[i].id = id] \in Requests
  BY QueueElements, StaleType DEF RpcTypeOK
<1>3. \A i \in DOMAIN repQ : [repQ[i] EXCEPT !.stale = @ \/ repQ[i].id = id] \in Replies
  BY QueueElements, StaleType DEF RpcTypeOK
<1>4. reqQ' \in Seq(Requests) /\ Len(reqQ') = Len(reqQ)
  BY <1>1, <1>2, QueueMap DEF RpcTypeOK
<1>5. repQ' \in Seq(Replies) /\ Len(repQ') = Len(repQ)
  BY <1>1, <1>3, QueueMap DEF RpcTypeOK
<1>6. inFlight' \in BOOLEAN
  BY DEF Abandon, RpcTypeOK
<1>7. live' \in [id : 0..IdMax, cmd : Cmds \cup {"NONE"}, node : Addresses]
  <2>1. live' = live \/ live' = NoLive
    BY DEF Abandon
  <2>2. NoLive \in [id : 0..IdMax, cmd : Cmds \cup {"NONE"}, node : Addresses]
    BY RpcAssumption DEF NoLive, Addresses
  <2> QED BY <2>1, <2>2 DEF RpcTypeOK
<1>8. serving' \in Requests \cup {NoRequest}
  <2>1. CASE serving.id = id
    <3>1. serving # NoRequest
      BY <2>1 DEF NoRequest
    <3> QED BY <1>1, <2>1, <3>1 DEF RpcTypeOK, Requests
  <2>2. CASE serving.id # id
    BY <1>1, <2>2 DEF RpcTypeOK
  <2> QED BY <2>1, <2>2
<1> QED BY <1>4, <1>5, <1>6, <1>7, <1>8 DEF RpcTypeOK

(* A matching reply ends the call with its result, or with a complaint.     *)
LEMMA MatchingType ==
  ASSUME RpcTypeOK, NEW id, NEW rep \in Replies, TakeMatching(id, rep)
  PROVE  /\ inFlight' \in BOOLEAN
         /\ live' \in [id : 0..IdMax, cmd : Cmds \cup {"NONE"}, node : Addresses]
         /\ answer' \in [result : Results, stale : BOOLEAN, mismatch : BOOLEAN]
<1>1. inFlight' \in BOOLEAN /\ live' = NoLive
  BY DEF TakeMatching
<1>2. NoLive \in [id : 0..IdMax, cmd : Cmds \cup {"NONE"}, node : Addresses]
  BY RpcAssumption DEF NoLive, Addresses
<1>3. PICK mismatch \in BOOLEAN :
        answer' = [stale |-> rep.stale, mismatch |-> mismatch,
                   result |-> IF mismatch THEN "BAD_REPLY" ELSE rep.result]
  <2> DEFINE m == id # live.id \/ rep.cmd # live.cmd \/ rep.node # live.node
  <2>1. m \in BOOLEAN
    OBVIOUS
  <2>2. answer' = [stale |-> rep.stale, mismatch |-> m,
                   result |-> IF m THEN "BAD_REPLY" ELSE rep.result]
    BY DEF TakeMatching
  <2> QED BY <2>1, <2>2
<1>4. rep.stale \in BOOLEAN /\ rep.result \in Results
  BY DEF Replies
<1> QED BY <1>1, <1>2, <1>3, <1>4 DEF Results

LEMMA RpcTypeStep ==
  ASSUME RpcTypeOK, Claim, Callers, RpcStep
  PROVE  RpcTypeOK'
<1> DEFINE Live == [id : 0..IdMax, cmd : Cmds \cup {"NONE"}, node : Addresses]
           Answer == [result : Results, stale : BOOLEAN, mismatch : BOOLEAN]
<1>n. NoLive \in Live /\ NoAnswer \in Answer /\ [NoAnswer EXCEPT !.result = "TIMEOUT"] \in Answer
  <2>1. 0 \in 0..IdMax /\ Local \in Addresses
    BY RpcAssumption DEF Addresses
  <2>2. NoLive \in Live
    BY <2>1 DEF NoLive
  <2>3. \A result \in Results : [NoAnswer EXCEPT !.result = result] \in Answer
    BY DEF NoAnswer
  <2>4. "OK" \in Results /\ "TIMEOUT" \in Results /\ NoAnswer = [NoAnswer EXCEPT !.result = "OK"]
    BY DEF Results, NoAnswer
  <2> QED BY <2>2, <2>3, <2>4
<1>q. Depth \in Nat /\ <<>> \in Seq(Requests) /\ <<>> \in Seq(Replies) /\ Len(<<>>) <= Depth
  BY RpcAssumption
<1>1. ASSUME NEW cmd \in NodeCmds, NEW n \in Nodes \cup {Broadcast}, CallStart(cmd, n)
      PROVE  RpcTypeOK'
  <2>1. cmd \in Cmds /\ n \in Addresses /\ Start(cmd, n)
    BY <1>1 DEF CallStart, Cmds, Addresses
  <2>2. UNCHANGED <<repQ, legId, serving, motion>>
    BY <1>1 DEF CallStart
  <2>3. call' \in Requests \cup {NoRequest} /\ ~call'.stale
    <3>1. [id |-> nextId, cmd |-> cmd, node |-> n, stale |-> FALSE] \in Requests
      BY <2>1 DEF Requests, RpcTypeOK
    <3>2. \/ call' = call
          \/ call' = [id |-> nextId, cmd |-> cmd, node |-> n, stale |-> FALSE]
      BY <1>1 DEF CallStart
    <3>3. ~[id |-> nextId, cmd |-> cmd, node |-> n, stale |-> FALSE].stale
      OBVIOUS
    <3> QED BY <3>1, <3>2, <3>3 DEF RpcTypeOK
  <2>4. answer' \in Answer
    BY <1>1, <1>n DEF CallStart, RpcTypeOK
  <2> QED BY <2>1, <2>2, <2>3, <2>4, StartType DEF RpcTypeOK
<1>2. CASE StepDebug
  <2>1. [NoRequest EXCEPT !.cmd = "STEP_DEBUG"] \in Requests
    <3>1. 0 \in 0..IdMax /\ "STEP_DEBUG" \in Cmds /\ Local \in Addresses
      BY RpcAssumption DEF Cmds, Addresses
    <3>2. NoRequest \in [id : 0..IdMax, cmd : {"NONE"}, node : Addresses, stale : BOOLEAN]
      BY <3>1 DEF NoRequest
    <3>3. \A r \in [id : 0..IdMax, cmd : {"NONE"}, node : Addresses, stale : BOOLEAN] :
            [r EXCEPT !.cmd = "STEP_DEBUG"] \in Requests
      BY <3>1 DEF Requests
    <3> QED BY <3>2, <3>3
  <2>2. reqQ' \in Seq(Requests) /\ Len(reqQ') <= Depth
    <3>1. CASE Len(reqQ) = Depth
      BY <1>2, <3>1 DEF StepDebug, RpcTypeOK
    <3>2. CASE Len(reqQ) # Depth
      <4>1. reqQ' = Append(reqQ, [NoRequest EXCEPT !.cmd = "STEP_DEBUG"])
        BY <1>2, <3>2 DEF StepDebug
      <4>2. reqQ' \in Seq(Requests) /\ Len(reqQ') = Len(reqQ) + 1 /\ Len(reqQ) \in Nat
        BY <2>1, <4>1, QueueAppend DEF RpcTypeOK
      <4> QED BY <1>q, <3>2, <4>2 DEF RpcTypeOK
    <3> QED BY <3>1, <3>2
  <2>3. UNCHANGED <<repQ, nextId, inFlight, live, call, legId, answer, serving, motion>>
    BY <1>2 DEF StepDebug
  <2> QED BY <2>2, <2>3 DEF RpcTypeOK
<1>3. CASE LegStart
  <2>1. "PROBE_LEG" \in Cmds /\ Local \in Addresses /\ Start("PROBE_LEG", Local)
    BY <1>3 DEF LegStart, Cmds, Addresses
  <2>2. legId' \in 0..IdMax /\ UNCHANGED <<repQ, call, answer, serving, motion>>
    BY <1>3, RpcAssumption DEF LegStart, RpcTypeOK
  <2> QED BY <2>1, <2>2, StartType DEF RpcTypeOK
<1>4. CASE CallPoll
  <2>1. repQ' = Tail(repQ) /\ repQ # <<>> /\ UNCHANGED <<reqQ, nextId, legId, serving, motion>>
    BY <1>4 DEF CallPoll
  <2>2. repQ' \in Seq(Replies) /\ Len(repQ') <= Depth /\ Head(repQ) \in Replies
    BY <1>q, <2>1, QueueTail DEF RpcTypeOK
  <2>3. /\ inFlight' \in BOOLEAN /\ live' \in Live /\ answer' \in Answer
        /\ call' \in Requests \cup {NoRequest} /\ ~call'.stale
    <3>1. CASE TakeMatching(call.id, Head(repQ)) /\ call' = NoRequest
      BY <2>2, <3>1, MatchingType DEF NoRequest
    <3>2. CASE UNCHANGED <<inFlight, live, answer, call>>
      BY <3>2 DEF RpcTypeOK
    <3> QED BY <1>4, <3>1, <3>2 DEF CallPoll
  <2> QED BY <2>1, <2>2, <2>3 DEF RpcTypeOK
<1>5. CASE LegPoll
  <2>1. repQ' = Tail(repQ) /\ repQ # <<>> /\ UNCHANGED <<reqQ, nextId, call, serving, motion>>
    BY <1>5 DEF LegPoll
  <2>2. repQ' \in Seq(Replies) /\ Len(repQ') <= Depth /\ Head(repQ) \in Replies
    BY <1>q, <2>1, QueueTail DEF RpcTypeOK
  <2>3. inFlight' \in BOOLEAN /\ live' \in Live /\ answer' \in Answer /\ legId' \in 0..IdMax
    <3>1. CASE TakeMatching(legId, Head(repQ)) /\ legId' = 0
      BY <2>2, <3>1, MatchingType, RpcAssumption
    <3>2. CASE UNCHANGED <<inFlight, live, answer, legId>>
      BY <3>2 DEF RpcTypeOK
    <3> QED BY <1>5, <3>1, <3>2 DEF LegPoll
  <2> QED BY <2>1, <2>2, <2>3 DEF RpcTypeOK
<1>6. CASE CallTimeout
  <2>1. call # NoRequest /\ Abandon(call.id) /\ call' = NoRequest
        /\ answer' = [NoAnswer EXCEPT !.result = "TIMEOUT"] /\ UNCHANGED <<nextId, legId, motion>>
    BY <1>6 DEF CallTimeout
  <2>2. call.id # 0
    BY <2>1 DEF Callers, Claim
  <2> QED BY <1>n, <2>1, <2>2, AbandonType DEF RpcTypeOK, NoRequest
<1>7. CASE LegAbandon
  <2>1. legId # 0 /\ Abandon(legId) /\ legId' = 0 /\ UNCHANGED <<nextId, call, answer, motion>>
    BY <1>7 DEF LegAbandon
  <2> QED BY <2>1, AbandonType, RpcAssumption DEF RpcTypeOK
<1>8. CASE ResetAtRest
  <2>1. reqQ' = <<>> /\ repQ' = <<>> /\ inFlight' \in BOOLEAN /\ live' = NoLive
        /\ UNCHANGED <<nextId, call, legId, answer, serving, motion>>
    BY <1>8 DEF ResetAtRest, RpcReset
  <2> QED BY <1>n, <1>q, <2>1 DEF RpcTypeOK
<1>9. CASE Forget
  BY <1>n, <1>9 DEF Forget, RpcTypeOK
<1>10. CASE Take
  <2>1. reqQ # <<>> /\ serving' = Head(reqQ) /\ reqQ' = Tail(reqQ)
        /\ UNCHANGED <<repQ, nextId, inFlight, live, call, legId, answer, motion>>
    BY <1>10 DEF Take
  <2>2. reqQ' \in Seq(Requests) /\ Len(reqQ') <= Depth /\ serving' \in Requests
    BY <1>q, <2>1, QueueTail DEF RpcTypeOK
  <2> QED BY <2>1, <2>2 DEF RpcTypeOK
<1>11. ASSUME NEW result \in Results, ReplyWith(result)
       PROVE  RpcTypeOK'
  <2>1. serving.id # 0 /\ serving' = NoRequest
        /\ UNCHANGED <<reqQ, nextId, inFlight, live, call, legId, answer, motion>>
    BY <1>11 DEF ReplyWith
  <2>2. repQ' \in Seq(Replies) /\ Len(repQ') <= Depth
    <3>1. CASE Len(repQ) = Depth
      BY <1>11, <3>1 DEF ReplyWith, RpcTypeOK
    <3>2. CASE Len(repQ) # Depth
      <4> DEFINE r == [id |-> serving.id, cmd |-> serving.cmd, node |-> serving.node,
                       result |-> result, stale |-> serving.stale]
      <4>1. repQ' = Append(repQ, r)
        BY <1>11, <3>2 DEF ReplyWith
      <4>2. serving \in Requests
        BY <2>1 DEF RpcTypeOK, NoRequest
      <4>3. r \in Replies
        BY <2>1, <4>2, RpcAssumption DEF Requests, Replies
      <4>4. repQ' \in Seq(Replies) /\ Len(repQ') = Len(repQ) + 1 /\ Len(repQ) \in Nat
        BY <4>1, <4>3, QueueAppend DEF RpcTypeOK
      <4> QED BY <1>q, <3>2, <4>4 DEF RpcTypeOK
    <3> QED BY <3>1, <3>2
  <2> QED BY <2>1, <2>2 DEF RpcTypeOK
<1>12. CASE BurstEnds
  BY <1>12 DEF BurstEnds, RpcTypeOK
<1>13. CASE MotionBegins \/ MotionEnds
  <2>1. motion' \in BOOLEAN
        /\ UNCHANGED <<reqQ, repQ, nextId, inFlight, live, call, legId, answer, serving>>
    BY <1>13 DEF MotionBegins, MotionEnds
  <2> QED BY <2>1 DEF RpcTypeOK
<1>14. CASE UNCHANGED rpcVars
  BY <1>14 DEF rpcVars, RpcTypeOK
<1> QED
  BY <1>1, <1>2, <1>3, <1>4, <1>5, <1>6, <1>7, <1>8, <1>9, <1>10, <1>11, <1>12, <1>13, <1>14
     DEF RpcStep

----------------------------------------------------------------------------
(* The claim.                                                               *)

LEMMA NoneAwaited ==
  ASSUME Claim, ~inFlight
  PROVE  /\ \A i \in DOMAIN reqQ : ~Awaited(reqQ[i])
         /\ \A i \in DOMAIN repQ : ~Awaited(repQ[i])
         /\ ~Awaited(serving)
BY DEF Claim, Kept

(* A channel where nothing is waited for needs no claim.                    *)
LEMMA ClaimDropped ==
  ASSUME \A i \in DOMAIN reqQ' : ~Awaited(reqQ'[i]),
         \A i \in DOMAIN repQ' : ~Awaited(repQ'[i]),
         ~Awaited(serving'), inFlight' = FALSE, live' = NoLive
  PROVE  Claim'
<1>1. live'.id = 0 /\ live'.cmd = "NONE"
  BY DEF NoLive
<1>2. (\A i \in DOMAIN reqQ : Kept(reqQ[i]))' /\ (\A i \in DOMAIN repQ : Kept(repQ[i]))' /\ Kept(serving)'
  BY <1>1 DEF Kept
<1>3. OneAwaited'
  BY DEF OneAwaited
<1> QED BY <1>1, <1>2, <1>3 DEF Claim

LEMMA ClaimSame ==
  ASSUME Claim, UNCHANGED <<reqQ, repQ, inFlight, live, serving>>
  PROVE  Claim'
BY DEF Claim, Kept, OneAwaited, SomeAwaited

(* A request that is posted is the only one waited for, under a fresh id.   *)
LEMMA StartClaims ==
  ASSUME RpcTypeOK, Claim, NEW cmd \in Cmds \ {"STEP_DEBUG"}, NEW n \in Addresses,
         Start(cmd, n), UNCHANGED <<repQ, serving>>
  PROVE  /\ Claim'
         /\ Refused => UNCHANGED <<inFlight, live>>
         /\ ~Refused => ~inFlight /\ inFlight' /\ nextId # 0 /\ live' = [id |-> nextId, cmd |-> cmd, node |-> n]
<1>1. CASE Refused
  <2>1. UNCHANGED <<reqQ, inFlight, live>>
    BY <1>1 DEF Start
  <2> QED BY <1>1, <2>1, ClaimSame
<1>2. CASE ~Refused
  <2> DEFINE r == [id |-> nextId, cmd |-> cmd, node |-> n, stale |-> FALSE]
  <2>1. /\ reqQ' = Append(reqQ, r) /\ inFlight' = TRUE
        /\ live' = [id |-> nextId, cmd |-> cmd, node |-> n]
    BY <1>2 DEF Start
  <2>2. ~inFlight /\ nextId # 0
    BY <1>2 DEF Refused, RpcTypeOK
  <2>3. r \in Requests
    BY RpcAssumption DEF Requests, RpcTypeOK
  <2>4. Awaited(r) /\ r.id = live'.id /\ r.cmd = live'.cmd /\ r.node = live'.node
    BY <2>1, <2>2 DEF Awaited
  <2>5. \A i \in DOMAIN reqQ : ~Awaited(reqQ[i]) /\ reqQ[i].id # nextId
    BY <2>2, NoneAwaited DEF Start, IdHeadroom, InUse
  <2>6. \A i \in DOMAIN repQ : ~Awaited(repQ[i]) /\ repQ[i].id # nextId
    BY <2>2, NoneAwaited DEF Start, IdHeadroom, InUse
  <2>7. ~Awaited(serving) /\ serving.id # nextId
    BY <2>2, NoneAwaited DEF Start, IdHeadroom, InUse
  <2>8. \A i \in DOMAIN reqQ' : \/ ~Awaited(reqQ'[i]) /\ reqQ'[i].id # nextId
                                \/ i = Len(reqQ) + 1 /\ reqQ'[i] = r
    BY <2>1, <2>3, <2>5, QueueAppend DEF RpcTypeOK
  <2>9. Len(reqQ) + 1 \in DOMAIN reqQ' /\ reqQ'[Len(reqQ) + 1] = r
    BY <2>1, <2>3, QueueAppend DEF RpcTypeOK
  <2>10. live'.id = nextId /\ live'.cmd # "STEP_DEBUG"
    BY <2>1
  <2>11. (\A i \in DOMAIN reqQ : Kept(reqQ[i]))'
    BY <2>1, <2>4, <2>8, <2>10 DEF Kept
  <2>12. (\A i \in DOMAIN repQ : Kept(repQ[i]))' /\ Kept(serving)'
    BY <2>6, <2>7, <2>10 DEF Kept
  <2>13. OneAwaited'
    BY <2>6, <2>7, <2>8 DEF OneAwaited
  <2>14. SomeAwaited'
    BY <2>4, <2>9 DEF SomeAwaited
  <2> QED BY <1>2, <2>1, <2>2, <2>10, <2>11, <2>12, <2>13, <2>14 DEF Claim
<1> QED BY <1>1, <1>2

LEMMA AbandonClaims ==
  ASSUME RpcTypeOK, Claim, inFlight, Abandon(live.id)
  PROVE  Claim' /\ inFlight' = FALSE
<1>1. inFlight' = FALSE /\ live' = NoLive
  BY DEF Abandon, Claim
<1>2. ASSUME NEW i \in DOMAIN reqQ' PROVE ~Awaited(reqQ'[i])
  <2>1. i \in DOMAIN reqQ /\ reqQ'[i] = [reqQ[i] EXCEPT !.stale = @ \/ reqQ[i].id = live.id]
    BY <1>2 DEF Abandon, MarkStale
  <2>2. reqQ[i] \in Requests /\ Kept(reqQ[i])
    BY <2>1, QueueElements DEF RpcTypeOK, Claim
  <2>3. reqQ'[i].id = reqQ[i].id /\ (reqQ'[i].stale <=> reqQ[i].stale \/ reqQ[i].id = live.id)
    BY <2>1, <2>2 DEF Requests
  <2> QED BY <2>2, <2>3 DEF Kept, Awaited
<1>3. ASSUME NEW i \in DOMAIN repQ' PROVE ~Awaited(repQ'[i])
  <2>1. i \in DOMAIN repQ /\ repQ'[i] = [repQ[i] EXCEPT !.stale = @ \/ repQ[i].id = live.id]
    BY <1>3 DEF Abandon, MarkStale
  <2>2. repQ[i] \in Replies /\ Kept(repQ[i])
    BY <2>1, QueueElements DEF RpcTypeOK, Claim
  <2>3. repQ'[i].id = repQ[i].id /\ (repQ'[i].stale <=> repQ[i].stale \/ repQ[i].id = live.id)
    BY <2>1, <2>2 DEF Replies
  <2> QED BY <2>2, <2>3 DEF Kept, Awaited
<1>4. ~Awaited(serving')
  <2>1. CASE serving.id = live.id
    <3>1. serving' = [serving EXCEPT !.stale = TRUE] /\ serving \in Requests
      BY <2>1 DEF Abandon, MarkStale, RpcTypeOK, NoRequest, Claim
    <3> QED BY <3>1 DEF Awaited, Requests
  <2>2. CASE serving.id # live.id
    BY <2>2 DEF Abandon, MarkStale, Awaited, Kept, Claim
  <2> QED BY <2>1, <2>2
<1> QED BY <1>1, <1>2, <1>3, <1>4, ClaimDropped

(* A reply that is dropped was not waited for; one that matches was, and it *)
(* alone.                                                                   *)
LEMMA PollClaims ==
  ASSUME RpcTypeOK, Claim, inFlight, repQ # <<>>, repQ' = Tail(repQ), UNCHANGED <<reqQ, serving>>
  PROVE  /\ Head(repQ).id # live.id /\ UNCHANGED <<inFlight, live>> => Claim'
         /\ Head(repQ).id = live.id /\ TakeMatching(live.id, Head(repQ)) =>
              Claim' /\ inFlight' = FALSE /\ ~answer'.stale /\ ~answer'.mismatch
<1> DEFINE h == Head(repQ)
<1>1. h = repQ[1] /\ 1 \in DOMAIN repQ /\ h \in Replies /\ Kept(h)
  BY QueueTail DEF RpcTypeOK, Claim
<1>2. \A i \in DOMAIN repQ' : i + 1 \in DOMAIN repQ /\ i + 1 # 1 /\ repQ'[i] = repQ[i + 1]
  BY QueueTail DEF RpcTypeOK
<1>3. \A i \in DOMAIN repQ : i = 1 \/ (i - 1 \in DOMAIN repQ' /\ repQ'[i - 1] = repQ[i])
  BY QueueTail DEF RpcTypeOK
<1>4. ASSUME h.id # live.id, UNCHANGED <<inFlight, live>>
      PROVE  Claim'
  <2>1. ~Awaited(h)
    BY <1>1, <1>4 DEF Kept
  <2>2. (\A i \in DOMAIN repQ : Kept(repQ[i]))' /\ (\A i \in DOMAIN reqQ : Kept(reqQ[i]))' /\ Kept(serving)'
    BY <1>2, <1>4 DEF Claim, Kept
  <2>3. OneAwaited'
    <3>1. \A i, j \in DOMAIN repQ' : i + 1 = j + 1 => i = j
      BY QueueTail DEF RpcTypeOK
    <3> QED BY <1>2, <3>1 DEF Claim, OneAwaited
  <2>4. SomeAwaited'
    <3>1. SomeAwaited
      BY DEF Claim
    <3>2. CASE \E i \in DOMAIN repQ : Awaited(repQ[i])
      BY <1>1, <1>3, <2>1, <3>2 DEF SomeAwaited
    <3> QED BY <3>1, <3>2 DEF SomeAwaited
  <2> QED BY <1>4, <2>2, <2>3, <2>4 DEF Claim
<1>5. ASSUME h.id = live.id, TakeMatching(live.id, h)
      PROVE  Claim' /\ inFlight' = FALSE /\ ~answer'.stale /\ ~answer'.mismatch
  <2>1. Awaited(h) /\ h.cmd = live.cmd /\ h.node = live.node
    BY <1>1, <1>5 DEF Kept, Replies
  <2>2. /\ \A i \in DOMAIN repQ' : ~Awaited(repQ'[i])
        /\ \A i \in DOMAIN reqQ' : ~Awaited(reqQ'[i])
        /\ ~Awaited(serving')
    BY <1>1, <1>2, <2>1 DEF Claim, OneAwaited
  <2>3. inFlight' = FALSE /\ live' = NoLive
    BY <1>5 DEF TakeMatching
  <2>4. ~answer'.stale
    BY <1>5, <2>1 DEF TakeMatching, Awaited
  <2>5. ~answer'.mismatch
    BY <1>5, <2>1 DEF TakeMatching
  <2> QED BY <2>2, <2>3, <2>4, <2>5, ClaimDropped
<1> QED BY <1>4, <1>5

LEMMA TakeClaims ==
  ASSUME RpcTypeOK, Claim, Take
  PROVE  Claim'
<1>1. /\ serving = NoRequest /\ reqQ # <<>> /\ serving' = Head(reqQ) /\ reqQ' = Tail(reqQ)
      /\ UNCHANGED <<repQ, inFlight, live>>
  BY DEF Take, Core1Free
<1>2. serving' = reqQ[1] /\ 1 \in DOMAIN reqQ
  BY <1>1, QueueTail DEF RpcTypeOK
<1>3. \A i \in DOMAIN reqQ' : i + 1 \in DOMAIN reqQ /\ i + 1 # 1 /\ reqQ'[i] = reqQ[i + 1]
  BY <1>1, QueueTail DEF RpcTypeOK
<1>4. \A i \in DOMAIN reqQ : i = 1 \/ (i - 1 \in DOMAIN reqQ' /\ reqQ'[i - 1] = reqQ[i])
  BY <1>1, QueueTail DEF RpcTypeOK
<1>5. \A i, j \in DOMAIN reqQ' : i + 1 = j + 1 => i = j
  BY <1>1, QueueTail DEF RpcTypeOK
<1>6. ~Awaited(serving)
  BY <1>1 DEF Awaited, NoRequest
<1>7. (\A i \in DOMAIN reqQ : Kept(reqQ[i]))' /\ (\A i \in DOMAIN repQ : Kept(repQ[i]))' /\ Kept(serving)'
  BY <1>1, <1>2, <1>3 DEF Claim, Kept
<1>8. OneAwaited'
  BY <1>1, <1>2, <1>3, <1>5 DEF Claim, OneAwaited
<1>9. inFlight => SomeAwaited'
  BY <1>1, <1>2, <1>4, <1>6 DEF Claim, SomeAwaited
<1> QED BY <1>1, <1>7, <1>8, <1>9 DEF Claim

LEMMA ReplyClaims ==
  ASSUME RpcTypeOK, Claim, Callers, NEW result \in Results, ReplyWith(result)
  PROVE  Claim'
<1> DEFINE r == [id |-> serving.id, cmd |-> serving.cmd, node |-> serving.node,
                 result |-> result, stale |-> serving.stale]
<1>1. serving.id # 0 /\ serving' = NoRequest /\ UNCHANGED <<reqQ, inFlight, live>>
  BY DEF ReplyWith
<1>2. ~Awaited(serving') /\ Kept(serving)'
  BY <1>1 DEF Awaited, NoRequest, Kept
<1>3. (\A i \in DOMAIN reqQ : Kept(reqQ[i]))'
  BY <1>1 DEF Claim, Kept
<1>4. serving \in Requests
  BY <1>1 DEF RpcTypeOK, NoRequest
<1>5. r \in Replies
  BY <1>1, <1>4, RpcAssumption DEF Requests, Replies
<1>6. CASE Len(repQ) = Depth
  <2>1. repQ' = repQ
    BY <1>6 DEF ReplyWith
  <2>2. ~Awaited(serving)
    <3>1. repQ # <<>>
      BY <1>6, RpcAssumption
    <3>2. ~inFlight
      BY <3>1 DEF ReplyWith, PollersAreFaster, Callers
    <3> QED BY <3>2, NoneAwaited
  <2>3. OneAwaited' /\ (inFlight => SomeAwaited')
    BY <1>1, <1>2, <2>1, <2>2 DEF Claim, OneAwaited, SomeAwaited
  <2> QED BY <1>1, <1>2, <1>3, <2>1, <2>3 DEF Claim, Kept
<1>7. CASE Len(repQ) # Depth
  <2>1. repQ' = Append(repQ, r)
    BY <1>7 DEF ReplyWith
  <2>2. \A i \in DOMAIN repQ' : \/ i \in DOMAIN repQ /\ repQ'[i] = repQ[i]
                                \/ i = Len(repQ) + 1 /\ repQ'[i] = r
    BY <1>5, <2>1, QueueAppend DEF RpcTypeOK
  <2>3. \A i \in DOMAIN repQ : i \in DOMAIN repQ' /\ repQ'[i] = repQ[i]
    BY <1>5, <2>1, QueueAppend DEF RpcTypeOK
  <2>4. Len(repQ) + 1 \in DOMAIN repQ' /\ repQ'[Len(repQ) + 1] = r
    BY <1>5, <2>1, QueueAppend DEF RpcTypeOK
  <2>5. (Awaited(r) <=> Awaited(serving)) /\ r.id = serving.id /\ r.cmd = serving.cmd /\ r.node = serving.node
    BY DEF Awaited
  <2>6. (\A i \in DOMAIN repQ : Kept(repQ[i]))'
    BY <1>1, <2>2, <2>5 DEF Claim, Kept
  <2>7. OneAwaited'
    BY <1>1, <1>2, <2>2, <2>5 DEF Claim, OneAwaited
  <2>8. inFlight => SomeAwaited'
    BY <1>1, <2>3, <2>4, <2>5 DEF Claim, SomeAwaited
  <2> QED BY <1>1, <1>2, <1>3, <2>6, <2>7, <2>8 DEF Claim
<1> QED BY <1>6, <1>7

(* Every step of the channel keeps the claim, and its callers' part in it.  *)
LEMMA ClaimStep ==
  ASSUME RpcTypeOK, Claim, Callers, RpcStep
  PROVE  Claim' /\ Callers'
<1>1. ASSUME NEW cmd \in NodeCmds, NEW n \in Nodes \cup {Broadcast}, CallStart(cmd, n)
      PROVE  Claim' /\ Callers'
  <2>1. cmd \in Cmds \ {"STEP_DEBUG"} /\ n \in Addresses /\ Start(cmd, n) /\ call = NoRequest
        /\ UNCHANGED <<repQ, legId, serving, motion>>
    BY <1>1, RpcAssumption DEF CallStart, Cmds, Addresses
  <2>2. Claim'
    BY <2>1, StartClaims
  <2>3. CASE Refused
    <3>1. UNCHANGED <<inFlight, live, call, legId>> /\ answer' = [NoAnswer EXCEPT !.result = "TIMEOUT"]
      BY <1>1, <2>1, <2>3, StartClaims DEF CallStart
    <3>2. ~answer'.stale /\ ~answer'.mismatch
      BY <3>1 DEF NoAnswer
    <3> QED BY <2>2, <3>1, <3>2 DEF Callers
  <2>4. CASE ~Refused
    <3>1. ~inFlight /\ inFlight' /\ nextId # 0 /\ live' = [id |-> nextId, cmd |-> cmd, node |-> n]
      BY <2>1, <2>4, StartClaims
    <3>2. call' = [id |-> nextId, cmd |-> cmd, node |-> n, stale |-> FALSE] /\ answer' = answer
      BY <1>1, <2>4 DEF CallStart
    <3>3. call' # NoRequest /\ call'.id = live'.id /\ call'.node = live'.node
      BY <3>1, <3>2 DEF NoRequest
    <3>4. legId' = 0
      BY <2>1, <3>1 DEF Callers
    <3> QED BY <2>2, <3>1, <3>2, <3>3, <3>4 DEF Callers
  <2> QED BY <2>3, <2>4
<1>2. CASE StepDebug
  <2>1. UNCHANGED <<repQ, inFlight, live, call, legId, answer, serving>>
    BY <1>2 DEF StepDebug
  <2>2. Claim'
    <3>1. CASE reqQ' = reqQ
      BY <2>1, <3>1, ClaimSame
    <3>2. CASE reqQ' = Append(reqQ, [NoRequest EXCEPT !.cmd = "STEP_DEBUG"])
      <4> DEFINE r == [NoRequest EXCEPT !.cmd = "STEP_DEBUG"]
      <4>1. r.id = 0 /\ ~Awaited(r)
        BY DEF NoRequest, Awaited
      <4>2. \A i \in DOMAIN reqQ' : \/ i \in DOMAIN reqQ /\ reqQ'[i] = reqQ[i]
                                    \/ reqQ'[i] = r
        BY <3>2, QueueAppend DEF RpcTypeOK
      <4>3. \A i \in DOMAIN reqQ : i \in DOMAIN reqQ' /\ reqQ'[i] = reqQ[i]
        BY <3>2, QueueAppend DEF RpcTypeOK
      <4>4. (\A i \in DOMAIN reqQ : Kept(reqQ[i]))' /\ (\A i \in DOMAIN repQ : Kept(repQ[i]))' /\ Kept(serving)'
        BY <2>1, <4>1, <4>2 DEF Claim, Kept
      <4>5. OneAwaited'
        BY <2>1, <4>1, <4>2 DEF Claim, OneAwaited
      <4>6. inFlight => SomeAwaited'
        BY <2>1, <4>3 DEF Claim, SomeAwaited
      <4> QED BY <2>1, <4>4, <4>5, <4>6 DEF Claim
    <3> QED BY <1>2, <3>1, <3>2 DEF StepDebug
  <2> QED BY <2>1, <2>2 DEF Callers
<1>3. CASE LegStart
  <2>1. "PROBE_LEG" \in Cmds /\ Local \in Addresses /\ Start("PROBE_LEG", Local)
        /\ call = NoRequest /\ legId = 0 /\ UNCHANGED <<repQ, call, answer, serving, motion>>
    BY <1>3 DEF LegStart, Cmds, Addresses
  <2>2. Claim'
    BY <2>1, StartClaims
  <2>3. CASE Refused
    <3>1. UNCHANGED <<inFlight, live, legId>>
      BY <1>3, <2>1, <2>3, StartClaims DEF LegStart
    <3> QED BY <2>1, <2>2, <3>1 DEF Callers
  <2>4. CASE ~Refused
    <3>1. inFlight' /\ nextId # 0 /\ live' = [id |-> nextId, cmd |-> "PROBE_LEG", node |-> Local]
      BY <2>1, <2>4, StartClaims
    <3>2. legId' = nextId
      BY <1>3, <2>4 DEF LegStart
    <3>3. live'.id = nextId
      BY <3>1
    <3> QED BY <2>1, <2>2, <3>1, <3>2, <3>3 DEF Callers
  <2> QED BY <2>3, <2>4
<1>4. CASE CallPoll
  <2>1. /\ call # NoRequest /\ repQ # <<>> /\ repQ' = Tail(repQ)
        /\ UNCHANGED <<reqQ, nextId, legId, serving, motion>>
        /\ inFlight /\ call.id = live.id /\ legId = 0
    BY <1>4 DEF CallPoll, Callers
  <2>2. CASE Head(repQ).id = call.id
    <3>1. TakeMatching(live.id, Head(repQ)) /\ call' = NoRequest
      BY <1>4, <2>1, <2>2 DEF CallPoll, Answers
    <3>2. Claim' /\ inFlight' = FALSE /\ ~answer'.stale /\ ~answer'.mismatch
      BY <2>1, <2>2, <3>1, PollClaims
    <3> QED BY <2>1, <3>1, <3>2 DEF Callers
  <2>3. CASE Head(repQ).id # call.id
    <3>1. UNCHANGED <<inFlight, live, answer, call>>
      BY <1>4, <2>3 DEF CallPoll, Answers
    <3>2. Claim'
      BY <2>1, <2>3, <3>1, PollClaims
    <3> QED BY <2>1, <3>1, <3>2 DEF Callers
  <2> QED BY <2>2, <2>3
<1>5. CASE LegPoll
  <2>1. /\ call = NoRequest /\ legId # 0 /\ repQ # <<>> /\ repQ' = Tail(repQ)
        /\ UNCHANGED <<reqQ, nextId, call, serving, motion>>
        /\ inFlight /\ legId = live.id
    BY <1>5 DEF LegPoll, Callers
  <2>2. CASE Head(repQ).id = legId
    <3>1. TakeMatching(live.id, Head(repQ)) /\ legId' = 0
      BY <1>5, <2>1, <2>2 DEF LegPoll, Answers
    <3>2. Claim' /\ inFlight' = FALSE /\ ~answer'.stale /\ ~answer'.mismatch
      BY <2>1, <2>2, <3>1, PollClaims
    <3> QED BY <2>1, <3>1, <3>2 DEF Callers
  <2>3. CASE Head(repQ).id # legId
    <3>1. UNCHANGED <<inFlight, live, answer, legId>>
      BY <1>5, <2>3 DEF LegPoll, Answers
    <3>2. Claim'
      BY <2>1, <2>3, <3>1, PollClaims
    <3> QED BY <2>1, <3>1, <3>2 DEF Callers
  <2> QED BY <2>2, <2>3
<1>6. CASE CallTimeout
  <2>1. call # NoRequest /\ Abandon(live.id) /\ call' = NoRequest /\ inFlight /\ legId' = 0
        /\ answer' = [NoAnswer EXCEPT !.result = "TIMEOUT"]
    BY <1>6 DEF CallTimeout, Callers
  <2>2. Claim' /\ inFlight' = FALSE
    BY <2>1, AbandonClaims
  <2> QED BY <2>1, <2>2 DEF Callers, NoAnswer
<1>7. CASE LegAbandon
  <2>1. Abandon(live.id) /\ call' = NoRequest /\ inFlight /\ legId' = 0 /\ answer' = answer
    BY <1>7 DEF LegAbandon, Callers
  <2>2. Claim' /\ inFlight' = FALSE
    BY <2>1, AbandonClaims
  <2> QED BY <2>1, <2>2 DEF Callers
<1>8. CASE ResetAtRest
  <2>1. /\ reqQ' = <<>> /\ repQ' = <<>> /\ inFlight' = FALSE /\ live' = NoLive
        /\ serving' = NoRequest /\ call' = NoRequest /\ legId' = 0 /\ answer' = answer
    BY <1>8 DEF ResetAtRest, RpcReset
  <2>2. Claim'
    <3>1. DOMAIN reqQ' = {} /\ DOMAIN repQ' = {} /\ ~Awaited(serving')
      BY <2>1 DEF Awaited, NoRequest
    <3> QED BY <2>1, <3>1, ClaimDropped
  <2> QED BY <2>1, <2>2 DEF Callers
<1>9. CASE Forget
  <2>1. UNCHANGED <<reqQ, repQ, inFlight, live, call, legId, serving>> /\ answer' = NoAnswer
    BY <1>9 DEF Forget
  <2> QED BY <2>1, ClaimSame DEF Callers, NoAnswer
<1>10. CASE Take
  <2>1. UNCHANGED <<inFlight, live, call, legId, answer>>
    BY <1>10 DEF Take
  <2> QED BY <1>10, <2>1, TakeClaims DEF Callers
<1>11. ASSUME NEW result \in Results, ReplyWith(result)
       PROVE  Claim' /\ Callers'
  <2>1. UNCHANGED <<inFlight, live, call, legId, answer>>
    BY <1>11 DEF ReplyWith
  <2> QED BY <1>11, <2>1, ReplyClaims DEF Callers
<1>12. CASE BurstEnds
  <2>1. UNCHANGED <<reqQ, repQ, inFlight, live, call, legId, answer>> /\ serving' = NoRequest
        /\ serving.cmd = "STEP_DEBUG"
    BY <1>12 DEF BurstEnds
  <2>2. Claim'
    <3>1. ~Awaited(serving)
      BY <2>1 DEF Claim, Kept
    <3>2. ~Awaited(serving') /\ serving'.id = 0
      BY <2>1 DEF Awaited, NoRequest
    <3>3. (\A i \in DOMAIN reqQ : Kept(reqQ[i]))' /\ (\A i \in DOMAIN repQ : Kept(repQ[i]))' /\ Kept(serving)'
      BY <2>1, <3>2 DEF Claim, Kept
    <3>4. OneAwaited' /\ (inFlight => SomeAwaited')
      BY <2>1, <3>1, <3>2 DEF Claim, OneAwaited, SomeAwaited
    <3> QED BY <2>1, <3>3, <3>4 DEF Claim
  <2> QED BY <2>1, <2>2 DEF Callers
<1>13. CASE MotionBegins \/ MotionEnds
  <2>1. UNCHANGED <<reqQ, repQ, inFlight, live, call, legId, answer, serving>>
    BY <1>13 DEF MotionBegins, MotionEnds
  <2> QED BY <2>1, ClaimSame DEF Callers
<1>14. CASE UNCHANGED rpcVars
  <2>1. UNCHANGED <<reqQ, repQ, inFlight, live, call, legId, answer, serving>>
    BY <1>14 DEF rpcVars
  <2> QED BY <2>1, ClaimSame DEF Callers
<1> QED
  BY <1>1, <1>2, <1>3, <1>4, <1>5, <1>6, <1>7, <1>8, <1>9, <1>10, <1>11, <1>12, <1>13, <1>14
     DEF RpcStep

(* The claim that a run checks, place by place.                             *)
LEMMA ClaimOfPlaces ==
  ASSUME Claim, Callers
  PROVE  AnswerIsMine
<1>1. ASSUME NEW p \in Places
      PROVE  \/ \E i \in DOMAIN reqQ : Awaited(reqQ[i]) /\ p = <<"request", i>>
             \/ \E i \in DOMAIN repQ : Awaited(repQ[i]) /\ p = <<"reply", i>>
             \/ Awaited(serving) /\ p = <<"serving", 0>>
  BY DEF Places
<1>2. \A p, q \in Places : p = q
  BY <1>1 DEF Claim, OneAwaited
<1>3. SomeAwaited <=> Places # {}
  <2>1. SomeAwaited => Places # {}
    <3>1. Awaited(serving) => <<"serving", 0>> \in Places
      BY DEF Places
    <3>2. \A i \in DOMAIN reqQ : Awaited(reqQ[i]) => <<"request", i>> \in Places
      BY DEF Places
    <3>3. \A i \in DOMAIN repQ : Awaited(repQ[i]) => <<"reply", i>> \in Places
      BY DEF Places
    <3> QED BY <3>1, <3>2, <3>3 DEF SomeAwaited
  <2>2. Places # {} => SomeAwaited
    BY <1>1 DEF SomeAwaited
  <2> QED BY <2>1, <2>2
<1>4. SomeAwaited => inFlight
  BY DEF SomeAwaited, Claim, Kept
<1> QED BY <1>2, <1>3, <1>4 DEF Claim, Callers, AnswerIsMine, ClaimIsReal

----------------------------------------------------------------------------
(* Core 0's handlers.                                                       *)

LEMMA IssueDoes ==
  ASSUME RpcTypeOK, NEW cmd \in NodeCmds, NEW n \in Nodes \cup {Broadcast}, Issue(cmd, n)
  PROVE  /\ pending' = [cmd |-> cmd, node |-> n] /\ pending' # NoPending /\ pending'.node = n
         /\ \/ call' = NoRequest /\ answer'.result = "TIMEOUT"
            \/ call' # NoRequest /\ call'.node = n
         /\ legId' = legId /\ call = NoRequest
<1>1. pending' = [cmd |-> cmd, node |-> n]
  BY DEF Issue
<1>2. pending'.cmd # "NONE" /\ pending'.node = n
  BY <1>1, RpcAssumption
<1>3. pending' # NoPending
  BY <1>2 DEF NoPending
<1>4. legId' = legId /\ call = NoRequest
  BY DEF Issue, CallStart
<1>5. CASE Refused
  BY <1>1, <1>2, <1>3, <1>4, <1>5 DEF Issue, CallStart, NoAnswer
<1>6. CASE ~Refused
  <2>1. call' = [id |-> nextId, cmd |-> cmd, node |-> n, stale |-> FALSE] /\ nextId # 0
    BY <1>6 DEF Issue, CallStart, RpcTypeOK
  <2>2. call'.id # 0 /\ call'.node = n
    BY <2>1
  <2> QED BY <1>1, <1>2, <1>3, <1>4, <2>2 DEF NoRequest
<1> QED BY <1>5, <1>6

(* The steps of Core 1, and Core 0's polls, leave the handlers' state alone. *)
LEMMA HandlersStep ==
  ASSUME TypeOK, Claim, Callers, Handlers, [Next]_busVars
  PROVE  Handlers'
<1> USE DEF Handlers
<1>1. CASE Core1Round \/ Core1Long \/ PlannerRuns
  <2>1. UNCHANGED <<task, pending, call, legId>>
    <3>1. CASE EstopRead \/ SweptRead \/ SweepBroadcast \/ SweepNode \/ SweepEnds
      BY <3>1 DEF EstopRead, SweptRead, SweepBroadcast, SweepNode, SweepEnds, rpcVars, taskVars
    <3>2. CASE PollRequest
      BY <3>2 DEF PollRequest, Take, rpcVars, taskVars
    <3>3. CASE ServeNode \/ ServeBroadcast \/ ServeLegEnds
      BY <3>3 DEF ServeNode, ServeBroadcast, ServeLegEnds, ReplyWith, taskVars
    <3>4. CASE ServeBurstEnds \/ PlannerEnds \/ PlannerRuns
      BY <3>4 DEF ServeBurstEnds, PlannerEnds, PlannerRuns, BurstEnds, MotionEnds, MotionBegins, taskVars
    <3> QED BY <1>1, <3>1, <3>2, <3>3, <3>4 DEF Core1Round, Core1Long
  <2> QED BY <2>1
<1>2. CASE WriteCommand \/ ReadCommand
  <2>1. PICK cmd \in NodeCmds, n \in Nodes \cup {Broadcast} :
          (n = Broadcast => Switches(cmd)) /\ Issue(cmd, n)
    <3>1. CASE WriteCommand
      BY <3>1 DEF WriteCommand, Switches
    <3>2. CASE ReadCommand
      BY <3>2, BusAssumption, RpcAssumption DEF ReadCommand
    <3> QED BY <1>2, <3>1, <3>2
  <2>2. task' = task /\ task = "none"
    BY <1>2 DEF WriteCommand, ReadCommand, AdmitWrite, Ready
  <2>3. pending'.cmd = cmd /\ pending'.node = n
    BY <2>1 DEF Issue
  <2> QED BY <2>1, <2>2, <2>3, IssueDoes DEF TypeOK
<1>3. CASE StepCommand
  BY <1>3 DEF StepCommand, StepDebug, taskVars
<1>4. CASE ProbeLeg
  BY <1>4 DEF ProbeLeg, LegStart, AdmitStep, Ready, taskVars
<1>5. CASE Stop
  <2>1. legId' \in {legId, 0} /\ UNCHANGED <<task, pending, call>>
    BY <1>5 DEF Stop, LegAbandon, rpcVars, taskVars
  <2> QED BY <2>1
<1>6. CASE UnstopBegins
  BY <1>6 DEF UnstopBegins, Ready, Busy, rpcVars
<1>7. CASE ResetCommand
  BY <1>7 DEF ResetCommand, AdmitWrite, Ready, Busy, rpcVars
<1>8. CASE Settle
  BY <1>8 DEF Settle
<1>9. CASE Poll
  <2>1. UNCHANGED <<task, pending, legId>> /\ call # NoRequest
    BY <1>9 DEF Poll, CallPoll, CallTimeout, taskVars
  <2>2. call' = call \/ call' = NoRequest
    BY <1>9 DEF Poll, CallPoll, CallTimeout
  <2> QED BY <2>1, <2>2
<1>10. CASE ProbeTick
  <2>1. UNCHANGED <<task, pending, call>> /\ legId' \in {legId, 0}
    BY <1>10 DEF ProbeTick, LegPoll, LegAbandon, taskVars
  <2> QED BY <2>1
<1>11. CASE AskNext
  <2>1. PICK n \in todo :
          IF task = "boot" \/ n \in busTouched THEN Issue("MAKE_SAFE", n) ELSE UNCHANGED <<rpcVars, pending>>
    BY <1>11 DEF AskNext
  <2>2. n \in Nodes /\ "MAKE_SAFE" \in NodeCmds
    BY <2>1, RpcAssumption DEF TypeOK
  <2>3. task' = task /\ task \in {"unstop", "boot"}
    BY <1>11 DEF AskNext
  <2>4. CASE Issue("MAKE_SAFE", n)
    BY <2>2, <2>3, <2>4, IssueDoes DEF TypeOK
  <2>5. CASE UNCHANGED <<rpcVars, pending>>
    BY <2>3, <2>5 DEF rpcVars
  <2> QED BY <2>1, <2>4, <2>5
<1>12. CASE UnstopEnds
  BY <1>12 DEF UnstopEnds, WalkDone, rpcVars
<1>13. CASE SweptClear
  BY <1>13 DEF SweptClear, rpcVars
<1>14. CASE ResetWipe
  BY <1>14 DEF ResetWipe, RpcReset
<1>15. CASE BootEnds
  BY <1>15 DEF BootEnds
<1>16. CASE NodeLoses \/ UNCHANGED busVars
  BY <1>16 DEF NodeLoses, busVars, rpcVars, taskVars
<1> QED
  BY <1>1, <1>2, <1>3, <1>4, <1>5, <1>6, <1>7, <1>8, <1>9, <1>10, <1>11, <1>12, <1>13, <1>14,
     <1>15, <1>16 DEF Next, Core0Commands, Core0Works

----------------------------------------------------------------------------
(* Type correctness of the bus.                                             *)

LEMMA TransactType ==
  ASSUME TypeOK, NEW cmd, NEW n \in Nodes, NEW outcome, Transact(cmd, n, outcome)
  PROVE  energised' \subseteq Nodes /\ nodeEnabled' \subseteq Nodes /\ doubt' \subseteq Nodes
BY DEF TypeOK, Transact, Obeyed, NoteEnabled

LEMMA OutcomesAre == \A outcome \in Outcomes : outcome \in {"ok", "silent", "deaf"}
BY DEF Outcomes

(* The frames of a broadcast reach some of the nodes.                       *)
LEMMA HearersAre == \A hearers \in (IF Lossy THEN SUBSET Nodes ELSE {Nodes}) : hearers \subseteq Nodes
OBVIOUS

LEMMA TypeStep ==
  ASSUME TypeOK, Claim, Callers, Handlers, [Next]_busVars
  PROVE  TypeOK'
<1>0. RpcTypeOK'
  BY RpcSteps, RpcTypeStep DEF TypeOK
<1>1. CASE EstopRead \/ SweptRead
  <2>1. c1' \in {"mid", "work", "broadcast"} /\ UNCHANGED <<estopVars, taskVars, nodeVars, slots, toSweep>>
    BY <1>1 DEF EstopRead, SweptRead
  <2> QED BY <1>0, <2>1 DEF TypeOK, estopVars, taskVars, nodeVars
<1>2. CASE SweepBroadcast
  <2>1. energised' \subseteq Nodes /\ doubt' \subseteq Nodes
    BY <1>2, HearersAre DEF SweepBroadcast, Obeyed, TypeOK
  <2>2. c1' = "sweep" /\ toSweep' = Nodes /\ UNCHANGED <<estopVars, taskVars, nodeEnabled, slots>>
    BY <1>2 DEF SweepBroadcast
  <2> QED BY <1>0, <2>1, <2>2 DEF TypeOK, estopVars, taskVars
<1>3. CASE SweepNode
  <2>1. PICK n \in toSweep, outcome \in Outcomes : Transact("MAKE_SAFE", n, outcome) /\ toSweep' = toSweep \ {n}
    BY <1>3 DEF SweepNode
  <2>2. energised' \subseteq Nodes /\ nodeEnabled' \subseteq Nodes /\ doubt' \subseteq Nodes
    BY <2>1, TransactType DEF TypeOK
  <2>3. UNCHANGED <<estopVars, taskVars, slots, c1>>
    BY <1>3 DEF SweepNode
  <2> QED BY <1>0, <2>1, <2>2, <2>3 DEF TypeOK, estopVars, taskVars
<1>4. CASE SweepEnds
  <2>1. estopSwept' \in BOOLEAN /\ c1' = "top"
        /\ UNCHANGED <<latched, estopRequested, taskVars, nodeVars, slots, toSweep>>
    BY <1>4 DEF SweepEnds
  <2> QED BY <1>0, <2>1 DEF TypeOK, taskVars, nodeVars
<1>5. CASE PollRequest
  <2>1. c1' = "top" /\ UNCHANGED <<estopVars, taskVars, nodeVars, slots, toSweep>>
    BY <1>5 DEF PollRequest
  <2> QED BY <1>0, <2>1 DEF TypeOK, estopVars, taskVars, nodeVars
<1>6. CASE ServeNode
  <2>1. serving.node \in Nodes /\ UNCHANGED <<estopVars, taskVars, slots, c1, toSweep>>
    BY <1>6 DEF ServeNode
  <2>2. energised' \subseteq Nodes /\ nodeEnabled' \subseteq Nodes /\ doubt' \subseteq Nodes
    BY <1>6, <2>1, TransactType DEF ServeNode
  <2> QED BY <1>0, <2>1, <2>2 DEF TypeOK, estopVars, taskVars
<1>7. CASE ServeBroadcast
  <2>1. energised' \subseteq Nodes /\ nodeEnabled' \subseteq Nodes
    BY <1>7, HearersAre DEF ServeBroadcast, Obeyed, TypeOK
  <2>2. UNCHANGED <<estopVars, taskVars, doubt, slots, c1, toSweep>>
    BY <1>7 DEF ServeBroadcast
  <2> QED BY <1>0, <2>1, <2>2 DEF TypeOK, estopVars, taskVars
<1>8. CASE ServeLegEnds \/ ServeBurstEnds \/ PlannerRuns \/ PlannerEnds \/ StepCommand \/ ProbeLeg
           \/ Poll \/ ProbeTick \/ UNCHANGED busVars
  <2>1. UNCHANGED <<estopVars, taskVars, nodeVars, slots, c1, toSweep>>
    BY <1>8 DEF ServeLegEnds, ServeBurstEnds, PlannerRuns, PlannerEnds, StepCommand, ProbeLeg, Poll,
       ProbeTick, busVars
  <2> QED BY <1>0, <2>1 DEF TypeOK, estopVars, taskVars, nodeVars
<1>9. CASE WriteCommand \/ ReadCommand
  <2>1. PICK cmd \in NodeCmds, n \in Nodes \cup {Broadcast} : Issue(cmd, n)
    BY <1>9, BusAssumption DEF WriteCommand, ReadCommand
  <2>2. pending' \in [cmd : NodeCmds \cup {"NONE"}, node : Addresses]
    BY <2>1 DEF Issue, Addresses
  <2>3. UNCHANGED <<estopVars, task, todo, unconfirmed, mute, nodeVars, slots, c1, toSweep>>
    BY <1>9 DEF WriteCommand, ReadCommand
  <2> QED BY <1>0, <2>2, <2>3 DEF TypeOK, estopVars, nodeVars
<1>10. CASE Stop
  <2>1. latched' \in BOOLEAN /\ estopSwept' \in BOOLEAN /\ estopRequested' \in BOOLEAN
    BY <1>10 DEF Stop
  <2>2. UNCHANGED <<taskVars, nodeVars, slots, c1, toSweep>>
    BY <1>10 DEF Stop
  <2> QED BY <1>0, <2>1, <2>2 DEF TypeOK, taskVars, nodeVars
<1>11. CASE UnstopBegins
  <2>1. task' = "unstop" /\ todo' = Nodes /\ unconfirmed' = {}
        /\ UNCHANGED <<estopVars, pending, mute, nodeVars, slots, c1, toSweep>>
    BY <1>11 DEF UnstopBegins
  <2> QED BY <1>0, <2>1 DEF TypeOK, estopVars, nodeVars
<1>12. CASE ResetCommand
  <2>1. task' = "park" /\ UNCHANGED <<estopVars, todo, pending, unconfirmed, mute, nodeVars, slots, c1, toSweep>>
    BY <1>12 DEF ResetCommand
  <2> QED BY <1>0, <2>1 DEF TypeOK, estopVars, nodeVars
<1>13. CASE Settle
  <2>1. slots' \subseteq Nodes
    <3>1. pending.cmd = "ENGAGE" => pending.node \in Nodes
      BY <1>13 DEF Settle, Handlers, Switches
    <3>2. slots' \subseteq slots \/ (pending.cmd = "ENGAGE" /\ slots' = slots \cup {pending.node})
      <4>1. CASE pending.cmd = "MAKE_SAFE"
        BY <1>13, <4>1 DEF Settle
      <4>2. CASE pending.cmd # "MAKE_SAFE"
        BY <1>13, <4>2 DEF Settle
      <4> QED BY <4>1, <4>2
    <3> QED BY <3>1, <3>2 DEF TypeOK
  <2>2. unconfirmed' \subseteq Nodes
    BY <1>13 DEF Settle, Handlers, TypeOK
  <2>3. pending' \in [cmd : NodeCmds \cup {"NONE"}, node : Addresses]
    BY <1>13 DEF Settle, NoPending, Addresses
  <2>4. UNCHANGED <<estopVars, task, todo, mute, nodeVars, c1, toSweep>>
    BY <1>13 DEF Settle
  <2> QED BY <1>0, <2>1, <2>2, <2>3, <2>4 DEF TypeOK, estopVars, nodeVars
<1>14. CASE AskNext
  <2>1. PICK n \in todo :
          /\ todo' = todo \ {n}
          /\ IF task = "boot" \/ n \in busTouched THEN Issue("MAKE_SAFE", n) ELSE UNCHANGED <<rpcVars, pending>>
    BY <1>14 DEF AskNext
  <2>2. n \in Nodes /\ "MAKE_SAFE" \in NodeCmds
    BY <2>1, RpcAssumption DEF TypeOK
  <2>3. pending' \in [cmd : NodeCmds \cup {"NONE"}, node : Addresses]
    <3>1. CASE pending' = [cmd |-> "MAKE_SAFE", node |-> n]
      BY <2>2, <3>1 DEF Addresses
    <3>2. CASE pending' = pending
      BY <3>2 DEF TypeOK
    <3> QED BY <2>1, <3>1, <3>2 DEF Issue
  <2>4. todo' \subseteq Nodes
    BY <2>1 DEF TypeOK
  <2>5. UNCHANGED <<estopVars, task, unconfirmed, mute, nodeVars, slots, c1, toSweep>>
    BY <1>14 DEF AskNext
  <2> QED BY <1>0, <2>3, <2>4, <2>5 DEF TypeOK, estopVars, nodeVars
<1>15. CASE UnstopEnds
  <2>1. latched' \in BOOLEAN /\ estopRequested' \in BOOLEAN
    <3>1. CASE UNCHANGED <<latched, estopRequested>>
      BY <3>1 DEF TypeOK
    <3>2. CASE latched' = FALSE /\ estopRequested' = FALSE
      BY <3>2
    <3> QED BY <1>15, <3>1, <3>2 DEF UnstopEnds
  <2>2. task' \in {"none", "clear"} /\ unconfirmed' = {}
    BY <1>15 DEF UnstopEnds
  <2>3. UNCHANGED <<estopSwept, todo, pending, mute, nodeVars, slots, c1, toSweep>>
    BY <1>15 DEF UnstopEnds
  <2> QED BY <1>0, <2>1, <2>2, <2>3 DEF TypeOK, nodeVars
<1>16. CASE SweptClear
  <2>1. estopSwept' \in BOOLEAN /\ task' = "none"
    BY <1>16 DEF SweptClear
  <2>2. UNCHANGED <<latched, estopRequested, todo, pending, unconfirmed, mute, nodeVars, slots, c1, toSweep>>
    BY <1>16 DEF SweptClear
  <2> QED BY <1>0, <2>1, <2>2 DEF TypeOK, nodeVars
<1>17. CASE ResetWipe
  <2>1. latched' \in BOOLEAN /\ estopSwept' \in BOOLEAN /\ estopRequested' \in BOOLEAN
    BY <1>17 DEF ResetWipe
  <2>2. task' = "boot" /\ todo' = Nodes /\ unconfirmed' = {}
    BY <1>17 DEF ResetWipe
  <2>3. UNCHANGED <<pending, mute, nodeVars, slots, c1, toSweep>>
    BY <1>17 DEF ResetWipe
  <2> QED BY <1>0, <2>1, <2>2, <2>3 DEF TypeOK, nodeVars
<1>18. CASE BootEnds
  <2>1. mute' \subseteq Nodes
    BY <1>18 DEF BootEnds, TypeOK
  <2>2. task' = "none" /\ unconfirmed' = {}
    BY <1>18 DEF BootEnds
  <2>3. UNCHANGED <<estopVars, todo, pending, nodeVars, slots, c1, toSweep>>
    BY <1>18 DEF BootEnds
  <2> QED BY <1>0, <2>1, <2>2, <2>3 DEF TypeOK, estopVars, nodeVars
<1>19. CASE NodeLoses
  <2>1. energised' \subseteq Nodes /\ doubt' \subseteq Nodes
    BY <1>19 DEF NodeLoses, TypeOK
  <2>2. UNCHANGED <<estopVars, taskVars, nodeEnabled, slots, c1, toSweep>>
    BY <1>19 DEF NodeLoses
  <2> QED BY <1>0, <2>1, <2>2 DEF TypeOK, estopVars, taskVars
<1> QED
  BY <1>1, <1>2, <1>3, <1>4, <1>5, <1>6, <1>7, <1>8, <1>9, <1>10, <1>11, <1>12, <1>13, <1>14,
     <1>15, <1>16, <1>17, <1>18, <1>19 DEF Next, Core1Round, Core1Long, Core0Commands, Core0Works

----------------------------------------------------------------------------
(* Where a request of the channel comes from: it was there before, or it    *)
(* was posted now.                                                          *)

Same(r, q) == r.cmd = q.cmd /\ r.node = q.node

Before(r) == Same(r, serving) \/ \E i \in DOMAIN reqQ : Same(r, reqQ[i])

Posted(cmd, n) ==
  /\ Same(serving', serving)
  /\ \A i \in DOMAIN reqQ' : Before(reqQ'[i]) \/ (reqQ'[i].cmd = cmd /\ reqQ'[i].node = n)

LEMMA CallPosts ==
  ASSUME RpcTypeOK, NEW cmd \in Cmds, NEW n \in Addresses, Start(cmd, n), serving' = serving
  PROVE  Posted(cmd, n)
<1>1. CASE Refused
  BY <1>1 DEF Start, Posted, Before, Same
<1>2. CASE ~Refused
  <2> DEFINE r == [id |-> nextId, cmd |-> cmd, node |-> n, stale |-> FALSE]
  <2>1. reqQ' = Append(reqQ, r)
    BY <1>2 DEF Start
  <2>2. r \in Requests
    BY RpcAssumption DEF Requests, RpcTypeOK
  <2>3. \A i \in DOMAIN reqQ' : \/ i \in DOMAIN reqQ /\ reqQ'[i] = reqQ[i]
                                \/ reqQ'[i] = r
    BY <2>1, <2>2, QueueAppend DEF RpcTypeOK
  <2> QED BY <2>3 DEF Posted, Before, Same
<1> QED BY <1>1, <1>2

LEMMA DebugPosts ==
  ASSUME RpcTypeOK, StepDebug
  PROVE  Posted("STEP_DEBUG", Local)
<1> DEFINE r == [NoRequest EXCEPT !.cmd = "STEP_DEBUG"]
<1>1. serving' = serving
  BY DEF StepDebug
<1>2. CASE reqQ' = reqQ
  BY <1>1, <1>2 DEF Posted, Before, Same
<1>3. CASE reqQ' = Append(reqQ, r)
  <2>1. r.cmd = "STEP_DEBUG" /\ r.node = Local
    BY DEF NoRequest
  <2>2. \A i \in DOMAIN reqQ' : \/ i \in DOMAIN reqQ /\ reqQ'[i] = reqQ[i]
                                \/ reqQ'[i] = r
    BY <1>3, QueueAppend DEF RpcTypeOK
  <2> QED BY <1>1, <2>1, <2>2 DEF Posted, Before, Same
<1> QED BY <1>2, <1>3 DEF StepDebug

(* A call that is given up is only marked.                                  *)
LEMMA AbandonKeeps ==
  ASSUME RpcTypeOK, NEW id, id # 0, Abandon(id)
  PROVE  /\ Same(serving', serving)
         /\ DOMAIN reqQ' = DOMAIN reqQ /\ \A i \in DOMAIN reqQ : Same(reqQ'[i], reqQ[i])
         /\ DOMAIN repQ' = DOMAIN repQ
         /\ \A i \in DOMAIN repQ : repQ'[i].node = repQ[i].node /\ repQ'[i].result = repQ[i].result
<1>1. /\ reqQ' = [i \in DOMAIN reqQ |-> [reqQ[i] EXCEPT !.stale = @ \/ reqQ[i].id = id]]
      /\ repQ' = [i \in DOMAIN repQ |-> [repQ[i] EXCEPT !.stale = @ \/ repQ[i].id = id]]
      /\ serving' = IF serving.id = id THEN [serving EXCEPT !.stale = TRUE] ELSE serving
  BY DEF Abandon, MarkStale
<1>2. ASSUME NEW i \in DOMAIN reqQ PROVE Same(reqQ'[i], reqQ[i])
  <2>1. reqQ[i] \in Requests
    BY QueueElements DEF RpcTypeOK
  <2> QED BY <1>1, <2>1 DEF Same, Requests
<1>3. ASSUME NEW i \in DOMAIN repQ
      PROVE  repQ'[i].node = repQ[i].node /\ repQ'[i].result = repQ[i].result
  <2>1. repQ[i] \in Replies
    BY QueueElements DEF RpcTypeOK
  <2> QED BY <1>1, <2>1 DEF Replies
<1>4. Same(serving', serving)
  <2>1. CASE serving.id = id
    <3>1. serving' = [serving EXCEPT !.stale = TRUE] /\ serving \in Requests
      BY <1>1, <2>1 DEF RpcTypeOK, NoRequest
    <3> QED BY <3>1 DEF Same, Requests
  <2>2. CASE serving.id # id
    BY <1>1, <2>2 DEF Same
  <2> QED BY <2>1, <2>2
<1> QED BY <1>1, <1>2, <1>3, <1>4

LEMMA PostedCasts ==
  ASSUME BroadcastsOnOff, NEW cmd, NEW n, Posted(cmd, n), n = Broadcast => Switches(cmd)
  PROVE  BroadcastsOnOff'
<1>1. \A r, q : Same(r, q) /\ Casts(q) => Casts(r)
  BY DEF Same, Casts
<1>2. Casts(serving)'
  BY <1>1 DEF Posted, BroadcastsOnOff, Casts
<1>3. ASSUME NEW i \in DOMAIN reqQ' PROVE Casts(reqQ'[i])
  BY <1>1 DEF Posted, Before, BroadcastsOnOff, Casts
<1> QED BY <1>2, <1>3 DEF BroadcastsOnOff, Casts

LEMMA CastsStep ==
  ASSUME RpcTypeOK, Claim, Callers, BroadcastsOnOff, RpcStep
  PROVE  BroadcastsOnOff'
<1>0. Broadcast # Local
  BY RpcAssumption
<1>1. ASSUME NEW cmd \in NodeCmds, NEW n \in Nodes \cup {Broadcast},
             n = Broadcast => Switches(cmd), CallStart(cmd, n)
      PROVE  BroadcastsOnOff'
  <2>1. cmd \in Cmds /\ n \in Addresses /\ Start(cmd, n) /\ serving' = serving
    BY <1>1 DEF CallStart, Cmds, Addresses
  <2> QED BY <1>1, <2>1, CallPosts, PostedCasts
<1>2. CASE StepDebug
  BY <1>0, <1>2, DebugPosts, PostedCasts
<1>3. CASE LegStart
  <2>1. "PROBE_LEG" \in Cmds /\ Local \in Addresses /\ Start("PROBE_LEG", Local) /\ serving' = serving
    BY <1>3 DEF LegStart, Cmds, Addresses
  <2> QED BY <1>0, <2>1, CallPosts, PostedCasts
<1>4. CASE CallTimeout \/ LegAbandon
  <2>1. PICK id : id # 0 /\ Abandon(id)
    BY <1>4 DEF CallTimeout, LegAbandon, Callers, Claim
  <2> QED BY <2>1, AbandonKeeps DEF BroadcastsOnOff, Casts, Same
<1>5. CASE Take
  <2>1. reqQ # <<>> /\ serving' = Head(reqQ) /\ reqQ' = Tail(reqQ)
    BY <1>5 DEF Take
  <2>2. serving' = reqQ[1] /\ 1 \in DOMAIN reqQ
    BY <2>1, QueueTail DEF RpcTypeOK
  <2>3. \A i \in DOMAIN reqQ' : i + 1 \in DOMAIN reqQ /\ reqQ'[i] = reqQ[i + 1]
    BY <2>1, QueueTail DEF RpcTypeOK
  <2> QED BY <2>2, <2>3 DEF BroadcastsOnOff, Casts
<1>6. CASE (\E result \in Results : ReplyWith(result)) \/ BurstEnds
  <2>1. serving' = NoRequest /\ reqQ' = reqQ
    BY <1>6 DEF ReplyWith, BurstEnds
  <2> QED BY <1>0, <2>1 DEF BroadcastsOnOff, Casts, NoRequest
<1>7. CASE ResetAtRest
  <2>1. reqQ' = <<>> /\ serving' = serving
    BY <1>7 DEF ResetAtRest, RpcReset
  <2> QED BY <2>1 DEF BroadcastsOnOff, Casts
<1>8. CASE CallPoll \/ LegPoll \/ Forget \/ MotionBegins \/ MotionEnds \/ UNCHANGED rpcVars
  <2>1. UNCHANGED <<reqQ, serving>>
    BY <1>8 DEF CallPoll, LegPoll, Forget, MotionBegins, MotionEnds, rpcVars
  <2> QED BY <2>1 DEF BroadcastsOnOff, Casts
<1> QED
  BY <1>1, <1>2, <1>3, <1>4, <1>5, <1>6, <1>7, <1>8 DEF RpcStep

----------------------------------------------------------------------------
(* The mask.                                                                *)

LEMMA TransactArms ==
  ASSUME TypeOK, ArmedIsTrue, NEW cmd, NEW n, NEW outcome \in Outcomes, Transact(cmd, n, outcome)
  PROVE  ArmedIsTrue'
<1>1. CASE outcome = "ok"
  <2>1. nodeEnabled' \ {n} \subseteq nodeEnabled \ {n}
    BY <1>1 DEF Transact, NoteEnabled
  <2>2. energised \ {n} \subseteq energised' /\ doubt \ {n} \subseteq doubt'
    BY <1>1 DEF Transact, Obeyed
  <2>3. n \in nodeEnabled' => n \in energised'
    BY <1>1 DEF Transact, NoteEnabled, Obeyed
  <2> QED BY <2>1, <2>2, <2>3 DEF ArmedIsTrue
<1>2. CASE outcome = "silent"
  <2>1. nodeEnabled' = nodeEnabled /\ doubt \subseteq doubt'
    BY <1>2 DEF Transact, NoteEnabled
  <2>2. energised \subseteq energised' \cup doubt'
    BY <1>2 DEF Transact, Obeyed
  <2> QED BY <2>1, <2>2 DEF ArmedIsTrue
<1>3. CASE outcome = "deaf"
  BY <1>3 DEF Transact, NoteEnabled, ArmedIsTrue
<1> QED BY <1>1, <1>2, <1>3, OutcomesAre

(* What Core 0 does, and Core 1 but for its frames, leaves the nodes alone. *)
NoFrame == UNCHANGED nodeVars

LEMMA FramesAre ==
  ASSUME [Next]_busVars
  PROVE  SweepBroadcast \/ SweepNode \/ ServeNode \/ ServeBroadcast \/ NodeLoses \/ NoFrame
<1>1. CASE EstopRead \/ SweptRead \/ SweepEnds \/ PollRequest
  BY <1>1 DEF EstopRead, SweptRead, SweepEnds, PollRequest, NoFrame
<1>2. CASE Core1Long \/ PlannerRuns
  BY <1>2 DEF Core1Long, ServeLegEnds, ServeBurstEnds, PlannerRuns, PlannerEnds, NoFrame
<1>3. CASE Core0Commands
  BY <1>3 DEF Core0Commands, WriteCommand, ReadCommand, StepCommand, ProbeLeg, Stop, UnstopBegins,
     ResetCommand, NoFrame
<1>4. CASE Core0Works
  BY <1>4 DEF Core0Works, Settle, Poll, ProbeTick, AskNext, UnstopEnds, SweptClear, ResetWipe,
     BootEnds, NoFrame
<1>5. CASE UNCHANGED busVars
  BY <1>5 DEF busVars, NoFrame
<1> QED BY <1>1, <1>2, <1>3, <1>4, <1>5 DEF Next, Core1Round

LEMMA ArmedStep ==
  ASSUME TypeOK, BroadcastsOnOff, ArmedIsTrue, [Next]_busVars
  PROVE  ArmedIsTrue'
<1>1. CASE SweepBroadcast
  <2>1. PICK hearers : energised' = energised \ hearers /\ doubt' = doubt \cup hearers
    BY <1>1 DEF SweepBroadcast, Obeyed, Off
  <2>2. nodeEnabled' = nodeEnabled
    BY <1>1 DEF SweepBroadcast
  <2> QED BY <2>1, <2>2 DEF ArmedIsTrue
<1>2. CASE SweepNode
  BY <1>2, TransactArms DEF SweepNode
<1>3. CASE ServeNode
  BY <1>3, TransactArms DEF ServeNode
<1>4. CASE ServeBroadcast
  <2>1. Switches(serving.cmd)
    BY <1>4 DEF ServeBroadcast, BroadcastsOnOff, Casts
  <2>2. CASE serving.cmd = "DISABLE"
    BY <1>4, <2>2 DEF ServeBroadcast, ArmedIsTrue
  <2>3. CASE serving.cmd = "ENABLE"
    <3>1. energised \subseteq energised'
      BY <1>4, <2>3 DEF ServeBroadcast, Obeyed
    <3>2. nodeEnabled' = nodeEnabled /\ doubt' = doubt
      BY <1>4, <2>3 DEF ServeBroadcast
    <3> QED BY <3>1, <3>2 DEF ArmedIsTrue
  <2> QED BY <2>1, <2>2, <2>3 DEF Switches
<1>5. CASE NoFrame
  BY <1>5 DEF NoFrame, nodeVars, ArmedIsTrue
<1>6. CASE NodeLoses
  <2>1. energised \cup doubt \subseteq energised' \cup doubt' /\ nodeEnabled' = nodeEnabled
    BY <1>6 DEF NodeLoses
  <2> QED BY <2>1 DEF ArmedIsTrue
<1> QED BY <1>1, <1>2, <1>3, <1>4, <1>5, <1>6, FramesAre

----------------------------------------------------------------------------
(* The boot sweep.                                                          *)

LEMMA BootBegins ==
  ASSUME TypeOK, Handlers, ResetWipe
  PROVE  BootSweep'
<1>1. /\ serving' = NoRequest /\ reqQ' = <<>> /\ repQ' = <<>>
      /\ pending' = NoPending /\ todo' = Nodes /\ energised' = energised
  BY DEF ResetWipe, RpcReset, Core1Free, Handlers, nodeVars
<1>2. OnlyMakeSafe'
  BY <1>1 DEF OnlyMakeSafe
<1> QED BY <1>1, <1>2 DEF BootSweep, TypeOK

(* Nothing in the sweep's channel switches a node on.                       *)
LEMMA BootQuiet ==
  ASSUME task = "boot", BootSweep, energised' \subseteq energised,
         UNCHANGED <<reqQ, repQ, serving, call, answer, todo, unconfirmed, pending>>
  PROVE  BootSweep'
BY DEF BootSweep, OnlyMakeSafe, Asked

LEMMA BootTakes ==
  ASSUME TypeOK, task = "boot", BootSweep, PollRequest
  PROVE  BootSweep'
<1>1. UNCHANGED <<repQ, call, answer, todo, unconfirmed, pending, energised>>
  BY DEF PollRequest, Take, rpcVars, taskVars, nodeVars
<1>2. CASE reqQ = <<>>
  BY <1>1, <1>2, BootQuiet DEF PollRequest, rpcVars
<1>3. CASE reqQ # <<>>
  <2>1. serving' = Head(reqQ) /\ reqQ' = Tail(reqQ)
    BY <1>3 DEF PollRequest, Take
  <2>2. serving' = reqQ[1] /\ 1 \in DOMAIN reqQ
        /\ \A i \in DOMAIN reqQ' : i + 1 \in DOMAIN reqQ /\ reqQ'[i] = reqQ[i + 1]
    BY <1>3, <2>1, QueueTail DEF TypeOK, RpcTypeOK
  <2>3. OnlyMakeSafe'
    BY <1>1, <2>2 DEF BootSweep, OnlyMakeSafe
  <2> QED BY <1>1, <2>3 DEF BootSweep, Asked
<1> QED BY <1>2, <1>3

(* A node that answers its make-safe is off by the time the reply is there. *)
LEMMA BootServes ==
  ASSUME TypeOK, task = "boot", BootSweep, ServeNode
  PROVE  BootSweep'
<1>1. PICK outcome \in Outcomes :
        /\ Transact(serving.cmd, serving.node, outcome)
        /\ ReplyWith(IF outcome = "ok" THEN "OK" ELSE "TIMEOUT")
  BY DEF ServeNode
<1> DEFINE result == IF outcome = "ok" THEN "OK" ELSE "TIMEOUT"
           r == [id |-> serving.id, cmd |-> serving.cmd, node |-> serving.node,
                 result |-> result, stale |-> serving.stale]
<1>2. serving.cmd = "MAKE_SAFE" /\ serving \in Requests /\ serving.id # 0 /\ result \in Results
  <2>1. serving # NoRequest /\ serving.id # 0
    BY <1>1 DEF ReplyWith, NoRequest
  <2> QED BY <2>1 DEF BootSweep, OnlyMakeSafe, TypeOK, RpcTypeOK, Results
<1>3. energised' \subseteq energised
  BY <1>1, <1>2 DEF Transact, Obeyed, Off
<1>4. result = "OK" => serving.node \notin energised'
  BY <1>1, <1>2 DEF Transact, Obeyed, Off
<1>5. /\ serving' = NoRequest
      /\ UNCHANGED <<reqQ, call, answer, todo, unconfirmed, pending>>
  BY <1>1 DEF ServeNode, ReplyWith, taskVars
<1>6. \A i \in DOMAIN repQ' : repQ'[i].result = "OK" => repQ'[i].node \notin energised'
  <2>1. CASE Len(repQ) = Depth
    <3>1. repQ' = repQ
      BY <1>1, <2>1 DEF ReplyWith
    <3> QED BY <1>3, <3>1 DEF BootSweep, OnlyMakeSafe
  <2>2. CASE Len(repQ) # Depth
    <3>1. repQ' = Append(repQ, r)
      BY <1>1, <2>2 DEF ReplyWith
    <3>2. r \in Replies /\ r.result = result /\ r.node = serving.node
      BY <1>2, RpcAssumption DEF Requests, Replies
    <3>3. \A i \in DOMAIN repQ' : \/ i \in DOMAIN repQ /\ repQ'[i] = repQ[i]
                                  \/ repQ'[i] = r
      BY <3>1, <3>2, QueueAppend DEF TypeOK, RpcTypeOK
    <3> QED BY <1>3, <1>4, <3>2, <3>3 DEF BootSweep, OnlyMakeSafe
  <2> QED BY <2>1, <2>2
<1>7. OnlyMakeSafe'
  BY <1>5, <1>6 DEF BootSweep, OnlyMakeSafe
<1> QED BY <1>3, <1>5, <1>7 DEF BootSweep, Asked

(* The reply a call takes is the one of the node it asked.                  *)
LEMMA BootPolls ==
  ASSUME TypeOK, Claim, Callers, Handlers, task = "boot", BootSweep, Poll
  PROVE  BootSweep'
<1>1. UNCHANGED <<task, todo, unconfirmed, pending, energised>> /\ call # NoRequest
  BY DEF Poll, CallPoll, CallTimeout, taskVars, nodeVars
<1>2. CASE CallPoll
  <2>1. repQ # <<>> /\ repQ' = Tail(repQ) /\ UNCHANGED <<reqQ, serving>>
    BY <1>2 DEF CallPoll
  <2>2. /\ Head(repQ) = repQ[1] /\ 1 \in DOMAIN repQ
        /\ \A i \in DOMAIN repQ' : i + 1 \in DOMAIN repQ /\ repQ'[i] = repQ[i + 1]
    BY <2>1, QueueTail DEF TypeOK, RpcTypeOK
  <2>3. OnlyMakeSafe'
    BY <1>1, <2>1, <2>2 DEF BootSweep, OnlyMakeSafe
  <2>4. call' = NoRequest /\ answer'.result = "OK" => pending.node \notin energised
    <3>1. CASE TakeMatching(call.id, Head(repQ))
      <4>1. answer'.result = "OK" => Head(repQ).node = live.node /\ Head(repQ).result = "OK"
        BY <3>1 DEF TakeMatching
      <4> QED BY <1>1, <2>2, <4>1 DEF BootSweep, OnlyMakeSafe, Callers, Handlers
    <3>2. CASE UNCHANGED call
      BY <1>1, <3>2
    <3> QED BY <1>2, <3>1, <3>2 DEF CallPoll
  <2> QED BY <1>1, <2>3, <2>4 DEF BootSweep, Asked
<1>3. CASE CallTimeout
  <2>1. Abandon(call.id) /\ call.id # 0 /\ answer' = [NoAnswer EXCEPT !.result = "TIMEOUT"]
    BY <1>3 DEF CallTimeout, Callers, Claim
  <2>2. answer'.result # "OK"
    BY <2>1 DEF NoAnswer
  <2>3. OnlyMakeSafe'
    <3>1. serving' # NoRequest => serving # NoRequest
      <4>1. NoRequest.id = 0
        BY DEF NoRequest
      <4>2. serving.id = 0 => serving' = serving
        BY <2>1 DEF Abandon, MarkStale
      <4> QED BY <4>1, <4>2
    <3>2. \A i \in DOMAIN reqQ' : reqQ'[i].cmd = "MAKE_SAFE"
      BY <2>1, AbandonKeeps DEF TypeOK, BootSweep, OnlyMakeSafe, Same
    <3>3. \A i \in DOMAIN repQ' : repQ'[i].result = "OK" => repQ'[i].node \notin energised
      BY <2>1, AbandonKeeps DEF TypeOK, BootSweep, OnlyMakeSafe
    <3>4. serving'.cmd = serving.cmd
      BY <2>1, AbandonKeeps DEF TypeOK, Same
    <3> QED BY <1>1, <3>1, <3>2, <3>3, <3>4 DEF BootSweep, OnlyMakeSafe
  <2> QED BY <1>1, <2>2, <2>3 DEF BootSweep, Asked
<1> QED BY <1>2, <1>3 DEF Poll

(* A node that did not confirm joins the unconfirmed.                       *)
LEMMA BootSettles ==
  ASSUME task = "boot", BootSweep, Settle
  PROVE  BootSweep'
<1>1. /\ UNCHANGED <<reqQ, repQ, serving, todo, energised>> /\ pending' = NoPending
      /\ call = NoRequest /\ pending # NoPending
  BY DEF Settle, nodeVars
<1>2. energised \subseteq todo \cup unconfirmed \cup {pending.node}
  BY <1>1 DEF BootSweep, Asked
<1>3. energised \subseteq todo \cup unconfirmed'
  <2>1. CASE answer.result = "OK"
    BY <1>1, <1>2, <2>1 DEF Settle, BootSweep
  <2>2. CASE answer.result # "OK"
    BY <1>2, <2>2 DEF Settle
  <2> QED BY <2>1, <2>2
<1> QED BY <1>1, <1>3 DEF BootSweep, OnlyMakeSafe, Asked

LEMMA BootAsks ==
  ASSUME TypeOK, task = "boot", BootSweep, AskNext
  PROVE  BootSweep'
<1>1. PICK n \in todo : todo' = todo \ {n} /\ Issue("MAKE_SAFE", n)
  BY DEF AskNext
<1>2. n \in Nodes /\ "MAKE_SAFE" \in NodeCmds /\ "MAKE_SAFE" \in Cmds /\ n \in Addresses
  BY <1>1, RpcAssumption DEF TypeOK, Cmds, Addresses
<1>3. /\ pending = NoPending /\ UNCHANGED <<unconfirmed, energised>>
      /\ Start("MAKE_SAFE", n) /\ UNCHANGED <<repQ, serving>>
  BY <1>1 DEF AskNext, Issue, CallStart, nodeVars
<1>4. /\ pending' # NoPending /\ pending'.node = n
      /\ call' # NoRequest \/ answer'.result = "TIMEOUT"
  BY <1>1, <1>2, IssueDoes DEF TypeOK
<1>5. \A i \in DOMAIN reqQ' : reqQ'[i].cmd = "MAKE_SAFE"
  <2>1. CASE Refused
    BY <1>3, <2>1 DEF Start, BootSweep, OnlyMakeSafe
  <2>2. CASE ~Refused
    <3> DEFINE r == [id |-> nextId, cmd |-> "MAKE_SAFE", node |-> n, stale |-> FALSE]
    <3>1. reqQ' = Append(reqQ, r)
      BY <1>3, <2>2 DEF Start
    <3>2. r \in Requests
      BY <1>2, RpcAssumption DEF Requests, TypeOK, RpcTypeOK
    <3>3. \A i \in DOMAIN reqQ' : \/ i \in DOMAIN reqQ /\ reqQ'[i] = reqQ[i]
                                  \/ reqQ'[i] = r
      BY <3>1, <3>2, QueueAppend DEF TypeOK, RpcTypeOK
    <3> QED BY <3>3 DEF BootSweep, OnlyMakeSafe
  <2> QED BY <2>1, <2>2
<1>6. OnlyMakeSafe'
  BY <1>3, <1>5 DEF BootSweep, OnlyMakeSafe
<1>7. energised \subseteq todo \cup unconfirmed
  BY <1>3 DEF BootSweep, Asked
<1> QED BY <1>1, <1>3, <1>4, <1>6, <1>7 DEF BootSweep, Asked

LEMMA BootStep ==
  ASSUME TypeOK, Claim, Callers, Handlers, BroadcastsOnOff, BootSweep, [Next]_busVars
  PROVE  BootSweep'
<1> SUFFICES ASSUME task' = "boot" PROVE BootSweep'
  BY DEF BootSweep
<1> DEFINE Quiet == UNCHANGED <<reqQ, repQ, serving, call, answer, todo, unconfirmed, pending>>
<1>1. CASE EstopRead \/ SweptRead \/ SweepEnds \/ UNCHANGED busVars
  <2>1. UNCHANGED <<rpcVars, taskVars, nodeVars>>
    BY <1>1 DEF EstopRead, SweptRead, SweepEnds, busVars
  <2> QED BY <2>1, BootQuiet DEF rpcVars, taskVars, nodeVars
<1>2. CASE SweepBroadcast
  <2>1. energised' \subseteq energised /\ UNCHANGED <<rpcVars, taskVars>>
    BY <1>2 DEF SweepBroadcast, Obeyed, Off
  <2> QED BY <2>1, BootQuiet DEF rpcVars, taskVars
<1>3. CASE SweepNode
  <2>1. energised' \subseteq energised
    BY <1>3 DEF SweepNode, Transact, Obeyed, Off
  <2>2. UNCHANGED <<rpcVars, taskVars>>
    BY <1>3 DEF SweepNode
  <2> QED BY <2>1, <2>2, BootQuiet DEF rpcVars, taskVars
<1>4. CASE PollRequest
  BY <1>4, BootTakes DEF PollRequest, taskVars
<1>5. CASE ServeNode
  BY <1>5, BootServes DEF ServeNode, taskVars
<1>6. CASE ServeBroadcast \/ ServeLegEnds \/ ServeBurstEnds
  <2>1. task = "boot"
    BY <1>6 DEF ServeBroadcast, ServeLegEnds, ServeBurstEnds, taskVars
  <2>2. serving # NoRequest /\ serving.cmd # "MAKE_SAFE"
    BY <1>6, RpcAssumption DEF ServeBroadcast, ServeLegEnds, ServeBurstEnds, BurstEnds, NoRequest,
       BroadcastsOnOff, Casts, Switches
  <2> QED BY <2>1, <2>2 DEF BootSweep, OnlyMakeSafe
<1>7. CASE PlannerEnds
  <2>1. UNCHANGED <<reqQ, repQ, serving, call, answer, taskVars, nodeVars>>
    BY <1>7 DEF PlannerEnds, MotionEnds
  <2> QED BY <2>1, BootQuiet DEF taskVars, nodeVars
<1>8. CASE Poll
  BY <1>8, BootPolls DEF Poll, taskVars
<1>9. CASE Settle
  BY <1>9, BootSettles DEF Settle
<1>10. CASE AskNext
  BY <1>10, BootAsks DEF AskNext
<1>11. CASE ResetWipe
  BY <1>11, BootBegins
<1>12. CASE NodeLoses
  <2>1. energised' \subseteq energised /\ UNCHANGED <<rpcVars, taskVars>>
    BY <1>12 DEF NodeLoses
  <2> QED BY <2>1, BootQuiet DEF rpcVars, taskVars
<1>13. ~(Core0Commands \/ PlannerRuns \/ ProbeTick \/ UnstopEnds \/ SweptClear \/ BootEnds)
  <2>1. ~(WriteCommand \/ ReadCommand \/ StepCommand \/ ProbeLeg)
    BY DEF WriteCommand, ReadCommand, StepCommand, ProbeLeg, AdmitWrite, AdmitStep, Ready, taskVars
  <2>2. ~(Stop \/ UnstopBegins \/ ResetCommand)
    BY DEF Stop, UnstopBegins, ResetCommand, AdmitWrite, Ready, taskVars
  <2>3. ~(PlannerRuns \/ ProbeTick)
    BY DEF PlannerRuns, ProbeTick, Ready, taskVars
  <2>4. ~(UnstopEnds \/ SweptClear \/ BootEnds)
    BY DEF UnstopEnds, SweptClear, BootEnds
  <2> QED BY <2>1, <2>2, <2>3, <2>4 DEF Core0Commands
<1> QED
  BY <1>1, <1>2, <1>3, <1>4, <1>5, <1>6, <1>7, <1>8, <1>9, <1>10, <1>11, <1>12,
     <1>13 DEF Next, Core1Round, Core1Long, Core0Works

(* The sweep ends when every node was asked and every answer counted.       *)
LEMMA BootEnding ==
  ASSUME TypeOK, BootSweep, [Next]_busVars, task = "boot", task' = "none"
  PROVE  (energised' \cap Config) \subseteq mute'
<1>1. BootEnds
  <2>1. ~UNCHANGED task
    OBVIOUS
  <2>2. ~(Core1Round \/ Core1Long \/ PlannerRuns)
    BY <2>1 DEF Core1Round, Core1Long, PlannerRuns, EstopRead, SweptRead, SweepBroadcast, SweepNode,
       SweepEnds, PollRequest, ServeNode, ServeBroadcast, ServeLegEnds, ServeBurstEnds, PlannerEnds,
       taskVars
  <2>3. ~Core0Commands
    BY <2>1 DEF Core0Commands, WriteCommand, ReadCommand, StepCommand, ProbeLeg, Stop, UnstopBegins,
       ResetCommand, AdmitWrite, AdmitStep, Ready
  <2>4. ~(Settle \/ Poll \/ ProbeTick \/ AskNext \/ UnstopEnds \/ SweptClear \/ ResetWipe)
    BY <2>1 DEF Settle, Poll, ProbeTick, AskNext, UnstopEnds, SweptClear, ResetWipe, taskVars
  <2>5. ~(NodeLoses \/ UNCHANGED busVars)
    BY <2>1 DEF NodeLoses, busVars, taskVars
  <2> QED BY <2>2, <2>3, <2>4, <2>5 DEF Next, Core0Works
<1>2. todo = {} /\ pending = NoPending /\ energised' = energised
      /\ mute' = unconfirmed \cap (Config \cup busTouched)
  BY <1>1 DEF BootEnds, WalkDone, nodeVars
<1> QED BY <1>2 DEF BootSweep, Asked

----------------------------------------------------------------------------
(* The invariant.                                                           *)

BusInv == TypeOK /\ Claim /\ Callers /\ Handlers /\ BroadcastsOnOff /\ ArmedIsTrue /\ BootSweep

LEMMA BusInit == Init => BusInv
<1> SUFFICES ASSUME Init PROVE BusInv
  OBVIOUS
<1>1. /\ reqQ = <<>> /\ repQ = <<>> /\ serving = NoRequest /\ call = NoRequest /\ legId = 0
      /\ inFlight = FALSE /\ live = NoLive /\ answer = NoAnswer /\ nextId = 1 /\ motion = FALSE
  BY DEF Init, RpcInit
<1>2. 0 \in 0..IdMax /\ 1 \in 1..IdMax /\ 0 <= Depth /\ Local \in Addresses /\ Broadcast # Local
  BY RpcAssumption DEF Addresses
<1>3. RpcTypeOK
  <2>1. live \in [id : 0..IdMax, cmd : Cmds \cup {"NONE"}, node : Addresses]
    BY <1>1, <1>2 DEF NoLive
  <2>2. answer \in [result : Results, stale : BOOLEAN, mismatch : BOOLEAN]
    BY <1>1 DEF NoAnswer, Results
  <2>3. reqQ \in Seq(Requests) /\ Len(reqQ) <= Depth /\ repQ \in Seq(Replies) /\ Len(repQ) <= Depth
    BY <1>1, <1>2
  <2>4. inFlight \in BOOLEAN /\ motion \in BOOLEAN /\ ~call.stale
    BY <1>1 DEF NoRequest
  <2>5. nextId \in 1..IdMax /\ legId \in 0..IdMax
    BY <1>1, <1>2
  <2>6. call \in Requests \cup {NoRequest} /\ serving \in Requests \cup {NoRequest}
    BY <1>1
  <2> QED BY <2>1, <2>2, <2>3, <2>4, <2>5, <2>6 DEF RpcTypeOK
<1>4. TypeOK
  <2>1. /\ energised \subseteq Nodes /\ nodeEnabled \subseteq Nodes /\ slots \subseteq Nodes
        /\ doubt \subseteq Nodes /\ toSweep \subseteq Nodes /\ todo \subseteq Nodes
        /\ unconfirmed \subseteq Nodes /\ mute \subseteq Nodes
    BY DEF Init
  <2>2. latched \in BOOLEAN /\ estopRequested \in BOOLEAN /\ estopSwept \in BOOLEAN
    BY DEF Init
  <2>3. c1 = "top" /\ task = "boot"
    BY DEF Init
  <2>4. pending \in [cmd : NodeCmds \cup {"NONE"}, node : Addresses]
    BY <1>2 DEF Init, NoPending
  <2> QED BY <1>3, <2>1, <2>2, <2>3, <2>4 DEF TypeOK
<1>5. ~Awaited(serving) /\ DOMAIN reqQ = {} /\ DOMAIN repQ = {}
  BY <1>1 DEF Awaited, NoRequest
<1>6. Claim
  <2>1. Kept(serving) /\ live.cmd # "STEP_DEBUG"
    BY <1>1, <1>5 DEF Kept, NoRequest, NoLive
  <2> QED BY <1>1, <1>5, <2>1 DEF Claim, OneAwaited
<1>7. Callers
  BY <1>1 DEF Callers, NoAnswer
<1>8. pending = NoPending /\ task = "boot"
  BY DEF Init
<1>9. Handlers
  BY <1>1, <1>8 DEF Handlers
<1>10. BroadcastsOnOff
  BY <1>1, <1>2, <1>5 DEF BroadcastsOnOff, Casts, NoRequest
<1>11. ArmedIsTrue
  BY DEF Init, ArmedIsTrue
<1>12. BootSweep
  <2>1. OnlyMakeSafe
    BY <1>1, <1>5 DEF OnlyMakeSafe
  <2> QED BY <1>8, <2>1 DEF Init, BootSweep
<1> QED BY <1>4, <1>6, <1>7, <1>9, <1>10, <1>11, <1>12 DEF BusInv

LEMMA BusStep == BusInv /\ [Next]_busVars => BusInv'
<1> SUFFICES ASSUME BusInv, [Next]_busVars PROVE BusInv'
  OBVIOUS
<1>1. RpcStep
  BY RpcSteps DEF BusInv
<1>2. TypeOK'
  BY TypeStep DEF BusInv
<1>3. Claim' /\ Callers'
  BY <1>1, ClaimStep DEF BusInv, TypeOK
<1>4. Handlers'
  BY HandlersStep DEF BusInv
<1>5. BroadcastsOnOff'
  BY <1>1, CastsStep DEF BusInv, TypeOK
<1>6. ArmedIsTrue'
  BY ArmedStep DEF BusInv
<1>7. BootSweep'
  BY BootStep DEF BusInv
<1> QED BY <1>2, <1>3, <1>4, <1>5, <1>6, <1>7 DEF BusInv

THEOREM BusInvariant == Spec => []BusInv
BY BusInit, BusStep, PTL DEF Spec

----------------------------------------------------------------------------
(* Type correctness of the channel and of the bus, for every set of nodes,  *)
(* depth of the queues (ipc/core1_rpc.cpp) and number of request ids.       *)
THEOREM BusType == Spec => []TypeOK
<1>1. BusInv => TypeOK
  BY DEF BusInv
<1> QED BY <1>1, BusInvariant, PTL

(* No late reply is taken for the answer to a newer call (rpcFinish), and   *)
(* the in-flight claim is held exactly while a request of the caller's is   *)
(* in one place of the channel, whatever was given up before.               *)
THEOREM RepliesAreMine == Spec => []AnswerIsMine
<1>1. BusInv => AnswerIsMine
  BY ClaimOfPlaces DEF BusInv
<1> QED BY <1>1, BusInvariant, PTL

(* nodeEnabled never claims a torque that is not there (noteEnabled), but   *)
(* for a node that has gone off since its last confirmed reply: the answer  *)
(* to a switch-off was lost, or it restarted or fell silent-safe by itself. *)
THEOREM MaskIsTrue == Spec => []ArmedIsTrue
<1>1. BusInv => ArmedIsTrue
  BY DEF BusInv
<1> QED BY <1>1, BusInvariant, PTL

(* A boot sweep (busSweep) that ends counts every configured node that is   *)
(* still energised as mute, however many nodes there are and whatever an    *)
(* earlier session left in the queues.                                      *)
THEOREM SweepIsHonest == Spec => BootSweepHonest
<1>1. BusInv /\ [Next]_busVars =>
        [(task = "boot" /\ task' = "none") => (energised' \cap Config) \subseteq mute']_busVars
  BY BootEnding DEF BusInv
<1> QED BY <1>1, BusInvariant, PTL DEF Spec, BootSweepHonest

============================================================================
