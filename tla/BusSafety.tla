----------------------------- MODULE BusSafety ------------------------------
(***************************************************************************)
(* Who is energised on the RS485 bus, and who believes it: the nodes, the  *)
(* nodeEnabled mask Core 1 keeps from their replies (core1/rpc_server.cpp, *)
(* core1/bus/packet.cpp), the estop sweep (core1/core1.cpp), and Core 0's  *)
(* commands over RpcChannel: enable, disable, bus_enable, slot_map, step,  *)
(* nodestat, probe legs, stop, unstop and the soft reset with its boot     *)
(* sweep (core0/ops/bus.cpp).                                              *)
(*                                                                         *)
(* A node is addressed by one frame and answers with one; Lossy lets       *)
(* either be lost. A node also switches itself off (NodeLoses). No node is *)
(* excluded here: bus_exclude and the calls it refuses are in SlotMap.     *)
(***************************************************************************)
EXTENDS RpcChannel

CONSTANTS Config,    \* the nodes the machine config names
          Lossy,     \* frames may be lost
          Commands   \* bound: what the operator does besides stop, unstop and node writes

ASSUME BusAssumption ==
  /\ Config \subseteq Nodes
  /\ Lossy \in BOOLEAN
  /\ Commands \subseteq {"broadcast", "read", "step", "leg", "run", "reset"}
  /\ NodeCmds = {"ENABLE", "DISABLE", "MAKE_SAFE", "NODE_STATUS", "ENGAGE"}

VARIABLES
  energised,       \* nodes whose outputs are live (external: node firmware)
  nodeEnabled,     \* Core 1's mask
  slots,           \* nodes in the slot table, fenced ones included
  latched, estopRequested, estopSwept,
  c1,              \* Core 1's place in processBus
  toSweep,         \* nodes the estop sweep has still to ask
  task,            \* the Core 0 handler in progress
  todo,            \* nodes it has still to look at
  pending,         \* the call whose result it has still to act on
  unconfirmed,     \* nodes that did not confirm make-safe
  mute,            \* s_mute
  doubt            \* history: torque went without a confirmed reply since

estopVars == <<latched, estopRequested, estopSwept>>
taskVars  == <<task, todo, pending, unconfirmed, mute>>
nodeVars  == <<energised, nodeEnabled, doubt>>
busVars   == <<rpcVars, estopVars, taskVars, nodeVars, slots, c1, toSweep>>

NoPending == [cmd |-> "NONE", node |-> Local]

Init ==
  /\ RpcInit
  /\ energised \in SUBSET Nodes      \* the controller may restart under live nodes
  /\ nodeEnabled = {} /\ slots = {} /\ doubt = {}
  /\ latched = FALSE /\ estopRequested = FALSE /\ estopSwept = FALSE
  /\ c1 = "top" /\ toSweep = {}
  /\ task = "boot" /\ todo = Nodes /\ pending = NoPending
  /\ unconfirmed = {} /\ mute = {}

-----------------------------------------------------------------------------
(* A node transaction *)

\* ok: obeyed and answered; silent: obeyed, the reply lost; deaf: not heard
Outcomes == IF Lossy THEN {"ok", "silent", "deaf"} ELSE {"ok"}

Off(cmd) == cmd \in {"DISABLE", "MAKE_SAFE"}

Obeyed(cmd, hearers) == IF cmd = "ENABLE" THEN energised \cup hearers
                        ELSE IF Off(cmd) THEN energised \ hearers ELSE energised

\* A slip: the mask takes the command for the fact, whatever came back.
NoteEnabledUnconfirmed(cmd, n, outcome) ==
  IF cmd = "ENABLE" THEN nodeEnabled \cup {n}
  ELSE IF Off(cmd) THEN nodeEnabled \ {n} ELSE nodeEnabled

\* noteEnabled and busNodeSafe: only a confirmed reply writes the mask; an ack
\* of ENABLE or DISABLE is the fact, a status payload carries it.
NoteEnabled(cmd, n, outcome) ==
  IF outcome # "ok" THEN nodeEnabled
  ELSE IF n \in Obeyed(cmd, {n}) THEN nodeEnabled \cup {n} ELSE nodeEnabled \ {n}

Transact(cmd, n, outcome) ==
  /\ energised' = IF outcome = "deaf" THEN energised ELSE Obeyed(cmd, {n})
  /\ nodeEnabled' = NoteEnabled(cmd, n, outcome)
  /\ doubt' = IF outcome = "ok" THEN doubt \ {n}
              ELSE IF outcome = "silent" /\ Off(cmd) THEN doubt \cup {n} ELSE doubt

\* A node drops its outputs by itself, in setup() after a restart or, where it
\* is built with NODE_HAS_SILENCE_TIMEOUT, after BUS_SILENCE_MS without a byte
\* (a broken wire, a Core 1 that stalls). Nobody is told.
NodeLoses ==
  /\ \E n \in energised : energised' = energised \ {n} /\ doubt' = doubt \cup {n}
  /\ UNCHANGED <<rpcVars, estopVars, taskVars, nodeEnabled, slots, c1, toSweep>>

-----------------------------------------------------------------------------
(* Core 1: one round of processBus *)

\* A slip: the requests that wait are served first.
EstopReadAfterRequests ==
  /\ c1 = "top" /\ Core1Free
  /\ c1' = IF estopRequested /\ reqQ = <<>> THEN "mid" ELSE "work"
  /\ UNCHANGED <<rpcVars, estopVars, taskVars, nodeVars, slots, toSweep>>

\* if (estopRequested && !estopSwept): two reads
EstopRead ==
  /\ c1 = "top" /\ Core1Free
  /\ c1' = IF estopRequested THEN "mid" ELSE "work"
  /\ UNCHANGED <<rpcVars, estopVars, taskVars, nodeVars, slots, toSweep>>

SweptRead ==
  /\ c1 = "mid"
  /\ c1' = IF estopSwept THEN "work" ELSE "broadcast"
  /\ UNCHANGED <<rpcVars, estopVars, taskVars, nodeVars, slots, toSweep>>

\* sendBroadcast(CMD_DISABLE) ahead of the serial sweep: nobody answers.
SweepBroadcast ==
  /\ c1 = "broadcast"
  /\ \E hearers \in (IF Lossy THEN SUBSET Nodes ELSE {Nodes}) :
       /\ energised' = Obeyed("DISABLE", hearers)
       /\ doubt' = doubt \cup hearers
  /\ toSweep' = Nodes
  /\ c1' = "sweep"
  /\ UNCHANGED <<rpcVars, estopVars, taskVars, nodeEnabled, slots>>

\* busStopAll(CMD_MAKE_SAFE), one node
SweepNode ==
  /\ c1 = "sweep" /\ toSweep # {}
  /\ \E n \in toSweep, outcome \in Outcomes :
       /\ Transact("MAKE_SAFE", n, outcome)
       /\ toSweep' = toSweep \ {n}
  /\ UNCHANGED <<rpcVars, estopVars, taskVars, slots, c1>>

SweepEnds ==
  /\ c1 = "sweep" /\ toSweep = {}
  /\ estopSwept' = TRUE
  /\ c1' = "top"
  /\ UNCHANGED <<rpcVars, latched, estopRequested, taskVars, nodeVars, slots, toSweep>>

\* rpcServerPoll
PollRequest ==
  /\ c1 = "work"
  /\ IF reqQ = <<>> THEN UNCHANGED rpcVars ELSE Take
  /\ c1' = "top"
  /\ UNCHANGED <<estopVars, taskVars, nodeVars, slots, toSweep>>

\* serveNodeCmd to one node
ServeNode ==
  /\ serving.cmd \in NodeCmds /\ serving.node \in Nodes
  /\ \E outcome \in Outcomes :
       /\ Transact(serving.cmd, serving.node, outcome)
       /\ ReplyWith(IF outcome = "ok" THEN "OK" ELSE "TIMEOUT")
  /\ UNCHANGED <<estopVars, taskVars, slots, c1, toSweep>>

\* serveNodeCmd to all: OK means the frame went out. Off clears the whole mask,
\* on touches nothing.
ServeBroadcast ==
  /\ serving.cmd \in NodeCmds /\ serving.node = Broadcast
  /\ \E hearers \in (IF Lossy THEN SUBSET Nodes ELSE {Nodes}) :
       energised' = Obeyed(serving.cmd, hearers)
  /\ nodeEnabled' = IF serving.cmd = "DISABLE" THEN {} ELSE nodeEnabled
  /\ ReplyWith("OK")
  /\ UNCHANGED <<estopVars, taskVars, doubt, slots, c1, toSweep>>

\* emitProbeLeg returns: at its end, or at an estop
ServeLegEnds ==
  /\ serving.cmd = "PROBE_LEG"
  /\ ReplyWith("OK")
  /\ UNCHANGED <<estopVars, taskVars, nodeVars, slots, c1, toSweep>>

ServeBurstEnds ==
  /\ BurstEnds
  /\ UNCHANGED <<estopVars, taskVars, nodeVars, slots, c1, toSweep>>

\* A planner run: a jog or a job; ends at its end, or at an estop
PlannerRuns ==
  /\ "run" \in Commands /\ c1 = "work" /\ ~latched /\ task = "none"
  /\ MotionBegins
  /\ UNCHANGED <<estopVars, taskVars, nodeVars, slots, c1, toSweep>>

PlannerEnds ==
  /\ MotionEnds
  /\ UNCHANGED <<estopVars, taskVars, nodeVars, slots, c1, toSweep>>

-----------------------------------------------------------------------------
(* Core 0: admission *)

\* machineStep sees a planner run and a probe leg; it does not see a debug burst.
Busy == motion \/ legId # 0

Ready == task = "none" /\ call = NoRequest /\ pending = NoPending

\* machineAdmit(K_WRITE): also in ALARM, but not before the sweep is done
AdmitWrite == Ready /\ ~Busy /\ ~(latched /\ ~estopSwept)

\* machineAdmit(K_STEP)
AdmitStep == Ready /\ ~Busy /\ ~latched

Issue(cmd, n) == /\ CallStart(cmd, n)
                 /\ pending' = [cmd |-> cmd, node |-> n]

\* enable, disable, makesafe, bus_enable, slot_map: one call each
WriteCommand ==
  /\ AdmitWrite
  /\ \E cmd \in NodeCmds \ {"NODE_STATUS"}, n \in Nodes \cup {Broadcast} :
       /\ n = Broadcast => cmd \in {"ENABLE", "DISABLE"} /\ "broadcast" \in Commands
       /\ Issue(cmd, n)
  /\ UNCHANGED <<estopVars, task, todo, unconfirmed, mute, nodeVars, slots, c1, toSweep>>

\* nodestat: K_READ, admitted in motion too
ReadCommand ==
  /\ "read" \in Commands /\ Ready
  /\ \E n \in Nodes : Issue("NODE_STATUS", n)
  /\ UNCHANGED <<estopVars, task, todo, unconfirmed, mute, nodeVars, slots, c1, toSweep>>

\* step: an engaged, enabled node
StepCommand ==
  /\ "step" \in Commands /\ AdmitWrite /\ slots \cap nodeEnabled # {}
  /\ StepDebug
  /\ UNCHANGED <<estopVars, taskVars, nodeVars, slots, c1, toSweep>>

\* leg, in a probe session
ProbeLeg ==
  /\ "leg" \in Commands /\ AdmitStep
  /\ LegStart
  /\ UNCHANGED <<estopVars, taskVars, nodeVars, slots, c1, toSweep>>

\* What a finished call leaves: slotMakeSafe frees or fences the slot, an
\* engage binds it, or fences it when the node may have engaged.
Settle ==
  /\ call = NoRequest /\ pending # NoPending
  /\ slots' = CASE pending.cmd = "MAKE_SAFE" /\ answer.result = "OK" -> slots \ {pending.node}
                [] pending.cmd = "ENGAGE" -> slots \cup {pending.node}
                [] OTHER -> slots
  /\ unconfirmed' = IF task \in {"unstop", "boot"} /\ answer.result # "OK"
                    THEN unconfirmed \cup {pending.node} ELSE unconfirmed
  /\ pending' = NoPending /\ answer' = NoAnswer
  /\ UNCHANGED <<reqQ, repQ, nextId, inFlight, live, call, legId, serving, motion>>
  /\ UNCHANGED <<estopVars, task, todo, mute, nodeVars, c1, toSweep>>

\* Timing: a burst, a leg and a planner run look at estopRequested with every
\* step, so none of them outlasts RPC_CALL_TIMEOUT_MS under an estop.
Poll ==
  /\ CallPoll \/ (CallTimeout /\ ~estopRequested)
  /\ UNCHANGED <<estopVars, taskVars, nodeVars, slots, c1, toSweep>>

\* probeTick on a leg: its reply has come, or there is none at its deadline. The
\* restore of a leg that failed is slot map work.
ProbeTick ==
  /\ Ready
  /\ \/ LegPoll
     \/ repQ = <<>> /\ LegAbandon
  /\ UNCHANGED <<estopVars, taskVars, nodeVars, slots, c1, toSweep>>

-----------------------------------------------------------------------------
(* Core 0: stop and unstop *)

\* estopLatch; a probe session is torn down without a restore.
Stop ==
  /\ Ready
  /\ latched' = TRUE /\ estopSwept' = FALSE /\ estopRequested' = TRUE
  /\ IF legId = 0 THEN UNCHANGED rpcVars ELSE LegAbandon
  /\ UNCHANGED <<taskVars, nodeVars, slots, c1, toSweep>>

UnstopBegins ==
  /\ Ready /\ ~Busy /\ latched /\ estopSwept
  /\ task' = "unstop" /\ todo' = Nodes /\ unconfirmed' = {}
  /\ UNCHANGED <<rpcVars, estopVars, pending, mute, nodeVars, slots, c1, toSweep>>

busTouched == nodeEnabled \cup slots

\* unstop and busSweep walk the ids; unstop asks the touched ones only.
AskNext ==
  /\ task \in {"unstop", "boot"} /\ call = NoRequest /\ pending = NoPending
  /\ \E n \in todo :
       /\ todo' = todo \ {n}
       /\ IF task = "boot" \/ n \in busTouched
          THEN Issue("MAKE_SAFE", n)
          ELSE UNCHANGED <<rpcVars, pending>>
  /\ UNCHANGED <<estopVars, task, unconfirmed, mute, nodeVars, slots, c1, toSweep>>

WalkDone == todo = {} /\ call = NoRequest /\ pending = NoPending

\* All confirmed: estopClear lowers the latch and the request ...
UnstopEnds ==
  /\ task = "unstop" /\ WalkDone
  /\ IF unconfirmed # {}
     THEN task' = "none" /\ UNCHANGED <<latched, estopRequested>>
     ELSE latched' = FALSE /\ estopRequested' = FALSE /\ task' = "clear"
  /\ unconfirmed' = {}
  /\ UNCHANGED <<rpcVars, estopSwept, todo, pending, mute, nodeVars, slots, c1, toSweep>>

\* ... and then the swept flag.
SweptClear ==
  /\ task = "clear"
  /\ estopSwept' = FALSE
  /\ task' = "none"
  /\ UNCHANGED <<rpcVars, latched, estopRequested, todo, pending, unconfirmed, mute, nodeVars,
                 slots, c1, toSweep>>

-----------------------------------------------------------------------------
(* Core 0: the soft reset and its boot sweep *)

\* `reset`: Core 0 serves nothing until Core 1 has parked.
ResetCommand ==
  /\ "reset" \in Commands /\ AdmitWrite
  /\ task' = "park"
  /\ UNCHANGED <<rpcVars, estopVars, todo, pending, unconfirmed, mute, nodeVars, slots, c1,
                 toSweep>>

\* Core 1 is parked between two rounds. The slot table survives.
ResetWipe ==
  /\ task = "park" /\ Core1Free /\ c1 = "top"
  /\ RpcReset
  /\ latched' = FALSE /\ estopRequested' = FALSE /\ estopSwept' = FALSE
  /\ task' = "boot" /\ todo' = Nodes /\ unconfirmed' = {}
  /\ UNCHANGED <<pending, mute, nodeVars, slots, c1, toSweep>>

\* A slip: only touched nodes count as mute.
BootEndsTouchedOnly ==
  /\ task = "boot" /\ WalkDone
  /\ mute' = unconfirmed \cap busTouched
  /\ unconfirmed' = {}
  /\ task' = "none"
  /\ UNCHANGED <<reqQ, repQ, nextId, inFlight, live, call, legId, answer, serving, motion>>
  /\ UNCHANGED <<estopVars, todo, pending, nodeVars, slots, c1, toSweep>>

\* busSweep's end: who did not confirm and matters is mute (F_BUS).
BootEnds ==
  /\ task = "boot" /\ WalkDone
  /\ mute' = unconfirmed \cap (Config \cup busTouched)
  /\ unconfirmed' = {}
  /\ task' = "none"
  /\ UNCHANGED <<reqQ, repQ, nextId, inFlight, live, call, legId, answer, serving, motion>>
  /\ UNCHANGED <<estopVars, todo, pending, nodeVars, slots, c1, toSweep>>

-----------------------------------------------------------------------------
Core1Round == \/ EstopRead \/ SweptRead \/ SweepBroadcast \/ SweepNode \/ SweepEnds
              \/ PollRequest \/ ServeNode \/ ServeBroadcast

\* What an estop cuts short: these end by themselves in their own time.
Core1Long == ServeLegEnds \/ ServeBurstEnds \/ PlannerEnds

Core0Commands == \/ WriteCommand \/ ReadCommand \/ StepCommand \/ ProbeLeg
                 \/ Stop \/ UnstopBegins \/ ResetCommand

Core0Works == \/ Settle \/ Poll \/ ProbeTick \/ AskNext \/ UnstopEnds \/ SweptClear
              \/ ResetWipe \/ BootEnds

Next == Core1Round \/ Core1Long \/ PlannerRuns \/ Core0Commands \/ Core0Works \/ NodeLoses

\* Both cores run. A burst, a leg or a planner run need not end by itself, but
\* each looks at estopRequested and returns. Strong for PollRequest: processBus
\* polls after every planner run, before the next. A node need never fail.
Fairness == /\ WF_busVars(Core1Round) /\ WF_busVars(Core1Long /\ estopRequested)
            /\ WF_busVars(Core0Works) /\ SF_busVars(PollRequest)

Spec == Init /\ [][Next]_busVars
FairSpec == Spec /\ Fairness

-----------------------------------------------------------------------------
TypeOK ==
  /\ RpcTypeOK
  /\ energised \subseteq Nodes /\ nodeEnabled \subseteq Nodes /\ slots \subseteq Nodes
  /\ doubt \subseteq Nodes
  /\ latched \in BOOLEAN /\ estopRequested \in BOOLEAN /\ estopSwept \in BOOLEAN
  /\ c1 \in {"top", "mid", "broadcast", "sweep", "work"} /\ toSweep \subseteq Nodes
  /\ task \in {"none", "unstop", "clear", "park", "boot"} /\ todo \subseteq Nodes
  /\ pending \in [cmd : NodeCmds \cup {"NONE"}, node : Addresses]
  /\ unconfirmed \subseteq Nodes /\ mute \subseteq Nodes

\* Motion gates on the mask, so a bit is true when it is set and stays so until
\* something happens that no reply has told of: a node in nodeEnabled is
\* energised, unless since its last confirmed reply a switch-off was obeyed and
\* its answer lost, or the node went off by itself (noteEnabled, "only
\* confirmed replies write"; a restart and the bus-silence timeout send none).
ArmedIsTrue == nodeEnabled \subseteq (energised \cup doubt)

\* A boot that ends undegraded leaves no configured node energised: every one
\* that may still hold torque is counted mute, whatever an earlier session left
\* in the mask, the queues or on the bus (busSweep, F_BUS).
BootSweepHonest ==
  [][(task = "boot" /\ task' = "none") => (energised' \cap Config) \subseteq mute']_busVars

\* A `stop` is acted on: whatever Core 1 was doing, it gets to the sweep and
\* reports it done, or the latch is gone.
StopIsSwept == latched ~> (estopSwept \/ ~latched)
=============================================================================
