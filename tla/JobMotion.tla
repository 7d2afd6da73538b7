----------------------------- MODULE JobMotion ------------------------------
(***************************************************************************)
(* A streamed job on its way from the host's records to the tool: Core 0's *)
(* ingest into the planner ring (core0/planner/queue.cpp), its lifecycle   *)
(* commands (core0/cmd/lifecycle.cpp, core0/ops/machine.cpp) and its       *)
(* observer (core0/ops/observe.cpp), against Core 1's run of the ring      *)
(* (core1/emit/follower.cpp, core1/core1.cpp) with the executor's holds    *)
(* (lib/planner/executor.cpp).                                             *)
(*                                                                         *)
(* A record is cut in RecLen parts.  Z is up or cut, the tool is powered,  *)
(* and the ring holds Z moves, tool events and cuts.  A section under      *)
(* plannerLock is one step.  Jogs, tool changes and what a placement moves *)
(* are left out: the ring is always the job's.                             *)
(***************************************************************************)
EXTENDS Integers, Sequences

CONSTANTS Records,     \* bound: records the host's layer has
          Jobs,        \* bound: jobs the host opens
          RecLen,      \* parts a record is cut in
          Margin,      \* kResumeMargin, in parts
          RingSize,    \* Planner::kSize
          Commands,    \* bound: the commands the host sends besides the job itself
          PassCommands \* bound: packets and commands served in one pass

ASSUME JobAssumption ==
  /\ Records \in Nat \ {0} /\ Jobs \in Nat \ {0} /\ RecLen \in Nat \ {0} /\ Margin \in Nat
  /\ RingSize \in Nat /\ RingSize >= 4 /\ PassCommands \in Nat \ {0}
  /\ Commands \subseteq {"pause", "abort", "cancel", "stop", "reset", "late"}

VARIABLES
  ctx, why, jobResume,                \* machineContext, jobReason, jobResume
  pauseRequested, abortRequested,
  estop,                              \* clear, requested or swept
  active, ring, exec, staged,         \* plannerActive, plannerRing, plannerExec; a replanned
                                      \* piece of the running block waits to be adopted
  dutyWait, dutyStop,
  toolOn, power, z,                   \* Core 1's belief; the tool; Z
  facts,                              \* Core 1's reports, as FactQueue has them
  c1, mode, runsOn, evPhase,          \* Core 1: its place, and processPlanner's locals
  c0, served, jobs,                   \* Core 0: its place, commands this pass, jobs so far
  ingest,                             \* queue.cpp's layer and record counters
  place,                              \* place.cpp's active and started
  jobAborted, abortLifted, fault,     \* machine.cpp
  reach,                              \* history: how far the job's path is cut
  unheard,                            \* history: the tool did not hear its make-safe
  stuck,                              \* history: Z was down and could not lift at the last hold
  forgotten                           \* history: a reset wiped a duty hold's report, not its wait

ctxVars   == <<ctx, why, jobResume>>
flagVars  == <<pauseRequested, abortRequested>>
ringVars  == <<active, ring, exec, staged>>
dutyVars  == <<dutyWait, dutyStop, forgotten>>
toolVars  == <<toolOn, power, z, reach, unheard>>
core1Vars == <<c1, mode, runsOn, evPhase>>
core0Vars == <<c0, served, jobs, ingest, place>>
settleVars == <<jobAborted, abortLifted, fault, stuck>>
vars == <<ctxVars, flagVars, estop, ringVars, dutyVars, toolVars, facts, core1Vars,
          core0Vars, settleVars>>

\* s: for a cut the part it starts at, for the rest the part a pause in it resumes at
Block(kind, record, s) == [kind |-> kind, record |-> record, s |-> s]

IdleExec == [state |-> "Running", cur |-> FALSE, along |-> 0, moving |-> FALSE, done |-> FALSE]
NoResume == [known |-> FALSE, record |-> 0, s |-> 0]
NoStop   == [cut |-> FALSE, record |-> 0, s |-> 0]
NoLayer  == [open |-> FALSE, next |-> 1, inContour |-> FALSE, first |-> FALSE, trim |-> 0]

Init ==
  /\ ctx = "IDLE" /\ why = "BUFFERING" /\ jobResume = NoResume
  /\ pauseRequested = FALSE /\ abortRequested = FALSE /\ estop = "clear"
  /\ active = FALSE /\ ring = <<>> /\ exec = IdleExec /\ staged = FALSE
  /\ dutyWait = FALSE /\ dutyStop = NoStop /\ forgotten = FALSE
  /\ toolOn = FALSE /\ power = FALSE /\ z = "up" /\ reach = 0 /\ unheard = FALSE
  /\ facts = <<>>
  /\ c1 = "top" /\ mode = "none" /\ runsOn = FALSE /\ evPhase = "START"
  /\ c0 = "observe" /\ served = 0 /\ jobs = 0 /\ ingest = NoLayer
  /\ place = "none"
  /\ jobAborted = FALSE /\ abortLifted = FALSE /\ fault = FALSE /\ stuck = FALSE

Report(f) == facts' = Append(facts, f)

-----------------------------------------------------------------------------
(* Core 1: at rest, in processBus *)

\* Where the run stands: in the block it has claimed, or before the oldest.
StopPoint ==
  IF ring = <<>> THEN NoStop
  ELSE LET b == Head(ring)
       IN [cut    |-> b.kind = "cut", record |-> b.record,
           s      |-> IF b.kind = "cut" /\ exec.cur THEN exec.along ELSE b.s]

\* A slip: the executor keeps the block it had claimed.
DropRingKeepsExec == ring' = <<>> /\ staged' = FALSE /\ UNCHANGED exec

DropRing == ring' = <<>> /\ exec' = IdleExec /\ staged' = FALSE

\* landHeld: keep where the job stopped, drop the ring, let Core 0 lift.
LandHeld ==
  /\ jobResume' = [known |-> ring # <<>>, record |-> StopPoint.record, s |-> StopPoint.s]
  /\ DropRing /\ active' = FALSE
  /\ why' = "HOLDING"
  /\ Report("HELD")
  /\ UNCHANGED ctx

\* processPlanner's locals, at its entry and gone at its return
Enters(lift) == c1' = "look" /\ mode' = "none" /\ runsOn' = lift /\ evPhase' = "START"
Returns == c1' = "top" /\ mode' = "none" /\ runsOn' = FALSE /\ evPhase' = "START"

MayEnter == c1 = "top" /\ estop = "clear" /\ ctx = "JOB" /\ ~abortRequested

\* enter: the lift Core 0 queued in a held or aborted job
EnterLift ==
  /\ MayEnter /\ why \in {"HOLDING", "ABORTING"} /\ ~active /\ ring # <<>>
  /\ active' = TRUE
  /\ Enters(TRUE)
  /\ UNCHANGED <<ctxVars, flagVars, estop, ring, exec, staged, dutyVars, toolVars, facts,
                 core0Vars, settleVars>>

\* enter: a pause at rest
EnterHeld ==
  /\ MayEnter /\ why = "BUFFERING" /\ pauseRequested
  /\ LandHeld
  /\ UNCHANGED <<flagVars, estop, dutyVars, toolVars, core1Vars, core0Vars, settleVars>>

\* enter: the job has buffered
EnterRun ==
  /\ MayEnter /\ why = "BUFFERING" /\ ~pauseRequested /\ ring # <<>>
  /\ active' = TRUE /\ why' = "RUNNING"
  /\ Enters(FALSE)
  /\ UNCHANGED <<ctx, jobResume, flagVars, estop, ring, exec, staged, dutyVars, toolVars, facts,
                 core0Vars, settleVars>>

\* An abort with nothing to stop: the ring is dropped ...
AbortDrops ==
  /\ c1 = "top" /\ abortRequested
  /\ c1' = IF ring # <<>> \/ active THEN "dropped" ELSE "consumed"
  /\ DropRing /\ active' = FALSE
  /\ UNCHANGED <<ctxVars, flagVars, estop, dutyVars, toolVars, facts, mode, runsOn, evPhase,
                 core0Vars, settleVars>>

\* ... and the request consumed.
AbortConsumed ==
  /\ c1 \in {"dropped", "consumed"}
  /\ pauseRequested' = FALSE /\ abortRequested' = FALSE
  /\ IF c1 = "dropped" THEN Report("DRAINED") ELSE UNCHANGED facts
  /\ c1' = "top"
  /\ UNCHANGED <<ctxVars, estop, ringVars, dutyVars, toolVars, mode, runsOn, evPhase,
                 core0Vars, settleVars>>

\* The estop's sweep; who it reaches is BusSafety's subject.
EstopSweep ==
  /\ c1 = "top" /\ estop = "requested"
  /\ pauseRequested' = FALSE /\ abortRequested' = FALSE
  /\ DropRing /\ active' = FALSE
  /\ power' = FALSE
  /\ estop' = "swept"
  /\ UNCHANGED <<ctxVars, dutyVars, toolOn, z, reach, unheard, facts, core1Vars, core0Vars,
                 settleVars>>

-----------------------------------------------------------------------------
(* Core 1: processPlanner, one tick in three steps *)

EstopReturns ==
  /\ c1 \in {"look", "tick", "settle"} /\ estop # "clear"
  /\ Returns
  /\ UNCHANGED <<ctxVars, flagVars, estop, ringVars, dutyVars, toolVars, facts, core0Vars,
                 settleVars>>

Hold(e) == IF e.state = "Running" THEN [e EXCEPT !.state = "Holding"] ELSE e

Cutting == exec.cur /\ Head(ring).kind = "cut"

\* A replanned piece found after its switch time: the executor holds.
Late ==
  /\ staged
  /\ exec.state = "Running" /\ exec.cur /\ Head(ring).kind \notin {"on", "off"}
  /\ mode = "none"

\* The requests, in the order of the code; a duty wait is left by an abort only.
Look ==
  /\ c1 = "look" /\ estop = "clear" /\ (dutyWait => abortRequested)
  /\ c1' = "tick" /\ staged' = FALSE
  /\ \/ /\ abortRequested /\ mode # "abort"
        /\ exec' = Hold(exec) /\ mode' = "abort" /\ why' = "ABORTING"
     \/ /\ pauseRequested /\ ~abortRequested /\ ~runsOn /\ mode \in {"none", "late"}
        /\ exec' = Hold(exec) /\ mode' = "pause" /\ why' = "HOLDING"
     \/ /\ ~abortRequested /\ ~(pauseRequested /\ ~runsOn) /\ Late
        /\ exec' = Hold(exec) /\ mode' = "late"
        /\ why' = IF runsOn THEN why ELSE "HOLDING"
     \/ /\ ~abortRequested /\ ~pauseRequested /\ ~runsOn /\ mode = "none" /\ toolOn /\ Cutting
        /\ exec' = Hold(exec) /\ mode' = "duty" /\ UNCHANGED why
     \/ /\ abortRequested => mode = "abort"
        /\ pauseRequested => (runsOn \/ mode \notin {"none", "late"})
        /\ UNCHANGED <<exec, mode, why>>
  /\ UNCHANGED <<ctx, jobResume, flagVars, estop, active, ring, dutyVars, toolVars, facts,
                 runsOn, evPhase, core0Vars, settleVars>>

\* A cut of record r from part a; the history asks what was cut before it.
PathAt(r, a) == (r - 1) * RecLen + a

Claim ==
  /\ ~exec.cur /\ ring # <<>>
  /\ exec.state = "Running" \/ exec.moving
  /\ exec' = [exec EXCEPT !.cur = TRUE, !.done = FALSE,
                          !.along = IF Head(ring).kind = "cut" THEN Head(ring).s ELSE 0]
  /\ z' = IF Head(ring).kind = "down" THEN "cut" ELSE z
  /\ UNCHANGED <<ring, staged, reach>>

\* Only two cuts join at speed.
Finish ==
  /\ exec.cur
  /\ \/ Head(ring).kind \in {"on", "off"} /\ exec.done
     \/ Head(ring).kind \in {"up", "down"} /\ exec.state # "Held"
     \/ Cutting /\ exec.state # "Held" /\ exec.along = RecLen
  /\ ring' = Tail(ring)
  /\ \E moving \in BOOLEAN :
       /\ moving => Cutting /\ Len(ring) > 1 /\ ring[2].kind = "cut"
       /\ exec' = [exec EXCEPT !.cur = FALSE, !.along = 0, !.done = FALSE, !.moving = moving]
  /\ z' = IF Head(ring).kind = "up" THEN "up" ELSE z
  /\ UNCHANGED <<staged, reach>>

Advance ==
  /\ Cutting /\ exec.state # "Held" /\ exec.along < RecLen
  /\ exec' = [exec EXCEPT !.along = @ + 1, !.moving = TRUE]
  /\ LET at == PathAt(Head(ring).record, exec.along)
     IN reach' = IF at = reach THEN at + 1 ELSE reach
  /\ UNCHANGED <<ring, staged, z>>

\* A hold completes at rest between blocks, at an event not yet run, and where
\* the braking ends; a hold that was an abort empties the ring.
HoldEnds ==
  /\ exec.state = "Holding"
  /\ ~exec.cur => ~exec.moving \/ ring = <<>>
  /\ (exec.cur /\ Head(ring).kind \in {"on", "off"}) => ~exec.done
  /\ IF mode = "abort" THEN DropRing
     ELSE exec' = [exec EXCEPT !.state = "Held", !.moving = FALSE] /\ UNCHANGED <<ring, staged>>
  /\ UNCHANGED <<z, reach>>

AbortFindsHeld == exec.state = "Held" /\ mode = "abort" /\ DropRing /\ UNCHANGED <<z, reach>>

\* Nothing to move: the ring is dry, an event waits, or the hold is complete.
TickRests ==
  /\ \/ exec.state = "Running" /\ ~exec.cur /\ ring = <<>>
     \/ exec.state = "Running" /\ exec.cur /\ Head(ring).kind \in {"on", "off"} /\ ~exec.done
     \/ exec.state = "Held" /\ mode # "abort"
  /\ UNCHANGED <<ring, staged, exec, z, reach>>

\* Where a settled tick has something to do
Rests(q, e) == \/ e.state = "Held" \/ q = <<>>
               \/ e.cur /\ Head(q).kind \in {"on", "off"} /\ ~e.done

Tick ==
  /\ c1 = "tick" /\ estop = "clear"
  /\ Claim \/ Finish \/ Advance \/ HoldEnds \/ AbortFindsHeld \/ TickRests
  /\ c1' = IF Rests(ring', exec') THEN "settle" ELSE "look"
  /\ UNCHANGED <<ctxVars, flagVars, estop, active, dutyVars, toolOn, power, unheard, facts,
                 mode, runsOn, evPhase, core0Vars, settleVars>>

\* The followers have not caught up, or nothing is due: the next tick.
NotSettled ==
  /\ c1 = "settle"
  /\ c1' = "look"
  /\ UNCHANGED <<ctxVars, flagVars, estop, ringVars, dutyVars, toolVars, facts, mode, runsOn,
                 evPhase, core0Vars, settleVars>>

AtSettle(m) == c1 = "settle" /\ estop = "clear" /\ mode = m

\* leaveDrained, for a finished abort and a finished lift: under the lock ...
Drained ==
  /\ \/ AtSettle("abort") /\ exec.state = "Running"
     \/ AtSettle("none") /\ runsOn
  /\ ring = <<>>
  /\ active' = FALSE
  /\ c1' = "drained"
  /\ UNCHANGED <<ctxVars, flagVars, estop, ring, exec, staged, dutyVars, toolVars, facts, mode,
                 runsOn, evPhase, core0Vars, settleVars>>

\* ... and after it.
DrainedReports ==
  /\ c1 = "drained"
  /\ pauseRequested' = FALSE /\ abortRequested' = FALSE
  /\ Report("DRAINED")
  /\ Returns
  /\ UNCHANGED <<ctxVars, estop, ringVars, dutyVars, toolVars, core0Vars, settleVars>>

\* leaveDry
RunsDry ==
  /\ AtSettle("none") /\ ~runsOn /\ ring = <<>>
  /\ active' = FALSE /\ why' = "BUFFERING"
  /\ Returns
  /\ UNCHANGED <<ctx, jobResume, flagVars, estop, ring, exec, staged, dutyVars, toolVars, facts,
                 core0Vars, settleVars>>

\* A slip: the part under the tool counts as cut.
ReleaseNextPart ==
  /\ ring' = IF Cutting THEN [ring EXCEPT ![1].s = IF exec.along < RecLen THEN exec.along + 1
                                                   ELSE RecLen]
            ELSE ring
  /\ exec' = IdleExec
  /\ UNCHANGED staged

\* Executor::release: what is left of the claimed block goes back.
Release ==
  /\ ring' = IF Cutting THEN [ring EXCEPT ![1].s = exec.along] ELSE ring
  /\ exec' = IdleExec
  /\ UNCHANGED staged

\* rebuffer (a job: plannerActive stays up), or a lift's resume
LateRests ==
  /\ AtSettle("late") /\ exec.state = "Held"
  /\ Release
  /\ IF runsOn THEN c1' = "look" /\ mode' = "none" /\ UNCHANGED <<why, runsOn, evPhase>>
     ELSE Returns /\ why' = "BUFFERING"
  /\ UNCHANGED <<ctx, jobResume, flagVars, estop, active, dutyVars, toolVars, facts, core0Vars,
                 settleVars>>

\* dutyHeld
DutyRests ==
  /\ AtSettle("duty") /\ exec.state = "Held"
  /\ dutyStop' = StopPoint
  /\ dutyWait' = TRUE
  /\ Release
  /\ Report("DUTY_HELD")
  /\ c1' = "look" /\ mode' = "none"
  /\ UNCHANGED <<ctxVars, flagVars, estop, active, forgotten, toolVars, runsOn, evPhase, core0Vars,
                 settleVars>>

\* leaveHeld
PauseRests ==
  /\ AtSettle("pause") /\ exec.state = "Held"
  /\ LandHeld
  /\ Returns
  /\ UNCHANGED <<flagVars, estop, dutyVars, toolVars, core0Vars, settleVars>>

EventWaits(kind) ==
  /\ AtSettle("none") /\ exec.cur /\ ~exec.done /\ Head(ring).kind = kind

\* TOOL_EV_OFF: a tool that will not switch off is made safe, if it hears that.
EventOff ==
  /\ EventWaits("off")
  /\ \/ power' = FALSE /\ UNCHANGED <<facts, unheard>>
     \/ power' = FALSE /\ Report("TOOL_FAILED") /\ UNCHANGED unheard
     \/ power /\ Report("TOOL_FAILED") /\ unheard' = TRUE /\ UNCHANGED power
  /\ toolOn' = FALSE
  /\ exec' = [exec EXCEPT !.done = TRUE]
  /\ c1' = "look"
  /\ UNCHANGED <<ctxVars, flagVars, estop, active, ring, staged, dutyVars, z, reach, mode, runsOn,
                 evPhase, core0Vars, settleVars>>

\* TOOL_EV_ON up to its switch: a tool off for too short a time dwells first.
EventDwell ==
  /\ EventWaits("on")
  /\ \/ evPhase = "START" /\ ~toolOn /\ evPhase' = "DWELL" /\ why' = "DWELL"
     \/ evPhase = "START" /\ evPhase' = "SWITCH" /\ UNCHANGED why
     \/ evPhase = "DWELL" /\ evPhase' = "SWITCH" /\ why' = "RUNNING"
  /\ c1' = "look"
  /\ UNCHANGED <<ctx, jobResume, flagVars, estop, ringVars, dutyVars, toolVars, facts, mode,
                 runsOn, core0Vars, settleVars>>

EventSwitch ==
  /\ EventWaits("on") /\ evPhase = "SWITCH"
  /\ \/ power' = TRUE /\ toolOn' = TRUE /\ evPhase' = "SETTLE" /\ UNCHANGED facts
     \/ evPhase' = "FAILED" /\ Report("TOOL_FAILED") /\ UNCHANGED <<power, toolOn>>
  /\ c1' = "look"
  /\ UNCHANGED <<ctxVars, flagVars, estop, ringVars, dutyVars, z, reach, unheard, mode, runsOn,
                 core0Vars, settleVars>>

EventSettled ==
  /\ EventWaits("on") /\ evPhase = "SETTLE"
  /\ evPhase' = "START"
  /\ exec' = [exec EXCEPT !.done = TRUE]
  /\ c1' = "look"
  /\ UNCHANGED <<ctxVars, flagVars, estop, active, ring, staged, dutyVars, toolVars, facts, mode,
                 runsOn, core0Vars, settleVars>>

Settled == \/ Drained \/ RunsDry \/ LateRests \/ DutyRests \/ PauseRests
           \/ EventOff \/ EventDwell \/ EventSwitch \/ EventSettled

Core1 == \/ EnterLift \/ EnterHeld \/ EnterRun \/ AbortDrops \/ AbortConsumed \/ EstopSweep
         \/ EstopReturns \/ Look \/ Tick \/ NotSettled \/ Settled \/ DrainedReports

-----------------------------------------------------------------------------
(* Core 0: the lifts, and what machinePublish settles *)

core1Untouched == <<estop, exec, staged, toolVars, core1Vars>>

\* A slip: a lift leaves the tool on.
LiftBlocksStayOn(fits) == IF z = "cut" /\ fits THEN <<Block("up", 0, 0)>> ELSE <<>>

\* plannerQueueLift: Z up if it is down and the move fits its range (zMoveFits),
\* the tool off if it is on; off alone where Z cannot lift. The config and the
\* limits of Z that it also asks for are there as long as a layer is open.
LiftBlocks(fits) ==
  (IF z = "cut" /\ fits THEN <<Block("up", 0, 0)>> ELSE <<>>) \o
  (IF toolOn THEN <<Block("off", 0, 0)>> ELSE <<>>)

AtRest == ~active /\ ring = <<>>

LiftDue(fits) == ingest.open /\ ctx = "JOB" /\ AtRest /\ LiftBlocks(fits) # <<>>

QueueLift(reason, fits) == LiftDue(fits) /\ ring' = LiftBlocks(fits) /\ why' = reason

SettleDue == jobAborted /\ ~abortRequested /\ AtRest

\* abortSettle: an aborted job at rest lifts once, then closes.
AbortSettle(fits) ==
  IF ~abortLifted /\ LiftDue(fits)
  THEN /\ QueueLift("ABORTING", fits)
       /\ abortLifted' = TRUE
       /\ UNCHANGED <<ctx, jobAborted>>
  ELSE /\ jobAborted' = FALSE /\ abortLifted' = FALSE
       /\ ctx' = "IDLE"
       /\ UNCHANGED <<ring, why>>

\* machinePublish after a packet or a command; it comes at a pass's end too.
Publish ==
  /\ c0 \in {"serial", "last"} /\ SettleDue
  /\ \E fits \in BOOLEAN : AbortSettle(fits)
  /\ UNCHANGED <<core1Untouched, jobResume, flagVars, active, dutyVars, facts, core0Vars, fault,
                 stuck>>

\* The end of a pass, with placeTick: it starts a placement, or leaves it.
PassEnds ==
  /\ c0 \in {"serial", "last"} /\ ~SettleDue
  /\ c0' = "observe" /\ served' = 0 /\ UNCHANGED jobs
  /\ place' = IF place # "none" /\ ctx = "JOB" /\ why = "PLACE" /\ ~jobAborted THEN "started"
              ELSE "none"
  /\ UNCHANGED <<core1Untouched, ctxVars, flagVars, active, ring, dutyVars, facts, ingest,
                 settleVars>>

-----------------------------------------------------------------------------
(* Core 0: observeTick *)

Observes(f) == c0 = "observe" /\ facts # <<>> /\ Head(facts) = f /\ facts' = Tail(facts)

\* plannerLandPaused
LandPaused ==
  IF ctx = "JOB" /\ why = "HOLDING" /\ AtRest
  THEN pauseRequested' = FALSE /\ why' = "PAUSED"
  ELSE UNCHANGED <<pauseRequested, why>>

ObserveHeld ==
  /\ Observes("HELD")
  /\ \E fits \in BOOLEAN :
       /\ IF LiftDue(fits) THEN QueueLift("HOLDING", fits) /\ UNCHANGED pauseRequested
          ELSE LandPaused /\ UNCHANGED ring
       /\ stuck' = (z = "cut" /\ ~fits)
  /\ UNCHANGED <<core1Untouched, ctx, jobResume, abortRequested, active, dutyVars, core0Vars,
                 jobAborted, abortLifted, fault>>

\* A slip: a drained lift is not seen to end the pause.
ObserveDrainedOnly ==
  /\ Observes("DRAINED")
  /\ UNCHANGED <<core1Untouched, ctxVars, flagVars, active, ring, dutyVars, core0Vars,
                 settleVars>>

ObserveDrained ==
  /\ Observes("DRAINED")
  /\ IF AtRest THEN LandPaused ELSE UNCHANGED <<pauseRequested, why>>
  /\ UNCHANGED <<core1Untouched, ctx, jobResume, abortRequested, active, ring, dutyVars,
                 core0Vars, settleVars>>

\* faultSet(F_TOOL), machineTeardown: a job is aborted, a ring without one stopped.
RaiseFault ==
  /\ fault' = TRUE
  /\ jobAborted' = (jobAborted \/ ctx = "JOB")
  /\ abortRequested' = (abortRequested \/ ctx = "JOB" \/ active)

ObserveToolFailed ==
  /\ Observes("TOOL_FAILED")
  /\ RaiseFault
  /\ ring' = IF ctx = "JOB" \/ active THEN ring ELSE <<>>
  /\ UNCHANGED <<core1Untouched, ctxVars, pauseRequested, active, dutyVars, core0Vars,
                 abortLifted, stuck>>

\* A slip: the lift does not plunge back.
DutyBlocksUnplunged(d) ==
  [i \in 1..3 |-> Block(<<"up", "off", "on">>[i], d.record, d.s)]

DutyBlocks(d) == [i \in 1..4 |-> Block(<<"up", "off", "on", "down">>[i], d.record, d.s)]

\* plannerDutyLift: ahead of the ring, lift, off, on, plunge back, if the ring
\* has room and Z can go there and back (zFits) ...
ObserveDutyHeld ==
  /\ Observes("DUTY_HELD")
  /\ \E zFits \in BOOLEAN :
     LET d    == dutyStop
         lift == d.cut /\ ~abortRequested /\ ctx = "JOB"
         fits == Len(ring) <= RingSize - 4 /\ zFits
     IN /\ ring' = IF lift /\ fits THEN DutyBlocks(d) \o ring ELSE ring
        /\ IF lift /\ ~fits THEN RaiseFault ELSE UNCHANGED <<fault, jobAborted, abortRequested>>
  /\ c0' = "unwait"
  /\ UNCHANGED <<core1Untouched, ctxVars, pauseRequested, active, dutyVars, served, jobs, ingest,
                 place, abortLifted, stuck>>

\* ... and once it is replanned, Core 1 goes on.
DutyUnwaits ==
  /\ c0 = "unwait"
  /\ dutyWait' = FALSE
  /\ dutyStop' = NoStop        \* read no more
  /\ c0' = "observe"
  /\ UNCHANGED <<core1Untouched, ctxVars, flagVars, active, ring, facts, served,
                 jobs, ingest, place, settleVars, forgotten>>

ObserveEnds ==
  /\ c0 = "observe" /\ facts = <<>>
  /\ c0' = "serial"
  /\ UNCHANGED <<core1Untouched, ctxVars, flagVars, active, ring, dutyVars, facts, served,
                 jobs, ingest, place, settleVars>>

-----------------------------------------------------------------------------
(* Core 0: what the host sends *)

\* Timing: between two bytes of the host Core 1 gets past the few instructions
\* from an unlock to the report of what it did.
Core1Prompt == c1 \notin {"drained", "dropped", "consumed"}

Turn == /\ Core1Prompt /\ c0 = "serial"
        /\ served' = served + 1
        /\ c0' = IF served' = PassCommands THEN "last" ELSE "serial"

Serves == Turn /\ UNCHANGED <<jobs, place>>

\* Bound: only with "late" does the host send more of a job that it has aborted, or
\* pause or abort it again.
SendsOn == jobAborted => "late" \in Commands

\* JOB_HDR: machineView is IDLE, so no fault, no latch and nothing in the ring.
OpenJob ==
  /\ Turn /\ jobs < Jobs /\ jobs' = jobs + 1
  /\ ctx = "IDLE" /\ AtRest /\ ~fault /\ estop = "clear"
  /\ ~pauseRequested /\ ~abortRequested
  /\ ctx' = "JOB" /\ why' = "PREFLIGHT" /\ jobResume' = NoResume
  /\ ingest' = [ingest EXCEPT !.open = FALSE, !.next = 1, !.inContour = FALSE]
  /\ reach' = 0
  /\ UNCHANGED <<estop, exec, staged, toolOn, power, z, unheard, core1Vars, flagVars, active,
                 ring, dutyVars, facts, place, settleVars>>

InPreflight == ctx = "JOB" /\ why = "PREFLIGHT" /\ ~abortRequested

\* The last TOOL_HDR passes, and the placement begins ...
PreflightPasses ==
  /\ Turn /\ UNCHANGED jobs
  /\ InPreflight /\ AtRest
  /\ why' = "PLACE" /\ place' = "begun"
  /\ UNCHANGED <<core1Untouched, ctx, jobResume, flagVars, active, ring, dutyVars, facts,
                 ingest, settleVars>>

\* ... or one is refused, which closes the job.
PreflightFails ==
  /\ Serves
  /\ InPreflight
  /\ ctx' = "IDLE"
  /\ UNCHANGED <<core1Untouched, why, jobResume, flagVars, active, ring, dutyVars, facts,
                 ingest, settleVars>>

\* `place ok`: the operator has placed the job.
PlaceOk ==
  /\ Turn /\ UNCHANGED jobs
  /\ ctx = "JOB" /\ why = "PLACE" /\ place = "started" /\ AtRest
  /\ why' = "BUFFERING" /\ place' = "none"
  /\ UNCHANGED <<core1Untouched, ctx, jobResume, flagVars, active, ring, dutyVars, facts,
                 ingest, settleVars>>

\* admit, for a record: the abort barrier of the data plane is the same test.
Admits == /\ ctx = "JOB" /\ why \in {"BUFFERING", "RUNNING", "DWELL"}
          /\ ~pauseRequested /\ ~abortRequested

\* LAYER_HDR for a new layer; the host opens it where the path has got to.
OpenLayer ==
  /\ Serves /\ SendsOn
  /\ Admits /\ ~ingest.inContour
  /\ ingest' = [ingest EXCEPT !.open = TRUE, !.first = TRUE]
  /\ UNCHANGED <<core1Untouched, ctxVars, flagVars, active, ring, dutyVars, facts, settleVars>>

Max0(n) == IF n < 0 THEN 0 ELSE n

\* LAYER_HDR in PAUSED, naming plannerResumePoint
Resume ==
  /\ Serves
  /\ ctx = "JOB" /\ why = "PAUSED" /\ ~pauseRequested /\ ~abortRequested
  /\ ingest' = [open |-> TRUE, inContour |-> FALSE, first |-> TRUE,
                next |-> IF jobResume.known THEN jobResume.record ELSE ingest.next,
                trim |-> IF jobResume.known THEN Max0(jobResume.s - Margin) ELSE 0]
  /\ jobResume' = NoResume
  /\ why' = "BUFFERING"
  /\ UNCHANGED <<core1Untouched, ctx, flagVars, active, ring, dutyVars, facts, settleVars>>

\* A record's blocks: a START's lift, travel (with it), tool on and plunge; a
\* lift at a BREAK, for a corner or a planned duty stop; the curve; an END's lift
\* and tool off, which resume at the next record.
RecordBlocks(start, brk, end) ==
  LET r == ingest.next
      Tagged(kinds, rec) == [i \in DOMAIN kinds |-> Block(kinds[i], rec, 0)]
  IN Tagged(IF start THEN <<"up", "on", "down">>
            ELSE IF brk = "corner" THEN <<"up", "down">>
            ELSE IF brk = "duty" THEN <<"up", "off", "on", "down">> ELSE <<>>, r)
     \o <<Block("cut", r, IF ingest.first THEN ingest.trim ELSE 0)>>
     \o Tagged(IF end THEN <<"up", "off">> ELSE <<>>, r + 1)

\* 4 slots are kept for a duty lift.
HasRoom(n) == Len(ring) + n + 4 <= RingSize

\* BEZIER
QueueRecord ==
  /\ Serves /\ SendsOn
  /\ Admits /\ ingest.open /\ ingest.next <= Records
  /\ ingest.first => ~ingest.inContour
  /\ \E brk \in {"none", "corner", "duty"}, end \in BOOLEAN :
       LET start  == ~ingest.inContour
           blocks == RecordBlocks(start, brk, end)
       IN /\ start => brk = "none"
          /\ ingest.next = Records => end
          /\ HasRoom(Len(blocks))
          /\ ring' = ring \o blocks
          /\ ingest' = [open |-> TRUE, next |-> ingest.next + 1, inContour |-> ~end,
                        first |-> FALSE, trim |-> 0]
  /\ staged' = (staged \/ exec.cur)
  /\ UNCHANGED <<estop, exec, toolVars, core1Vars, ctxVars, flagVars, active, dutyVars, facts,
                 settleVars>>

Pause ==
  /\ Serves /\ SendsOn /\ "pause" \in Commands
  /\ ctx = "JOB" /\ ingest.open /\ why \in {"BUFFERING", "RUNNING", "DWELL"}
  /\ pauseRequested' = TRUE
  /\ UNCHANGED <<core1Untouched, ctxVars, abortRequested, active, ring, dutyVars, facts, ingest,
                 settleVars>>

\* ABORT: jobAbort and plannerEndContour
Abort ==
  /\ Serves /\ SendsOn /\ "abort" \in Commands
  /\ abortRequested' = TRUE
  /\ jobAborted' = (jobAborted \/ ctx = "JOB")
  /\ ingest' = [ingest EXCEPT !.inContour = FALSE]
  /\ UNCHANGED <<core1Untouched, ctxVars, pauseRequested, active, ring, dutyVars, facts,
                 abortLifted, fault, stuck>>

\* cancel, of a job at rest; a tool still on is switched off over the bus, which
\* is served once Core 1 is back in processBus.
Cancel ==
  /\ Serves /\ "cancel" \in Commands
  /\ ctx = "JOB" /\ why \in {"PAUSED", "BUFFERING", "PREFLIGHT", "PLACE"} /\ c1 = "top"
  /\ DropRing /\ active' = FALSE
  /\ pauseRequested' = FALSE
  /\ ctx' = "IDLE"
  /\ ingest' = [ingest EXCEPT !.inContour = FALSE]
  /\ power' = (power /\ ~toolOn) /\ toolOn' = FALSE
  /\ UNCHANGED <<why, jobResume, abortRequested, estop, z, reach, unheard, core1Vars, dutyVars,
                 facts, settleVars>>

\* stop: the job is closed here, its ring dropped by the sweep.
Stop ==
  /\ Serves /\ "stop" \in Commands
  /\ estop' = "requested"
  /\ ctx' = "IDLE" /\ jobAborted' = FALSE /\ abortLifted' = FALSE
  /\ UNCHANGED <<why, jobResume, flagVars, ringVars, dutyVars, toolVars, facts,
                 core1Vars, ingest, fault, stuck>>

Unstop ==
  /\ Serves
  /\ estop = "swept"
  /\ estop' = "clear"
  /\ UNCHANGED <<ctxVars, flagVars, ringVars, dutyVars, toolVars, facts, core1Vars,
                 ingest, settleVars>>

Unalarm ==
  /\ Serves
  /\ fault /\ ctx = "IDLE" /\ AtRest /\ estop = "clear"
  /\ fault' = FALSE
  /\ UNCHANGED <<core1Untouched, ctxVars, flagVars, active, ring, dutyVars, facts, ingest,
                 jobAborted, abortLifted, stuck>>

\* reset, at rest and out of a job: Core 1 parks between two rounds, the state is
\* wiped and the boot sweep parks the bus.
Reset ==
  /\ Serves /\ "reset" \in Commands
  /\ ctx = "IDLE" /\ AtRest /\ estop # "requested" /\ c1 = "top"
  /\ facts' = <<>>
  /\ fault' = FALSE /\ jobAborted' = FALSE /\ abortLifted' = FALSE /\ estop' = "clear"
  /\ why' = "BUFFERING"
  /\ pauseRequested' = FALSE /\ abortRequested' = FALSE
  /\ DropRing
  /\ power' = FALSE
  /\ forgotten' = dutyWait
  /\ UNCHANGED <<ctx, jobResume, active, dutyWait, dutyStop, toolOn, z, reach, unheard, core1Vars,
                 ingest, stuck>>

Host == \/ OpenJob \/ PreflightPasses \/ PreflightFails \/ PlaceOk \/ OpenLayer \/ Resume \/ QueueRecord
        \/ Pause \/ Abort \/ Cancel \/ Stop \/ Unstop \/ Unalarm \/ Reset

Observe == \/ ObserveHeld \/ ObserveDrained \/ ObserveToolFailed \/ ObserveDutyHeld
           \/ DutyUnwaits \/ ObserveEnds

Pass == Observe \/ Publish \/ PassEnds

Next == Host \/ Pass \/ Core1

Spec == Init /\ [][Next]_vars

CutGoesOn == Tick /\ Cutting /\ exec'.along # exec.along

\* Both loops run, and what the host sends it sends as it likes. Strong for
\* Settled: the followers catch up with an executor at rest. Strong for Publish:
\* it runs after every byte, and no host times an ABORT into each gap. Strong for
\* CutGoesOn: a tool's maxOnS leaves time to cut between two duty lifts.
FairSpec == /\ Spec
            /\ WF_vars(Pass) /\ SF_vars(Publish)
            /\ WF_vars(Core1) /\ SF_vars(Settled) /\ SF_vars(CutGoesOn)

-----------------------------------------------------------------------------
FactNames == {"HELD", "DRAINED", "TOOL_FAILED", "DUTY_HELD"}
\* The job waits for the host.
AtHost == {"BUFFERING", "PAUSED", "PREFLIGHT", "PLACE"}

Reasons == {"BUFFERING", "RUNNING", "HOLDING", "PAUSED", "ABORTING", "DWELL", "PREFLIGHT",
            "PLACE"}
Kinds == {"up", "down", "on", "off", "cut"}

TypeOK ==
  /\ ctx \in {"IDLE", "JOB"} /\ why \in Reasons
  /\ ring \in Seq([kind : Kinds, record : 0..(Records + 1), s : 0..RecLen])
  /\ Len(ring) <= RingSize
  /\ exec \in [state : {"Running", "Holding", "Held"}, cur : BOOLEAN, along : 0..RecLen,
               moving : BOOLEAN, done : BOOLEAN]
  /\ exec.cur => ring # <<>>
  /\ facts \in Seq(FactNames)

\* A paused job is safe to leave: the ring is empty and idle, the blade is up
\* and the tool is off, however the pause met a duty stop, a late block, a dwell
\* or a dry ring. The blade stays down only if the hold it landed from found
\* that Z cannot lift there (queue.cpp, "off alone where Z cannot lift"), and
\* the tool on only if it hears nothing. An abort settles it next.
PausedIsSafe ==
  (ctx = "JOB" /\ why = "PAUSED" /\ ~jobAborted) =>
     AtRest /\ (z = "up" \/ stuck) /\ ~toolOn /\ (power => unheard)

Cuts == c1 = "tick" /\ Cutting /\ exec'.cur /\ exec'.along > exec.along

\* The path is cut with the blade plunged and the tool powered, although lifts
\* are put ahead of a ring that is part run and a resume starts inside a record
\* (an aborted job is on its way out and cut no further by its own blocks).
CutsPlunged == [][(Cuts /\ ~jobAborted) => z = "cut" /\ power]_vars

\* The path is cut without a gap: a pause, a duty hold and a late block go on
\* where the executor stopped, or before it, never after it (landHeld, dutyHeld,
\* Executor::release, plannerOpenLayer's trim).
NoGap == [][(Cuts /\ ~jobAborted) => PathAt(Head(ring).record, exec.along) <= reach]_vars

\* A duty hold's report is there until plannerDutyLift has answered it, or it is
\* being answered.
DutyIsAnswered == c0 = "unwait" \/ \E i \in DOMAIN facts : facts[i] = "DUTY_HELD"

\* Core 1 never waits for a lift that nobody owes it, whatever ends the job and
\* however many commands Core 0 serves between two looks at the facts. True until
\* the host sends a reset (JobMotionProofs, WaitIsAlwaysAnswered): one that finds
\* the fact unread wipes it and not the wait.
DutyIsOwed == dutyWait => DutyIsAnswered

\* Who waits is answered.  A job that is to move or to stop, or that has been
\* asked to pause, is somebody's next step: Core 1 has the ring or takes it, a
\* fact waits for the observer, or the estop ends the job; and a duty hold's
\* fact is still there for plannerDutyLift.  No order of holds, lifts, drains
\* and dry rings loses the step that would end the wait (an aborted job: see
\* AbortCloses), and nothing but a reset loses the answer of a duty hold (see
\* DutyIsOwed).
WaitIsOwed ==
  /\ (ctx = "JOB" /\ ~jobAborted /\ (why \notin AtHost \/ pauseRequested)) =>
       \/ active \/ c1 # "top" \/ facts # <<>> \/ estop # "clear" \/ abortRequested
       \/ why = "BUFFERING"
       \/ why = "HOLDING" /\ ring # <<>>
  /\ dutyWait => DutyIsAnswered \/ forgotten

\* "An aborted job at rest lifts once, then closes when the lift has drained"
\* (machine.cpp, abortSettle): it comes to rest and closes.
AbortCloses == jobAborted ~> ~jobAborted
=============================================================================
