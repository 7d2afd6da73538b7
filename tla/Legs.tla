-------------------------------- MODULE Legs --------------------------------
(***************************************************************************)
(* Node-run legs and the sequences made of them: the node's pulser         *)
(* (node/types/stepper), Core 0's leg supervisor (core0/ops/leg.cpp), the  *)
(* runner and its mailbox (ops/runner.cpp), the sequence driver            *)
(* (ops/sequence.cpp), homing (ops/homing.cpp) and the recipes of          *)
(* core0/controller/seq: home, recovery, goto, tool change and placement.  *)
(*                                                                         *)
(* A position is one of the places the verdicts tell apart: on the switch, *)
(* at the park position, or elsewhere.  Feeds, ramps, budgets and travel   *)
(* are left out, so a leg may always stop short.  Every node is in the     *)
(* config and bound; the heads' selection is left out.                     *)
(***************************************************************************)
EXTENDS Integers, Sequences, FiniteSets

CONSTANTS Axes,        \* the homeable nodes in homeAxes' order
          Rotary,      \* those with a Hall index; the others have a switch
          Zs,          \* headZNodes
          XY,          \* the nodes a line moves
          Cycle,       \* each node's homing.cycle
          LegMisses,   \* LEG_POLL_MISSES
          SettlePolls, \* LEG_SETTLE_POLLS
          LegMax,      \* LEG_MAX
          OnSwitch,    \* bound: the nodes that stand on their switch at power-on
          Commands,    \* the host's commands in this instance
          MaxFacts,    \* bound: drains pushed and not yet observed
          MaxUpsets,   \* bound: frames and replies lost, resets, slow nodes, together
          None

Nodes == {Axes[i] : i \in 1 .. Len(Axes)}

ASSUME LegsAssumption ==
  /\ OnSwitch \subseteq Nodes \ Rotary
  /\ Rotary \subseteq Nodes /\ Zs \subseteq Nodes \ Rotary /\ XY \subseteq Nodes \ Rotary
  /\ DOMAIN Cycle = Nodes /\ \A n \in Nodes : Cycle[n] \in Nat \ {0}
  /\ LegMisses \in Nat \ {0} /\ SettlePolls \in Nat
  /\ LegMax \in Nat \ {0} /\ Cardinality(Nodes) <= LegMax
  /\ MaxUpsets \in Nat /\ MaxFacts \in Nat \ {0} /\ None \notin Nodes

VARIABLES
  core,    \* Core 0
  node,    \* each node's pulser, pin, latch, witness and torque
  ring,    \* what a sequence's line is to Core 1, and the facts it has pushed
  left     \* what is left of MaxUpsets

vars == <<core, node, ring, left>>

Rank(n) == CHOOSE i \in 1 .. Len(Axes) : Axes[i] = n
FirstOf(S) == CHOOSE n \in S : \A k \in S : Rank(n) <= Rank(k)

-----------------------------------------------------------------------------
(* The node *)

Pin(d) == d.at = "switch"
Limit(d) == Pin(d) \/ d.latched

Mode(intent) ==
  CASE intent \in {"seek", "span"} -> "seek" [] intent \in {"retract", "unlatch"} -> "retract"
    [] OTHER -> intent

\* CMD_HOME_LEG and CMD_PARK_LEG: what the node answers
Answer(d, intent, goal) ==
  IF intent = "park"
  THEN IF ~d.datum \/ Limit(d) THEN "nak"
       ELSE IF ~d.active /\ d.at = goal THEN "there"
       ELSE IF d.active THEN "nak" ELSE "armed"
  ELSE IF intent # "sweep" /\ Pin(d) # (Mode(intent) = "retract") THEN "mismatch"
  ELSE IF d.active THEN "nak" ELSE "armed"

\* legArm on the node.  A motor without torque does not leave its place.
PulserArm(d, intent, goal) ==
  [d EXCEPT !.active = TRUE, !.mode = Mode(intent), !.goal = goal, !.lit = TRUE, !.hit = FALSE,
            !.at = IF d.on /\ Mode(intent) # "retract" THEN "between" ELSE @]

\* legHalt, from CMD_LEG_ABORT's guard
LegHalt(d) == IF d.active THEN [d EXCEPT !.active = FALSE, !.finished = TRUE] ELSE d

\* node_make_safe, with node_set_enabled's halt
MakeSafe(d) == [d EXCEPT !.active = FALSE, !.finished = TRUE, !.on = FALSE, !.datum = FALSE]

\* The pulser's interrupt stops the leg: on the switch, at its end, or short of it
PulserStops(n) ==
  /\ node[n].active
  /\ LET d == LegHalt(node[n])
     IN \E e \in CASE d.mode = "seek" /\ d.on    -> {[d EXCEPT !.hit = TRUE, !.at = "switch"], d}
                   [] d.mode = "park" /\ d.on    -> {[d EXCEPT !.at = d.goal]}
                                                    \cup IF n \in Rotary THEN {}
                                                         ELSE {[d EXCEPT !.hit = TRUE, !.at = "switch"]}
                   [] d.mode = "retract" /\ d.on -> {IF Pin(d) THEN d ELSE [d EXCEPT !.at = d.goal]}
                   [] d.mode = "sweep" /\ d.on   -> {[d EXCEPT !.index = i] : i \in BOOLEAN}
                   [] OTHER                      -> {d} :
          node' = [node EXCEPT ![n] = e]
  /\ UNCHANGED <<core, ring, left>>

\* A retract clears its switch on the way
PulserEscapes(n) ==
  /\ node[n].active /\ node[n].mode = "retract" /\ node[n].on /\ Pin(node[n])
  /\ node' = [node EXCEPT ![n].at = "between"]
  /\ UNCHANGED <<core, ring, left>>

\* legFinish, then legLoop publishes NODE_FLAG_LEG
NodeLoop(n) ==
  LET d == node[n]
      clears == d.mode = "retract" /\ ~Pin(d)
      latches == d.mode \in {"seek", "park"} /\ d.hit
  IN /\ d.finished \/ d.lit # d.active
     /\ node' = [node EXCEPT ![n] =
          [d EXCEPT !.finished = FALSE, !.lit = d.active, !.hit = @ /\ d.active,
                    !.latched = IF ~d.finished THEN @ ELSE (@ /\ ~clears) \/ latches]]
     /\ UNCHANGED <<core, ring, left>>

\* A brown-out: the counter, the witness, the latch and the torque go
NodeResets(n) ==
  /\ left > 0 /\ left' = left - 1
  /\ node' = [node EXCEPT ![n] = [@ EXCEPT !.active = FALSE, !.finished = FALSE, !.lit = FALSE,
                                           !.hit = FALSE, !.latched = FALSE, !.on = FALSE,
                                           !.datum = FALSE, !.reset = TRUE]]
  /\ UNCHANGED <<core, ring>>

NodeStep == \E n \in Nodes : PulserStops(n) \/ PulserEscapes(n) \/ NodeLoop(n) \/ NodeResets(n)

-----------------------------------------------------------------------------
(* State.  A handler of Core 0 maps s = [c |-> core, n |-> node, r |-> ring]. *)
(* Its calls to one node, o.who, may go wrong: unheard, or obeyed and         *)
(* unanswered.  A read or an enable that is unanswered counts as unheard.     *)

NoLeg == [intent |-> "none", goal |-> "none", misses |-> 0, settle |-> 0]
NoRun == [cycle |-> 0, job |-> [n \in Nodes |-> "none"], phase |-> [n \in Nodes |-> 0],
          onSwitch |-> {}, done |-> {}, started |-> FALSE]

Init ==
  /\ core = [pc |-> "observe", ctx |-> "IDLE", why |-> "none", begun |-> FALSE, isSet |-> FALSE,
             aborted |-> FALSE, events |-> {}, estop |-> "clear",
             leg |-> [n \in Nodes |-> NoLeg], open |-> {}, last |-> {}, live |-> FALSE,
             box |-> <<>>, seq |-> "none", steps |-> <<>>, ringStep |-> FALSE,
             run |-> NoRun, rec |-> {}, parking |-> FALSE,
             enabled |-> {}, origin |-> {}, seen |-> [n \in Nodes |-> "none"], latch |-> {}]
  /\ node = [n \in Nodes |->
               [active |-> FALSE, mode |-> "seek", goal |-> "between", finished |-> FALSE,
                lit |-> FALSE, hit |-> FALSE, latched |-> FALSE, index |-> FALSE,
                at |-> IF n \in OnSwitch THEN "switch" ELSE "between",
                on |-> FALSE, datum |-> FALSE, blind |-> FALSE, reset |-> FALSE]]
  /\ ring = [state |-> "idle", moves |-> {}, abort |-> FALSE, leaving |-> "no", facts |-> 0]
  /\ left = MaxUpsets

Fine == [who |-> None, how |-> "ok"]
Outs == {Fine} \cup (IF left = 0 THEN {}
                     ELSE [who : Nodes, how : {"unheard", "unanswered"}])
Out(o, n) == IF o.who = n THEN o.how ELSE "ok"

\* One step of Core 0's loop: F(o) is what it leaves with the bus behaving as o says
Core0Step(at, to(_), F(_)) ==
  /\ at
  /\ \E o \in Outs : \E s \in {F(o)} :
       /\ o = Fine \/ s # F(Fine)
       /\ core' = [s.c EXCEPT !.pc = to(s)] /\ node' = s.n /\ ring' = s.r
       /\ left' = IF o = Fine THEN left ELSE left - 1

S == [c |-> core, n |-> node, r |-> ring]

Claimed(s) == {n \in Nodes : s.c.leg[n] # NoLeg}
RingIdle(s) == s.r.state = "idle"
Busy(s) == s.c.live \/ ~RingIdle(s) \/ s.c.seq # "none"

-----------------------------------------------------------------------------
(* Position: what Core 0 holds of each node *)

OriginInvalidate(s, A) ==
  [s EXCEPT !.c.origin = @ \ A, !.c.seen = [n \in Nodes |-> IF n \in A THEN "none" ELSE @[n]]]

\* A slip: the position is the one the leg started from
OriginAdoptStale(s, A) ==
  [s EXCEPT !.c.seen = [n \in Nodes |-> IF n \in A \cap s.c.origin /\ @[n] = "none" THEN s.n[n].at
                                        ELSE @[n]]]

\* originAdopt: the origin stands, the position is re-derived
OriginAdopt(s, A) ==
  [s EXCEPT !.c.seen = [n \in Nodes |-> IF n \in A \cap s.c.origin THEN s.n[n].at ELSE @[n]]]

\* originDatum: every node is tried; one that does not answer may hold the witness all the same.
\* where[n] is the place node n is told it stands at.
OriginDatum(s, A, where, o) ==
  LET heard == {n \in A : Out(o, n) = "ok"}
      armed == {n \in A : Out(o, n) # "unheard"}
  IN [s EXCEPT !.n = [n \in Nodes |-> IF n \in armed THEN [@[n] EXCEPT !.datum = TRUE] ELSE @[n]],
               !.c.origin = (@ \ A) \cup heard,
               !.c.seen = [n \in Nodes |-> IF n \in heard THEN where[n]
                                           ELSE IF n \in A THEN "none" ELSE @[n]]]

Deaf(A, o) == {n \in A : Out(o, n) # "ok"}

\* CMD_ENABLE to each of A in order, up to the first that does not ack; nodeEnabled follows the acks
Enable(s, A, o) ==
  LET tried == {n \in A : \A k \in Deaf(A, o) : Rank(n) <= Rank(k)}
  IN [s EXCEPT !.n = [n \in Nodes |-> IF n \in tried /\ Out(o, n) # "unheard"
                                      THEN [@[n] EXCEPT !.on = TRUE] ELSE @[n]],
               !.c.enabled = @ \cup (tried \ Deaf(A, o))]

-----------------------------------------------------------------------------
(* The leg supervisor and the runner *)

Leg(intent, goal, last) == [intent |-> intent, goal |-> goal, last |-> last]
Park == Leg("park", "park", TRUE)

\* legArm and legArmPark: the claim, the kind probe, then the node's answer
ArmWhy(s, n, p, o) ==
  IF s.c.leg[n] # NoLeg \/ Out(o, n) = "unheard"
     \/ (p.intent # "park" /\ (p.intent = "sweep") # (n \in Rotary))
  THEN "refused"
  ELSE CASE Answer(s.n[n], p.intent, p.goal) = "nak" -> "refused"
         [] Out(o, n) = "unanswered" -> "refused"
         [] Answer(s.n[n], p.intent, p.goal) = "mismatch" -> "mismatch"
         [] OTHER -> "ok"

\* The node's side of an arm.  blind and reset are history: a pulser that runs, or was
\* halted, without Core 0 knowing, and a node that restarted since its last seek or sweep.
NodeArm(s, n, p, o) ==
  LET d == s.n[n] IN
  IF \/ s.c.leg[n] # NoLeg \/ Out(o, n) = "unheard" \/ Answer(d, p.intent, p.goal) # "armed"
     \/ (p.intent # "park" /\ (p.intent = "sweep") # (n \in Rotary))
  THEN d
  ELSE [PulserArm(d, p.intent, p.goal)
          EXCEPT !.blind = Out(o, n) # "ok",
                 !.reset = @ /\ ~(p.intent \in {"seek", "sweep"} /\ d.on)]

\* joined: the leg is claimed, its thread and the step are open
Join(s, A, plan) ==
  [s EXCEPT !.c.leg = [n \in Nodes |-> IF n \notin A THEN @[n]
                         ELSE [intent |-> plan[n].intent, goal |-> plan[n].goal, misses |-> 0,
                               settle |-> IF plan[n].intent \in {"park", "sweep"} THEN 0 ELSE SettlePolls]],
            !.c.open = @ \cup A,
            !.c.last = (@ \ A) \cup {n \in A : plan[n].last},
            !.c.live = @ \/ A # {}]

\* The arms of a step, in order, up to the first refusal
Arm(s, plan, o) ==
  LET refused == {n \in DOMAIN plan : ArmWhy(s, n, plan[n], o) # "ok"}
      bad     == IF refused = {} THEN None ELSE FirstOf(refused)
      tried   == {n \in DOMAIN plan : bad = None \/ Rank(n) <= Rank(bad)}
      asked   == [s EXCEPT !.n = [n \in Nodes |-> IF n \in tried THEN NodeArm(s, n, plan[n], o)
                                                  ELSE @[n]]]
  IN [s |-> Join(asked, tried \ {bad}, plan), bad |-> bad, any |-> tried \ {bad} # {}]

KeepsOrigin(intent) == intent \in {"park", "span", "unlatch"}

\* stepCut: the step ends without a step end, and its events go
StepCut(s) ==
  [s EXCEPT !.c.leg = [n \in Nodes |-> NoLeg], !.c.open = {}, !.c.last = {},
            !.c.live = FALSE, !.c.box = <<>>]

\* CMD_LEG_ABORT to n
AbortLeg(d, o, n) ==
  CASE Out(o, n) = "ok"      -> LegHalt(d)
    [] Out(o, n) = "unheard" -> [d EXCEPT !.blind = @ \/ d.active]
    [] OTHER                 -> [LegHalt(d) EXCEPT !.blind = @ \/ d.active]

\* runnerAbortAll: a park that acks its abort with the witness intact keeps its origin
AbortAll(s, o) ==
  LET kept == {n \in Claimed(s) : Out(o, n) = "ok" /\ s.c.leg[n].intent = "park" /\ s.n[n].datum}
      halted == [s EXCEPT !.n = [n \in Nodes |-> IF n \in Claimed(s) THEN AbortLeg(@[n], o, n) ELSE @[n]]]
  IN StepCut(OriginInvalidate(OriginAdopt(halted, kept), Claimed(s) \ kept))

\* runnerDropAll: nothing is sent
DropAll(s) == StepCut(OriginInvalidate(s, Claimed(s)))

\* stepCheck: no leg runs and no thread waits for its next
StepCheck(s) ==
  IF ~s.c.live \/ Claimed(s) # {} \/ s.c.open # {} THEN s
  ELSE [s EXCEPT !.c.live = FALSE, !.c.box = Append(@, [kind |-> "step"])]

\* legPollOne's verdict on a node that has stopped
Verdict(g, n, d) ==
  CASE g.intent = "park"  -> d.at = g.goal /\ d.datum /\ (n \in Rotary \/ ~Limit(d))
    [] g.intent = "sweep" -> d.index
    [] OTHER              -> Limit(d) # (Mode(g.intent) = "retract")

\* legEndFailed: a span that found no switch is an answer
EndFailed(intent, why) == why = "failed" \/ (why = "budget" /\ intent # "span")

\* legEffectEnd: success records the latch, then the origin is adopted or released
EffectEnd(s, n, intent, why, datum) ==
  LET switched == why = "none" /\ Mode(intent) \in {"seek", "retract"}
      latched  == [s EXCEPT !.c.latch = IF ~switched THEN @
                                        ELSE IF Mode(intent) = "seek" THEN @ \cup {n} ELSE @ \ {n}]
  IN IF KeepsOrigin(intent) /\ datum /\ ~EndFailed(intent, why) THEN OriginAdopt(latched, {n})
     ELSE OriginInvalidate(latched, {n})

\* A slip: the thread stays open
ThreadCloseForgets(s, n) == [s EXCEPT !.c.last = @ \ {n}]

\* threadClose, once its last leg has ended
ThreadClose(s, n) == [s EXCEPT !.c.open = IF n \in s.c.last THEN @ \ {n} ELSE @, !.c.last = @ \ {n}]

\* A leg's end in runnerTick: its effects, its thread, its event, then the step's
LegEnds(s, n, why, datum) ==
  LET intent == s.c.leg[n].intent
      freed  == [ThreadClose(EffectEnd(s, n, intent, why, datum), n) EXCEPT
                   !.n[n].blind = @ \/ s.n[n].active,
                   !.c.leg[n] = NoLeg,
                   !.c.box = Append(@, [kind |-> "leg", node |-> n,
                                        failed |-> EndFailed(intent, why)])]
  IN StepCheck(freed)

\* A slip: one poll too many
GivesUpLate(misses) == misses >= LegMisses

GivesUp(misses) == misses + 1 >= LegMisses

\* legPollOne
PollOne(s, n, o) ==
  LET g == s.c.leg[n]
      d == s.n[n]
      heard == [s EXCEPT !.c.leg[n].misses = 0]
  IN CASE Out(o, n) # "ok" ->
            IF GivesUp(g.misses) THEN LegEnds(s, n, "failed", FALSE)
            ELSE [s EXCEPT !.c.leg[n].misses = @ + 1]
       [] Out(o, n) = "ok" /\ d.lit -> heard
       [] Out(o, n) = "ok" /\ ~d.lit /\ Verdict(g, n, d) -> LegEnds(s, n, "none", d.datum)
       [] OTHER ->
            IF g.settle > 0 THEN [heard EXCEPT !.c.leg[n].settle = @ - 1]
            ELSE LegEnds(s, n, IF g.intent \in {"park", "sweep"} THEN "failed" ELSE "budget", d.datum)

-----------------------------------------------------------------------------
(* The machine's teardown *)

SequenceStart(s, id) == [s EXCEPT !.c.seq = id, !.c.ringStep = FALSE]

\* sequenceEnd, and what the recipes hold for the next one to overwrite
SequenceEnd(s) == [s EXCEPT !.c.seq = "none", !.c.ringStep = FALSE, !.c.steps = <<>>,
                            !.c.rec = {}, !.c.parking = FALSE, !.c.run = NoRun]

SequenceAbort(s, o) ==
  IF s.c.seq = "none" THEN s ELSE SequenceEnd(IF s.c.live THEN AbortAll(s, o) ELSE s)

\* plannerStopJog: a ring Core 1 has not taken is dropped here
StopJog(s) == IF s.r.state = "moving" THEN [s EXCEPT !.r.abort = TRUE]
              ELSE [s EXCEPT !.r.state = "idle"]

\* jobAbort: outside a job only the flag is raised
JobAbort(s, o) ==
  IF s.c.ctx # "JOB" THEN [s EXCEPT !.r.abort = TRUE]
  ELSE [SequenceAbort(s, o) EXCEPT !.c.aborted = TRUE, !.r.abort = TRUE]

\* A slip: the legs are aborted and the sequence left to go on
TearDownLegs(s, o) ==
  LET Ends(cut) == CASE cut.c.ctx = "HOMING" -> [cut EXCEPT !.c.ctx = "IDLE"]
                     [] cut.c.ctx = "JOB"    -> [cut EXCEPT !.c.aborted = TRUE, !.r.abort = TRUE]
                     [] OTHER                -> StopJog(cut)
  IN Ends(IF s.c.live THEN AbortAll(s, o) ELSE s)

\* machineTeardown(false)
ContextEnds(s, o) ==
  CASE s.c.ctx = "HOMING" -> [s EXCEPT !.c.ctx = "IDLE"]
    [] s.c.ctx = "JOB"    -> JobAbort(s, o)
    [] OTHER              -> StopJog(s)

TearDown(s, o) == ContextEnds(SequenceAbort(IF s.c.live THEN AbortAll(s, o) ELSE s, o), o)

\* The job's context closes, and with it what the tool change and the placement hold
JobCloses(s) == [s EXCEPT !.c.ctx = "IDLE", !.c.aborted = FALSE, !.c.why = "none",
                          !.c.begun = FALSE, !.c.isSet = FALSE]

\* machineTeardown(true): Core 1's sweep drops the ring
TearDownEstop(s) == JobCloses(SequenceEnd(IF s.c.live THEN DropAll(s) ELSE s))

FaultSet(s, f, o) == TearDown([s EXCEPT !.c.events = @ \cup {f}], o)
SequenceFail(s, o) == FaultSet(s, "F_SEQUENCE", o)
HomingFail(s, o) == FaultSet(AbortAll(s, o), "F_HOMING", o)
HomingAbandon(s, n, o) == HomingFail(OriginInvalidate(s, {n}), o)

-----------------------------------------------------------------------------
(* The home recipe.  run.job is each node's job, or none. *)

\* armLeg's leg for a chain's phase; a linear node that stood on its switch runs one phase early
HomeLeg(job, k) ==
  CASE job = "park"   -> Park
    [] job = "rotary" -> Leg("sweep", "between", k = 1)
    [] OTHER          -> << Leg("seek", "switch", FALSE), Leg("retract", "between", FALSE),
                            Leg("seek", "switch", FALSE), Leg("retract", "park", TRUE) >>[k + 1]

\* A refusal before anything moved is the start's (bad), one after it fails the run.
HomeArmed(s, bad, o) ==
  IF bad # None /\ s.c.run.started THEN [s |-> HomingAbandon(s, bad, o), bad |-> None]
  ELSE [s |-> s, bad |-> bad]

\* What a cycle's arms leave in the run
HomeMoved(armed, on, lastOf) ==
  [armed.s EXCEPT !.c.run =
     [armed.s.c.run EXCEPT !.onSwitch = on,
                           !.started = @ \/ armed.any,
                           !.done = @ \cup {n \in lastOf : armed.s.c.leg[n] # NoLeg}]]

\* armNode for each of A: a seek refused as a mismatch becomes the back-off
HomeArm(s, A, o) ==
  LET run   == s.c.run
      Idx(n, on) == run.phase[n] + IF n \in on THEN 1 ELSE 0
      stood == {n \in A : /\ run.job[n] = "linear" /\ Idx(n, run.onSwitch) = 0
                          /\ ArmWhy(s, n, HomeLeg("linear", 0), o) = "mismatch"}
      on    == run.onSwitch \cup stood
      plan  == [n \in A |-> HomeLeg(run.job[n], Idx(n, on))]
      Moved(armed) == HomeArmed(HomeMoved(armed, on, {n \in A : plan[n].last}), armed.bad, o)
  IN Moved(Arm(s, plan, o))

CycleNodes(s, k) == {n \in Nodes : s.c.run.job[n] # "none" /\ Cycle[n] = k}

\* The lowest cycle above k with a run node, or 0
CycleAfter(s, k) ==
  LET ks == {Cycle[n] : n \in {m \in Nodes : s.c.run.job[m] # "none" /\ Cycle[m] > k}}
  IN IF ks = {} THEN 0 ELSE CHOOSE j \in ks : \A i \in ks : j <= i

CycleStart(s, k, o) ==
  LET A == CycleNodes(s, k)
  IN HomeArm([s EXCEPT !.c.run =
                [s.c.run EXCEPT !.cycle = k, !.done = @ \ A,
                                !.phase = [n \in Nodes |-> IF n \in A THEN 0 ELSE @[n]]]], A, o)

\* A cycle's datum: a linear node stands at its park position, a rotary one where its index says
PulledOff(s) == [n \in Nodes |-> IF n \in Rotary THEN s.n[n].at ELSE "park"]

\* A slip: the cycle's datum is taken from the rotary nodes alone
CycleCommitRotary(s, apart, o) ==
  LET homed == {n \in CycleNodes(s, s.c.run.cycle) : s.c.run.job[n] = "rotary"}
      bad == Deaf(homed, o) \cup (IF apart THEN homed ELSE {})
  IN IF bad # {} THEN [s |-> HomingAbandon(s, FirstOf(bad), o), ok |-> FALSE]
     ELSE [s |-> OriginDatum(s, homed, PulledOff(s), o), ok |-> TRUE]

\* cycleCommit: one datum for every node the cycle homed.  A rotary node is read again first, and
\* its two sweeps may lie too far apart.
CycleCommit(s, apart, o) ==
  LET homed  == {n \in CycleNodes(s, s.c.run.cycle) : s.c.run.job[n] # "park"}
      swept  == homed \cap Rotary
      unread == IF apart THEN swept ELSE Deaf(swept, o)
      dated  == OriginDatum(s, homed, PulledOff(s), o)
  IN CASE unread # {} -> [s |-> HomingAbandon(s, FirstOf(unread), o), ok |-> FALSE]
       [] unread = {} /\ Deaf(homed, o) # {} ->
            [s |-> HomingAbandon(dated, FirstOf(Deaf(homed, o)), o), ok |-> FALSE]
       [] OTHER -> [s |-> dated, ok |-> TRUE]

\* homeNext: commit the cycle and start the next, or end
HomeNext(s, apart, o) ==
  LET next == CycleAfter(s, s.c.run.cycle)
      Goes(done) == CASE ~done.ok            -> done.s
                      [] done.ok /\ next = 0 -> SequenceEnd(done.s)
                      [] OTHER               -> CycleStart(done.s, next, o).s
  IN Goes(CycleCommit(s, apart, o))

\* homeLeg: a leg of the cycle succeeded; its node's next is armed unless it was the last.
\* A rotary node's forward sweep is read first.
HomeLegEnded(s, n, o) ==
  IF n \in s.c.run.done THEN s
  ELSE IF s.c.run.job[n] = "rotary" /\ s.c.run.phase[n] = 0 /\ Out(o, n) # "ok"
  THEN HomingAbandon(s, n, o)
  ELSE HomeArm([s EXCEPT !.c.run.phase[n] = @ + 1], {n}, o).s

\* homeStart: earlier cycles join, unless `only`; every node is energised before anything moves
HomeStart(s, named, only, o) ==
  LET top   == CHOOSE k \in {Cycle[n] : n \in named} : \A n \in named : Cycle[n] <= k
      early == IF only THEN {}
               ELSE {n \in Nodes \ named : Cycle[n] < top /\ ~(n \in Rotary /\ n \in s.c.origin)}
      park  == early \cap s.c.origin
      mine  == (named \cup early) \ park
      job   == [n \in Nodes |-> CASE n \in park            -> "park"
                                 [] n \in mine \cap Rotary -> "rotary"
                                 [] n \in mine \ Rotary    -> "linear"
                                 [] OTHER                  -> "none"]
      woken == Enable(s, named \cup early, o)
      First(open)  == CycleStart(open, CycleAfter(open, 0), o)
      Begun(begun) == IF begun.bad # None THEN SequenceEnd(begun.s) ELSE begun.s
  IN IF Deaf(named \cup early, o) # {} THEN woken
     ELSE Begun(First([SequenceStart(woken, "home") EXCEPT !.c.run = [NoRun EXCEPT !.job = job]]))

-----------------------------------------------------------------------------
(* Recovery *)

\* recoveryPark: a refusal, the first arm's too, fails the sequence
RecoveryPark(s, o) ==
  LET Parks(armed) == CASE armed.bad # None -> HomingAbandon(armed.s, armed.bad, o)
                        [] armed.bad = None /\ ~armed.any -> SequenceEnd(armed.s)
                        [] OTHER -> armed.s
  IN Parks(Arm([s EXCEPT !.c.parking = TRUE], [n \in s.c.rec \cap s.c.origin |-> Park], o))

\* recoveryStart: off every switch, within the datum where there is one
RecoveryStart(s, o) ==
  LET rec   == s.c.latch
      woken == Enable(s, rec, o)
      plan  == [n \in rec |-> Leg(IF n \in s.c.origin THEN "unlatch" ELSE "retract", "between", TRUE)]
      Backs(armed) == CASE armed.bad = None -> armed.s
                        [] armed.bad # None /\ armed.any -> HomingAbandon(armed.s, armed.bad, o)
                        [] OTHER -> SequenceEnd(armed.s)
  IN IF rec = {} \/ Deaf(rec, o) # {} THEN woken
     ELSE Backs(Arm([SequenceStart(woken, "recovery") EXCEPT !.c.rec = rec], plan, o))

-----------------------------------------------------------------------------
(* The goto, tool change and placement recipes.  Each is a list of steps: the *)
(* Zs up, the As unlocked, a head's A unlocked (a), a line or one axis' move  *)
(* on the ring.                                                               *)

StepPlan(k) == [n \in (IF k = "zs" THEN Zs ELSE Rotary) |-> Park]

\* zsReady and asReady: homed, then energised
Ready(s, A, o) == A \subseteq s.c.origin /\ Deaf(A, o) = {}
Readied(s, A, o) == IF A \subseteq s.c.origin THEN Enable(s, A, o) ELSE s

\* The recipes' advance: the first step with something to move.  line is near (there already),
\* far, or refused by the planner; an A at machine 0 is unlocked already.  Heads without a Z, or
\* an A, have nothing to move.
NextStep(s, line, o) ==
  LET steps   == s.c.steps
      Skip(k) == (k = "line" /\ line = "near") \/ (k # "line" /\ DOMAIN StepPlan(k) = {})
                 \/ (k = "a" /\ \A n \in Rotary : n \in s.c.origin /\ s.c.seen[n] = "park")
      idx     == {i \in 1 .. Len(steps) : ~Skip(steps[i])}
      i       == CHOOSE j \in idx : \A k \in idx : j <= k
      rest    == [s EXCEPT !.c.steps = IF idx = {} THEN <<>> ELSE SubSeq(@, i + 1, Len(@))]
      queues  == line = "far" /\ RingIdle(s) /\ ~s.r.abort
      Armed(armed) ==
        IF armed.bad = None THEN [s |-> armed.s, out |-> TRUE, bad |-> FALSE]
        ELSE [s |-> IF armed.any THEN HomingAbandon(armed.s, armed.bad, o) ELSE armed.s,
              out |-> FALSE, bad |-> TRUE]
  IN CASE idx = {} -> [s |-> rest, out |-> FALSE, bad |-> FALSE]
       [] idx # {} /\ steps[i] = "line" ->
            IF ~queues THEN [s |-> rest, out |-> FALSE, bad |-> TRUE]
            ELSE [s |-> [rest EXCEPT !.r.state = "queued", !.r.moves = XY, !.c.ringStep = TRUE],
                  out |-> TRUE, bad |-> FALSE]
       [] OTHER -> Armed(Arm(rest, StepPlan(steps[i]), o))

\* A command's start: a refusal is its answer
Begin(s, id, steps, line, o) ==
  LET Ran(x) == IF x.out \/ x.s.c.seq = "none" THEN x.s ELSE SequenceEnd(x.s)
  IN Ran(NextStep([SequenceStart(s, id) EXCEPT !.c.steps = steps], line, o))

\* plannerJobSwap
JobSwaps(s, from) == s.c.ctx = "JOB" /\ s.c.why = from /\ RingIdle(s)

\* The step's end: the recipe's next, or its end
Continue(s, line, o) ==
  LET Ran(x) ==
        CASE x.bad \/ (~x.out /\ s.c.seq = "toolchange" /\ ~JobSwaps(s, "TOOL_CHANGE")) ->
               SequenceFail(x.s, o)
          [] ~x.bad /\ x.out -> x.s
          [] OTHER -> SequenceEnd([x.s EXCEPT !.c.why = IF s.c.seq = "toolchange" THEN "TOOL_WAIT" ELSE @])
  IN Ran(NextStep(s, line, o))

\* A start from the loop: a refusal fails the job
BeginInJob(s, id, steps, line, o) ==
  Continue([SequenceStart(s, id) EXCEPT !.c.steps = steps], line, o)

\* toolChangeTick and its start; mounted says the wanted tool is on the head already
ToolChangeTick(s, mounted, line, o) ==
  LET on == [s EXCEPT !.c.begun = TRUE]
      up == Readied(on, Zs, o)
  IN CASE s.c.ctx # "JOB" \/ s.c.why # "TOOL_CHANGE" \/ s.c.begun -> s
       [] s.c.ctx = "JOB" /\ s.c.why = "TOOL_CHANGE" /\ ~s.c.begun /\ mounted ->
            IF JobSwaps(s, "TOOL_CHANGE") THEN [on EXCEPT !.c.why = "BUFFERING"]
            ELSE SequenceFail(on, o)
       [] OTHER ->
            CASE ~(XY \subseteq s.c.origin) -> SequenceFail(on, o)
              [] XY \subseteq s.c.origin /\ ~Ready(s, Zs, o) -> SequenceFail(up, o)
              [] OTHER -> IF Ready(s, Rotary, o)
                          THEN BeginInJob(Readied(up, Rotary, o), "toolchange",
                                          <<"zs", "a", "line">>, line, o)
                          ELSE SequenceFail(Readied(up, Rotary, o), o)

\* A slip: the placement starts with the Zs where they are
PlaceTickDown(s, line, o) ==
  IF s.c.ctx # "JOB" \/ s.c.why # "PLACE" \/ s.c.aborted \/ s.c.begun THEN s
  ELSE BeginInJob([s EXCEPT !.c.begun = TRUE, !.c.isSet = FALSE], "place", <<"line">>, line, o)

\* placeTick and its start; an aborted job places nothing and is leaving (begun no more)
PlaceTick(s, line, o) ==
  LET on == [s EXCEPT !.c.begun = TRUE, !.c.isSet = FALSE]
      up == Readied(on, Zs, o)
  IN CASE s.c.ctx # "JOB" \/ s.c.why # "PLACE" \/ (s.c.begun /\ ~s.c.aborted) -> s
       [] s.c.ctx = "JOB" /\ s.c.why = "PLACE" /\ s.c.aborted -> [s EXCEPT !.c.begun = FALSE]
       [] OTHER -> IF Ready(s, Zs, o) THEN BeginInJob(up, "place", <<"zs", "line">>, line, o)
                   ELSE SequenceFail(up, o)

\* abortSettle, at rest (the lift is JobMotion's)
AbortSettle(s) == IF s.c.aborted /\ ~s.r.abort /\ RingIdle(s) THEN JobCloses(s) ELSE s

-----------------------------------------------------------------------------
(* Core 0's loop: observe, serve, runner, sequence, tools.  A step that changes nothing is *)
(* part of the next one.                                                                   *)

Served == core.pc = "serve" \/ (core.pc = "observe" /\ ring.facts = 0)

AfterRunner(s) == IF s.c.box # <<>> THEN "sequence"
                  ELSE IF s.c.aborted \/ (s.c.why \in {"PLACE", "TOOL_CHANGE"} /\ ~s.c.begun)
                  THEN "tools" ELSE "observe"
Observing(s) == "observe"

\* sequence.cpp's advance
Advance(s, line, apart, o) ==
  CASE s.c.seq = "home"                -> HomeNext(s, apart, o)
    [] s.c.seq = "recovery"            -> IF s.c.parking THEN SequenceEnd(s) ELSE RecoveryPark(s, o)
    [] s.c.seq \in {"leg", "traverse"} -> SequenceEnd(s)
    [] OTHER                           -> Continue(s, line, o)

Lines == {"near", "far", "refused"}

\* observeTick's FACT_RING_DRAINED: stale if the ring took more since
Observe ==
  /\ ring.facts > 0
  /\ \E line \in Lines :
       Core0Step(core.pc = "observe", Observing,
         LAMBDA o : LET s == [S EXCEPT !.r.facts = @ - 1]
                    IN IF RingIdle(s) /\ s.c.seq # "none" /\ s.c.ringStep
                       THEN Advance([s EXCEPT !.c.ringStep = FALSE], line, FALSE, o) ELSE s)

\* FACT_TOOL_FAILED, or a fact that was lost
ObserveFault ==
  /\ left > 0 /\ core.pc = "observe" /\ core.events = {}
  /\ LET s == FaultSet(S, "F_TOOL", Fine)
     IN core' = s.c /\ node' = s.n /\ ring' = s.r /\ left' = left - 1

\* A pass with no step live
ServeEnds ==
  /\ ~core.live /\ (core.pc = "serve" \/ AfterRunner(S) # "observe")
  /\ Core0Step(Served, AfterRunner, LAMBDA o : S)

\* runnerTick on the leg that is due
RunnerTick(n) ==
  /\ n \in Claimed(S)
  /\ Core0Step(Served, AfterRunner, LAMBDA o : PollOne(S, n, o))

\* Core 0's own deadline on a node that still pulses
RunnerDeadline(n) ==
  /\ n \in Claimed(S) /\ node[n].lit /\ left > 0 /\ Served
  /\ LET s == LegEnds(S, n, "failed", FALSE)
     IN core' = [s.c EXCEPT !.pc = AfterRunner(s)] /\ node' = s.n
  /\ left' = left - 1
  /\ UNCHANGED ring

\* sequenceTick, one event
SequenceTick ==
  /\ core.box # <<>>
  /\ LET ev == Head(core.box)
         s  == [S EXCEPT !.c.box = Tail(@)]
     IN \E line \in Lines, apart \in BOOLEAN :
          Core0Step(core.pc = "sequence", AfterRunner,
            LAMBDA o : CASE s.c.seq = "none" -> s
                         [] s.c.seq # "none" /\ ev.kind = "step" -> Advance(s, line, apart, o)
                         [] s.c.seq # "none" /\ ev.kind = "leg" /\ ev.failed -> HomingFail(s, o)
                         [] OTHER -> IF s.c.seq = "home" THEN HomeLegEnded(s, ev.node, o) ELSE s)

\* toolChangeTick, placeTick and machinePublish
ToolsTick ==
  \E line \in Lines, mounted \in BOOLEAN :
    Core0Step(core.pc = "tools", Observing,
      LAMBDA o : AbortSettle(PlaceTick(ToolChangeTick(S, mounted, line, o), line, o)))

-----------------------------------------------------------------------------
(* The host's commands, served one by one in the same pass *)

\* K_SEQUENCE, K_STEP's and K_WRITE's part that is common, and machineView's IDLE
Rests(s)   == s.c.estop = "clear" /\ ~Busy(s) /\ s.c.ctx = "IDLE"
Idle(s)    == Rests(s) /\ s.c.events = {} /\ s.c.latch = {}
Latched(s) == Rests(s) /\ s.c.events = {} /\ s.c.latch # {}
Waits(s)   == s.c.ctx = "JOB" /\ s.c.why = "TOOL_WAIT" /\ ~Busy(s)

\* One command, and the machinePublish after it
Serve(name, admitted, F(_)) ==
  /\ name \in Commands /\ admitted
  /\ Core0Step(Served, LAMBDA s : "serve", LAMBDA o : AbortSettle(F(o)))

\* `home`, `home unhomed`, `home xy`, `home only <node>`
CmdHome ==
  \E x \in {<<Nodes, FALSE>>, <<Nodes \ core.origin, FALSE>>, <<XY, FALSE>>}
           \cup {<<{n}, TRUE>> : n \in Nodes} :
    Serve("home", Rests(S) /\ core.events = {} /\ x[1] # {},
          LAMBDA o : HomeStart(S, x[1], x[2], o))

\* `goto xy`, or `goto mount` in TOOL_WAIT
CmdGotoXY ==
  \E line \in Lines :
    Serve("goto", /\ (Rests(S) /\ core.events = {}) \/ Waits(S)
                  /\ XY \subseteq core.origin /\ Zs \subseteq core.origin,
          LAMBDA o : IF Ready(S, Zs, o)
                     THEN Begin(Readied(S, Zs, o), "goto", <<"zs", "line">>, line, o)
                     ELSE Readied(S, Zs, o))

\* `goto up` and `goto unlock`
CmdGotoLegs ==
  \E x \in {<<Zs, "zs">>, <<Rotary, "as">>} :
    Serve("goto", Rests(S) /\ core.events = {} /\ x[1] \subseteq core.origin /\ x[1] # {},
          LAMBDA o : IF Ready(S, x[1], o)
                     THEN Begin(Readied(S, x[1], o), "goto", <<x[2]>>, "far", o)
                     ELSE Readied(S, x[1], o))

\* `goto m z`: one axis on the ring
CmdGotoAxis ==
  \E n \in Zs :
    Serve("goto", Rests(S) /\ core.events = {} /\ n \in core.origin /\ ~ring.abort,
          LAMBDA o : [SequenceStart(S, "gotoaxis") EXCEPT !.c.ringStep = TRUE,
                                                          !.r.state = "queued", !.r.moves = {n}])

\* `enable <node>`
CmdEnable(n) == Serve("leg", Rests(S), LAMBDA o : Enable(S, {n}, o))

\* legAdmitDenies: the states each intent starts from.  Seek, retract and sweep open or continue
\* a homing context; a park does within one; the others are traverses.
LegAdmits(intent) ==
  LET homing == core.ctx = "HOMING" /\ ~Busy(S) /\ core.estop = "clear"
  IN CASE intent \in {"seek", "sweep", "park"} -> Idle(S) \/ homing
       [] intent = "retract"                   -> Idle(S) \/ homing \/ Latched(S)
       [] intent = "span"                      -> Idle(S)
       [] OTHER                                -> Latched(S)

CmdLeg(n) ==
  \E intent \in {"seek", "retract", "sweep", "park", "span", "unlatch"} :
    LET plan == [m \in {n} |-> IF intent = "park" THEN Park ELSE Leg(intent, "between", TRUE)]
        homes == intent \in {"seek", "retract", "sweep"} \/ (intent = "park" /\ core.ctx = "HOMING")
    IN Serve("leg", /\ LegAdmits(intent) /\ n \in core.enabled
                    /\ (intent = "park" => n \in core.origin) /\ (intent = "unlatch" => n \in core.latch),
             LAMBDA o : LET armed == Arm(S, plan, o)
                        IN IF armed.bad # None THEN armed.s
                           ELSE IF homes THEN [SequenceStart(armed.s, "leg") EXCEPT !.c.ctx = "HOMING"]
                           ELSE SequenceStart(armed.s, "traverse"))

\* homingAbort: a homing leg fails its sequence, a traverse's step just ends
CmdLegAbort(n) ==
  Serve("legabort", core.ctx # "JOB" /\ (core.live \/ ring.state = "idle") /\ n \in Claimed(S),
    LAMBDA o :
      LET halted == [S EXCEPT !.n[n] = IF Out(o, n) = "unheard" THEN @ ELSE AbortLeg(@, o, n)]
          freed  == StepCheck(OriginInvalidate([halted EXCEPT !.c.leg[n] = NoLeg,
                                                              !.c.open = @ \ {n}], {n}))
      IN IF Out(o, n) # "ok" THEN halted
         ELSE IF freed.c.seq \in {"none", "traverse"} THEN freed ELSE HomingFail(freed, o))

\* `setorigin`: the host says where the node stands; an ok closes the homing context
CmdSetOrigin(n) ==
  Serve("leg", core.estop # "asked" /\ ~Busy(S) /\ core.ctx \in {"IDLE", "HOMING"},
    LAMBDA o : LET s == OriginDatum(S, {n}, [m \in Nodes |-> node[m].at], o)
               IN IF Deaf({n}, o) = {} THEN [s EXCEPT !.c.ctx = "IDLE"] ELSE s)

CmdHomeEnd ==
  Serve("leg", core.estop = "clear" /\ core.seq = "none" /\ core.ctx = "HOMING",
        LAMBDA o : [S EXCEPT !.c.ctx = "IDLE"])

CmdUnalarm ==
  Serve("unalarm", Rests(S) /\ (core.events # {} \/ core.latch # {}),
        LAMBDA o : RecoveryStart([S EXCEPT !.c.events = {}], o))

CmdStop ==
  Serve("stop", core.estop = "clear",
        LAMBDA o : OriginInvalidate(TearDownEstop([S EXCEPT !.c.estop = "asked"]), Nodes))

CmdUnstop ==
  Serve("stop", core.estop = "swept" /\ ~Busy(S) /\ core.ctx = "IDLE",
        LAMBDA o : [S EXCEPT !.c.estop = "clear"])

\* A job header that passes its preflight opens placement
JobHdr ==
  Serve("job", Idle(S) /\ ~ring.abort /\ (XY \cup Zs) \subseteq core.origin,
        LAMBDA o : [S EXCEPT !.c.ctx = "JOB", !.c.why = "PLACE", !.c.begun = FALSE, !.c.isSet = FALSE])

\* toolChangeBegin from a header in BUFFERING
ToolHdr ==
  Serve("job", core.ctx = "JOB" /\ core.why = "BUFFERING" /\ ~ring.abort,
        LAMBDA o : [S EXCEPT !.c.why = "TOOL_CHANGE", !.c.begun = FALSE])

\* toolChangeLeave
ToolChangeLeave == Serve("job", Waits(S), LAMBDA o : [S EXCEPT !.c.why = "BUFFERING"])

\* place.cpp's admit
PlaceAdmits(wantSet) ==
  /\ core.estop = "clear" /\ core.ctx = "JOB" /\ core.why = "PLACE"
  /\ core.begun /\ ~Busy(S) /\ core.isSet = wantSet

PlaceSet == Serve("job", PlaceAdmits(FALSE), LAMBDA o : [S EXCEPT !.c.isSet = TRUE])

\* `place go` and `place frame`
PlaceGo ==
  \E line \in Lines, route \in {<<"line">>, <<"line", "line">>} :
    Serve("job", PlaceAdmits(TRUE), LAMBDA o : Begin(S, "place", route, line, o))

\* `place reset`: back to the first corner, and the zero is not set unless that is refused
PlaceReset ==
  \E line \in Lines :
    Serve("job", PlaceAdmits(TRUE),
          LAMBDA o : LET s == Begin(S, "place", <<"line">>, line, o)
                     IN IF line = "refused" \/ ring.abort THEN s ELSE [s EXCEPT !.c.isSet = FALSE])

PlaceOk ==
  Serve("job", PlaceAdmits(TRUE),
        LAMBDA o : [S EXCEPT !.c.why = "BUFFERING", !.c.begun = FALSE, !.c.isSet = FALSE])

\* cmdCancel: a job at rest on the ring
CmdCancel ==
  Serve("cancel", /\ core.estop = "clear" /\ core.ctx = "JOB"
                  /\ \/ core.why = "BUFFERING"
                     \/ core.why = "PLACE" /\ ~Busy(S)
                     \/ core.why = "TOOL_WAIT" /\ ring.state = "idle",
        LAMBDA o : [S EXCEPT !.c.ctx = "IDLE", !.c.why = "none", !.c.begun = FALSE, !.c.isSet = FALSE,
                             !.r.state = "idle"])

\* The ABORT byte
HostAbort ==
  /\ "abort" \in Commands /\ ~ring.abort
  /\ Core0Step(Served, LAMBDA s : "serve", LAMBDA o : JobAbort(S, o))

Command ==
  \/ CmdHome \/ CmdGotoXY \/ CmdGotoLegs \/ CmdGotoAxis \/ CmdHomeEnd \/ CmdUnalarm \/ CmdStop
  \/ CmdUnstop \/ JobHdr \/ ToolHdr \/ ToolChangeLeave \/ PlaceSet \/ PlaceGo \/ PlaceReset
  \/ PlaceOk \/ CmdCancel \/ HostAbort
  \/ \E n \in Nodes : CmdEnable(n) \/ CmdLeg(n) \/ CmdLegAbort(n) \/ CmdSetOrigin(n)

-----------------------------------------------------------------------------
(* Core 1: the line on the ring, and the sweep *)

Unstopped == core.estop = "clear"

\* Core 1 takes the ring: what it moves leaves its place, and machinePos follows
RingTakes ==
  /\ ring.state = "queued" /\ ~ring.abort /\ Unstopped
  /\ ring' = [ring EXCEPT !.state = "moving"]
  /\ node' = [n \in Nodes |-> IF n \in ring.moves /\ node[n].on THEN [node[n] EXCEPT !.at = "between"]
                              ELSE node[n]]
  /\ core' = [core EXCEPT !.seen = [n \in Nodes |-> IF n \in ring.moves \cap core.origin THEN "between" ELSE @[n]]]
  /\ UNCHANGED left

\* It drains, or an abort drops it: idle under the lock, the fact after
RingStops ==
  /\ ring.state = "moving" \/ (ring.state = "queued" /\ ring.abort)
  /\ Unstopped
  /\ ring' = [ring EXCEPT !.state = "idle", !.moves = {},
                          !.leaving = IF ring.abort THEN "aborted" ELSE "drained"]
  /\ UNCHANGED <<core, node, left>>

RingTells ==
  /\ ring.leaving # "no" /\ ring.facts < MaxFacts
  /\ ring' = [ring EXCEPT !.leaving = "no", !.facts = @ + 1,
                          !.abort = IF ring.leaving = "aborted" THEN FALSE ELSE @]
  /\ UNCHANGED <<core, node, left>>

\* An abort with nothing to stop
RingAbortAtRest ==
  /\ ring.abort /\ ring.state = "idle" /\ ring.leaving = "no"
  /\ ring' = [ring EXCEPT !.abort = FALSE]
  /\ UNCHANGED <<core, node, left>>

\* The estop's sweep (a node it does not reach is SlotMap's)
Sweep ==
  /\ core.estop = "asked" /\ ring.leaving = "no"
  /\ core' = [core EXCEPT !.estop = "swept", !.enabled = {}]
  /\ node' = [n \in Nodes |-> MakeSafe(node[n])]
  /\ ring' = [ring EXCEPT !.state = "idle", !.moves = {}, !.abort = FALSE]
  /\ UNCHANGED left

Core1Step == RingTakes \/ RingStops \/ RingTells \/ RingAbortAtRest \/ Sweep

Core0Loop ==
  \/ Observe \/ ServeEnds \/ SequenceTick \/ ToolsTick
  \/ \E n \in Nodes : RunnerTick(n)

Next == Core0Loop \/ ObserveFault \/ (\E n \in Nodes : RunnerDeadline(n)) \/ Command
        \/ NodeStep \/ Core1Step

Spec == Init /\ [][Next]_vars

-----------------------------------------------------------------------------
(* Properties *)

Places == {"between", "switch", "park", "none"}
Intents == {"none", "seek", "retract", "sweep", "park", "span", "unlatch"}

TypeOK ==
  /\ core.pc \in {"observe", "serve", "sequence", "tools"}
  /\ core.ctx \in {"IDLE", "HOMING", "JOB"}
  /\ core.why \in {"none", "PLACE", "BUFFERING", "TOOL_CHANGE", "TOOL_WAIT"}
  /\ core.events \subseteq {"F_SEQUENCE", "F_HOMING", "F_TOOL"}
  /\ core.estop \in {"clear", "asked", "swept"}
  /\ \A n \in Nodes : /\ core.leg[n].intent \in Intents
                      /\ core.leg[n].misses \in 0 .. LegMisses - 1
                      /\ core.leg[n].settle \in 0 .. SettlePolls
                      /\ core.seen[n] \in Places /\ node[n].at \in Places \ {"none"}
  /\ core.open \subseteq Nodes /\ core.origin \subseteq Nodes /\ core.latch \subseteq Nodes
  /\ Len(core.box) <= LegMax + 1
  /\ ring.state \in {"idle", "queued", "moving"} /\ ring.facts \in 0 .. MaxFacts

\* Core 0 knows whether n's pulser ran and was halted, and n has not restarted since its last seek
\* or sweep
Sure(n) == ~node[n].blind /\ ~node[n].reset

\* Between two passes of the loop a sequence that has not ended waits on something that will
\* come: a leg still polled, an event in the mailbox, or a line whose drain is not yet observed.
NeverStalls ==
  core.seq # "none" /\ core.pc \in {"observe", "serve"} =>
    \/ Claimed(S) # {} \/ core.box # <<>>
    \/ core.ringStep /\ (ring.state # "idle" \/ ring.leaving # "no" \/ ring.facts > 0)

\* A node that is homed and has no leg stands still, at the place Core 0 holds for it, whatever
\* legs were aborted, failed or dropped before.
HomedIsKnown ==
  \A n \in core.origin : core.leg[n] = NoLeg /\ Sure(n) => ~node[n].active /\ core.seen[n] = node[n].at

\* A homing run moves a cycle's nodes only with every node of its earlier cycles homed, and the
\* linear ones parked out of the way.
HomeInOrder ==
  core.seq = "home" =>
    \A n \in Claimed(S), m \in Nodes :
      core.run.job[m] # "none" /\ Cycle[m] < Cycle[n] /\ Sure(m) =>
        m \in core.origin /\ (m \in Rotary \/ node[m].at = "park")

\* Homing leaves what it says, in the order it says.
HomingIsTrue == HomedIsKnown /\ HomeInOrder

\* A line of a goto, a tool change or a placement moves X and Y with every Z at its park
\* position, also when the placement's Zs were parked many commands ago.  An aborted job is
\* left out: a tool change it starts all the same has its Zs where they are.
ZsAreUp ==
  /\ ring.state = "moving" /\ core.seq \in {"goto", "toolchange", "place"}
  /\ core.seq # "goto" => core.ctx = "JOB" /\ ~core.aborted
  => \A n \in Zs : Sure(n) => node[n].at = "park"

\* An event fault ends what runs: no homing, recovery, leg or traverse outlives it, and no leg
\* is claimed outside the sequences of a job.
AlarmRunsNothing ==
  core.events # {} => /\ core.seq \in {"none", "goto", "toolchange", "place"}
                      /\ core.seq = "none" => Claimed(S) = {}

\* A step's end in the mailbox is the end of a step that is over: it is not taken for a later
\* step's (docs/plans/sequences.md, the runner's mailbox).
StepEndIsMine == (\E i \in 1 .. Len(core.box) : core.box[i].kind = "step") => Claimed(S) = {}

=============================================================================
