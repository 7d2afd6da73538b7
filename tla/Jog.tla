-------------------------------- MODULE Jog --------------------------------
(***************************************************************************)
(* The operator's jogs.  A continuous jog (core0/ops/cjog.cpp) is one line *)
(* to the end of travel, stopped when the host's packets stop: its statics *)
(* watch a ring that Core 1 runs, and that step jogs and lines             *)
(* (cmd/axis.cpp), a goto's line and a job's records use as well           *)
(* (planner/queue.cpp).  Core 0 handles a packet, a command or a tick in   *)
(* one step; Core 1 takes the ring, moves, and lands an abort in steps of  *)
(* its own.                                                                *)
(*                                                                         *)
(* Two axis sets are told apart, "x" (XY) and "z"; A has no soft range and *)
(* is left out.  A record's own motion is JobMotion's, a goto's parks are  *)
(* the legs of Legs: here each is a block in the ring.                     *)
(***************************************************************************)
EXTENDS Integers, Sequences

CONSTANTS
  Top,              \* bound: positions are 0..Top
  SoftLo, SoftHi,   \* the soft range of both axes
  MaxTravel,        \* the longest unhomed jog
  JobMax,           \* bound: records in the ring
  None              \* model value: no direction

Axes   == {"x", "z"}
Place  == 0..Top
Soft   == SoftLo..SoftHi
Dirs   == [axis : Axes, sign : {-1, 1}]
Block  == [axis : Axes, to : Place]
Owners == {"step", "cont", "seq", "job"}

ASSUME RangeAssumption ==
  /\ {Top, SoftLo, SoftHi, MaxTravel, JobMax} \subseteq Nat
  /\ SoftLo < SoftHi /\ SoftHi <= Top /\ MaxTravel > 0 /\ JobMax > 0
  /\ None \notin Dirs

VARIABLES
  ctx,       \* "none", or the reason of the job: "place", "wait", "buffer", "run", "aborting"
  dot,       \* framesDotWindowOn
  ended,     \* jobAborted
  seq,       \* a goto is live
  latched, swept,                  \* the estop, and Core 1's sweep for it
  homed,     \* axes_homed
  pos,       \* machinePos
  ring, owner, active, abort,      \* plannerRing, ringOwner, plannerActive, abortRequested
  leaving,   \* Core 1 has given up the ring and not yet cleared its flags
  drained,   \* FACT_RING_DRAINED is in the ring of facts
  held, on, dir, want,             \* cjogHeld, cjogOn, cjogDir, cjogWant
  silent,    \* CJOG_DEADMAN_MS have passed since the last packet
  asked      \* history: the direction the host last asked for and was not refused

machine == <<ctx, dot, ended, seq, latched, swept, homed>>
planner == <<ring, owner, abort>>
core1   == <<pos, active, leaving, drained>>
cjog    == <<held, on, dir, want>>
host    == <<silent, asked>>
vars    == <<machine, planner, core1, cjog, host>>

Home0 == [a \in Axes |-> SoftLo]

Init ==
  /\ ctx = "none" /\ dot = FALSE /\ ended = FALSE /\ seq = FALSE
  /\ latched = FALSE /\ swept = FALSE
  /\ homed = FALSE /\ pos = [a \in Axes |-> 0]
  /\ ring = <<>> /\ owner = "job" /\ active = FALSE /\ abort = FALSE
  /\ leaving = FALSE /\ drained = FALSE
  /\ held = FALSE /\ on = FALSE /\ dir = None /\ want = None
  /\ silent = TRUE /\ asked = None

Empty == ring = <<>> /\ ~active
Busy  == ~Empty \/ seq

(* machineAdmit(K_STEP | K_IN_TOOL | K_IN_PLACE). *)
AdmitStep == ~latched /\ ~Busy /\ ctx \in {"none", "wait", "place"}

(* In JOB.PLACE only the dot jogs, and only until `place set`. *)
PlaceRefuses(axis) == ctx = "place" /\ ~(dot /\ axis = "x")

(* plannerStopJog, whoever owns the ring: Core 1 brakes, or the ring is dropped. *)
StopJog == ring' = (IF active THEN ring ELSE <<>>) /\ abort' = (abort \/ active)

----------------------------------------------------------------------------
(* The continuous jog.                                                     *)

CjogStop(line) ==
  /\ IF line THEN StopJog ELSE UNCHANGED <<ring, abort>>
  /\ held' = FALSE /\ on' = FALSE /\ want' = None
  /\ UNCHANGED <<dir, owner>>

(* A slip: the room ahead is always the room to the far end. *)
RoomToHi(d) == IF homed THEN SoftHi - pos[d.axis] ELSE MaxTravel

(* How far the axis may go: to its soft end when homed, else maxTravel. *)
Room(d) ==
  IF ~homed THEN MaxTravel ELSE
  IF d.sign = 1 THEN SoftHi - pos[d.axis] ELSE pos[d.axis] - SoftLo

LineTo(d) == pos[d.axis] + d.sign * Room(d)

CanStart(d) ==
  /\ Empty /\ ~abort /\ ~PlaceRefuses(d.axis)
  /\ Room(d) > 0 /\ LineTo(d) \in Place

(* A slip: the start leaves an older held start behind. *)
CjogStartKeeps(d) ==
  /\ ring' = <<[axis |-> d.axis, to |-> LineTo(d)]>> /\ owner' = "cont"
  /\ held' = TRUE /\ on' = TRUE /\ dir' = d
  /\ UNCHANGED <<abort, want>>

(* cjogStart: the line is queued. *)
CjogStart(d) ==
  /\ ring' = <<[axis |-> d.axis, to |-> LineTo(d)]>> /\ owner' = "cont"
  /\ held' = TRUE /\ on' = TRUE /\ dir' = d /\ want' = None
  /\ UNCHANGED abort

RingBusy == ~Empty \/ abort
Own      == on \/ (RingBusy /\ owner \in {"cont", "step"})

(* cjogPacket's ways with a direction.  A refused one changes nothing, a start *)
(* held for rest included.                                                  *)
Repeat(d) == held /\ dir = d /\ UNCHANGED <<planner, cjog>>

Refuse(d) ==
  /\ ~(held /\ dir = d) /\ ~Own /\ (~AdmitStep \/ (~RingBusy /\ ~CanStart(d)))
  /\ UNCHANGED <<planner, cjog>>

(* A slip: the line that runs is left to run. *)
ReplaceLeaves(d) ==
  /\ ~(held /\ dir = d) /\ (Own \/ (AdmitStep /\ RingBusy))
  /\ on' = FALSE /\ held' = FALSE /\ want' = d
  /\ UNCHANGED <<planner, dir>>

(* A jog's own ring is stopped and the start held for rest. *)
Replace(d) ==
  /\ ~(held /\ dir = d) /\ (Own \/ (AdmitStep /\ RingBusy))
  /\ IF on \/ owner = "step" THEN StopJog ELSE UNCHANGED <<ring, abort>>
  /\ on' = FALSE /\ held' = FALSE /\ want' = d
  /\ UNCHANGED <<owner, dir>>

Begin(d) ==
  ~(held /\ dir = d) /\ ~Own /\ AdmitStep /\ ~RingBusy /\ CanStart(d) /\ CjogStart(d)

CjogPacket ==
  /\ silent' = FALSE
  /\ \E d \in Dirs :
       \/ asked' = d /\ (Repeat(d) \/ Replace(d) \/ Begin(d))
       \/ Refuse(d) /\ UNCHANGED asked
  /\ UNCHANGED <<machine, core1>>

(* The stop byte, or a packet of zeros. *)
CjogStopByte ==
  /\ silent' \in {silent, FALSE} /\ asked' = None
  /\ CjogStop(on)
  /\ UNCHANGED <<machine, core1>>

(* cjogTick, in its order: the end of the line, the deadman, the held start. *)
TickDeadman == held /\ silent /\ CjogStop(on /\ ~Empty)

TickHeldStart ==
  /\ ~(held /\ silent) /\ want # None
  /\ \/ silent /\ want' = None /\ on' = (on /\ ~Empty) /\ UNCHANGED <<planner, held, dir>>
     \/ ~silent /\ RingBusy /\ on' = (on /\ ~Empty) /\ UNCHANGED <<planner, held, dir, want>>
     \/ /\ ~silent /\ ~RingBusy
        /\ IF AdmitStep /\ CanStart(want)
           THEN CjogStart(want)
           ELSE on' = FALSE /\ want' = None /\ UNCHANGED <<planner, held, dir>>

TickLineEnds ==
  /\ ~(held /\ silent) /\ want = None /\ on /\ Empty
  /\ on' = FALSE /\ UNCHANGED <<planner, held, dir, want>>

(* A pass's tick has nothing left to do: so it is after what takes passes. *)
TickDone ==
  /\ ~(held /\ silent) /\ (on => ~Empty)
  /\ want # None => ~silent /\ RingBusy

CjogTick ==
  /\ TickDeadman \/ TickHeldStart \/ TickLineEnds
  /\ UNCHANGED <<machine, core1, host>>

Silence ==
  /\ ~silent /\ silent' = TRUE
  /\ UNCHANGED <<machine, planner, core1, cjog, asked>>

----------------------------------------------------------------------------
(* The other users of the ring.                                            *)

(* The planner's push: an empty, idle ring starts again, owned by `by`. *)
Push(by, a, to) ==
  /\ ~abort /\ (Empty \/ owner = by)
  /\ owner' = by /\ ring' = Append(ring, [axis |-> a, to |-> to])
  /\ UNCHANGED <<abort, cjog, host, core1>>

(* `jog`: admission finds the ring idle, so the jog starts where the axis is. *)
StepJog ==
  /\ AdmitStep /\ ~abort
  /\ \E a \in Axes, dist \in {-1, 1} :
       /\ ~PlaceRefuses(a)
       /\ pos[a] + dist \in IF homed THEN Soft ELSE Place
       /\ Push("step", a, pos[a] + dist)
  /\ UNCHANGED machine

(* `line`, `bez`: to a point, in the soft range on a homed axis. *)
Line ==
  /\ AdmitStep /\ ctx = "none" /\ ~abort
  /\ \E to \in IF homed THEN Soft ELSE Place : Push("step", "x", to)
  /\ UNCHANGED machine

Goto ==
  /\ AdmitStep /\ ctx = "none" /\ homed /\ ~abort
  /\ \E to \in Soft : Push("seq", "x", to)
  /\ seq' = TRUE
  /\ UNCHANGED <<ctx, dot, ended, latched, swept, homed>>

(* observeTick, ringDrained: the goto's step ends once the ring is empty. *)
RingDrained ==
  /\ drained /\ drained' = FALSE
  /\ seq' = (seq /\ ~Empty)
  /\ UNCHANGED <<ctx, dot, ended, latched, swept, homed, planner, pos, active, leaving,
                 cjog, host>>

Home ==
  /\ AdmitStep /\ ctx = "none" /\ ~abort /\ TickDone
  /\ homed' = TRUE /\ pos' = Home0
  /\ UNCHANGED <<ctx, dot, ended, seq, latched, swept, planner, active, leaving, drained,
                 cjog, host>>

----------------------------------------------------------------------------
(* The job, as far as it lets jogs in.                                     *)

JobHdr ==
  /\ ctx = "none" /\ ~latched /\ ~Busy /\ ~abort /\ homed
  /\ ctx' = "place" /\ dot' = TRUE
  /\ UNCHANGED <<ended, seq, latched, swept, homed, planner, core1, cjog, host>>

PlaceSet ==
  /\ ctx = "place" /\ dot /\ ~Busy /\ dot' = FALSE
  /\ UNCHANGED <<ctx, ended, seq, latched, swept, homed, planner, core1, cjog, host>>

(* plannerJobSwap: the ring is idle, and the job's. *)
JobSwap(from, to) ==
  /\ ctx = from /\ Empty /\ ctx' = to /\ owner' = "job"
  /\ UNCHANGED <<dot, ended, seq, latched, swept, homed, ring, abort, core1, cjog, host>>

PlaceOk    == ~dot /\ JobSwap("place", "buffer")
ToolChange == JobSwap("buffer", "wait")
LayerHdr   == JobSwap("wait", "buffer")

Record ==
  /\ ctx \in {"buffer", "run"} /\ ~abort /\ Len(ring) < JobMax
  /\ Push("job", "x", pos["x"])
  /\ UNCHANGED machine

(* The ABORT byte; in a job the context closes once Core 1 has landed it. *)
HostAbort ==
  /\ abort' = TRUE /\ ended' = (ctx # "none")
  /\ UNCHANGED <<ctx, dot, seq, latched, swept, homed, ring, owner, core1, cjog, host>>

AbortSettle ==
  /\ ended /\ ~abort /\ Empty
  /\ ended' = FALSE /\ ctx' = "none" /\ dot' = FALSE
  /\ UNCHANGED <<seq, latched, swept, homed, planner, core1, cjog, host>>

Stop ==
  /\ ~latched /\ latched' = TRUE /\ swept' = FALSE
  /\ homed' = FALSE /\ seq' = FALSE /\ ctx' = "none" /\ ended' = FALSE /\ dot' = FALSE
  /\ UNCHANGED <<planner, core1, cjog, host>>

Unstop ==
  /\ latched /\ swept /\ latched' = FALSE /\ swept' = FALSE
  /\ UNCHANGED <<ctx, dot, ended, seq, homed, planner, core1, cjog, host>>

(* A soft reset, after the tick of the pass that took the command: the ring *)
(* and the machine are wiped, the jog's statics are not.                    *)
SoftReset ==
  /\ TickDone
  /\ ctx' = "none" /\ dot' = FALSE /\ ended' = FALSE /\ seq' = FALSE
  /\ latched' = FALSE /\ swept' = FALSE /\ homed' = FALSE
  /\ ring' = <<>> /\ owner' = "job" /\ abort' = FALSE
  /\ pos' = [a \in Axes |-> 0] /\ active' = FALSE /\ leaving' = FALSE /\ drained' = FALSE
  /\ UNCHANGED <<cjog, host>>

----------------------------------------------------------------------------
(* Core 1.                                                                 *)

Enter ==
  /\ ~active /\ ~leaving /\ ~latched /\ ring # <<>> /\ active' = TRUE
  /\ \/ owner # "job" /\ UNCHANGED ctx
     \/ owner = "job" /\ ctx = "buffer" /\ ~abort /\ ctx' = "run"
  /\ UNCHANGED <<dot, ended, seq, latched, swept, homed, planner, pos, leaving, drained,
                 cjog, host>>

(* The oldest block moves its axis, then leaves the ring. *)
Move ==
  /\ active /\ ~latched /\ ring # <<>>
  /\ \E b \in {Head(ring)} :
       \/ /\ pos[b.axis] # b.to
          /\ pos' = [pos EXCEPT ![b.axis] = @ + IF b.to > @ THEN 1 ELSE -1]
          /\ UNCHANGED ring
       \/ pos[b.axis] = b.to /\ ring' = Tail(ring) /\ UNCHANGED pos
  /\ UNCHANGED <<machine, owner, abort, active, leaving, drained, cjog, host>>

(* The executor has braked for an abort: the ring is emptied where it stands. *)
Brake ==
  /\ active /\ abort /\ ~latched /\ ring # <<>> /\ ring' = <<>>
  /\ ctx' = IF owner = "job" THEN "aborting" ELSE ctx
  /\ UNCHANGED <<dot, ended, seq, latched, swept, homed, owner, abort, core1, cjog, host>>

(* leaveDrained: under the lock, then after it the flags and the fact. *)
LeaveDrained ==
  /\ active /\ ring = <<>> /\ ~latched /\ (owner # "job" \/ abort)
  /\ active' = FALSE /\ leaving' = TRUE
  /\ UNCHANGED <<machine, planner, pos, drained, cjog, host>>

LeaveFlags ==
  /\ leaving /\ leaving' = FALSE /\ abort' = FALSE /\ drained' = TRUE
  /\ UNCHANGED <<machine, ring, owner, pos, active, cjog, host>>

LeaveDry ==
  /\ active /\ ring = <<>> /\ ~latched /\ owner = "job" /\ ~abort
  /\ active' = FALSE /\ ctx' = "buffer"
  /\ UNCHANGED <<dot, ended, seq, latched, swept, homed, planner, pos, leaving, drained,
                 cjog, host>>

(* An abort with nothing to stop still has to be consumed; a ring that was  *)
(* queued since processPlanner looked goes with it, whoever's it is.        *)
AbortAtRest ==
  /\ abort /\ ~active /\ ~leaving /\ ~latched
  /\ abort' = FALSE /\ ring' = <<>> /\ drained' = (drained \/ ring # <<>>)
  /\ UNCHANGED <<machine, owner, pos, active, leaving, cjog, host>>

(* The estop drops the ring and the request, then the bus is swept. *)
Sweep ==
  /\ latched /\ ~swept /\ swept' = TRUE
  /\ ring' = <<>> /\ abort' = FALSE /\ active' = FALSE /\ leaving' = FALSE
  /\ UNCHANGED <<ctx, dot, ended, seq, latched, homed, owner, pos, drained, cjog, host>>

Next ==
  \/ CjogPacket \/ CjogStopByte \/ CjogTick \/ Silence
  \/ StepJog \/ Line \/ Goto \/ RingDrained \/ Home
  \/ JobHdr \/ PlaceSet \/ PlaceOk \/ ToolChange \/ LayerHdr \/ Record
  \/ HostAbort \/ AbortSettle \/ Stop \/ Unstop \/ SoftReset
  \/ Enter \/ Move \/ Brake \/ LeaveDrained \/ LeaveFlags \/ LeaveDry
  \/ AbortAtRest \/ Sweep

Spec == Init /\ [][Next]_vars

----------------------------------------------------------------------------
(* Properties.                                                             *)

(* Every variable stays in its type; only a job's ring holds more than one  *)
(* block, a ring Core 1 runs is a jog's, a goto's or a job's that runs, and *)
(* a held start waits only while no line of the jog is held.                *)
TypeOK ==
  /\ ctx \in {"none", "place", "wait", "buffer", "run", "aborting"}
  /\ dot \in BOOLEAN /\ ended \in BOOLEAN /\ seq \in BOOLEAN
  /\ latched \in BOOLEAN /\ swept \in BOOLEAN /\ homed \in BOOLEAN
  /\ pos \in [Axes -> Place]
  /\ ring \in Seq(Block) /\ Len(ring) <= JobMax /\ owner \in Owners
  /\ active \in BOOLEAN /\ abort \in BOOLEAN /\ leaving \in BOOLEAN /\ drained \in BOOLEAN
  /\ held \in BOOLEAN /\ on \in BOOLEAN /\ silent \in BOOLEAN
  /\ dir \in Dirs \cup {None} /\ want \in Dirs \cup {None} /\ asked \in Dirs \cup {None}
  /\ Len(ring) > 1 => owner = "job"
  /\ active /\ owner = "job" => latched \/ ctx \in {"run", "aborting"}
  /\ ~(active /\ leaving)
  /\ want # None => ~held

(* The direction of the line in the ring. *)
Along(d, b) == d.axis = b.axis /\ LineTo(d) = b.to

(* A continuous jog moves only while it is watched: its line is the way the *)
(* host last asked (a refusal aside), with the deadman and the stop byte    *)
(* armed for it, or Core 1 is stopping it, or the estop holds.  So no line  *)
(* outlives a stop byte, silence, a change of direction or a soft reset     *)
(* without a stop on its way (cjog.cpp, whole).                             *)
LineIsWatched ==
  owner = "cont" /\ ring # <<>> =>
    \/ abort \/ latched
    \/ /\ held /\ on /\ dir = asked
       /\ dir.axis = Head(ring).axis
       /\ dir.sign * (Head(ring).to - pos[dir.axis]) >= 0

(* On a homed machine no jog, line or goto leaves the soft range, however the *)
(* jogs are stopped, replaced and started again (cjogStart, framesCheckMove, *)
(* toMachine).                                                              *)
InRange ==
  homed => /\ \A a \in Axes : pos[a] \in Soft
           /\ \A i \in 1..Len(ring) : ring[i].to \in Soft

============================================================================
