----------------------------- MODULE JogProofs -----------------------------
(***************************************************************************)
(* Proofs about Jog: for every range of positions, every soft range in it, *)
(* every longest jog and every depth of a job's ring.                      *)
(***************************************************************************)
EXTENDS Jog, TLAPS

(* An estop closes the job, and what its sweep has dropped stays dropped.   *)
Latch ==
  /\ latched => ctx = "none"
  /\ swept => latched /\ ~active /\ ring = <<>>

(* The line in the ring is watched by the jog's statics.                    *)
Watched ==
  /\ held /\ on /\ dir \in Dirs /\ dir = asked
  /\ dir.axis = Head(ring).axis
  /\ dir.sign * (Head(ring).to - pos[dir.axis]) >= 0

(* An abort excuses an unwatched line only on a ring that Core 1 runs: Core 1 *)
(* may clear the request of a ring it has left after a new line is queued.  *)
LineKept ==
  owner = "cont" /\ ring # <<>> => (abort /\ active) \/ latched \/ Watched

(* A start held for rest is the direction last asked for.                   *)
WantKept == want # None => want = asked /\ ~held

----------------------------------------------------------------------------
(* The operators.                                                           *)

(* What the ring's sequence operators do to a sequence of blocks.           *)
LEMMA RingOps ==
  ASSUME NEW r \in Seq(Block)
  PROVE  /\ Len(r) \in Nat /\ (r = <<>> <=> Len(r) = 0)
         /\ \A i \in 1..Len(r) : r[i] \in Block
         /\ r # <<>> =>
              /\ Head(r) = r[1] /\ Head(r) \in Block
              /\ Tail(r) \in Seq(Block) /\ Len(Tail(r)) = Len(r) - 1
              /\ \A i \in 1..Len(Tail(r)) : Tail(r)[i] = r[i + 1]
         /\ \A b \in Block :
              /\ Append(r, b) \in Seq(Block) /\ Len(Append(r, b)) = Len(r) + 1
              /\ Append(r, b)[Len(r) + 1] = b
              /\ \A i \in 1..Len(r) : Append(r, b)[i] = r[i]
OBVIOUS

LEMMA OneBlock ==
  ASSUME NEW b \in Block
  PROVE  <<b>> \in Seq(Block) /\ Len(<<b>>) = 1 /\ Head(<<b>>) = b /\ <<b>> # <<>> /\ <<b>>[1] = b
OBVIOUS

(* plannerStopJog: a ring that runs is left to its abort, another is dropped. *)
LEMMA StopJogDoes ==
  ASSUME TypeOK, StopJog
  PROVE  \/ active /\ ring' = ring /\ abort' = TRUE
         \/ ~active /\ ring' = <<>> /\ abort' = abort
<1>1. CASE active
  BY <1>1 DEF StopJog
<1>2. CASE ~active
  <2>1. ring' = <<>> /\ (abort' <=> abort) /\ abort' \in BOOLEAN
    BY <1>2 DEF StopJog
  <2> QED BY <1>2, <2>1 DEF TypeOK
<1> QED BY <1>1, <1>2

(* cjogStart: one line, along the direction asked for and in the soft range *)
(* of a homed axis.                                                         *)
LEMMA StartDoes ==
  ASSUME TypeOK, NEW d \in Dirs, CanStart(d)
  PROVE  LET b == [axis |-> d.axis, to |-> LineTo(d)]
         IN  /\ b \in Block /\ Empty
             /\ d.sign * (LineTo(d) - pos[d.axis]) >= 0
             /\ homed => LineTo(d) \in Soft
<1>1. d.axis \in Axes /\ pos[d.axis] \in Int /\ LineTo(d) \in Place /\ Empty /\ Room(d) > 0
  BY DEF CanStart, Dirs, TypeOK, Place
<1>2. Room(d) \in Int /\ {SoftLo, SoftHi} \subseteq Int
  BY <1>1, RangeAssumption DEF Room
<1>3. CASE d.sign = 1
  <2>1. LineTo(d) = pos[d.axis] + Room(d)
    BY <1>1, <1>2, <1>3 DEF LineTo
  <2>2. homed => LineTo(d) = SoftHi
    BY <1>1, <1>2, <1>3, <2>1 DEF Room
  <2> QED BY <1>1, <1>2, <1>3, <2>1, <2>2, RangeAssumption DEF Block, Soft
<1>4. CASE d.sign = -1
  <2>1. LineTo(d) = pos[d.axis] - Room(d)
    BY <1>1, <1>2, <1>4 DEF LineTo
  <2>2. homed => LineTo(d) = SoftLo
    BY <1>1, <1>2, <1>4, <2>1 DEF Room
  <2> QED BY <1>1, <1>2, <1>4, <2>1, <2>2, RangeAssumption DEF Block, Soft
<1> QED BY <1>3, <1>4 DEF Dirs

(* What a packet, a stop byte or a tick may do to the ring: nothing, stop   *)
(* it, or start a line on an empty one.                                     *)
LEMMA CjogDoes ==
  ASSUME TypeOK, CjogPacket \/ CjogStopByte \/ CjogTick
  PROVE  /\ UNCHANGED <<machine, core1>>
         /\ \/ UNCHANGED <<ring, abort, owner>>
            \/ StopJog /\ UNCHANGED owner
            \/ \E d \in Dirs : CanStart(d) /\ CjogStart(d)
<1>1. CASE CjogPacket
  <2>1. PICK d \in Dirs : Repeat(d) \/ Replace(d) \/ Begin(d) \/ Refuse(d)
    BY <1>1 DEF CjogPacket
  <2>2. UNCHANGED <<machine, core1>>
    BY <1>1 DEF CjogPacket
  <2> QED BY <2>1, <2>2 DEF Repeat, Replace, Begin, Refuse, planner
<1>2. CASE CjogStopByte
  BY <1>2 DEF CjogStopByte, CjogStop
<1>3. CASE CjogTick
  <2>1. CASE TickDeadman
    BY <1>3, <2>1 DEF CjogTick, TickDeadman, CjogStop
  <2>2. CASE TickHeldStart
    <3>1. want \in Dirs
      BY <2>2 DEF TickHeldStart, TypeOK
    <3> QED BY <1>3, <2>2, <3>1 DEF CjogTick, TickHeldStart, planner
  <2>3. CASE TickLineEnds
    BY <1>3, <2>3 DEF CjogTick, TickLineEnds, planner
  <2> QED BY <1>3, <2>1, <2>2, <2>3 DEF CjogTick
<1> QED BY <1>1, <1>2, <1>3

----------------------------------------------------------------------------
(* The jog's statics.                                                       *)

(* They keep their types, and a start held for rest is what the host last   *)
(* asked for, with no line of the jog held.                                 *)
LEMMA StaticsStep ==
  ASSUME TypeOK, WantKept, CjogPacket \/ CjogStopByte \/ CjogTick
  PROVE  /\ held' \in BOOLEAN /\ on' \in BOOLEAN /\ silent' \in BOOLEAN
         /\ dir' \in Dirs \cup {None} /\ want' \in Dirs \cup {None} /\ asked' \in Dirs \cup {None}
         /\ WantKept'
<1> USE DEF TypeOK, WantKept
<1>1. CASE CjogPacket
  <2>1. silent' = FALSE
    BY <1>1 DEF CjogPacket
  <2>2. PICK d \in Dirs :
          \/ asked' = d /\ (Repeat(d) \/ Replace(d) \/ Begin(d))
          \/ Refuse(d) /\ UNCHANGED asked
    BY <1>1 DEF CjogPacket
  <2>3. CASE Repeat(d) /\ asked' = d
    BY <2>1, <2>3, RangeAssumption DEF Repeat, cjog
  <2>4. CASE Replace(d) /\ asked' = d
    BY <2>1, <2>4, RangeAssumption DEF Replace
  <2>5. CASE Begin(d) /\ asked' = d
    BY <2>1, <2>5, RangeAssumption DEF Begin, CjogStart
  <2>6. CASE Refuse(d) /\ UNCHANGED asked
    BY <2>1, <2>6 DEF Refuse, cjog
  <2> QED BY <2>2, <2>3, <2>4, <2>5, <2>6
<1>2. CASE CjogStopByte
  <2>1. silent' \in BOOLEAN /\ asked' = None
    BY <1>2 DEF CjogStopByte
  <2>2. held' = FALSE /\ on' = FALSE /\ want' = None /\ dir' = dir
    BY <1>2 DEF CjogStopByte, CjogStop
  <2> QED BY <2>1, <2>2
<1>3. CASE CjogTick
  <2>1. UNCHANGED <<silent, asked>>
    BY <1>3 DEF CjogTick, host
  <2>2. CASE TickDeadman
    BY <2>1, <2>2 DEF TickDeadman, CjogStop
  <2>3. CASE TickHeldStart
    <3>1. CASE CjogStart(want)
      BY <2>1, <2>3, <3>1, RangeAssumption DEF CjogStart, TickHeldStart
    <3>2. CASE on' = (on /\ ~Empty) /\ UNCHANGED <<held, dir>> /\ want' \in {want, None}
      <4>1. on' \in BOOLEAN
        BY <3>2
      <4> QED BY <2>1, <3>2, <4>1
    <3>3. CASE on' = FALSE /\ want' = None /\ UNCHANGED <<held, dir>>
      BY <2>1, <3>3
    <3> QED BY <2>3, <3>1, <3>2, <3>3 DEF TickHeldStart, planner, cjog
  <2>4. CASE TickLineEnds
    BY <2>1, <2>4 DEF TickLineEnds, planner
  <2> QED BY <1>3, <2>2, <2>3, <2>4 DEF CjogTick
<1> QED BY <1>1, <1>2, <1>3

(* Nothing else touches them: an estop, a reset and a job leave them be.    *)
Others ==
  \/ StepJog \/ Line \/ Goto \/ RingDrained \/ Home \/ JobHdr
  \/ PlaceSet \/ PlaceOk \/ ToolChange \/ LayerHdr \/ Record \/ HostAbort
  \/ AbortSettle \/ Stop \/ Unstop \/ SoftReset \/ Enter \/ Move
  \/ Brake \/ LeaveDrained \/ LeaveFlags \/ LeaveDry \/ AbortAtRest \/ Sweep

LEMMA OthersKeep ==
  ASSUME Others
  PROVE  UNCHANGED <<cjog, host>>
BY DEF Others, StepJog, Line, Goto, Push, RingDrained, Home, JobHdr, PlaceSet, PlaceOk, ToolChange,
       LayerHdr, JobSwap, Record, HostAbort, AbortSettle, Stop, Unstop, SoftReset, Enter, Move,
       Brake, LeaveDrained, LeaveFlags, LeaveDry, AbortAtRest, Sweep

----------------------------------------------------------------------------
(* Type correctness.                                                        *)

(* The planner's push keeps the ring's type and its owner's claim to it.    *)
LEMMA PushType ==
  ASSUME TypeOK, NEW by \in Owners, NEW a \in Axes, NEW to \in Place, Push(by, a, to),
         Empty \/ (by = "job" /\ Len(ring) < JobMax)
  PROVE  /\ ring' \in Seq(Block) /\ Len(ring') <= JobMax /\ owner' = by
         /\ Len(ring') > 1 => by = "job"
         /\ UNCHANGED <<abort, pos, active, leaving, drained>>
         /\ Empty \/ owner = "job"
<1>1. [axis |-> a, to |-> to] \in Block
  BY DEF Block
<1>2. ring' \in Seq(Block) /\ Len(ring') = Len(ring) + 1
  BY <1>1, RingOps DEF Push, TypeOK
<1>3. Len(ring) \in Nat /\ (Empty => Len(ring) = 0)
  BY RingOps DEF TypeOK, Empty
<1> QED BY <1>2, <1>3, RangeAssumption DEF Push, core1

LEMMA TypeStep ==
  ASSUME TypeOK, Latch, WantKept, [Next]_vars
  PROVE  TypeOK'
<1> USE DEF TypeOK
<1>1. CASE CjogPacket \/ CjogStopByte \/ CjogTick
  <2>1. UNCHANGED <<machine, core1>>
    BY <1>1, CjogDoes
  <2>2. ring' \in Seq(Block) /\ Len(ring') <= JobMax /\ owner' \in Owners /\ abort' \in BOOLEAN
        /\ (Len(ring') > 1 => owner' = "job") /\ (active => owner' = owner)
    <3>1. CASE UNCHANGED <<ring, abort, owner>>
      BY <3>1
    <3>2. CASE StopJog /\ UNCHANGED owner
      <4>1. abort' \in BOOLEAN /\ (ring' = ring \/ ring' = <<>>) /\ owner' = owner
        BY <3>2, StopJogDoes
      <4>2. <<>> \in Seq(Block) /\ Len(<<>>) = 0
        OBVIOUS
      <4>3. CASE ring' = ring
        BY <4>1, <4>3
      <4>4. CASE ring' = <<>>
        BY <4>1, <4>2, <4>4, RangeAssumption
      <4> QED BY <4>1, <4>3, <4>4
    <3>3. CASE \E d \in Dirs : CanStart(d) /\ CjogStart(d)
      BY <3>3, StartDoes, OneBlock, RangeAssumption DEF CjogStart, Owners, Empty
    <3> QED BY <1>1, <3>1, <3>2, <3>3, CjogDoes
  <2> QED BY <1>1, <2>1, <2>2, StaticsStep DEF machine, core1, WantKept
<1>2. CASE StepJog
  <2>1. PICK a \in Axes, dist \in {-1, 1} :
          /\ pos[a] + dist \in IF homed THEN Soft ELSE Place
          /\ Push("step", a, pos[a] + dist)
    BY <1>2 DEF StepJog
  <2>2. pos[a] + dist \in Place
    BY <2>1, RangeAssumption DEF Soft, Place
  <2>3. Empty /\ UNCHANGED <<machine, cjog, host>>
    BY <1>2, OthersKeep DEF StepJog, AdmitStep, Busy, Others
  <2> QED BY <2>1, <2>2, <2>3, PushType DEF Owners, machine, cjog, host, Empty
<1>3. CASE Line
  <2>1. PICK to \in IF homed THEN Soft ELSE Place : Push("step", "x", to)
    BY <1>3 DEF Line
  <2>2. to \in Place
    BY RangeAssumption DEF Soft, Place
  <2>3. Empty /\ UNCHANGED <<machine, cjog, host>>
    BY <1>3, OthersKeep DEF Line, AdmitStep, Busy, Others
  <2> QED BY <2>1, <2>2, <2>3, PushType DEF Owners, Axes, machine, cjog, host, Empty
<1>4. CASE Goto
  <2>1. PICK to \in Soft : Push("seq", "x", to)
    BY <1>4 DEF Goto
  <2>2. to \in Place
    BY RangeAssumption DEF Soft, Place
  <2>3. Empty /\ seq' = TRUE /\ UNCHANGED <<ctx, dot, ended, latched, swept, homed, cjog, host>>
    BY <1>4, OthersKeep DEF Goto, AdmitStep, Busy, Others
  <2> QED BY <2>1, <2>2, <2>3, PushType DEF Owners, Axes, cjog, host, Empty
<1>5. CASE RingDrained
  <2>1. seq' \in BOOLEAN /\ drained' \in BOOLEAN
    BY <1>5 DEF RingDrained
  <2>2. UNCHANGED <<ctx, dot, ended, latched, swept, homed, planner, pos, active, leaving, cjog, host>>
    BY <1>5 DEF RingDrained
  <2> QED BY <2>1, <2>2 DEF planner, cjog, host
<1>6. CASE Home
  <2>1. pos' \in [Axes -> Place] /\ homed' = TRUE
    BY <1>6, RangeAssumption DEF Home, Home0, Place
  <2>2. UNCHANGED <<ctx, dot, ended, seq, latched, swept, planner, active, leaving, drained, cjog, host>>
    BY <1>6 DEF Home
  <2> QED BY <2>1, <2>2 DEF planner, cjog, host
<1>7. CASE JobHdr
  BY <1>7 DEF JobHdr, Busy, Empty, planner, core1, cjog, host
<1>8. CASE PlaceSet
  <2>1. dot' \in BOOLEAN
    BY <1>8 DEF PlaceSet
  <2>2. UNCHANGED <<ctx, ended, seq, latched, swept, homed, planner, core1, cjog, host>>
    BY <1>8 DEF PlaceSet
  <2> QED BY <2>1, <2>2 DEF planner, core1, cjog, host
<1>9. CASE PlaceOk \/ ToolChange \/ LayerHdr
  <2>1. /\ Empty /\ owner' = "job" /\ ctx' \in {"buffer", "wait"}
        /\ UNCHANGED <<dot, ended, seq, latched, swept, homed, ring, abort, core1, cjog, host>>
    BY <1>9 DEF PlaceOk, ToolChange, LayerHdr, JobSwap
  <2> QED BY <2>1 DEF Owners, Empty, core1, cjog, host
<1>10. CASE Record
  <2>1. /\ Push("job", "x", pos["x"]) /\ Len(ring) < JobMax /\ UNCHANGED <<machine, cjog, host>>
        /\ pos["x"] \in Place
    BY <1>10, OthersKeep DEF Record, Others, Axes
  <2>2. Empty \/ owner = "job"
    BY <2>1 DEF Push
  <2> QED BY <2>1, <2>2, PushType DEF Owners, Axes, machine, cjog, host, Empty
<1>11. CASE HostAbort
  <2>1. abort' = TRUE /\ ended' \in BOOLEAN
    BY <1>11 DEF HostAbort
  <2>2. UNCHANGED <<ctx, dot, seq, latched, swept, homed, ring, owner, core1, cjog, host>>
    BY <1>11 DEF HostAbort
  <2> QED BY <2>1, <2>2 DEF core1, cjog, host
<1>12. CASE AbortSettle
  <2>1. ended' \in BOOLEAN /\ dot' \in BOOLEAN /\ ctx' = "none" /\ ~active
    BY <1>12 DEF AbortSettle, Empty
  <2>2. UNCHANGED <<seq, latched, swept, homed, planner, core1, cjog, host>>
    BY <1>12 DEF AbortSettle
  <2> QED BY <2>1, <2>2 DEF planner, core1, cjog, host
<1>13. CASE Stop
  <2>1. latched' \in BOOLEAN /\ swept' \in BOOLEAN /\ homed' \in BOOLEAN /\ seq' \in BOOLEAN
        /\ ended' \in BOOLEAN /\ dot' \in BOOLEAN /\ latched' /\ ctx' = "none"
    BY <1>13 DEF Stop
  <2>2. UNCHANGED <<planner, core1, cjog, host>>
    BY <1>13 DEF Stop
  <2> QED BY <2>1, <2>2 DEF planner, core1, cjog, host
<1>14. CASE Unstop
  <2>1. latched' \in BOOLEAN /\ swept' \in BOOLEAN /\ ~active
    BY <1>14 DEF Unstop, Latch
  <2>2. UNCHANGED <<ctx, dot, ended, seq, homed, planner, core1, cjog, host>>
    BY <1>14 DEF Unstop
  <2> QED BY <2>1, <2>2 DEF planner, core1, cjog, host
<1>15. CASE SoftReset
  <2>1. /\ dot' \in BOOLEAN /\ ended' \in BOOLEAN /\ seq' \in BOOLEAN
        /\ latched' \in BOOLEAN /\ swept' \in BOOLEAN /\ homed' \in BOOLEAN
        /\ abort' \in BOOLEAN /\ active' \in BOOLEAN /\ leaving' \in BOOLEAN /\ drained' \in BOOLEAN
        /\ ~active'
    BY <1>15 DEF SoftReset
  <2>2. pos' \in [Axes -> Place]
    BY <1>15, RangeAssumption DEF SoftReset, Place
  <2>3. ctx' = "none" /\ ring' = <<>> /\ owner' = "job" /\ UNCHANGED <<cjog, host>>
    BY <1>15 DEF SoftReset
  <2> QED BY <2>1, <2>2, <2>3, RangeAssumption DEF Owners, cjog, host
<1>16. CASE Enter
  BY <1>16 DEF Enter, planner, cjog, host
<1>17. CASE Move
  <2>1. PICK b \in {Head(ring)} :
          \/ /\ pos[b.axis] # b.to
             /\ pos' = [pos EXCEPT ![b.axis] = @ + IF b.to > @ THEN 1 ELSE -1]
             /\ UNCHANGED ring
          \/ pos[b.axis] = b.to /\ ring' = Tail(ring) /\ UNCHANGED pos
    BY <1>17 DEF Move
  <2>2. b \in Block /\ ring # <<>>
    BY <1>17, <2>1, RingOps DEF Move
  <2>3. pos' \in [Axes -> Place]
    <3>1. b.axis \in Axes /\ b.to \in 0..Top /\ pos[b.axis] \in 0..Top /\ Top \in Nat
      BY <2>2, RangeAssumption DEF Block, Place
    <3>2. pos[b.axis] # b.to => pos[b.axis] + (IF b.to > pos[b.axis] THEN 1 ELSE -1) \in 0..Top
      BY <3>1
    <3>3. \/ pos' = [pos EXCEPT ![b.axis] = pos[b.axis] + (IF b.to > pos[b.axis] THEN 1 ELSE -1)]
             /\ pos[b.axis] # b.to
          \/ pos' = pos
      BY <2>1
    <3>4. \A v \in Place : [pos EXCEPT ![b.axis] = v] \in [Axes -> Place]
      BY <3>1
    <3> QED BY <3>2, <3>3, <3>4 DEF Place
  <2>4. ring' \in Seq(Block) /\ Len(ring') <= Len(ring) /\ Len(ring) \in Nat /\ Len(ring') \in Nat
    <3>1. Len(ring) \in Nat /\ Tail(ring) \in Seq(Block) /\ Len(Tail(ring)) = Len(ring) - 1
          /\ Len(Tail(ring)) \in Nat
      BY <2>2, RingOps
    <3> QED BY <2>1, <3>1
  <2>5. UNCHANGED <<machine, owner, abort, active, leaving, drained, cjog, host>>
    BY <1>17 DEF Move
  <2> QED BY <2>3, <2>4, <2>5, RangeAssumption DEF machine, cjog, host
<1>18. CASE Brake
  BY <1>18, RangeAssumption DEF Brake, core1, cjog, host
<1>19. CASE LeaveDrained
  <2>1. active' \in BOOLEAN /\ leaving' \in BOOLEAN /\ ~active'
    BY <1>19 DEF LeaveDrained
  <2>2. UNCHANGED <<machine, planner, pos, drained, cjog, host>>
    BY <1>19 DEF LeaveDrained
  <2> QED BY <2>1, <2>2 DEF machine, planner, cjog, host
<1>20. CASE LeaveFlags
  <2>1. leaving' \in BOOLEAN /\ abort' \in BOOLEAN /\ drained' \in BOOLEAN /\ ~leaving'
    BY <1>20 DEF LeaveFlags
  <2>2. UNCHANGED <<machine, ring, owner, pos, active, cjog, host>>
    BY <1>20 DEF LeaveFlags
  <2> QED BY <2>1, <2>2 DEF machine, cjog, host
<1>21. CASE LeaveDry
  <2>1. active' \in BOOLEAN /\ ~active' /\ ctx' = "buffer"
    BY <1>21 DEF LeaveDry
  <2>2. UNCHANGED <<dot, ended, seq, latched, swept, homed, planner, pos, leaving, drained, cjog, host>>
    BY <1>21 DEF LeaveDry
  <2> QED BY <2>1, <2>2 DEF planner, cjog, host
<1>22. CASE AbortAtRest
  <2>1. drained' \in BOOLEAN /\ abort' \in BOOLEAN /\ ring' = <<>>
    BY <1>22 DEF AbortAtRest
  <2>2. UNCHANGED <<machine, owner, pos, active, leaving, cjog, host>>
    BY <1>22 DEF AbortAtRest
  <2> QED BY <2>1, <2>2, RangeAssumption DEF machine, cjog, host
<1>23. CASE Sweep
  <2>1. /\ swept' \in BOOLEAN /\ abort' \in BOOLEAN /\ active' \in BOOLEAN /\ leaving' \in BOOLEAN
        /\ ~active' /\ ring' = <<>>
    BY <1>23 DEF Sweep
  <2>2. UNCHANGED <<ctx, dot, ended, seq, latched, homed, owner, pos, drained, cjog, host>>
    BY <1>23 DEF Sweep
  <2> QED BY <2>1, <2>2, RangeAssumption DEF cjog, host
<1>24. CASE Silence
  BY <1>24 DEF Silence, machine, planner, core1, cjog
<1>25. CASE UNCHANGED vars
  BY <1>25 DEF vars, machine, planner, core1, cjog, host
<1> QED
  BY <1>1, <1>2, <1>3, <1>4, <1>5, <1>6, <1>7, <1>8, <1>9, <1>10, <1>11, <1>12, <1>13, <1>14,
     <1>15, <1>16, <1>17, <1>18, <1>19, <1>20, <1>21, <1>22, <1>23, <1>24, <1>25 DEF Next

----------------------------------------------------------------------------
(* The estop.                                                               *)

(* Nothing queues or runs on what the sweep has dropped: every way into the *)
(* ring asks for the latch or for a job, and the estop has closed both.     *)
LEMMA LatchStep ==
  ASSUME TypeOK, Latch, [Next]_vars
  PROVE  Latch'
<1> USE DEF Latch
<1>1. CASE CjogPacket \/ CjogStopByte \/ CjogTick
  <2>1. UNCHANGED <<machine, core1>>
    BY <1>1, CjogDoes
  <2>2. ring' = ring \/ ring' = <<>> \/ ~latched
    <3>1. CASE StopJog
      BY <3>1, StopJogDoes
    <3>2. CASE \E d \in Dirs : CanStart(d) /\ CjogStart(d)
      BY <1>1, <3>2 DEF CjogPacket, CjogStopByte, CjogTick, CjogStop, StopJog, TickDeadman,
         TickHeldStart, TickLineEnds, Repeat, Replace, Begin, Refuse, AdmitStep, planner
    <3> QED BY <1>1, <3>1, <3>2, CjogDoes
  <2> QED BY <2>1, <2>2 DEF machine, core1, TypeOK
<1>2. CASE StepJog \/ Line \/ Goto \/ Home \/ JobHdr
  <2>1. ~latched /\ ~latched' /\ swept' = swept
    BY <1>2 DEF StepJog, Line, Goto, Home, JobHdr, AdmitStep, machine
  <2> QED BY <2>1
<1>3. CASE Record
  BY <1>3 DEF Record, machine
<1>4. CASE RingDrained \/ HostAbort \/ Silence
  BY <1>4 DEF RingDrained, HostAbort, Silence, planner, machine, core1
<1>5. CASE PlaceSet \/ PlaceOk \/ ToolChange \/ LayerHdr \/ AbortSettle
  BY <1>5 DEF PlaceSet, PlaceOk, ToolChange, LayerHdr, JobSwap, AbortSettle, planner, core1
<1>6. CASE Stop
  BY <1>6 DEF Stop
<1>7. CASE Unstop \/ SoftReset
  BY <1>7 DEF Unstop, SoftReset
<1>8. CASE Enter \/ Move \/ Brake \/ LeaveDrained \/ LeaveDry
  BY <1>8 DEF Enter, Move, Brake, LeaveDrained, LeaveDry, machine
<1>9. CASE LeaveFlags \/ AbortAtRest
  BY <1>9 DEF LeaveFlags, AbortAtRest, machine
<1>10. CASE Sweep
  BY <1>10 DEF Sweep
<1>11. CASE UNCHANGED vars
  BY <1>11 DEF vars, machine, planner, core1
<1> QED
  BY <1>1, <1>2, <1>3, <1>4, <1>5, <1>6, <1>7, <1>8, <1>9, <1>10, <1>11 DEF Next

----------------------------------------------------------------------------
(* The range.                                                               *)

(* What is in the ring, and where the axes stand, as InRange has them.      *)
RingInRange(r) == \A i \in 1..Len(r) : r[i].to \in Soft

LEMMA RangeIsRing == InRange <=> (homed => (\A a \in Axes : pos[a] \in Soft) /\ RingInRange(ring))
BY DEF InRange, RingInRange

LEMMA PushInRange ==
  ASSUME TypeOK, RingInRange(ring), NEW by, NEW a \in Axes, NEW to \in Soft, Push(by, a, to)
  PROVE  RingInRange(ring')
<1>1. [axis |-> a, to |-> to] \in Block
  BY RangeAssumption DEF Block, Soft, Place
<1>2. ring' = Append(ring, [axis |-> a, to |-> to])
  BY DEF Push
<1>3. /\ Len(ring') = Len(ring) + 1 /\ Len(ring) \in Nat
      /\ ring'[Len(ring) + 1].to = to /\ \A i \in 1..Len(ring) : ring'[i] = ring[i]
  BY <1>1, <1>2, RingOps DEF TypeOK
<1>4. SUFFICES ASSUME NEW i \in 1..Len(ring') PROVE ring'[i].to \in Soft
  BY DEF RingInRange
<1>5. i \in 1..Len(ring) \/ i = Len(ring) + 1
  BY <1>3
<1> QED BY <1>3, <1>5 DEF RingInRange

LEMMA RangeStep ==
  ASSUME TypeOK, InRange, [Next]_vars
  PROVE  InRange'
<1>0. SUFFICES ASSUME homed'
               PROVE  (\A a \in Axes : pos'[a] \in Soft) /\ RingInRange(ring')
  BY DEF InRange, RingInRange
<1>a. homed => (\A a \in Axes : pos[a] \in Soft) /\ RingInRange(ring)
  BY RangeIsRing
<1>e. RingInRange(<<>>)
  BY DEF RingInRange
<1>1. CASE CjogPacket \/ CjogStopByte \/ CjogTick
  <2>1. UNCHANGED <<machine, core1>>
    BY <1>1, CjogDoes
  <2>2. homed /\ pos' = pos
    BY <1>0, <2>1 DEF machine, core1
  <2>3. CASE UNCHANGED <<ring, abort, owner>>
    BY <1>a, <2>2, <2>3
  <2>4. CASE StopJog
    BY <1>a, <1>e, <2>2, <2>4, StopJogDoes
  <2>5. CASE \E d \in Dirs : CanStart(d) /\ CjogStart(d)
    <3>1. PICK d \in Dirs : CanStart(d) /\ CjogStart(d)
      BY <2>5
    <3>2. [axis |-> d.axis, to |-> LineTo(d)] \in Block /\ LineTo(d) \in Soft
      BY <2>2, <3>1, StartDoes
    <3>3. Len(ring') = 1 /\ ring'[1].to = LineTo(d)
      BY <3>1, <3>2, OneBlock DEF CjogStart
    <3> QED BY <1>a, <2>2, <3>2, <3>3 DEF RingInRange
  <2> QED BY <1>1, <2>3, <2>4, <2>5, CjogDoes
<1>2. CASE StepJog
  <2>1. PICK a \in Axes, dist \in {-1, 1} :
          /\ pos[a] + dist \in IF homed THEN Soft ELSE Place
          /\ Push("step", a, pos[a] + dist)
    BY <1>2 DEF StepJog
  <2>2. homed /\ pos' = pos
    BY <1>0, <1>2, <2>1 DEF StepJog, Push, machine, core1
  <2> QED BY <1>a, <2>1, <2>2, PushInRange
<1>3. CASE Line
  <2>1. PICK to \in IF homed THEN Soft ELSE Place : Push("step", "x", to)
    BY <1>3 DEF Line
  <2>2. homed /\ pos' = pos
    BY <1>0, <1>3, <2>1 DEF Line, Push, machine, core1
  <2> QED BY <1>a, <2>1, <2>2, PushInRange DEF Axes
<1>4. CASE Goto
  <2>1. PICK to \in Soft : Push("seq", "x", to)
    BY <1>4 DEF Goto
  <2>2. homed /\ pos' = pos
    BY <1>4, <2>1 DEF Goto, Push, core1
  <2> QED BY <1>a, <2>1, <2>2, PushInRange DEF Axes
<1>5. CASE Record
  <2>1. Push("job", "x", pos["x"]) /\ homed /\ pos' = pos
    BY <1>0, <1>5 DEF Record, Push, machine, core1
  <2> QED BY <1>a, <2>1, PushInRange DEF Axes
<1>6. CASE Home
  <2>1. ring = <<>> /\ ring' = ring /\ pos' = Home0
    BY <1>6 DEF Home, AdmitStep, Busy, Empty, planner
  <2> QED BY <1>e, <2>1, RangeAssumption DEF Home0, Soft
<1>7. CASE Move
  <2>1. PICK b \in {Head(ring)} :
          \/ /\ pos[b.axis] # b.to
             /\ pos' = [pos EXCEPT ![b.axis] = @ + IF b.to > @ THEN 1 ELSE -1]
             /\ UNCHANGED ring
          \/ pos[b.axis] = b.to /\ ring' = Tail(ring) /\ UNCHANGED pos
    BY <1>7 DEF Move
  <2>2. homed /\ ring # <<>>
    BY <1>0, <1>7 DEF Move, machine
  <2>3. /\ b = ring[1] /\ b \in Block /\ Len(ring) \in Nat /\ Len(ring) > 0
        /\ Len(Tail(ring)) = Len(ring) - 1
        /\ \A i \in 1..Len(Tail(ring)) : Tail(ring)[i] = ring[i + 1]
    BY <2>1, <2>2, RingOps DEF TypeOK
  <2>4. b.to \in Soft /\ pos[b.axis] \in Soft /\ b.axis \in Axes
    BY <1>a, <2>2, <2>3 DEF RingInRange, Block
  <2>5. CASE /\ pos[b.axis] # b.to
             /\ pos' = [pos EXCEPT ![b.axis] = @ + IF b.to > @ THEN 1 ELSE -1]
             /\ UNCHANGED ring
    <3>1. pos'[b.axis] \in Soft
      BY <2>4, <2>5, RangeAssumption DEF TypeOK, Soft
    <3>2. \A a \in Axes \ {b.axis} : pos'[a] = pos[a]
      BY <2>5 DEF TypeOK
    <3> QED BY <1>a, <2>2, <2>5, <3>1, <3>2
  <2>6. CASE pos[b.axis] = b.to /\ ring' = Tail(ring) /\ UNCHANGED pos
    <3>1. ASSUME NEW i \in 1..Len(Tail(ring)) PROVE Tail(ring)[i].to \in Soft
      <4>1. i + 1 \in 1..Len(ring)
        BY <2>3
      <4> QED BY <1>a, <2>2, <2>3, <4>1 DEF RingInRange
    <3> QED BY <1>a, <2>2, <2>6, <3>1 DEF RingInRange
  <2> QED BY <2>1, <2>5, <2>6
<1>8. CASE RingDrained \/ JobHdr \/ PlaceSet \/ PlaceOk \/ ToolChange \/ LayerHdr \/ HostAbort
           \/ AbortSettle \/ Stop \/ Unstop \/ Enter \/ LeaveDrained \/ LeaveFlags \/ LeaveDry \/ Silence
           \/ UNCHANGED vars
  <2>1. ring' = ring /\ pos' = pos /\ (homed' => homed)
    BY <1>8 DEF RingDrained, JobHdr, PlaceSet, PlaceOk, ToolChange, LayerHdr, JobSwap, HostAbort,
       AbortSettle, Stop, Unstop, Enter, LeaveDrained, LeaveFlags, LeaveDry, Silence, vars,
       machine, planner, core1
  <2> QED BY <1>0, <1>a, <2>1
<1>9. CASE SoftReset \/ Brake \/ AbortAtRest \/ Sweep
  <2>1. ring' = <<>> /\ pos' = pos /\ homed
    BY <1>0, <1>9 DEF SoftReset, Brake, AbortAtRest, Sweep, machine, core1
  <2> QED BY <1>a, <1>e, <2>1
<1> QED
  BY <1>1, <1>2, <1>3, <1>4, <1>5, <1>6, <1>7, <1>8, <1>9 DEF Next

----------------------------------------------------------------------------
(* The watch.                                                               *)

(* A line started on an empty ring is watched from the start.               *)
LEMMA StartIsWatched ==
  ASSUME TypeOK, NEW d \in Dirs, CanStart(d), CjogStart(d), asked' = d, pos' = pos
  PROVE  Watched'
<1>1. [axis |-> d.axis, to |-> LineTo(d)] \in Block /\ d.sign * (LineTo(d) - pos[d.axis]) >= 0
  BY StartDoes
<1>2. ring' = <<[axis |-> d.axis, to |-> LineTo(d)]>> /\ held' = TRUE /\ on' = TRUE /\ dir' = d
  BY DEF CjogStart
<1>3. Head(ring') = [axis |-> d.axis, to |-> LineTo(d)]
  BY <1>1, <1>2, OneBlock
<1> QED BY <1>1, <1>2, <1>3 DEF Watched

(* A ring that the jog's own stop leaves is one Core 1 brakes.              *)
LEMMA StoppedIsKept ==
  ASSUME TypeOK, StopJog, UNCHANGED <<owner, active, latched>>
  PROVE  LineKept'
BY StopJogDoes DEF LineKept

(* A line nobody watches any more was never one that ran freely: whatever   *)
(* leaves the statics behind has stopped the ring, or found it empty.       *)
LEMMA LineStep ==
  ASSUME TypeOK, Latch, WantKept, LineKept, [Next]_vars
  PROVE  LineKept'
<1>1. CASE CjogPacket
  <2>1. /\ UNCHANGED <<pos, active, latched>>
    BY <1>1 DEF CjogPacket, machine, core1
  <2>2. PICK d \in Dirs :
          \/ asked' = d /\ (Repeat(d) \/ Replace(d) \/ Begin(d))
          \/ Refuse(d) /\ UNCHANGED asked
    BY <1>1 DEF CjogPacket
  <2>3. CASE Repeat(d) /\ asked' = d
    BY <2>1, <2>3 DEF Repeat, LineKept, Watched, planner, cjog
  <2>4. CASE Replace(d)
    <3>1. CASE on \/ owner = "step"
      <4>1. StopJog /\ owner' = owner
        BY <2>4, <3>1 DEF Replace
      <4> QED BY <2>1, <4>1, StoppedIsKept
    <3>2. CASE ~on /\ owner # "step"
      <4>1. UNCHANGED <<ring, abort, owner>> /\ ~Watched
        BY <2>4, <3>2 DEF Replace, Watched
      <4> QED BY <2>1, <4>1 DEF LineKept
    <3> QED BY <3>1, <3>2
  <2>5. CASE Begin(d) /\ asked' = d
    <3>1. CanStart(d) /\ CjogStart(d)
      BY <2>5 DEF Begin
    <3> QED BY <2>1, <2>5, <3>1, StartIsWatched DEF LineKept
  <2>6. CASE Refuse(d) /\ UNCHANGED asked
    BY <2>1, <2>6 DEF Refuse, LineKept, Watched, planner, cjog
  <2> QED BY <2>2, <2>3, <2>4, <2>5, <2>6
<1>2. CASE CjogStopByte
  <2>1. UNCHANGED <<pos, active, latched, owner>>
    BY <1>2 DEF CjogStopByte, CjogStop, machine, core1
  <2>2. CASE on
    BY <1>2, <2>1, <2>2, StoppedIsKept DEF CjogStopByte, CjogStop
  <2>3. CASE ~on
    BY <1>2, <2>1, <2>3 DEF CjogStopByte, CjogStop, LineKept, Watched
  <2> QED BY <2>2, <2>3
<1>3. CASE CjogTick
  <2>1. UNCHANGED <<pos, active, latched, asked>>
    BY <1>3 DEF CjogTick, machine, core1, host
  <2>2. CASE TickDeadman
    <3>1. owner' = owner
      BY <2>2 DEF TickDeadman, CjogStop
    <3>2. CASE on /\ ~Empty
      BY <2>1, <2>2, <3>1, <3>2, StoppedIsKept DEF TickDeadman, CjogStop
    <3>3. CASE ~(on /\ ~Empty)
      BY <2>1, <2>2, <3>1, <3>3 DEF TickDeadman, CjogStop, LineKept, Watched, Empty
    <3> QED BY <3>2, <3>3
  <2>3. CASE TickHeldStart
    <3>1. want \in Dirs /\ ~held
      BY <2>3 DEF TickHeldStart, TypeOK, WantKept
    <3>2. CASE CanStart(want) /\ CjogStart(want)
      BY <2>1, <2>3, <3>1, <3>2, StartIsWatched DEF TickHeldStart, WantKept, LineKept
    <3>3. CASE UNCHANGED planner
      BY <2>1, <3>1, <3>3 DEF LineKept, Watched, planner
    <3> QED BY <2>3, <3>2, <3>3 DEF TickHeldStart, planner
  <2>4. CASE TickLineEnds
    BY <2>1, <2>4 DEF TickLineEnds, LineKept, Empty, planner
  <2> QED BY <1>3, <2>2, <2>3, <2>4 DEF CjogTick
<1>4. CASE StepJog \/ Line \/ Goto \/ Record
  <2>1. owner' # "cont"
    BY <1>4 DEF StepJog, Line, Goto, Record, Push
  <2> QED BY <2>1 DEF LineKept
<1>5. CASE PlaceOk \/ ToolChange \/ LayerHdr \/ SoftReset \/ Brake \/ AbortAtRest \/ Sweep
  <2>1. owner' = "job" \/ ring' = <<>>
    BY <1>5 DEF PlaceOk, ToolChange, LayerHdr, JobSwap, SoftReset, Brake, AbortAtRest, Sweep
  <2> QED BY <2>1 DEF LineKept
<1>6. CASE Home
  <2>1. ring = <<>> /\ ring' = ring
    BY <1>6 DEF Home, AdmitStep, Busy, Empty, planner
  <2> QED BY <2>1 DEF LineKept
<1>7. CASE RingDrained \/ JobHdr \/ PlaceSet \/ AbortSettle \/ Silence \/ UNCHANGED vars
  <2>1. UNCHANGED <<owner, ring, abort, active, latched, pos, cjog, asked>>
    BY <1>7 DEF RingDrained, JobHdr, PlaceSet, AbortSettle, Silence, vars, machine, planner, core1, host
  <2> QED BY <2>1 DEF LineKept, Watched, cjog
<1>8. CASE HostAbort
  <2>1. abort' = TRUE /\ UNCHANGED <<owner, ring, active, latched, pos, cjog, asked>>
    BY <1>8 DEF HostAbort, core1, host
  <2> QED BY <2>1 DEF LineKept, Watched, cjog
<1>9. CASE Stop
  BY <1>9 DEF Stop, LineKept
<1>10. CASE Unstop
  BY <1>10 DEF Unstop, Latch, LineKept, planner
<1>11. CASE Enter
  <2>1. active' = TRUE /\ ~active /\ UNCHANGED <<owner, ring, abort, latched, pos, cjog, asked>>
    BY <1>11 DEF Enter, planner, host
  <2> QED BY <2>1 DEF LineKept, Watched, cjog
<1>12. CASE LeaveDrained \/ LeaveDry
  BY <1>12 DEF LeaveDrained, LeaveDry, LineKept, planner
<1>13. CASE LeaveFlags
  <2>1. leaving /\ UNCHANGED <<owner, ring, active, latched, pos, cjog, asked>>
    BY <1>13 DEF LeaveFlags, machine, host
  <2>2. ~active
    BY <2>1 DEF TypeOK
  <2> QED BY <2>1, <2>2 DEF LineKept, Watched, cjog
<1>14. CASE Move
  <2>1. PICK b \in {Head(ring)} :
          \/ /\ pos[b.axis] # b.to
             /\ pos' = [pos EXCEPT ![b.axis] = @ + IF b.to > @ THEN 1 ELSE -1]
             /\ UNCHANGED ring
          \/ pos[b.axis] = b.to /\ ring' = Tail(ring) /\ UNCHANGED pos
    BY <1>14 DEF Move
  <2>2. ring # <<>> /\ UNCHANGED <<owner, abort, active, latched, cjog, asked>>
    BY <1>14 DEF Move, machine, host
  <2>3. b = Head(ring) /\ b \in Block /\ Len(ring) \in Nat
    BY <2>1, <2>2, RingOps DEF TypeOK
  <2>4. SUFFICES ASSUME owner = "cont", ring' # <<>>, ~((abort /\ active) \/ latched)
                 PROVE  Watched'
    BY <2>2 DEF LineKept
  <2>5. Watched
    BY <2>2, <2>4 DEF LineKept
  <2>6. Len(ring) <= 1
    BY <2>3, <2>4 DEF TypeOK
  <2>7. CASE ring' = Tail(ring)
    <3>1. Tail(ring) \in Seq(Block) /\ Len(Tail(ring)) = Len(ring) - 1 /\ Len(ring) > 0
      BY <2>2, <2>3, RingOps DEF TypeOK
    <3>2. ring' = <<>>
      BY <2>3, <2>6, <2>7, <3>1, RingOps
    <3> QED BY <2>4, <3>2
  <2>8. CASE /\ pos[b.axis] # b.to
             /\ pos' = [pos EXCEPT ![b.axis] = @ + IF b.to > @ THEN 1 ELSE -1]
             /\ UNCHANGED ring
    <3>1. dir \in Dirs /\ dir.axis = b.axis /\ dir.sign \in {-1, 1}
          /\ dir.sign * (b.to - pos[b.axis]) >= 0
      BY <2>3, <2>5 DEF Watched, Dirs
    <3>2. b.axis \in Axes /\ b.to \in Int /\ pos[b.axis] \in Int
      BY <2>3, <3>1 DEF Block, Place, TypeOK
    <3>3. pos'[b.axis] = pos[b.axis] + IF b.to > pos[b.axis] THEN 1 ELSE -1
      BY <2>8, <3>2 DEF TypeOK
    <3>4. dir.sign * (b.to - pos'[b.axis]) >= 0
      <4>1. CASE dir.sign = 1
        BY <2>8, <3>1, <3>2, <3>3, <4>1
      <4>2. CASE dir.sign = -1
        BY <2>8, <3>1, <3>2, <3>3, <4>2
      <4> QED BY <3>1, <4>1, <4>2
    <3> QED BY <2>2, <2>3, <2>5, <2>8, <3>1, <3>4 DEF Watched, cjog
  <2> QED BY <2>1, <2>7, <2>8
<1> QED
  BY <1>1, <1>2, <1>3, <1>4, <1>5, <1>6, <1>7, <1>8, <1>9, <1>10, <1>11, <1>12, <1>13, <1>14
     DEF Next

----------------------------------------------------------------------------
(* The theorems.                                                            *)

JogInv == TypeOK /\ Latch /\ WantKept /\ LineKept /\ InRange

LEMMA WantStep ==
  ASSUME TypeOK, WantKept, [Next]_vars
  PROVE  WantKept'
<1>1. CASE CjogPacket \/ CjogStopByte \/ CjogTick
  BY <1>1, StaticsStep
<1>2. CASE Others
  BY <1>2, OthersKeep DEF WantKept, cjog, host
<1>3. CASE Silence \/ UNCHANGED vars
  BY <1>3 DEF Silence, WantKept, vars, cjog, host
<1> QED BY <1>1, <1>2, <1>3 DEF Next, Others

LEMMA JogInit ==
  ASSUME Init
  PROVE  JogInv
<1>1. TypeOK
  <2>1. pos \in [Axes -> Place]
    BY RangeAssumption DEF Init, Place
  <2>2. ring \in Seq(Block) /\ Len(ring) = 0
    BY DEF Init
  <2>3. /\ dot \in BOOLEAN /\ ended \in BOOLEAN /\ seq \in BOOLEAN
        /\ latched \in BOOLEAN /\ swept \in BOOLEAN /\ homed \in BOOLEAN
        /\ active \in BOOLEAN /\ abort \in BOOLEAN /\ leaving \in BOOLEAN /\ drained \in BOOLEAN
        /\ held \in BOOLEAN /\ on \in BOOLEAN /\ silent \in BOOLEAN
        /\ ~active
    BY DEF Init
  <2>4. ctx = "none" /\ owner = "job" /\ dir = None /\ want = None /\ asked = None
    BY DEF Init
  <2> QED BY <2>1, <2>2, <2>3, <2>4, RangeAssumption DEF TypeOK, Owners
<1>2. Latch /\ WantKept /\ LineKept /\ InRange
  BY DEF Init, Latch, WantKept, LineKept, InRange
<1> QED BY <1>1, <1>2 DEF JogInv

LEMMA JogInvariant == Spec => []JogInv
<1>1. Init => JogInv
  BY JogInit
<1>2. JogInv /\ [Next]_vars => JogInv'
  BY TypeStep, LatchStep, WantStep, LineStep, RangeStep DEF JogInv
<1> QED BY <1>1, <1>2, PTL DEF Spec

(* Every variable keeps its type, and only a job's ring holds more than one *)
(* block.                                                                   *)
THEOREM JogType == Spec => []TypeOK
<1>1. JogInv => TypeOK
  BY DEF JogInv
<1> QED BY <1>1, JogInvariant, PTL

(* However packets, stop bytes, silences, aborts, estops and resets fall: the *)
(* line of a continuous jog is the way the host last asked, watched by the  *)
(* deadman and the stop byte, or it is being stopped (cjog.cpp).            *)
THEOREM NoLineUnwatched == Spec => []LineIsWatched
<1>1. JogInv => LineIsWatched
  BY DEF JogInv, LineKept, Watched, LineIsWatched
<1> QED BY <1>1, JogInvariant, PTL

(* No jog, line or goto of a homed machine leaves the soft range            *)
(* (cjogStart, framesCheckMove).                                            *)
THEOREM JogsStayInRange == Spec => []InRange
<1>1. JogInv => InRange
  BY DEF JogInv
<1> QED BY <1>1, JogInvariant, PTL

============================================================================
