------------------------------ MODULE SlotMap -------------------------------
(***************************************************************************)
(* Who listens on each stream slot, and where it is: the slot table with   *)
(* its fences, the axes request and the node-frame positions               *)
(* (core0/ops/position.cpp), the applies that settle them                  *)
(* (core0/ops/slot_map.cpp, core0/ops/axes_map.cpp), the boot sweep        *)
(* (core0/ops/bus.cpp) and the commands that reach them (core0/cmd/axis,   *)
(* lifecycle, periph).                                                     *)
(*                                                                         *)
(* A handler on Core 0 blocks on one bus transaction at a time; each is an *)
(* action here, so a node may reset between two of them. A transaction is  *)
(* answered, obeyed with its reply lost, or not heard. Positions and       *)
(* counters are integers modulo Span, the code's int32.                    *)
(***************************************************************************)
EXTENDS Integers, FiniteSets

CONSTANTS Nodes,        \* bus ids
          Steppers,     \* the nodes that count steps
          Slotless,     \* node types that take no slot and refuse an engage
          NumSlots,     \* MOTION_SLOTS
          Default,      \* the map the config names for the default head
          Span,         \* counters wrap at Span (2^32 in the code)
          None,         \* SLOT_NONE
          MaxCommands,  \* bound: commands the operator gives
          MaxUpsets     \* bound: node resets and shafts turned by hand

Slots == 0..(NumSlots - 1)
Pos   == 0..(Span - 1)
Maps  == {m \in [Slots -> Nodes \cup {None}] :
            \A s, t \in Slots : s # t /\ m[s] = m[t] => m[s] = None}
NoMap == [s \in Slots |-> None]

ASSUME SlotAssumption ==
  /\ Steppers \subseteq Nodes /\ Slotless \subseteq Nodes \ Steppers /\ None \notin Nodes \cup Pos \cup Slots
  /\ NumSlots \in Nat \ {0} /\ Span \in Nat \ {0}
  /\ Default \in Maps
  /\ MaxCommands \in Nat /\ MaxUpsets \in Nat

VARIABLES
  slotNode, slotFenced,      \* the slot table
  axesReq, axesPending,      \* the axes request
  slotReq, haveSlotReq, fromAxes,
  machinePos, axes_homed,    \* per-slot views
  nodeOrigin,                \* nodeOrigin with nodeHomed: a counter, or None
  parkPos,                   \* parkPos with parkSeen
  probeZ,                    \* probeZ with nodeProbed: the origin it was measured against
  latched, swept, sweepFact, \* the estop latch, Core 1's sweep, its fact in the ring
  mute, excluded,            \* s_mute, s_excluded
  nodeEnabled,               \* Core 1's mask
  op,                        \* the handler in progress
  nSlot, nPos, nDatum, nEnabled,   \* each node's slot, counter, DATUM and ENABLED
  truth,                     \* each stepper's shaft, in machine steps
  lost,                      \* history: reset since its last engage was answered
  floating,                  \* history: datumed with its motor off
  commands, upsets           \* the bounded counts

tableVars == <<slotNode, slotFenced>>
reqVars   == <<axesReq, axesPending>>
askVars   == <<slotReq, haveSlotReq, fromAxes>>
viewVars  == <<machinePos, axes_homed>>
datumVars == <<nodeOrigin, parkPos, probeZ>>
stopVars  == <<latched, swept, sweepFact>>
busVars   == <<mute, excluded>>
nodeVars  == <<nSlot, nPos, nDatum, nEnabled, truth, lost, floating>>
core0Vars == <<tableVars, reqVars, askVars, viewVars, datumVars>>
vars == <<core0Vars, stopVars, busVars, nodeEnabled, op, nodeVars, commands, upsets>>

Plus(a, b)  == (a + b) % Span
Minus(a, b) == (a - b) % Span

Idle == [phase |-> "idle"]

-----------------------------------------------------------------------------
(* The axis views, as functions of a table and a request *)

\* axisNode: the node bound as axis k
AxisNodeOf(k, table, fenced, req, pending) ==
  IF k \in pending \cup fenced \/ table[k] # req[k] THEN None ELSE table[k]

axisNode(k) == AxisNodeOf(k, slotNode, slotFenced, axesReq, axesPending)

\* nodeAxis
AxesOf(n) == {k \in Slots : axisNode(k) = n}

\* nodeMachineSteps: a position, or None
nodeMachineSteps(n) ==
  IF nodeOrigin[n] = None THEN None
  ELSE IF AxesOf(n) # {} THEN machinePos[CHOOSE k \in AxesOf(n) : TRUE]
  ELSE IF parkPos[n] = None THEN None
  ELSE Minus(parkPos[n], nodeOrigin[n])

\* slotMapComplete
slotMapComplete ==
  haveSlotReq => \A s \in Slots : IF s \in slotFenced THEN slotReq[s] = None
                                  ELSE slotNode[s] = slotReq[s]

busTouched  == (nodeEnabled \cup {slotNode[s] : s \in Slots}) \ {None}
configNodes == Nodes   \* the config names every node of this bus
busDegraded == mute \ excluded # {}

\* axesReqSet, with its axisViewsDrop
AxesReqSet(ids, pending) ==
  /\ axesReq' = ids
  /\ axesPending' = pending
  /\ LET gone == {k \in Slots : AxisNodeOf(k, slotNode, slotFenced, ids, pending) = None}
     IN /\ machinePos' = [k \in Slots |-> IF k \in gone THEN 0 ELSE machinePos[k]]
        /\ axes_homed' = axes_homed \ gone

-----------------------------------------------------------------------------
(* Forgetting and recording a position *)

Without(f, ns) == [n \in DOMAIN f |-> IF n \in ns THEN None ELSE f[n]]

\* A slip: the parked counter and the probe outlive the origin.
OriginInvalidateKeepsProbe(ns) ==
  /\ nodeOrigin' = Without(nodeOrigin, ns)
  /\ UNCHANGED <<parkPos, probeZ>>
  /\ axes_homed' = axes_homed \ UNION {AxesOf(n) : n \in ns}
  /\ UNCHANGED machinePos

\* originInvalidate, originInvalidateAll
OriginInvalidate(ns) ==
  /\ nodeOrigin' = Without(nodeOrigin, ns)
  /\ parkPos' = Without(parkPos, ns)
  /\ probeZ' = Without(probeZ, ns)
  /\ axes_homed' = axes_homed \ UNION {AxesOf(n) : n \in ns}
  /\ UNCHANGED machinePos

\* originRecord: node n's counter reads `at` where the machine is at `steps`
OriginRecord(n, at, steps) ==
  /\ nodeOrigin' = [nodeOrigin EXCEPT ![n] = Minus(at, steps)]
  /\ probeZ' = Without(probeZ, {n})
  /\ parkPos' = IF AxesOf(n) = {} THEN [parkPos EXCEPT ![n] = at] ELSE parkPos
  /\ machinePos' = [k \in Slots |-> IF k \in AxesOf(n) THEN steps ELSE machinePos[k]]
  /\ axes_homed' = axes_homed \cup AxesOf(n)

\* originAdopt: a homed node moved by itself, its witness intact
OriginAdopt(n, at) ==
  /\ parkPos' = IF AxesOf(n) = {} THEN [parkPos EXCEPT ![n] = at] ELSE parkPos
  /\ machinePos' = [k \in Slots |-> IF k \in AxesOf(n) THEN Minus(at, nodeOrigin[n])
                                    ELSE machinePos[k]]
  /\ UNCHANGED <<nodeOrigin, probeZ, axes_homed>>

\* slotUnbind, on the slots ss
SlotUnbind(ss) ==
  /\ slotNode' = [s \in Slots |-> IF s \in ss THEN None ELSE slotNode[s]]
  /\ slotFenced' = slotFenced \ ss
  /\ machinePos' = [s \in Slots |-> IF s \in ss THEN 0 ELSE machinePos[s]]
  /\ axes_homed' = axes_homed \ ss

\* slotFence on the slots ss, node n; the node's origin goes with it
SlotFence(ss, n) ==
  /\ slotNode' = [s \in Slots |-> IF s \in ss THEN n ELSE slotNode[s]]
  /\ slotFenced' = slotFenced \cup ss
  /\ machinePos' = [s \in Slots |-> IF s \in ss THEN 0 ELSE machinePos[s]]
  /\ axes_homed' = axes_homed \ (ss \cup AxesOf(n))
  /\ nodeOrigin' = Without(nodeOrigin, {n})
  /\ parkPos' = Without(parkPos, {n})
  /\ probeZ' = Without(probeZ, {n})

Holds(n) == {s \in Slots : slotNode[s] = n}

\* slotBind and slotAdoptStatus, from an engage ack: node n in slot s, its
\* counter and its DATUM. Any other slot it was fenced in is free
\* (slot_map.cpp), and a counter that moved while parked loses the origin.
SlotBind(s, n) ==
  LET others == Holds(n) \ {s}
      table  == [t \in Slots |-> IF t = s THEN n ELSE IF t \in others THEN None ELSE slotNode[t]]
      fenced == slotFenced \ others
      moved  == n \in Steppers /\ parkPos[n] # None /\ parkPos[n] # nPos[n]
      void   == moved \/ n \notin nDatum
      axis   == AxisNodeOf(s, table, fenced, axesReq, axesPending) = n
      homed  == axis /\ n \in Steppers /\ ~void /\ nodeOrigin[n] # None
  IN /\ slotNode' = table
     /\ slotFenced' = fenced
     /\ nodeOrigin' = IF void THEN Without(nodeOrigin, {n}) ELSE nodeOrigin
     /\ parkPos'    = IF void THEN Without(parkPos, {n}) ELSE parkPos
     /\ probeZ'     = IF void THEN Without(probeZ, {n}) ELSE probeZ
     /\ machinePos' = [t \in Slots |-> IF t = s THEN IF homed THEN Minus(nPos[n], nodeOrigin[n]) ELSE 0
                                       ELSE IF t \in others THEN 0 ELSE machinePos[t]]
     /\ axes_homed' = (axes_homed \ ({s} \cup others)) \cup (IF homed THEN {s} ELSE {})

-----------------------------------------------------------------------------
(* One bus transaction: what the node does, and what Core 1 notes *)

\* ok: obeyed and answered; silent: obeyed, the reply lost; deaf: not heard;
\* nak: refused. A call to an excluded node is never sent, make-safe exempt
\* (core1_rpc.cpp).
Outcomes(cmd, n) ==
  IF n \in excluded /\ cmd # "MAKE_SAFE" THEN {"deaf"}
  ELSE IF cmd = "ENGAGE" /\ n \in Slotless THEN {"nak", "deaf"}
  ELSE IF cmd = "NODE_STATUS" THEN {"ok", "deaf"}
  ELSE {"ok", "silent", "deaf"}

Heard(o) == o \in {"ok", "silent"}

\* noteEnabled: a confirmed reply carries the node's own ENABLED
Noted(n, o) == nodeEnabled' = IF o # "ok" THEN nodeEnabled
                              ELSE IF n \in nEnabled' THEN nodeEnabled \cup {n}
                              ELSE nodeEnabled \ {n}

AskEngage(n, s, o) ==
  /\ o \in Outcomes("ENGAGE", n)
  /\ nSlot' = IF Heard(o) THEN [nSlot EXCEPT ![n] = s] ELSE nSlot
  /\ lost' = IF o = "ok" THEN lost \ {n} ELSE lost
  /\ UNCHANGED <<nPos, nDatum, nEnabled, truth, floating>>
  /\ Noted(n, o)

AskMakeSafe(n, o) ==
  /\ o \in Outcomes("MAKE_SAFE", n)
  /\ nSlot' = IF Heard(o) THEN [nSlot EXCEPT ![n] = None] ELSE nSlot
  /\ nDatum' = IF Heard(o) THEN nDatum \ {n} ELSE nDatum
  /\ nEnabled' = IF Heard(o) THEN nEnabled \ {n} ELSE nEnabled
  /\ UNCHANGED <<nPos, truth, lost, floating>>
  /\ Noted(n, o)

AskStatus(n, o) ==
  /\ o \in Outcomes("NODE_STATUS", n)
  /\ UNCHANGED nodeVars
  /\ Noted(n, o)

\* A slip: an unconfirmed node's slot is freed.
SlotMakeSafeTrusting(n, o) ==
  /\ AskMakeSafe(n, o)
  /\ SlotUnbind(Holds(n))
  /\ UNCHANGED datumVars

\* slotMakeSafe: the slots the node holds are unbound, or fenced
SlotMakeSafe(n, o) ==
  /\ AskMakeSafe(n, o)
  /\ IF o = "ok" THEN SlotUnbind(Holds(n)) /\ UNCHANGED datumVars
     ELSE IF Holds(n) = {} THEN UNCHANGED <<tableVars, viewVars, datumVars>>
     ELSE SlotFence(Holds(n), n)

-----------------------------------------------------------------------------
(* applySlots: make-safe what the request collides with, park every holder, *)
(* engage. Each step takes the first slot the phase still has to look at.   *)

Later(ss, at) == {s \in ss : s >= at}
First(ss) == CHOOSE s \in ss : \A t \in ss : s <= t

Apply(skip) == [phase |-> "safe", at |-> 0, skip |-> skip]
Next1(s)    == [op EXCEPT !.at = s + 1]
Phase(p)    == [op EXCEPT !.phase = p, !.at = 0]

Wanted == {s \in Slots : slotReq[s] # None /\ s \notin op.skip}

ApplySafe ==
  /\ op.phase = "safe"
  /\ LET todo == Later(Wanted \cap slotFenced, op.at)
     IN IF todo = {} THEN op' = Phase("park") /\ UNCHANGED <<tableVars, viewVars, datumVars, nodeVars, nodeEnabled>>
        ELSE LET s == First(todo)
             IN \E o \in Outcomes("MAKE_SAFE", slotNode[s]) : SlotMakeSafe(slotNode[s], o) /\ op' = Next1(s)
  /\ UNCHANGED <<reqVars, askVars, stopVars, busVars>>

\* A slip: a holder that does not confirm its park is taken to have parked.
ApplyParkTrusting ==
  /\ op.phase = "park"
  /\ LET todo == Later({s \in Slots \ slotFenced : slotNode[s] # None}, op.at)
     IN IF todo = {} THEN op' = Phase("engage") /\ UNCHANGED <<tableVars, viewVars, datumVars, nodeVars, nodeEnabled>>
        ELSE LET s == First(todo)
                 n == slotNode[s]
             IN \E o \in Outcomes("ENGAGE", n) :
                  /\ AskEngage(n, None, o)
                  /\ op' = Next1(s)
                  /\ SlotUnbind({s})
                  /\ parkPos' = IF n \in Steppers THEN [parkPos EXCEPT ![n] = nPos[n]] ELSE parkPos
                  /\ UNCHANGED <<nodeOrigin, probeZ>>
  /\ UNCHANGED <<reqVars, askVars, stopVars, busVars>>

ApplyPark ==
  /\ op.phase = "park"
  /\ LET todo == Later({s \in Slots \ slotFenced : slotNode[s] # None}, op.at)
     IN IF todo = {} THEN op' = Phase("engage") /\ UNCHANGED <<tableVars, viewVars, datumVars, nodeVars, nodeEnabled>>
        ELSE LET s == First(todo)
                 n == slotNode[s]
             IN \E o \in Outcomes("ENGAGE", n) :
                  /\ AskEngage(n, None, o)
                  /\ op' = Next1(s)
                  /\ IF o # "ok" THEN SlotFence({s}, n)
                     ELSE /\ SlotUnbind({s})
                          /\ parkPos' = IF n \in Steppers THEN [parkPos EXCEPT ![n] = nPos[n]] ELSE parkPos
                          /\ UNCHANGED <<nodeOrigin, probeZ>>
  /\ UNCHANGED <<reqVars, askVars, stopVars, busVars>>

\* A slip: a node that did not answer its engage leaves no fence.
ApplyEngageUnfenced ==
  /\ op.phase = "engage"
  /\ LET todo == Later(Wanted \ slotFenced, op.at)
     IN IF todo = {} THEN op' = Idle /\ UNCHANGED <<tableVars, viewVars, datumVars, nodeVars, nodeEnabled>>
        ELSE LET s == First(todo)
                 n == slotReq[s]
             IN \E o \in Outcomes("ENGAGE", n) :
                  /\ AskEngage(n, s, o)
                  /\ IF o = "ok" THEN SlotBind(s, n) /\ op' = Next1(s)
                     ELSE op' = Idle /\ UNCHANGED <<tableVars, viewVars, datumVars>>
  /\ UNCHANGED <<reqVars, askVars, stopVars, busVars>>

\* The first that does not engage ends the apply; a NAK is a confirmed refusal,
\* anything else may have engaged.
ApplyEngage ==
  /\ op.phase = "engage"
  /\ LET todo == Later(Wanted \ slotFenced, op.at)
     IN IF todo = {} THEN op' = Idle /\ UNCHANGED <<tableVars, viewVars, datumVars, nodeVars, nodeEnabled>>
        ELSE LET s == First(todo)
                 n == slotReq[s]
             IN \E o \in Outcomes("ENGAGE", n) :
                  /\ AskEngage(n, s, o)
                  /\ CASE o = "ok"  -> SlotBind(s, n) /\ op' = Next1(s)
                       [] o = "nak" -> op' = Idle /\ UNCHANGED <<tableVars, viewVars, datumVars>>
                       [] OTHER     -> op' = Idle /\ SlotFence({s}, n)
  /\ UNCHANGED <<reqVars, askVars, stopVars, busVars>>

-----------------------------------------------------------------------------
(* The axes request: checkPending, then axesCommit *)

NoOld == [ids |-> NoMap, pending |-> {}]

Check(old, keep) == [phase |-> "check", at |-> 0, skip |-> {}, old |-> old,
                     keep |-> keep, wrong |-> FALSE]

\* A fenced node's make-safe reply is its type check; any other node is asked
\* for its status. Pending clears for a confirmed stepper.
CheckPending ==
  /\ op.phase = "check" /\ Later(axesPending, op.at) # {}
  /\ LET k == First(Later(axesPending, op.at))
         n == axesReq[k]
     IN \E o \in Outcomes(IF Holds(n) \cap slotFenced # {} THEN "MAKE_SAFE" ELSE "NODE_STATUS", n) :
          /\ IF Holds(n) \cap slotFenced # {} THEN SlotMakeSafe(n, o)
             ELSE AskStatus(n, o) /\ UNCHANGED <<tableVars, viewVars, datumVars>>
          /\ axesPending' = IF o = "ok" /\ n \in Steppers THEN axesPending \ {k} ELSE axesPending
          /\ op' = [op EXCEPT !.at = k + 1, !.wrong = @ \/ (o = "ok" /\ n \notin Steppers)]
  /\ UNCHANGED <<axesReq, askVars, stopVars, busVars>>

\* axesMapApply's refusal: a wrong type puts the old request back
AxesRefused ==
  /\ op.phase = "check" /\ Later(axesPending, op.at) = {}
  /\ op.wrong /\ ~op.keep
  /\ AxesReqSet(op.old.ids, op.old.pending)
  /\ op' = Idle
  /\ UNCHANGED <<tableVars, askVars, datumVars, stopVars, busVars, nodeVars, nodeEnabled>>

\* axesCommit and slotMapCommit: the pending axes' slots are parked, not engaged
AxesCommit ==
  /\ op.phase = "check" /\ Later(axesPending, op.at) = {}
  /\ op.wrong => op.keep
  /\ slotReq' = axesReq /\ haveSlotReq' = TRUE /\ fromAxes' = TRUE
  /\ op' = Apply(axesPending)
  /\ UNCHANGED <<tableVars, reqVars, viewVars, datumVars, stopVars, busVars, nodeVars, nodeEnabled>>

Named(m) == {k \in Slots : m[k] # None}

\* axesMapApply
AxesMapApply(m, keep) ==
  /\ AxesReqSet(m, Named(m))
  /\ op' = Check([ids |-> axesReq, pending |-> axesPending], keep)

-----------------------------------------------------------------------------
(* Commands *)

Ready == op = Idle

\* machineAdmit(K_WRITE): also in ALARM, but not before the sweep is done
AdmitWrite == Ready /\ ~(latched /\ ~swept)

cmdSlotMap ==
  /\ AdmitWrite /\ ~busDegraded
  /\ \E m \in Maps : slotReq' = m
  /\ haveSlotReq' = TRUE /\ fromAxes' = FALSE
  /\ op' = Apply({})
  /\ UNCHANGED <<tableVars, reqVars, viewVars, datumVars, stopVars, busVars, nodeVars, nodeEnabled>>

\* axes_map and select: any map of axis nodes the config marks present
cmdAxesMap ==
  /\ AdmitWrite /\ ~busDegraded
  /\ \E m \in Maps : AxesMapApply(m, FALSE)
  /\ UNCHANGED <<tableVars, askVars, datumVars, stopVars, busVars, nodeVars, nodeEnabled>>

\* unalarm's retry of an unmet request; one from axes_map re-checks first
cmdUnalarm ==
  /\ Ready /\ ~latched /\ ~busDegraded /\ ~slotMapComplete
  /\ op' = IF fromAxes THEN Check(NoOld, TRUE) ELSE Apply({})
  /\ UNCHANGED <<core0Vars, stopVars, busVars, nodeVars, nodeEnabled>>

\* setorigin, one pair (originDatum): the operator says where the machine is
cmdSetOrigin ==
  /\ AdmitWrite
  /\ \E n \in Steppers : \E o \in Outcomes("DATUM_SET", n) :
       /\ nDatum' = IF Heard(o) THEN nDatum \cup {n} ELSE nDatum
       /\ floating' = IF ~Heard(o) THEN floating
                      ELSE IF n \in nEnabled THEN floating \ {n} ELSE floating \cup {n}
       /\ UNCHANGED <<nSlot, nPos, nEnabled, truth, lost>>
       /\ Noted(n, o)
       /\ IF o = "ok" THEN OriginRecord(n, nPos[n], truth[n]) ELSE OriginInvalidate({n})
  /\ UNCHANGED <<tableVars, reqVars, askVars, stopVars, busVars, op>>

\* setprobe: the bound Z node's contact height, if it is homed
cmdSetProbe ==
  /\ AdmitWrite /\ ~latched
  /\ \E k \in Slots :
       LET n == axisNode(k)
       IN /\ n # None /\ nodeOrigin[n] # None
          /\ probeZ' = [probeZ EXCEPT ![n] = nodeOrigin[n]]
  /\ UNCHANGED <<tableVars, reqVars, askVars, viewVars, nodeOrigin, parkPos, stopVars, busVars, op, nodeVars, nodeEnabled>>

cmdUnprobe ==
  /\ Ready
  /\ \E n \in Nodes : probeZ[n] # None /\ probeZ' = Without(probeZ, {n})
  /\ UNCHANGED <<tableVars, reqVars, askVars, viewVars, nodeOrigin, parkPos, stopVars, busVars, op, nodeVars, nodeEnabled>>

\* What a node does with ENABLE or DISABLE
Energise(ns) == nEnabled' = nEnabled \cup ns /\ UNCHANGED <<nSlot, nPos, nDatum, truth, lost, floating>>
Release(ns)  == /\ nEnabled' = nEnabled \ ns /\ nDatum' = nDatum \ ns
                /\ UNCHANGED <<nSlot, nPos, truth, lost, floating>>

\* enable, of a motor
cmdEnable ==
  /\ AdmitWrite
  /\ \E n \in Steppers : \E o \in Outcomes("ENABLE", n) :
       /\ Energise(IF Heard(o) THEN {n} ELSE {})
       /\ Noted(n, o)
  /\ UNCHANGED <<core0Vars, stopVars, busVars, op>>

\* A slip: the origin goes only when the node confirms.
cmdDisableConfirmed ==
  /\ AdmitWrite
  /\ \E n \in Steppers : \E o \in Outcomes("DISABLE", n) :
       /\ Release(IF Heard(o) THEN {n} ELSE {})
       /\ Noted(n, o)
       /\ OriginInvalidate(IF o = "ok" THEN {n} ELSE {})
  /\ UNCHANGED <<tableVars, reqVars, askVars, stopVars, busVars, op>>

\* disable: the origin is void whatever came back
cmdDisable ==
  /\ AdmitWrite
  /\ \E n \in Steppers : \E o \in Outcomes("DISABLE", n) :
       /\ Release(IF Heard(o) THEN {n} ELSE {})
       /\ Noted(n, o)
       /\ OriginInvalidate({n})
  /\ UNCHANGED <<tableVars, reqVars, askVars, stopVars, busVars, op>>

\* axes_enable off: every bound axis; the calls are answered or not
cmdAxesEnableOff ==
  /\ AdmitWrite
  /\ LET bound == {axisNode(k) : k \in Slots} \ {None}
     IN /\ bound # {}
        /\ \E heard \in SUBSET bound : \E acked \in SUBSET heard :
             /\ Release(heard)
             /\ nodeEnabled' = nodeEnabled \ acked
        /\ OriginInvalidate(bound)
  /\ UNCHANGED <<tableVars, reqVars, askVars, stopVars, busVars, op>>

\* bus_enable: one frame to every node, answered by none
cmdBusEnable ==
  /\ AdmitWrite
  /\ \E heard \in SUBSET Steppers :
       \/ Energise(heard) /\ UNCHANGED <<nodeEnabled, viewVars, datumVars>>
       \/ Release(heard) /\ nodeEnabled' = {} /\ OriginInvalidate(Nodes)
  /\ UNCHANGED <<tableVars, reqVars, askVars, stopVars, busVars, op>>

\* makesafe: confirmed, the node leaves both requests (slotMapDrop, axesReqDrop
\* with its axisViewsDrop)
cmdMakeSafe ==
  /\ AdmitWrite
  /\ \E n \in Nodes : \E o \in Outcomes("MAKE_SAFE", n) :
       IF o # "ok" THEN SlotMakeSafe(n, o) /\ UNCHANGED <<slotReq, axesReq, axesPending>>
       ELSE /\ AskMakeSafe(n, o)
            /\ slotNode' = [s \in Slots |-> IF slotNode[s] = n THEN None ELSE slotNode[s]]
            /\ slotFenced' = slotFenced \ Holds(n)
            /\ slotReq' = [s \in Slots |-> IF slotReq[s] = n THEN None ELSE slotReq[s]]
            /\ axesReq' = [s \in Slots |-> IF axesReq[s] = n THEN None ELSE axesReq[s]]
            /\ axesPending' = {s \in axesPending : axesReq[s] # n}
            /\ LET gone == {k \in Slots : AxisNodeOf(k, slotNode', slotFenced', axesReq', axesPending') = None}
               IN /\ machinePos' = [k \in Slots |-> IF k \in gone THEN 0 ELSE machinePos[k]]
                  /\ axes_homed' = axes_homed \ gone
            /\ UNCHANGED datumVars
  /\ UNCHANGED <<haveSlotReq, fromAxes, stopVars, busVars, op>>

\* A slip: a node that answers can be excluded.
cmdBusExcludeAny ==
  /\ Ready
  /\ \E n \in Nodes \ excluded : excluded' = excluded \cup {n}
  /\ UNCHANGED <<core0Vars, stopVars, mute, op, nodeVars, nodeEnabled>>

\* bus_exclude: only a node the sweep found mute
cmdBusExclude ==
  /\ Ready
  /\ \E n \in mute \ excluded : excluded' = excluded \cup {n}
  /\ UNCHANGED <<core0Vars, stopVars, mute, op, nodeVars, nodeEnabled>>

-----------------------------------------------------------------------------
(* The estop, its exit, and the soft reset *)

\* A slip: a stopped machine's slots are left bound.
cmdStopUnfenced ==
  /\ Ready
  /\ latched' = TRUE
  /\ swept' = FALSE
  /\ nodeOrigin' = Without(nodeOrigin, Nodes)
  /\ parkPos' = Without(parkPos, Nodes)
  /\ probeZ' = Without(probeZ, Nodes)
  /\ axes_homed' = {}
  /\ UNCHANGED <<tableVars, machinePos, sweepFact, reqVars, askVars, busVars, nodeEnabled, op, nodeVars>>

\* stop: the datum dies and every bound slot is fenced, its position kept until
\* Core 1 has stopped writing it
cmdStop ==
  /\ Ready
  /\ latched' = TRUE
  /\ swept' = FALSE
  /\ nodeOrigin' = Without(nodeOrigin, Nodes)
  /\ parkPos' = Without(parkPos, Nodes)
  /\ probeZ' = Without(probeZ, Nodes)
  /\ axes_homed' = {}
  /\ slotFenced' = {s \in Slots : slotNode[s] # None}
  /\ UNCHANGED <<slotNode, machinePos, sweepFact, reqVars, askVars, busVars, nodeEnabled, op, nodeVars>>

\* Core 1's estop sweep: every node told to make safe, some hear, some answer
EstopSweep ==
  /\ latched /\ ~swept
  /\ \E heard \in SUBSET Nodes : \E acked \in SUBSET heard :
       /\ nSlot' = [n \in Nodes |-> IF n \in heard THEN None ELSE nSlot[n]]
       /\ nDatum' = nDatum \ heard
       /\ nEnabled' = nEnabled \ heard
       /\ nodeEnabled' = nodeEnabled \ acked
  /\ swept' = TRUE /\ sweepFact' = TRUE
  /\ UNCHANGED <<core0Vars, latched, busVars, op, nPos, truth, lost, floating>>

\* A slip: the fact is taken and the fenced positions stay.
ObserveSweptIdle ==
  /\ Ready /\ sweepFact
  /\ sweepFact' = FALSE
  /\ UNCHANGED <<core0Vars, latched, swept, busVars, nodeEnabled, op, nodeVars>>

\* observeTick on FACT_ESTOP_SWEPT: slotFencedPosClear
ObserveSwept ==
  /\ Ready /\ sweepFact
  /\ sweepFact' = FALSE
  /\ machinePos' = [s \in Slots |-> IF s \in slotFenced THEN 0 ELSE machinePos[s]]
  /\ UNCHANGED <<tableVars, reqVars, askVars, axes_homed, datumVars, latched, swept, busVars, nodeEnabled, op, nodeVars>>

Poll(phase) == [phase |-> phase, asked |-> {}, bad |-> {}]

\* unstop: make safe every touched node that is not excluded, one call each
cmdUnstop ==
  /\ Ready /\ latched /\ swept
  /\ op' = Poll("unstop")
  /\ UNCHANGED <<core0Vars, stopVars, busVars, nodeEnabled, nodeVars>>

UnstopLeft == (busTouched \ excluded) \ op.asked

UnstopAsk ==
  /\ op.phase = "unstop"
  /\ \E n \in UnstopLeft : \E o \in Outcomes("MAKE_SAFE", n) :
       /\ SlotMakeSafe(n, o)
       /\ op' = [op EXCEPT !.asked = @ \cup {n}, !.bad = IF o = "ok" THEN @ ELSE @ \cup {n}]
  /\ UNCHANGED <<reqVars, askVars, stopVars, busVars>>

\* A slip: the latch clears whoever is left unconfirmed.
UnstopEndsAnyway ==
  /\ op.phase = "unstop" /\ UnstopLeft = {}
  /\ op' = Idle
  /\ haveSlotReq' = FALSE /\ fromAxes' = FALSE
  /\ AxesReqSet(NoMap, {})
  /\ latched' = FALSE /\ swept' = FALSE
  /\ UNCHANGED <<tableVars, slotReq, datumVars, sweepFact, busVars, nodeEnabled, nodeVars>>

UnstopEnds ==
  /\ op.phase = "unstop" /\ UnstopLeft = {}
  /\ op' = Idle
  /\ IF op.bad # {} THEN UNCHANGED <<reqVars, askVars, viewVars, latched, swept>>
     ELSE /\ haveSlotReq' = FALSE /\ fromAxes' = FALSE
          /\ AxesReqSet(NoMap, {})
          /\ latched' = FALSE /\ swept' = FALSE
          /\ UNCHANGED slotReq
  /\ UNCHANGED <<tableVars, datumVars, sweepFact, busVars, nodeEnabled, nodeVars>>

\* reset: section A of loop() with Core 1 parked. The table, its fences and the
\* origins survive; busSweep follows.
cmdReset ==
  /\ AdmitWrite
  /\ axesReq' = NoMap /\ axesPending' = {}
  /\ haveSlotReq' = FALSE /\ fromAxes' = FALSE
  /\ machinePos' = [s \in Slots |-> 0] /\ axes_homed' = {}
  /\ latched' = FALSE /\ swept' = FALSE /\ sweepFact' = FALSE
  /\ op' = Poll("sweep")
  /\ UNCHANGED <<tableVars, slotReq, datumVars, busVars, nodeEnabled, nodeVars>>

\* busSweep: make safe every address
BusSweepAsk ==
  /\ op.phase = "sweep"
  /\ \E n \in Nodes \ op.asked : \E o \in Outcomes("MAKE_SAFE", n) :
       /\ SlotMakeSafe(n, o)
       /\ op' = [op EXCEPT !.asked = @ \cup {n}, !.bad = IF o = "ok" THEN @ ELSE @ \cup {n}]
  /\ UNCHANGED <<reqVars, askVars, stopVars, busVars>>

\* and controllerApplyDefaultMap unless a node that matters stayed mute
BusSweepEnds ==
  /\ op.phase = "sweep" /\ op.asked = Nodes
  /\ mute' = op.bad \cap (configNodes \cup busTouched)
  /\ excluded' = {}
  /\ IF mute' # {} THEN op' = Idle /\ UNCHANGED <<reqVars, viewVars>>
     ELSE AxesMapApply(Default, TRUE)
  /\ UNCHANGED <<tableVars, askVars, datumVars, stopVars, nodeEnabled, nodeVars>>

-----------------------------------------------------------------------------
(* Motion, and what the nodes do by themselves *)

\* One step on slot s: every listener counts it; a motor turns if it is energised
SlotStep(s) ==
  /\ machinePos' = [machinePos EXCEPT ![s] = Plus(@, 1)]
  /\ nPos' = [n \in Nodes |-> IF n \in Steppers /\ nSlot[n] = s THEN Plus(nPos[n], 1) ELSE nPos[n]]
  /\ truth' = [n \in Nodes |-> IF n \in Steppers \cap nEnabled /\ nSlot[n] = s THEN Plus(truth[n], 1) ELSE truth[n]]
  /\ UNCHANGED <<tableVars, reqVars, askVars, axes_homed, datumVars, stopVars, busVars, nodeEnabled, op>>
  /\ UNCHANGED <<nSlot, nDatum, nEnabled, lost, floating>>

\* The stream: a bound, energised axis; after a stop, Core 1's last bytes
StreamStep ==
  /\ Ready
  /\ \E s \in Slots :
       /\ IF latched THEN ~swept /\ s \in slotFenced
          ELSE axisNode(s) # None /\ axisNode(s) \in nodeEnabled
       /\ SlotStep(s)

\* step: a node that holds a slot and is energised, axis or not
cmdStep ==
  /\ AdmitWrite /\ ~latched
  /\ \E n \in nodeEnabled : Holds(n) # {} /\ SlotStep(First(Holds(n)))

\* A park leg's end (runner.cpp): the node moved itself to where it was told,
\* counted it, and kept its witness; or its end is not known
ParkLegEnds ==
  /\ Ready /\ ~latched
  /\ \E n \in Steppers \cap nEnabled \cap nDatum :
       /\ nodeOrigin[n] # None /\ n \notin excluded
       /\ nPos' = [nPos EXCEPT ![n] = Plus(@, 1)]
       /\ truth' = [truth EXCEPT ![n] = Plus(@, 1)]
       /\ UNCHANGED <<nSlot, nDatum, nEnabled, lost, floating>>
       /\ \/ OriginAdopt(n, nPos'[n])
          \/ OriginInvalidate({n})
  /\ UNCHANGED <<tableVars, reqVars, askVars, stopVars, busVars, op, nodeEnabled>>

\* A node reboots, or makes itself safe after a silent bus: the counter restarts
\* or stays, the slot, the witness and the torque go
NodeResets ==
  /\ \E n \in Nodes :
       /\ nSlot' = [nSlot EXCEPT ![n] = None]
       /\ nDatum' = nDatum \ {n}
       /\ nEnabled' = nEnabled \ {n}
       /\ lost' = lost \cup {n}
       /\ nPos' \in {nPos, [nPos EXCEPT ![n] = 0]}
  /\ UNCHANGED <<core0Vars, stopVars, busVars, nodeEnabled, op, truth, floating>>

\* A shaft without torque is turned by hand
HandMoves ==
  /\ \E n \in Steppers \ nEnabled : truth' = [truth EXCEPT ![n] = Plus(@, 1)]
  /\ UNCHANGED <<core0Vars, stopVars, busVars, nodeEnabled, op, nSlot, nPos, nDatum, nEnabled, lost, floating>>

-----------------------------------------------------------------------------
\* Power-on, the nodes fresh or engaged as an earlier run of the controller left them
Init ==
  /\ slotNode = NoMap /\ slotFenced = {}
  /\ axesReq = NoMap /\ axesPending = {}
  /\ slotReq = NoMap /\ haveSlotReq = FALSE /\ fromAxes = FALSE
  /\ machinePos = [s \in Slots |-> 0] /\ axes_homed = {}
  /\ nodeOrigin = [n \in Nodes |-> None]
  /\ parkPos = [n \in Nodes |-> None]
  /\ probeZ = [n \in Nodes |-> None]
  /\ latched = FALSE /\ swept = FALSE /\ sweepFact = FALSE
  /\ mute = {} /\ excluded = {}
  /\ nodeEnabled = {}
  /\ op = Poll("sweep")
  /\ nSlot \in {[n \in Nodes |-> None],
                [n \in Nodes |-> IF \E s \in Slots : Default[s] = n
                                 THEN CHOOSE s \in Slots : Default[s] = n ELSE None]}
  /\ nPos = [n \in Nodes |-> 0]
  /\ nDatum = {} /\ nEnabled = {}
  /\ truth = [n \in Nodes |-> 0]
  /\ lost = {} /\ floating = {}
  /\ commands = 0 /\ upsets = 0

Command ==
  \/ cmdSlotMap \/ cmdAxesMap \/ cmdUnalarm
  \/ cmdSetOrigin \/ cmdSetProbe \/ cmdUnprobe
  \/ cmdEnable \/ cmdDisable \/ cmdAxesEnableOff \/ cmdBusEnable
  \/ cmdMakeSafe \/ cmdBusExclude \/ cmdStep
  \/ cmdStop \/ cmdUnstop \/ cmdReset

Core ==
  \/ ApplySafe \/ ApplyPark \/ ApplyEngage
  \/ CheckPending \/ AxesRefused \/ AxesCommit
  \/ EstopSweep \/ ObserveSwept
  \/ UnstopAsk \/ UnstopEnds
  \/ BusSweepAsk \/ BusSweepEnds
  \/ StreamStep \/ ParkLegEnds

Next ==
  \/ Core /\ UNCHANGED <<commands, upsets>>
  \/ commands < MaxCommands /\ Command /\ commands' = commands + 1 /\ UNCHANGED upsets
  \/ upsets < MaxUpsets /\ (NodeResets \/ HandMoves) /\ upsets' = upsets + 1 /\ UNCHANGED commands

Spec == Init /\ [][Next]_vars

-----------------------------------------------------------------------------
(* Properties *)

TypeOK ==
  /\ slotNode \in [Slots -> Nodes \cup {None}] /\ slotFenced \subseteq Slots
  /\ axesReq \in Maps /\ axesPending \subseteq Slots
  /\ slotReq \in Maps /\ haveSlotReq \in BOOLEAN /\ fromAxes \in BOOLEAN
  /\ machinePos \in [Slots -> Pos] /\ axes_homed \subseteq Slots
  /\ nodeOrigin \in [Nodes -> Pos \cup {None}]
  /\ parkPos \in [Nodes -> Pos \cup {None}]
  /\ probeZ \in [Nodes -> Pos \cup {None}]
  /\ {latched, swept, sweepFact} \subseteq BOOLEAN
  /\ mute \subseteq Nodes /\ excluded \subseteq mute
  /\ nSlot \in [Nodes -> Slots \cup {None}]
  /\ nPos \in [Nodes -> Pos] /\ truth \in [Nodes -> Pos]
  /\ commands \in 0..MaxCommands /\ upsets \in 0..MaxUpsets
  /\ {nodeEnabled, nDatum, nEnabled, lost, floating} \subseteq SUBSET Nodes

\* A node listens only on a slot the table gives it, fenced or bound: no lost
\* reply, refused engage, park that was not confirmed or reset leaves a second
\* listener behind on a slot the table thinks is free (slot_map.cpp:83). A node
\* the last boot sweep could not make safe is the operator's to exclude.
OneListener ==
  \A n \in Nodes : op.phase # "sweep" /\ n \notin mute /\ nSlot[n] # None => slotNode[nSlot[n]] = n

\* Between handlers, an axis the machine calls homed is where it says it is,
\* through parks, rebinds, park legs, debug bursts and resets, unless the node
\* reset since its engage or was datumed with its motor off (position.cpp:282).
HomedIsTrue ==
  Ready => \A s \in axes_homed :
             /\ slotNode[s] # None /\ s \notin slotFenced
             /\ slotNode[s] \notin lost \cup floating => machinePos[s] = truth[slotNode[s]]

\* Between handlers, a request the machine takes as met is met on the bus: each
\* node it names listens on its slot and on no other, unless it reset since
\* (slot_map.cpp:143).
MapIsMet ==
  Ready /\ haveSlotReq /\ slotMapComplete =>
    \A s \in Slots : slotReq[s] # None => slotReq[s] \in lost \/ nSlot[slotReq[s]] = s

\* The table tells the truth about the bus: one listener a slot, and a map taken
\* as met is met.
SlotsAreTrue == OneListener /\ MapIsMet

\* A probed height is measured against the origin in force: whatever replaces
\* or drops the origin drops the probe (position.cpp:69).
ProbeMatchesOrigin == \A n \in Nodes : probeZ[n] # None => probeZ[n] = nodeOrigin[n]

\* Once Core 0 has taken the sweep's fact, a stopped machine's fenced slots read
\* zero, whatever Core 1 had still to emit when the stop came (observe.cpp:39).
StoppedReadsZero ==
  latched /\ swept /\ ~sweepFact /\ Ready => \A s \in slotFenced : machinePos[s] = 0

\* No position the operator is shown or a move starts from is a stale one: a
\* homed axis is where it is said to be, a probe matches its origin, and what a
\* stop fenced reads zero.
PositionIsTrue == HomedIsTrue /\ ProbeMatchesOrigin /\ StoppedReadsZero

\* The latch clears only into a machine whose table and mask are empty but for
\* the nodes the operator excluded (lifecycle.cpp:40).
UnstopUnmaps ==
  [][latched /\ ~latched' /\ op.phase = "unstop" =>
       busTouched' \subseteq excluded /\ ~haveSlotReq' /\ axesReq' = NoMap]_vars

=============================================================================
