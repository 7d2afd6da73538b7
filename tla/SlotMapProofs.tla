--------------------------- MODULE SlotMapProofs ----------------------------
(***************************************************************************)
(* Proofs about SlotMap: for every set of nodes, every number of slots,    *)
(* every default map and any number of commands and upsets.                *)
(***************************************************************************)
EXTENDS SlotMap, WellFoundedInduction, TLAPS

(* The handlers in progress.                                               *)
Applies == [phase : {"safe", "park", "engage"}, at : Nat, skip : SUBSET Slots]
Reqs    == {r \in [ids : Maps, pending : SUBSET Slots] : r.pending \subseteq Named(r.ids)}
Checks  == [phase : {"check"}, at : Nat, skip : SUBSET Slots, old : Reqs, keep : BOOLEAN, wrong : BOOLEAN]
Polls   == [phase : {"unstop", "sweep"}, asked : SUBSET Nodes, bad : SUBSET Nodes]

OpType == op \in {Idle} \cup Applies \cup Checks \cup Polls

(* TypeOK, a group of variables at a time; a fenced slot has a node, and so *)
(* has an axis that is pending.                                             *)
TableType == /\ slotNode \in [Slots -> Nodes \cup {None}] /\ slotFenced \in SUBSET Slots
             /\ \A s \in slotFenced : slotNode[s] # None
ReqType   == axesReq \in Maps /\ axesPending \in SUBSET Slots /\ axesPending \subseteq Named(axesReq)
AskType   == slotReq \in Maps /\ haveSlotReq \in BOOLEAN /\ fromAxes \in BOOLEAN
ViewType  == machinePos \in [Slots -> Pos] /\ axes_homed \in SUBSET Slots
DatumType == /\ nodeOrigin \in [Nodes -> Pos \cup {None}]
             /\ parkPos \in [Nodes -> Pos \cup {None}]
             /\ probeZ \in [Nodes -> Pos \cup {None}]
StopType  == latched \in BOOLEAN /\ swept \in BOOLEAN /\ sweepFact \in BOOLEAN
BusType   == mute \in SUBSET Nodes /\ excluded \in SUBSET Nodes /\ excluded \subseteq mute
NodeType  == /\ nSlot \in [Nodes -> Slots \cup {None}]
             /\ nPos \in [Nodes -> Pos] /\ truth \in [Nodes -> Pos]
             /\ nDatum \in SUBSET Nodes /\ nEnabled \in SUBSET Nodes
             /\ lost \in SUBSET Nodes /\ floating \in SUBSET Nodes
MaskType  == nodeEnabled \in SUBSET Nodes
CountType == commands \in 0..MaxCommands /\ upsets \in 0..MaxUpsets

Core0Type == TableType /\ ReqType /\ AskType /\ ViewType /\ DatumType
Typed     == Core0Type /\ StopType /\ BusType /\ NodeType /\ MaskType /\ OpType

LEMMA TypedIs == Typed /\ CountType => TypeOK
BY DEF Typed, Core0Type, CountType, TypeOK, TableType, ReqType, AskType, ViewType, DatumType, StopType,
       BusType, NodeType, MaskType

----------------------------------------------------------------------------
(* The operators.                                                          *)

(* A set of naturals has a least member.                                   *)
LEMMA LeastExists ==
  ASSUME NEW S \in SUBSET Nat, S # {}
  PROVE  \E m \in S : \A k \in S : m <= k
<1> DEFINE R == OpToRel(<, Nat)
<1>1. IsWellFoundedOn(R, Nat)
  BY NatLessThanWellFounded
<1>2. \A x, y \in Nat : x < y => <<x, y>> \in R
  BY DEF OpToRel
<1> HIDE DEF R
<1>3. PICK m \in S : \A y \in S : ~(<<y, m>> \in R)
  BY <1>1, WFMin
<1>4. ASSUME NEW k \in S PROVE m <= k
  <2>1. ~(k < m)
    BY <1>2, <1>3
  <2>2. k \in Int /\ m \in Int
    OBVIOUS
  <2> QED BY <2>1, <2>2
<1> QED BY <1>4

(* The slot a phase looks at next is the first of those it has left.       *)
LEMMA FirstIs ==
  ASSUME NEW ss \in SUBSET Slots, ss # {}
  PROVE  First(ss) \in ss /\ \A t \in ss : First(ss) <= t
<1>1. ss \in SUBSET Nat
  BY SlotAssumption DEF Slots
<1>2. \E m \in ss : \A k \in ss : m <= k
  BY <1>1, LeastExists
<1> QED BY <1>2 DEF First

(* Counters stay in their width.                                           *)
LEMMA Wraps ==
  /\ Pos # {} /\ 0 \in Pos
  /\ \A p, q \in Pos : Plus(p, q) \in Pos /\ Minus(p, q) \in Pos /\ Plus(p, 1) \in Pos
<1>1. Span \in Nat \ {0} /\ \A p \in Pos : p \in Int
  BY SlotAssumption DEF Pos
<1>2. \A x \in Int : x % Span \in 0..(Span - 1)
  BY <1>1
<1>3. ASSUME NEW p \in Pos, NEW q \in Pos
      PROVE  Plus(p, q) \in Pos /\ Minus(p, q) \in Pos /\ Plus(p, 1) \in Pos
  <2>1. p + q \in Int /\ p - q \in Int /\ p + 1 \in Int
    BY <1>1
  <2> QED BY <2>1, <1>2 DEF Pos, Plus, Minus
<1>4. 0 \in Pos
  BY <1>1 DEF Pos
<1> QED BY <1>3, <1>4

(* None is no node, no counter and no slot.                                *)
LEMMA NoneIs ==
  /\ None \notin Nodes /\ None \notin Pos /\ None \notin Slots
  /\ Steppers \subseteq Nodes /\ Slotless \subseteq Nodes
  /\ NoMap \in Maps /\ Default \in Maps
  /\ \A m \in Maps : m \in [Slots -> Nodes \cup {None}]
BY SlotAssumption DEF NoMap, Maps

LEMMA AxisNodeType ==
  ASSUME TableType, NEW k \in Slots
  PROVE  axisNode(k) \in Nodes \cup {None}
BY DEF axisNode, AxisNodeOf, TableType

LEMMA WithoutType ==
  ASSUME NEW f \in [Nodes -> Pos \cup {None}], NEW ns
  PROVE  Without(f, ns) \in [Nodes -> Pos \cup {None}]
BY DEF Without

LEMMA WithoutIs ==
  ASSUME NEW f \in [Nodes -> Pos \cup {None}], NEW ns, NEW n \in Nodes
  PROVE  Without(f, ns)[n] = IF n \in ns THEN None ELSE f[n]
BY DEF Without

----------------------------------------------------------------------------
(* Types.                                                                  *)

LEMMA UnbindType ==
  ASSUME TableType, ViewType, NEW ss, SlotUnbind(ss)
  PROVE  TableType' /\ ViewType'
BY Wraps DEF SlotUnbind, TableType, ViewType

LEMMA FenceType ==
  ASSUME TableType, ViewType, DatumType, NEW ss \in SUBSET Slots, NEW n \in Nodes, SlotFence(ss, n)
  PROVE  TableType' /\ ViewType' /\ DatumType'
<1>1. TableType' /\ ViewType'
  BY Wraps, NoneIs DEF SlotFence, TableType, ViewType
<1>2. DatumType'
  BY WithoutType DEF SlotFence, DatumType
<1> QED BY <1>1, <1>2

LEMMA BindType ==
  ASSUME TableType, ViewType, DatumType, NodeType, NEW s \in Slots, NEW n \in Nodes, SlotBind(s, n)
  PROVE  TableType' /\ ViewType' /\ DatumType'
<1>1. TableType'
  <2>1. PICK others \in SUBSET Slots :
          /\ slotNode' = [t \in Slots |-> IF t = s THEN n ELSE IF t \in others THEN None ELSE slotNode[t]]
          /\ slotFenced' = slotFenced \ others
    BY DEF SlotBind, Holds
  <2> QED BY <2>1, NoneIs DEF TableType
<1>2. DatumType'
  BY WithoutType DEF SlotBind, DatumType
<1>3. machinePos' \in [Slots -> Pos]
  <2>1. PICK homed \in BOOLEAN, others \in SUBSET Slots :
          /\ homed => nodeOrigin[n] # None
          /\ machinePos' = [t \in Slots |-> IF t = s THEN IF homed THEN Minus(nPos[n], nodeOrigin[n]) ELSE 0
                                            ELSE IF t \in others THEN 0 ELSE machinePos[t]]
    BY DEF SlotBind, Holds
  <2>2. nPos[n] \in Pos /\ nodeOrigin[n] \in Pos \cup {None}
    BY DEF NodeType, DatumType
  <2>3. homed => Minus(nPos[n], nodeOrigin[n]) \in Pos
    BY <2>1, <2>2, Wraps
  <2> QED BY <2>1, <2>3, Wraps DEF ViewType
<1>4. axes_homed' \in SUBSET Slots
  BY DEF SlotBind, ViewType
<1> QED BY <1>1, <1>2, <1>3, <1>4 DEF ViewType

LEMMA AxesReqType ==
  ASSUME ViewType, NEW ids \in Maps, NEW pending \in SUBSET Slots, pending \subseteq Named(ids),
         AxesReqSet(ids, pending)
  PROVE  ReqType' /\ ViewType'
BY Wraps DEF AxesReqSet, ReqType, ViewType

LEMMA InvalidateType ==
  ASSUME ViewType, DatumType, NEW ns, OriginInvalidate(ns)
  PROVE  ViewType' /\ DatumType'
<1>1. DatumType'
  BY WithoutType DEF OriginInvalidate, DatumType
<1> QED BY <1>1 DEF OriginInvalidate, ViewType

LEMMA RecordType ==
  ASSUME ViewType, DatumType, NEW n \in Nodes, NEW at \in Pos, NEW steps \in Pos, OriginRecord(n, at, steps)
  PROVE  ViewType' /\ DatumType'
<1>1. DatumType'
  BY WithoutType, Wraps DEF OriginRecord, DatumType
<1>2. AxesOf(n) \subseteq Slots
  BY DEF AxesOf
<1> QED BY <1>1, <1>2 DEF OriginRecord, ViewType

LEMMA AdoptType ==
  ASSUME ViewType, DatumType, NEW n \in Nodes, NEW at \in Pos, nodeOrigin[n] # None, OriginAdopt(n, at)
  PROVE  ViewType' /\ DatumType'
<1>1. DatumType'
  BY DEF OriginAdopt, DatumType
<1>2. Minus(at, nodeOrigin[n]) \in Pos
  BY Wraps DEF DatumType
<1> QED BY <1>1, <1>2 DEF OriginAdopt, ViewType

LEMMA NotedType ==
  ASSUME MaskType, NEW n \in Nodes, NEW o, Noted(n, o)
  PROVE  MaskType'
BY DEF Noted, MaskType

LEMMA EngageType ==
  ASSUME NodeType, MaskType, NEW n \in Nodes, NEW s \in Slots \cup {None}, NEW o, AskEngage(n, s, o)
  PROVE  NodeType' /\ MaskType'
<1>1. MaskType'
  BY NotedType DEF AskEngage
<1> QED BY <1>1 DEF AskEngage, NodeType

LEMMA MakeSafeType ==
  ASSUME NodeType, MaskType, NEW n \in Nodes, NEW o, AskMakeSafe(n, o)
  PROVE  NodeType' /\ MaskType'
<1>1. MaskType'
  BY NotedType DEF AskMakeSafe
<1> QED BY <1>1 DEF AskMakeSafe, NodeType

LEMMA SafeType ==
  ASSUME TableType, ViewType, DatumType, NodeType, MaskType, NEW n \in Nodes, NEW o, SlotMakeSafe(n, o)
  PROVE  TableType' /\ ViewType' /\ DatumType' /\ NodeType' /\ MaskType'
<1>1. NodeType' /\ MaskType'
  BY MakeSafeType DEF SlotMakeSafe
<1>2. CASE SlotUnbind(Holds(n)) /\ UNCHANGED datumVars
  BY <1>1, <1>2, UnbindType DEF datumVars, DatumType
<1>3. CASE UNCHANGED <<tableVars, viewVars, datumVars>>
  BY <1>1, <1>3 DEF tableVars, viewVars, datumVars, TableType, ViewType, DatumType
<1>4. CASE SlotFence(Holds(n), n)
  <2>1. Holds(n) \in SUBSET Slots
    BY DEF Holds
  <2> QED BY <1>1, <1>4, <2>1, FenceType
<1> QED BY <1>2, <1>3, <1>4 DEF SlotMakeSafe

(* The handler in progress, by its phase.                                  *)
LEMMA OpShape ==
  ASSUME OpType
  PROVE  /\ op.phase \in {"safe", "park", "engage"} => op \in Applies
         /\ op.phase = "check" => op \in Checks
         /\ op.phase \in {"unstop", "sweep"} => op \in Polls
         /\ op = Idle => op.phase = "idle"
         /\ op.phase = "idle" => op = Idle
BY DEF OpType, Idle, Applies, Checks, Polls

(* The records a handler goes on with.                                     *)
LEMMA OpGoesOn ==
  ASSUME op \in Applies
  PROVE  /\ \A s \in Slots : /\ Next1(s) \in Applies /\ Next1(s).phase = op.phase
                             /\ Next1(s).at = s + 1 /\ Next1(s).skip = op.skip
         /\ \A q \in {"safe", "park", "engage"} :
              Phase(q) \in Applies /\ Phase(q).phase = q /\ Phase(q).at = 0 /\ Phase(q).skip = op.skip
<1>1. Slots \subseteq Nat
  BY SlotAssumption DEF Slots
<1>2. ASSUME NEW q \in {"safe", "park", "engage"}, NEW i \in Nat
      PROVE  LET r == [op EXCEPT !.phase = q, !.at = i]
             IN r \in Applies /\ r.phase = q /\ r.at = i /\ r.skip = op.skip
  BY DEF Applies
<1>3. ASSUME NEW i \in Nat
      PROVE  LET r == [op EXCEPT !.at = i]
             IN r \in Applies /\ r.phase = op.phase /\ r.at = i /\ r.skip = op.skip
  BY DEF Applies
<1>4. ASSUME NEW s \in Slots
      PROVE  Next1(s) \in Applies /\ Next1(s).phase = op.phase /\ Next1(s).at = s + 1 /\ Next1(s).skip = op.skip
  <2>1. s + 1 \in Nat
    BY <1>1
  <2> QED BY <2>1, <1>3 DEF Next1
<1>5. ASSUME NEW q \in {"safe", "park", "engage"}
      PROVE  Phase(q) \in Applies /\ Phase(q).phase = q /\ Phase(q).at = 0 /\ Phase(q).skip = op.skip
  BY <1>2 DEF Phase
<1> QED BY <1>4, <1>5

LEMMA OpBegins ==
  /\ Idle.phase = "idle"
  /\ \A skip \in SUBSET Slots : /\ Apply(skip) \in Applies /\ Apply(skip).phase = "safe"
                                /\ Apply(skip).at = 0 /\ Apply(skip).skip = skip
  /\ \A old \in Reqs, keep \in BOOLEAN :
       Check(old, keep) \in Checks /\ Check(old, keep).phase = "check"
  /\ \A q \in {"unstop", "sweep"} :
       Poll(q) \in Polls /\ Poll(q).phase = q /\ Poll(q).asked = {} /\ Poll(q).bad = {}
BY DEF Idle, Apply, Applies, Check, Checks, Poll, Polls

LEMMA OpAsks ==
  ASSUME op \in Polls, NEW n \in Nodes, NEW o,
         op' = [op EXCEPT !.asked = @ \cup {n}, !.bad = IF o = "ok" THEN @ ELSE @ \cup {n}]
  PROVE  /\ op' \in Polls /\ op'.phase = op.phase /\ op'.asked = op.asked \cup {n}
         /\ op'.bad = IF o = "ok" THEN op.bad ELSE op.bad \cup {n}
<1> DEFINE bad == IF o = "ok" THEN op.bad ELSE op.bad \cup {n}
<1>1. op' = [op EXCEPT !.asked = op.asked \cup {n}, !.bad = bad]
  OBVIOUS
<1>2. bad \in SUBSET Nodes /\ op.asked \cup {n} \in SUBSET Nodes
  BY DEF Polls
<1> HIDE DEF bad
<1>3. op'.asked = op.asked \cup {n} /\ op'.bad = bad /\ op'.phase = op.phase /\ op' \in Polls
  BY <1>1, <1>2 DEF Polls
<1> QED BY <1>3 DEF bad

LEMMA OpChecks ==
  ASSUME op \in Checks, NEW k \in Slots, NEW w \in BOOLEAN,
         op' = [op EXCEPT !.at = k + 1, !.wrong = @ \/ w]
  PROVE  op' \in Checks /\ op'.phase = "check"
<1>1. k + 1 \in Nat
  BY SlotAssumption DEF Slots
<1>2. PICK v \in BOOLEAN : op' = [op EXCEPT !.at = k + 1, !.wrong = v]
  <2>1. op.wrong \in BOOLEAN
    BY DEF Checks
  <2>2. (op.wrong \/ w) \in BOOLEAN
    OBVIOUS
  <2> QED BY <2>2
<1> QED BY <1>1, <1>2 DEF Checks

(* What each step of an apply does.                                        *)
Still == UNCHANGED <<tableVars, viewVars, datumVars, nodeVars, nodeEnabled>>
Others == UNCHANGED <<reqVars, askVars, stopVars, busVars>>

LEMMA SafeDoes ==
  ASSUME TableType, ApplySafe
  PROVE  /\ op.phase = "safe" /\ Others
         /\ \/ op' = Phase("park") /\ Still
            \/ \E s \in Wanted \cap slotFenced : \E o \in Outcomes("MAKE_SAFE", slotNode[s]) :
                 SlotMakeSafe(slotNode[s], o) /\ op' = Next1(s)
<1> DEFINE todo == Later(Wanted \cap slotFenced, op.at)
<1>1. todo \in SUBSET Slots /\ todo \subseteq Wanted \cap slotFenced
  BY DEF Later, TableType
<1>2. CASE todo = {}
  BY <1>2 DEF ApplySafe, Still, Others
<1>3. CASE todo # {}
  <2>1. First(todo) \in todo
    BY <1>1, <1>3, FirstIs
  <2>2. \E o \in Outcomes("MAKE_SAFE", slotNode[First(todo)]) :
          SlotMakeSafe(slotNode[First(todo)], o) /\ op' = Next1(First(todo))
    BY <1>3 DEF ApplySafe
  <2> QED BY <1>1, <2>1, <2>2 DEF ApplySafe, Others
<1> QED BY <1>2, <1>3

Parked(s, n) ==
  /\ SlotUnbind({s})
  /\ parkPos' = IF n \in Steppers THEN [parkPos EXCEPT ![n] = nPos[n]] ELSE parkPos
  /\ UNCHANGED <<nodeOrigin, probeZ>>

Holders == {s \in Slots \ slotFenced : slotNode[s] # None}

LEMMA ParkDoes ==
  ASSUME TableType, ApplyPark
  PROVE  /\ op.phase = "park" /\ Others
         /\ \/ op' = Phase("engage") /\ Still /\ \A s \in Holders : ~(s >= op.at)
            \/ \E s \in Holders : \E o \in Outcomes("ENGAGE", slotNode[s]) :
                 /\ \A t \in Holders : t >= op.at => s <= t
                 /\ AskEngage(slotNode[s], None, o) /\ op' = Next1(s)
                 /\ IF o # "ok" THEN SlotFence({s}, slotNode[s]) ELSE Parked(s, slotNode[s])
<1> DEFINE todo == Later(Holders, op.at)
<1>1. todo \in SUBSET Slots /\ todo \subseteq Holders /\ \A t \in Holders : t >= op.at <=> t \in todo
  BY DEF Later, Holders
<1>2. CASE todo = {}
  BY <1>1, <1>2 DEF ApplyPark, Still, Others, Holders
<1>3. CASE todo # {}
  <2>1. First(todo) \in todo /\ \A t \in todo : First(todo) <= t
    BY <1>1, <1>3, FirstIs
  <2>2. \E o \in Outcomes("ENGAGE", slotNode[First(todo)]) :
          /\ AskEngage(slotNode[First(todo)], None, o) /\ op' = Next1(First(todo))
          /\ IF o # "ok" THEN SlotFence({First(todo)}, slotNode[First(todo)])
             ELSE Parked(First(todo), slotNode[First(todo)])
    BY <1>3 DEF ApplyPark, Parked, Holders
  <2> QED BY <1>1, <2>1, <2>2 DEF ApplyPark, Others
<1> QED BY <1>2, <1>3

LEMMA EngageDoes ==
  ASSUME TableType, ApplyEngage
  PROVE  /\ op.phase = "engage" /\ Others
         /\ \/ op' = Idle /\ Still
            \/ \E s \in Wanted \ slotFenced : \E o \in Outcomes("ENGAGE", slotReq[s]) :
                 /\ s >= op.at /\ AskEngage(slotReq[s], s, o)
                 /\ \/ o = "ok" /\ SlotBind(s, slotReq[s]) /\ op' = Next1(s)
                    \/ o = "nak" /\ op' = Idle /\ UNCHANGED <<tableVars, viewVars, datumVars>>
                    \/ o \notin {"ok", "nak"} /\ op' = Idle /\ SlotFence({s}, slotReq[s])
<1> DEFINE todo == Later(Wanted \ slotFenced, op.at)
<1>1. todo \in SUBSET Slots /\ \A t \in todo : t \in Wanted \ slotFenced /\ t >= op.at
  BY DEF Later, Wanted
<1>2. CASE todo = {}
  BY <1>2 DEF ApplyEngage, Still, Others
<1>3. CASE todo # {}
  <2>1. First(todo) \in todo
    BY <1>1, <1>3, FirstIs
  <2>2. PICK o \in Outcomes("ENGAGE", slotReq[First(todo)]) :
          /\ AskEngage(slotReq[First(todo)], First(todo), o)
          /\ CASE o = "ok"  -> SlotBind(First(todo), slotReq[First(todo)]) /\ op' = Next1(First(todo))
               [] o = "nak" -> op' = Idle /\ UNCHANGED <<tableVars, viewVars, datumVars>>
               [] OTHER     -> op' = Idle /\ SlotFence({First(todo)}, slotReq[First(todo)])
    BY <1>3 DEF ApplyEngage
  <2>3. \/ o = "ok" /\ SlotBind(First(todo), slotReq[First(todo)]) /\ op' = Next1(First(todo))
        \/ o = "nak" /\ op' = Idle /\ UNCHANGED <<tableVars, viewVars, datumVars>>
        \/ o \notin {"ok", "nak"} /\ op' = Idle /\ SlotFence({First(todo)}, slotReq[First(todo)])
    <3>1. CASE o = "ok"
      BY <2>2, <3>1
    <3>2. CASE o = "nak"
      BY <2>2, <3>2
    <3>3. CASE o \notin {"ok", "nak"}
      BY <2>2, <3>3
    <3> QED BY <3>1, <3>2, <3>3
  <2> QED BY <1>1, <2>1, <2>2, <2>3 DEF ApplyEngage, Others
<1> QED BY <1>2, <1>3

(* The check of a pending axis: a make-safe of a fenced node, or its status. *)
ChecksAxis(k, o) ==
  /\ axesPending' \in {axesPending, axesPending \ {k}}
  /\ axesPending' # axesPending => o = "ok" /\ axesReq[k] \in Steppers
  /\ op' = [op EXCEPT !.at = k + 1, !.wrong = @ \/ (o = "ok" /\ axesReq[k] \notin Steppers)]
  /\ \/ /\ o \in Outcomes("MAKE_SAFE", axesReq[k]) /\ SlotMakeSafe(axesReq[k], o)
        /\ Holds(axesReq[k]) \cap slotFenced # {}
     \/ /\ o \in Outcomes("NODE_STATUS", axesReq[k])
        /\ AskStatus(axesReq[k], o) /\ UNCHANGED <<tableVars, viewVars, datumVars>>

LEMMA CheckDoes ==
  ASSUME ReqType, CheckPending
  PROVE  /\ op.phase = "check" /\ UNCHANGED <<axesReq, askVars, stopVars, busVars>>
         /\ \E k \in axesPending : \E o : ChecksAxis(k, o)
<1> DEFINE todo == Later(axesPending, op.at)
           fenced(n) == Holds(n) \cap slotFenced # {}
<1>1. todo \in SUBSET Slots /\ todo # {} /\ todo \subseteq axesPending
  BY DEF CheckPending, Later, ReqType
<1>2. First(todo) \in axesPending
  BY <1>1, FirstIs
<1>3. PICK k \in axesPending : k = First(todo)
  BY <1>2
<1>4. PICK o \in Outcomes(IF fenced(axesReq[k]) THEN "MAKE_SAFE" ELSE "NODE_STATUS", axesReq[k]) :
        /\ IF fenced(axesReq[k]) THEN SlotMakeSafe(axesReq[k], o)
           ELSE AskStatus(axesReq[k], o) /\ UNCHANGED <<tableVars, viewVars, datumVars>>
        /\ axesPending' = IF o = "ok" /\ axesReq[k] \in Steppers THEN axesPending \ {k} ELSE axesPending
        /\ op' = [op EXCEPT !.at = k + 1, !.wrong = @ \/ (o = "ok" /\ axesReq[k] \notin Steppers)]
  BY <1>3 DEF CheckPending
<1>5. \/ o \in Outcomes("MAKE_SAFE", axesReq[k]) /\ SlotMakeSafe(axesReq[k], o) /\ fenced(axesReq[k])
      \/ /\ o \in Outcomes("NODE_STATUS", axesReq[k])
         /\ AskStatus(axesReq[k], o) /\ UNCHANGED <<tableVars, viewVars, datumVars>>
  BY <1>4
<1>6. /\ axesPending' \in {axesPending, axesPending \ {k}}
      /\ axesPending' # axesPending => o = "ok" /\ axesReq[k] \in Steppers
  BY <1>4
<1>7. op.phase = "check" /\ UNCHANGED <<axesReq, askVars, stopVars, busVars>>
  BY DEF CheckPending
<1>8. ChecksAxis(k, o)
  BY <1>4, <1>5, <1>6 DEF ChecksAxis
<1> QED BY <1>7, <1>8

(* What a step leaves alone keeps its type.                                *)
LEMMA Frames ==
  /\ TableType /\ UNCHANGED tableVars => TableType'
  /\ ReqType /\ UNCHANGED reqVars => ReqType'
  /\ AskType /\ UNCHANGED askVars => AskType'
  /\ ViewType /\ UNCHANGED viewVars => ViewType'
  /\ DatumType /\ UNCHANGED datumVars => DatumType'
  /\ StopType /\ UNCHANGED stopVars => StopType'
  /\ BusType /\ UNCHANGED busVars => BusType'
  /\ NodeType /\ UNCHANGED nodeVars => NodeType'
  /\ MaskType /\ UNCHANGED nodeEnabled => MaskType'
  /\ OpType /\ UNCHANGED op => OpType'
<1>1. TableType /\ UNCHANGED tableVars => TableType'
  BY DEF TableType, tableVars
<1>2. ReqType /\ UNCHANGED reqVars => ReqType'
  BY DEF ReqType, reqVars
<1>3. AskType /\ UNCHANGED askVars => AskType'
  BY DEF AskType, askVars
<1>4. ViewType /\ UNCHANGED viewVars => ViewType'
  BY DEF ViewType, viewVars
<1>5. DatumType /\ UNCHANGED datumVars => DatumType'
  BY DEF DatumType, datumVars
<1>6. StopType /\ UNCHANGED stopVars => StopType'
  BY DEF StopType, stopVars
<1>7. BusType /\ UNCHANGED busVars => BusType'
  BY DEF BusType, busVars
<1>8. NodeType /\ UNCHANGED nodeVars => NodeType'
  BY DEF NodeType, nodeVars
<1>9. MaskType /\ UNCHANGED nodeEnabled => MaskType'
  BY DEF MaskType
<1>10. OpType /\ UNCHANGED op => OpType'
  BY DEF OpType
<1> QED BY <1>1, <1>2, <1>3, <1>4, <1>5, <1>6, <1>7, <1>8, <1>9, <1>10

LEMMA OpIs ==
  /\ op' = Idle => OpType'
  /\ op' \in Applies => OpType'
  /\ op' \in Checks => OpType'
  /\ op' \in Polls => OpType'
BY DEF OpType

(* A request names nodes in different slots.                               *)
LEMMA MapIs ==
  ASSUME NEW m \in Maps
  PROVE  /\ \A s \in Slots : m[s] \in Nodes \cup {None}
         /\ \A s, t \in Slots : m[s] = m[t] /\ m[s] # None => s = t
BY DEF Maps

(* The steps of the applies and of the check.                              *)
LEMMA ApplyTypes ==
  ASSUME Typed, ApplySafe \/ ApplyPark \/ ApplyEngage
  PROVE  Typed'
<1> USE DEF Typed, Core0Type
<1>1. Still => TableType' /\ ViewType' /\ DatumType' /\ NodeType' /\ MaskType'
  BY Frames DEF Still
<1>2. Others => ReqType' /\ AskType' /\ StopType' /\ BusType'
  BY Frames DEF Others
<1>3. op.phase \in {"safe", "park", "engage"} => op \in Applies
  BY OpShape
<1>4. Wanted \subseteq Slots
  BY DEF Wanted
<1>5. CASE ApplySafe
  <2>1. op \in Applies /\ Others
    BY <1>3, <1>5, SafeDoes
  <2>2. CASE op' = Phase("park") /\ Still
    BY <1>1, <1>2, <2>1, <2>2, OpGoesOn, OpIs
  <2>3. ASSUME NEW s \in Wanted \cap slotFenced, NEW o \in Outcomes("MAKE_SAFE", slotNode[s]),
               SlotMakeSafe(slotNode[s], o), op' = Next1(s)
        PROVE  Typed'
    <3>1. slotNode[s] \in Nodes /\ s \in Slots
      BY <1>4 DEF TableType
    <3>2. TableType' /\ ViewType' /\ DatumType' /\ NodeType' /\ MaskType'
      BY <2>3, <3>1, SafeType
    <3> QED BY <1>2, <2>1, <2>3, <3>1, <3>2, OpGoesOn, OpIs
  <2> QED BY <1>5, <2>2, <2>3, SafeDoes
<1>6. CASE ApplyPark
  <2>1. op \in Applies /\ Others
    BY <1>3, <1>6, ParkDoes
  <2>2. CASE op' = Phase("engage") /\ Still
    BY <1>1, <1>2, <2>1, <2>2, OpGoesOn, OpIs
  <2>3. ASSUME NEW s \in Holders, NEW o, AskEngage(slotNode[s], None, o), op' = Next1(s),
               IF o # "ok" THEN SlotFence({s}, slotNode[s]) ELSE Parked(s, slotNode[s])
        PROVE  Typed'
    <3>1. slotNode[s] \in Nodes /\ s \in Slots
      BY DEF TableType, Holders
    <3>2. NodeType' /\ MaskType'
      BY <2>3, <3>1, EngageType
    <3>3. TableType' /\ ViewType' /\ DatumType'
      <4>1. CASE o # "ok"
        BY <2>3, <3>1, <4>1, FenceType
      <4>2. CASE o = "ok"
        <5>1. TableType' /\ ViewType'
          BY <2>3, <4>2, UnbindType DEF Parked
        <5>2. DatumType'
          BY <2>3, <3>1, <4>2 DEF Parked, DatumType, NodeType
        <5> QED BY <5>1, <5>2
      <4> QED BY <4>1, <4>2
    <3> QED BY <1>2, <2>1, <2>3, <3>1, <3>2, <3>3, OpGoesOn, OpIs
  <2> QED BY <1>6, <2>2, <2>3, ParkDoes
<1>7. CASE ApplyEngage
  <2>1. op \in Applies /\ Others
    BY <1>3, <1>7, EngageDoes
  <2>2. CASE op' = Idle /\ Still
    BY <1>1, <1>2, <2>1, <2>2, OpIs
  <2>3. ASSUME NEW s \in Wanted \ slotFenced, NEW o, AskEngage(slotReq[s], s, o),
               \/ o = "ok" /\ SlotBind(s, slotReq[s]) /\ op' = Next1(s)
               \/ o = "nak" /\ op' = Idle /\ UNCHANGED <<tableVars, viewVars, datumVars>>
               \/ o \notin {"ok", "nak"} /\ op' = Idle /\ SlotFence({s}, slotReq[s])
        PROVE  Typed'
    <3>1. slotReq[s] \in Nodes /\ s \in Slots
      BY <1>4, MapIs DEF AskType, Wanted
    <3>2. NodeType' /\ MaskType'
      BY <2>3, <3>1, EngageType
    <3>3. TableType' /\ ViewType' /\ DatumType'
      <4>1. CASE SlotFence({s}, slotReq[s])
        BY <3>1, <4>1, FenceType
      <4>2. CASE SlotBind(s, slotReq[s])
        BY <3>1, <4>2, BindType
      <4>3. CASE UNCHANGED <<tableVars, viewVars, datumVars>>
        BY <4>3, Frames
      <4> QED BY <2>3, <4>1, <4>2, <4>3
    <3>4. OpType'
      BY <2>1, <2>3, <3>1, OpGoesOn, OpIs
    <3> QED BY <1>2, <2>1, <3>2, <3>3, <3>4
  <2> QED BY <1>7, <2>2, <2>3, EngageDoes
<1> QED BY <1>5, <1>6, <1>7

LEMMA CheckTypes ==
  ASSUME Typed, CheckPending
  PROVE  Typed'
<1> USE DEF Typed, Core0Type
<1>1. op \in Checks /\ UNCHANGED <<axesReq, askVars, stopVars, busVars>>
  BY CheckDoes, OpShape
<1>2. PICK k \in axesPending : \E o : ChecksAxis(k, o)
  BY CheckDoes
<1>3. PICK o : ChecksAxis(k, o)
  BY <1>2
<1>4. axesReq[k] \in Nodes /\ k \in Slots
  BY MapIs DEF ReqType, Named
<1>5. TableType' /\ ViewType' /\ DatumType' /\ NodeType' /\ MaskType'
  <2>1. CASE SlotMakeSafe(axesReq[k], o)
    BY <1>4, <2>1, SafeType
  <2>2. CASE AskStatus(axesReq[k], o) /\ UNCHANGED <<tableVars, viewVars, datumVars>>
    BY <1>4, <2>2, NotedType, Frames DEF AskStatus
  <2> QED BY <1>3, <2>1, <2>2 DEF ChecksAxis
<1>6. OpType'
  BY <1>1, <1>3, <1>4, OpChecks, OpIs DEF ChecksAxis
<1>7. ReqType'
  BY <1>1, <1>3 DEF ChecksAxis, ReqType
<1> QED BY <1>1, <1>5, <1>6, <1>7, Frames

(* A step on a slot.                                                       *)
LEMMA StepTypes ==
  ASSUME Typed, NEW s \in Slots, SlotStep(s)
  PROVE  Typed'
<1> USE DEF Typed, Core0Type
<1>1. ViewType'
  <2>1. Plus(machinePos[s], 1) \in Pos
    BY Wraps DEF ViewType
  <2> QED BY <2>1 DEF SlotStep, ViewType
<1>2. NodeType'
  <2>1. \A n \in Nodes : Plus(nPos[n], 1) \in Pos /\ Plus(truth[n], 1) \in Pos
    BY Wraps DEF NodeType
  <2> QED BY <2>1 DEF SlotStep, NodeType
<1> QED BY <1>1, <1>2, Frames DEF SlotStep

LEMMA AxesMapTypes ==
  ASSUME ReqType, ViewType, NEW m \in Maps, NEW keep \in BOOLEAN, AxesMapApply(m, keep)
  PROVE  /\ ReqType' /\ ViewType' /\ OpType' /\ op'.phase = "check"
         /\ AxesReqSet(m, Named(m))
<1>1. Named(m) \in SUBSET Slots
  BY DEF Named
<1>2. [ids |-> axesReq, pending |-> axesPending] \in Reqs
  BY DEF Reqs, ReqType
<1> QED BY <1>1, <1>2, AxesReqType, OpBegins, OpIs DEF AxesMapApply

(* The other steps of the two cores.                                       *)
LEMMA CoreTypes ==
  ASSUME Typed, Core
  PROVE  Typed'
<1> USE DEF Typed, Core0Type
<1>1. CASE ApplySafe \/ ApplyPark \/ ApplyEngage
  BY <1>1, ApplyTypes
<1>2. CASE CheckPending
  BY <1>2, CheckTypes
<1>3. CASE AxesRefused
  <2>1. op \in Checks
    BY <1>3, OpShape DEF AxesRefused
  <2>2. op.old.ids \in Maps /\ op.old.pending \in SUBSET Slots /\ op.old.pending \subseteq Named(op.old.ids)
    BY <2>1 DEF Checks, Reqs
  <2>3. ReqType' /\ ViewType'
    BY <1>3, <2>2, AxesReqType DEF AxesRefused
  <2> QED BY <1>3, <2>3, Frames, OpIs DEF AxesRefused
<1>4. CASE AxesCommit
  <2>1. AskType' /\ OpType'
    BY <1>4, OpBegins, OpIs DEF AxesCommit, AskType, ReqType
  <2> QED BY <1>4, <2>1, Frames DEF AxesCommit
<1>5. CASE EstopSweep
  <2>1. NodeType' /\ MaskType'
    BY <1>5 DEF EstopSweep, NodeType, MaskType
  <2>2. StopType'
    BY <1>5 DEF EstopSweep, StopType
  <2> QED BY <1>5, <2>1, <2>2, Frames DEF EstopSweep, core0Vars
<1>6. CASE ObserveSwept
  <2>1. StopType' /\ ViewType'
    BY <1>6, Wraps DEF ObserveSwept, StopType, ViewType
  <2> QED BY <1>6, <2>1, Frames DEF ObserveSwept
<1>7. CASE UnstopAsk \/ BusSweepAsk
  <2>1. op \in Polls /\ UNCHANGED <<reqVars, askVars, stopVars, busVars>>
    BY <1>7, OpShape DEF UnstopAsk, BusSweepAsk
  <2>2. UnstopLeft \subseteq Nodes
    BY NoneIs DEF UnstopLeft, busTouched, MaskType, TableType
  <2>3. PICK n, o :
          /\ n \in Nodes
          /\ SlotMakeSafe(n, o)
          /\ op' = [op EXCEPT !.asked = @ \cup {n}, !.bad = IF o = "ok" THEN @ ELSE @ \cup {n}]
    BY <1>7, <2>2 DEF UnstopAsk, BusSweepAsk
  <2>4. TableType' /\ ViewType' /\ DatumType' /\ NodeType' /\ MaskType'
    BY <2>3, SafeType
  <2>5. OpType'
    BY <2>1, <2>3, OpAsks, OpIs
  <2> QED BY <2>1, <2>4, <2>5, Frames
<1>8. CASE UnstopEnds
  <2>1. NoMap \in Maps /\ {} \in SUBSET Slots /\ {} \subseteq Named(NoMap)
    BY NoneIs
  <2>2. ReqType' /\ AskType' /\ ViewType' /\ StopType'
    <3>1. CASE op.bad # {}
      BY <1>8, <3>1, Frames DEF UnstopEnds, StopType
    <3>2. CASE op.bad = {}
      <4>1. ReqType' /\ ViewType'
        BY <1>8, <2>1, <3>2, AxesReqType DEF UnstopEnds
      <4> QED BY <1>8, <3>2, <4>1 DEF UnstopEnds, AskType, StopType
    <3> QED BY <3>1, <3>2
  <2> QED BY <1>8, <2>2, Frames, OpIs DEF UnstopEnds
<1>9. CASE BusSweepEnds
  <2>1. op \in Polls
    BY <1>9, OpShape DEF BusSweepEnds
  <2>2. BusType'
    BY <1>9, <2>1 DEF BusSweepEnds, BusType, Polls
  <2>3. ReqType' /\ ViewType' /\ OpType'
    BY <1>9, Frames, OpIs, AxesMapTypes, NoneIs DEF BusSweepEnds
  <2> QED BY <1>9, <2>2, <2>3, Frames DEF BusSweepEnds
<1>10. CASE StreamStep
  BY <1>10, StepTypes DEF StreamStep
<1>11. CASE ParkLegEnds
  <2>1. PICK n \in Steppers \cap nEnabled \cap nDatum :
          /\ nodeOrigin[n] # None
          /\ nPos' = [nPos EXCEPT ![n] = Plus(@, 1)]
          /\ truth' = [truth EXCEPT ![n] = Plus(@, 1)]
          /\ UNCHANGED <<nSlot, nDatum, nEnabled, lost, floating>>
          /\ OriginAdopt(n, nPos'[n]) \/ OriginInvalidate({n})
    BY <1>11 DEF ParkLegEnds
  <2>2. n \in Nodes
    BY NoneIs
  <2>3. Plus(nPos[n], 1) \in Pos /\ Plus(truth[n], 1) \in Pos
    BY <2>2, Wraps DEF NodeType
  <2>4. NodeType' /\ nPos'[n] \in Pos
    BY <2>1, <2>2, <2>3 DEF NodeType
  <2>5. ViewType' /\ DatumType'
    BY <2>1, <2>2, <2>4, AdoptType, InvalidateType
  <2> QED BY <1>11, <2>4, <2>5, Frames DEF ParkLegEnds
<1> QED BY <1>1, <1>2, <1>3, <1>4, <1>5, <1>6, <1>7, <1>8, <1>9, <1>10, <1>11 DEF Core

(* A make-safe that the node confirms to the operator also leaves the requests. *)
Dropped(n, o) ==
  /\ AskMakeSafe(n, o)
  /\ slotNode' = [s \in Slots |-> IF slotNode[s] = n THEN None ELSE slotNode[s]]
  /\ slotFenced' = slotFenced \ Holds(n)
  /\ slotReq' = [s \in Slots |-> IF slotReq[s] = n THEN None ELSE slotReq[s]]
  /\ axesReq' = [s \in Slots |-> IF axesReq[s] = n THEN None ELSE axesReq[s]]
  /\ axesPending' = {s \in axesPending : axesReq[s] # n}
  /\ LET gone == {k \in Slots : AxisNodeOf(k, slotNode', slotFenced', axesReq', axesPending') = None}
     IN /\ machinePos' = [k \in Slots |-> IF k \in gone THEN 0 ELSE machinePos[k]]
        /\ axes_homed' = axes_homed \ gone
  /\ UNCHANGED datumVars

LEMMA MapDrops ==
  ASSUME NEW m \in Maps, NEW n \in Nodes
  PROVE  [s \in Slots |-> IF m[s] = n THEN None ELSE m[s]] \in Maps
BY DEF Maps

LEMMA DropTypes ==
  ASSUME Core0Type, NodeType, MaskType, NEW n \in Nodes, NEW o, Dropped(n, o),
         UNCHANGED <<haveSlotReq, fromAxes>>
  PROVE  Core0Type' /\ NodeType' /\ MaskType'
<1> USE DEF Core0Type
<1>1. NodeType' /\ MaskType'
  BY MakeSafeType DEF Dropped
<1>2. TableType'
  BY DEF Dropped, TableType, Holds
<1>3. AskType'
  BY MapDrops DEF Dropped, AskType
<1>4. ReqType'
  <2>1. axesReq' \in Maps
    BY MapDrops DEF Dropped, ReqType
  <2> QED BY <2>1 DEF Dropped, ReqType, Named
<1>5. ViewType'
  <2>1. PICK gone \in SUBSET Slots :
          /\ machinePos' = [k \in Slots |-> IF k \in gone THEN 0 ELSE machinePos[k]]
          /\ axes_homed' = axes_homed \ gone
    BY DEF Dropped
  <2> QED BY <2>1, Wraps DEF ViewType
<1>6. DatumType'
  BY DEF Dropped, datumVars, DatumType
<1> QED BY <1>1, <1>2, <1>3, <1>4, <1>5, <1>6

LEMMA CommandTypes ==
  ASSUME Typed, Command
  PROVE  Typed'
<1> USE DEF Typed, Core0Type
<1>1. CASE cmdSlotMap
  <2>1. AskType' /\ OpType'
    BY <1>1, OpBegins, OpIs DEF cmdSlotMap, AskType
  <2> QED BY <1>1, <2>1, Frames DEF cmdSlotMap
<1>2. CASE cmdAxesMap
  <2>1. ReqType' /\ ViewType' /\ OpType'
    BY <1>2, AxesMapTypes DEF cmdAxesMap
  <2> QED BY <1>2, <2>1, Frames DEF cmdAxesMap
<1>3. CASE cmdUnalarm
  <2>1. NoOld \in Reqs
    BY NoneIs DEF NoOld, Reqs
  <2>2. OpType'
    BY <1>3, <2>1, OpBegins, OpIs DEF cmdUnalarm
  <2> QED BY <1>3, <2>2, Frames DEF cmdUnalarm, core0Vars
<1>4. CASE cmdSetOrigin
  <2>1. PICK n, o :
          /\ n \in Steppers
          /\ nDatum' = IF Heard(o) THEN nDatum \cup {n} ELSE nDatum
          /\ floating' = IF ~Heard(o) THEN floating
                         ELSE IF n \in nEnabled THEN floating \ {n} ELSE floating \cup {n}
          /\ UNCHANGED <<nSlot, nPos, nEnabled, truth, lost>>
          /\ Noted(n, o)
          /\ IF o = "ok" THEN OriginRecord(n, nPos[n], truth[n]) ELSE OriginInvalidate({n})
    BY <1>4 DEF cmdSetOrigin
  <2>2. n \in Nodes
    BY <2>1, NoneIs
  <2>3. NodeType' /\ MaskType'
    BY <2>1, <2>2, NotedType DEF NodeType
  <2>4. ViewType' /\ DatumType'
    BY <2>1, <2>2, RecordType, InvalidateType DEF NodeType
  <2> QED BY <1>4, <2>3, <2>4, Frames DEF cmdSetOrigin
<1>5. CASE cmdSetProbe
  <2>1. PICK k \in Slots : /\ axisNode(k) # None /\ nodeOrigin[axisNode(k)] # None
                           /\ probeZ' = [probeZ EXCEPT ![axisNode(k)] = nodeOrigin[axisNode(k)]]
    BY <1>5 DEF cmdSetProbe
  <2>2. axisNode(k) \in Nodes
    BY <2>1, AxisNodeType
  <2>3. DatumType'
    BY <1>5, <2>1, <2>2 DEF cmdSetProbe, DatumType
  <2> QED BY <1>5, <2>3, Frames DEF cmdSetProbe
<1>6. CASE cmdUnprobe
  <2>1. DatumType'
    BY <1>6, WithoutType DEF cmdUnprobe, DatumType
  <2> QED BY <1>6, <2>1, Frames DEF cmdUnprobe
<1>7. CASE cmdEnable
  <2>1. NodeType' /\ MaskType'
    BY <1>7, NoneIs, NotedType DEF cmdEnable, Energise, NodeType
  <2> QED BY <1>7, <2>1, Frames DEF cmdEnable, core0Vars
<1>8. CASE cmdDisable
  <2>1. NodeType' /\ MaskType'
    BY <1>8, NoneIs, NotedType DEF cmdDisable, Release, NodeType
  <2>2. ViewType' /\ DatumType'
    BY <1>8, InvalidateType DEF cmdDisable
  <2> QED BY <1>8, <2>1, <2>2, Frames DEF cmdDisable
<1>9. CASE cmdAxesEnableOff
  <2>1. NodeType' /\ MaskType'
    BY <1>9 DEF cmdAxesEnableOff, Release, NodeType, MaskType
  <2>2. ViewType' /\ DatumType'
    BY <1>9, InvalidateType DEF cmdAxesEnableOff
  <2> QED BY <1>9, <2>1, <2>2, Frames DEF cmdAxesEnableOff
<1>10. CASE cmdBusEnable
  <2>1. NodeType' /\ MaskType'
    BY <1>10, NoneIs DEF cmdBusEnable, Energise, Release, NodeType, MaskType
  <2>2. ViewType' /\ DatumType'
    BY <1>10, InvalidateType, Frames DEF cmdBusEnable
  <2> QED BY <1>10, <2>1, <2>2, Frames DEF cmdBusEnable
<1>11. CASE cmdMakeSafe
  <2>1. PICK n, o :
          /\ n \in Nodes
          /\ \/ o # "ok" /\ SlotMakeSafe(n, o) /\ UNCHANGED <<slotReq, axesReq, axesPending>>
             \/ o = "ok" /\ Dropped(n, o)
    BY <1>11 DEF cmdMakeSafe, Dropped
  <2>2. UNCHANGED <<haveSlotReq, fromAxes, stopVars, busVars, op>>
    BY <1>11 DEF cmdMakeSafe
  <2>3. CASE SlotMakeSafe(n, o) /\ UNCHANGED <<slotReq, axesReq, axesPending>>
    <3>1. TableType' /\ ViewType' /\ DatumType' /\ NodeType' /\ MaskType'
      BY <2>1, <2>3, SafeType
    <3>2. ReqType' /\ AskType'
      BY <2>2, <2>3 DEF ReqType, AskType
    <3> QED BY <2>2, <3>1, <3>2, Frames
  <2>4. CASE Dropped(n, o)
    BY <2>1, <2>2, <2>4, DropTypes, Frames DEF AskType
  <2> QED BY <2>1, <2>3, <2>4
<1>12. CASE cmdBusExclude
  <2>1. BusType'
    BY <1>12 DEF cmdBusExclude, BusType
  <2> QED BY <1>12, <2>1, Frames DEF cmdBusExclude, core0Vars
<1>13. CASE cmdStep
  <2>1. PICK n \in nodeEnabled : Holds(n) # {} /\ SlotStep(First(Holds(n)))
    BY <1>13 DEF cmdStep
  <2>2. First(Holds(n)) \in Slots
    <3>1. Holds(n) \in SUBSET Slots
      BY DEF Holds
    <3> QED BY <2>1, <3>1, FirstIs
  <2> QED BY <2>1, <2>2, StepTypes
<1>14. CASE cmdStop
  <2>1. StopType'
    BY <1>14 DEF cmdStop, StopType
  <2>2. DatumType'
    BY <1>14, WithoutType DEF cmdStop, DatumType
  <2>3. TableType'
    BY <1>14 DEF cmdStop, TableType
  <2>4. ViewType'
    BY <1>14 DEF cmdStop, ViewType
  <2> QED BY <1>14, <2>1, <2>2, <2>3, <2>4, Frames DEF cmdStop
<1>15. CASE cmdUnstop
  BY <1>15, Frames, OpBegins, OpIs DEF cmdUnstop, core0Vars
<1>16. CASE cmdReset
  <2>1. ReqType'
    BY <1>16, NoneIs DEF cmdReset, ReqType
  <2>2. AskType' /\ StopType'
    BY <1>16 DEF cmdReset, AskType, StopType
  <2>3. ViewType'
    BY <1>16, Wraps DEF cmdReset, ViewType
  <2> QED BY <1>16, <2>1, <2>2, <2>3, Frames, OpBegins, OpIs DEF cmdReset
<1> QED BY <1>1, <1>2, <1>3, <1>4, <1>5, <1>6, <1>7, <1>8, <1>9, <1>10, <1>11, <1>12, <1>13, <1>14,
           <1>15, <1>16 DEF Command

LEMMA UpsetTypes ==
  ASSUME Typed, NodeResets \/ HandMoves
  PROVE  Typed'
<1> USE DEF Typed, Core0Type
<1>1. CASE NodeResets
  <2>1. NodeType'
    BY <1>1, Wraps DEF NodeResets, NodeType
  <2> QED BY <1>1, <2>1, Frames DEF NodeResets, core0Vars
<1>2. CASE HandMoves
  <2>1. \A n \in Nodes : Plus(truth[n], 1) \in Pos
    BY Wraps DEF NodeType
  <2>2. NodeType'
    BY <1>2, <2>1, NoneIs DEF HandMoves, NodeType
  <2> QED BY <1>2, <2>2, Frames DEF HandMoves, core0Vars
<1> QED BY <1>1, <1>2

LEMMA TypeStep ==
  ASSUME Typed, [Next]_vars
  PROVE  Typed'
<1>1. CASE Core
  BY <1>1, CoreTypes
<1>2. CASE Command
  BY <1>2, CommandTypes
<1>3. CASE NodeResets \/ HandMoves
  BY <1>3, UpsetTypes
<1>4. CASE UNCHANGED vars
  BY <1>4, Frames DEF vars, core0Vars, Typed, Core0Type
<1> QED BY <1>1, <1>2, <1>3, <1>4 DEF Next

LEMMA CountStep ==
  ASSUME CountType, [Next]_vars
  PROVE  CountType'
<1>1. MaxCommands \in Nat /\ MaxUpsets \in Nat
  BY SlotAssumption
<1>2. CASE UNCHANGED <<commands, upsets>>
  BY <1>2 DEF CountType
<1>3. CASE commands < MaxCommands /\ commands' = commands + 1 /\ UNCHANGED upsets
  BY <1>1, <1>3 DEF CountType
<1>4. CASE upsets < MaxUpsets /\ upsets' = upsets + 1 /\ UNCHANGED commands
  BY <1>1, <1>4 DEF CountType
<1> QED BY <1>2, <1>3, <1>4 DEF Next, vars

LEMMA TypeInit == Init => Typed /\ CountType
<1> SUFFICES ASSUME Init PROVE Typed /\ CountType
  OBVIOUS
<1>1. TableType /\ ReqType /\ AskType
  BY NoneIs DEF Init, TableType, ReqType, AskType, NoMap
<1>2. ViewType /\ DatumType
  BY Wraps DEF Init, ViewType, DatumType
<1>3. StopType /\ BusType /\ MaskType
  BY DEF Init, StopType, BusType, MaskType
<1>4. OpType
  BY OpBegins DEF Init, OpType
<1>5. nSlot \in [Nodes -> Slots \cup {None}]
  <2>1. \A n \in Nodes : (\E s \in Slots : Default[s] = n) =>
                           (CHOOSE s \in Slots : Default[s] = n) \in Slots
    OBVIOUS
  <2> QED BY <2>1 DEF Init
<1>6. NodeType
  BY <1>5, Wraps DEF Init, NodeType
<1>7. CountType
  BY SlotAssumption DEF Init, CountType
<1> QED BY <1>1, <1>2, <1>3, <1>4, <1>6, <1>7 DEF Typed, Core0Type

(* Every variable keeps its type, whatever the operator, the nodes and the *)
(* bus do.                                                                 *)
THEOREM SlotType == Spec => []TypeOK
<1>1. Init => Typed /\ CountType
  BY TypeInit
<1>2. (Typed /\ CountType) /\ [Next]_vars => (Typed /\ CountType)'
  BY TypeStep, CountStep
<1>3. Typed /\ CountType => TypeOK
  BY TypedIs
<1> QED BY <1>1, <1>2, <1>3, PTL DEF Spec

----------------------------------------------------------------------------
(* The table and the bus.                                                  *)

(* A slot is bound when the table gives it a node and no fence.            *)
Bound(s) == slotNode[s] # None /\ s \notin slotFenced

BoundOnce    == \A s, t \in Slots : Bound(s) /\ Bound(t) /\ slotNode[s] = slotNode[t] => s = t
BoundListens == \A s \in Slots : Bound(s) => slotNode[s] \in lost \/ nSlot[slotNode[s]] = s

(* What the handler in progress has done so far: a park has unbound the    *)
(* slots it passed, an engage has bound what was asked in those and has    *)
(* nothing bound ahead, and a poll has freed who answered.                 *)
Progress ==
  /\ op.phase = "park" => \A s \in Slots : Bound(s) => s >= op.at
  /\ op.phase = "engage" => \A s \in Slots : Bound(s) => s < op.at /\ slotNode[s] = slotReq[s]
  /\ op.phase = "sweep" => \A n \in op.asked \ op.bad : nSlot[n] = None
  /\ op.phase = "unstop" => \A n \in op.asked \ op.bad : Holds(n) = {} /\ n \notin nodeEnabled

(* Until Core 1 has swept a stopped machine, nothing is in progress and    *)
(* nothing is bound.                                                       *)
Stopped == latched /\ ~swept => op = Idle /\ axes_homed = {} /\ \A s \in Slots : ~Bound(s)

TableInv == BoundOnce /\ BoundListens /\ OneListener /\ Progress /\ Stopped

(* A step that binds nothing: what stays bound listens as it did, and no   *)
(* node starts to listen.                                                  *)
Shrinks ==
  /\ \A s \in Slots : Bound(s)' => /\ Bound(s) /\ slotNode'[s] = slotNode[s]
                                   /\ \/ slotNode[s] \in lost'
                                      \/ slotNode[s] \notin lost /\ nSlot'[slotNode[s]] = nSlot[slotNode[s]]
  /\ \A n \in Nodes : nSlot'[n] # None => /\ nSlot'[n] = nSlot[n]
                                          /\ slotNode[nSlot[n]] = n => slotNode'[nSlot[n]] = n

LEMMA StillShrinks == UNCHANGED <<slotNode, slotFenced, nSlot, lost>> => Shrinks
BY DEF Shrinks, Bound

LEMMA ShrinksKeeps ==
  ASSUME BoundOnce, BoundListens, Shrinks
  PROVE  BoundOnce' /\ BoundListens'
<1>1. BoundOnce'
  BY DEF BoundOnce, Shrinks
<1>2. BoundListens'
  BY DEF BoundListens, Shrinks
<1> QED BY <1>1, <1>2

LEMMA ShrinksListens ==
  ASSUME OneListener, Shrinks, UNCHANGED mute, op.phase = "sweep" => op'.phase = "sweep"
  PROVE  OneListener'
BY DEF OneListener, Shrinks

(* What a make-safe does to the table and to the node.                     *)
LEMMA SafeShrinks ==
  ASSUME TableType, NodeType, MaskType, NEW n \in Nodes, NEW o, SlotMakeSafe(n, o)
  PROVE  /\ Shrinks
         /\ \A s \in Slots : slotNode'[s] = slotNode[s] \/ slotNode'[s] = None
         /\ nodeEnabled' \subseteq nodeEnabled
         /\ o = "ok" => Holds(n)' = {} /\ nSlot'[n] = None /\ n \notin nodeEnabled'
<1>1. /\ nSlot' = IF Heard(o) THEN [nSlot EXCEPT ![n] = None] ELSE nSlot
      /\ lost' = lost
      /\ o = "ok" => Heard(o)
  BY DEF SlotMakeSafe, AskMakeSafe, Heard
<1>2. nodeEnabled' \subseteq nodeEnabled /\ (o = "ok" => n \notin nodeEnabled')
  BY DEF SlotMakeSafe, AskMakeSafe, Noted, Heard
<1>3. \A m \in Nodes : /\ nSlot'[m] # None => nSlot'[m] = nSlot[m]
                       /\ nSlot'[m] = nSlot[m] \/ m = n
                       /\ o = "ok" /\ m = n => nSlot'[m] = None
  BY <1>1 DEF NodeType
<1>4. \A s \in Slots : s \in Holds(n) <=> slotNode[s] = n
  BY DEF Holds
<1>5. ASSUME NEW s \in Slots
      PROVE  /\ slotNode'[s] = slotNode[s] \/ (slotNode'[s] = None /\ slotNode[s] = n /\ o = "ok")
             /\ Bound(s)' => Bound(s) /\ slotNode'[s] = slotNode[s] /\ slotNode[s] # n
             /\ o = "ok" => slotNode'[s] # n
  <2>1. CASE o = "ok" /\ SlotUnbind(Holds(n))
    BY <1>4, <2>1, NoneIs DEF SlotUnbind, Bound
  <2>2. CASE o # "ok" /\ Holds(n) = {} /\ UNCHANGED tableVars
    BY <1>4, <2>2 DEF tableVars, Bound
  <2>3. CASE o # "ok" /\ SlotFence(Holds(n), n)
    BY <1>4, <2>3 DEF SlotFence, Bound
  <2> QED BY <2>1, <2>2, <2>3 DEF SlotMakeSafe
<1>6. Shrinks
  <2>1. ASSUME NEW s \in Slots, Bound(s)'
        PROVE  /\ Bound(s) /\ slotNode'[s] = slotNode[s]
               /\ \/ slotNode[s] \in lost'
                  \/ slotNode[s] \notin lost /\ nSlot'[slotNode[s]] = nSlot[slotNode[s]]
    <3>1. slotNode[s] \in Nodes /\ slotNode[s] # n
      BY <1>5, <2>1 DEF TableType, Bound
    <3> QED BY <1>1, <1>3, <1>5, <2>1, <3>1
  <2>2. ASSUME NEW m \in Nodes, nSlot'[m] # None
        PROVE  nSlot'[m] = nSlot[m] /\ (slotNode[nSlot[m]] = m => slotNode'[nSlot[m]] = m)
    <3>1. nSlot[m] \in Slots \cup {None}
      BY DEF NodeType
    <3>2. nSlot'[m] = nSlot[m] /\ ~(o = "ok" /\ m = n)
      BY <1>3, <2>2
    <3> QED BY <1>5, <2>2, <3>1, <3>2
  <2> QED BY <2>1, <2>2 DEF Shrinks
<1>7. o = "ok" => Holds(n)' = {} /\ nSlot'[n] = None
  BY <1>3, <1>5 DEF Holds
<1> QED BY <1>2, <1>5, <1>6, <1>7

LEMMA TableStep ==
  ASSUME BoundOnce, BoundListens, OneListener, Shrinks, UNCHANGED mute,
         op.phase = "sweep" => op'.phase = "sweep", Progress', Stopped'
  PROVE  TableInv'
BY ShrinksKeeps, ShrinksListens DEF TableInv

LEMMA BusyKeepsStopped == Stopped /\ op # Idle /\ UNCHANGED stopVars => Stopped'
BY DEF Stopped, stopVars

LEMMA NothingYet == op'.phase \in {"idle", "safe", "check"} => Progress'
BY DEF Progress

LEMMA ParkShrinks ==
  ASSUME TableType, NodeType, BoundOnce, NEW s \in Holders, NEW n, n = slotNode[s], NEW o,
         AskEngage(n, None, o), IF o # "ok" THEN SlotFence({s}, n) ELSE Parked(s, n)
  PROVE  Shrinks /\ \A t \in Slots : Bound(t)' => t # s
<1>1. s \in Slots /\ n \in Nodes /\ Bound(s)
  BY DEF Holders, TableType, Bound
<1>2. /\ nSlot' = IF Heard(o) THEN [nSlot EXCEPT ![n] = None] ELSE nSlot
      /\ lost' = IF o = "ok" THEN lost \ {n} ELSE lost
      /\ o = "ok" => Heard(o)
  BY DEF AskEngage, Heard
<1>3. \A m \in Nodes : /\ nSlot'[m] # None => nSlot'[m] = nSlot[m]
                       /\ nSlot'[m] = nSlot[m] \/ m = n
                       /\ o = "ok" /\ m = n => nSlot'[m] = None
                       /\ m # n => (m \in lost' <=> m \in lost)
  BY <1>1, <1>2 DEF NodeType
<1>4. ASSUME NEW t \in Slots
      PROVE  /\ slotNode'[t] = slotNode[t] \/ (slotNode'[t] = None /\ slotNode[t] = n /\ o = "ok")
             /\ Bound(t)' => Bound(t) /\ slotNode'[t] = slotNode[t] /\ t # s
  <2>1. CASE o # "ok"
    BY <1>1, <2>1 DEF SlotFence, Bound
  <2>2. CASE o = "ok"
    BY <1>1, <2>2, NoneIs DEF Parked, SlotUnbind, Bound
  <2> QED BY <2>1, <2>2
<1>5. ASSUME NEW t \in Slots, Bound(t)'
      PROVE  \/ slotNode[t] \in lost'
             \/ slotNode[t] \notin lost /\ nSlot'[slotNode[t]] = nSlot[slotNode[t]]
  <2>1. slotNode[t] \in Nodes
    BY <1>4, <1>5 DEF Bound, TableType
  <2>2. slotNode[t] # n
    BY <1>1, <1>4, <1>5 DEF BoundOnce
  <2> QED BY <1>3, <2>1, <2>2
<1>6. ASSUME NEW m \in Nodes, nSlot'[m] # None
      PROVE  nSlot'[m] = nSlot[m] /\ (slotNode[nSlot[m]] = m => slotNode'[nSlot[m]] = m)
  <2>1. nSlot[m] \in Slots \cup {None}
    BY DEF NodeType
  <2>2. nSlot'[m] = nSlot[m] /\ ~(o = "ok" /\ m = n)
    BY <1>3, <1>6
  <2> QED BY <1>4, <1>6, <2>1, <2>2
<1> QED BY <1>4, <1>5, <1>6 DEF Shrinks

(* The slots an engage has reached are free, and the node it asks for is   *)
(* bound nowhere.                                                          *)
LEMMA EngageIsFree ==
  ASSUME AskType, TableInv, op \in Applies, op.phase = "engage", NEW s \in Wanted \ slotFenced, s >= op.at
  PROVE  /\ s \in Slots /\ slotReq[s] \in Nodes /\ slotNode[s] = None
         /\ \A t \in Slots : Bound(t) => t < s /\ slotNode[t] = slotReq[t] /\ slotNode[t] # slotReq[s]
<1>1. s \in Slots /\ slotReq[s] # None
  BY DEF Wanted
<1>2. slotReq[s] \in Nodes
  BY <1>1, MapIs DEF AskType
<1>3. \A t \in Slots : t \in Int
  BY SlotAssumption DEF Slots
<1>4. op.at \in Int
  BY DEF Applies
<1>5. \A t \in Slots : Bound(t) => t < op.at /\ slotNode[t] = slotReq[t]
  BY DEF TableInv, Progress
<1>6. ASSUME NEW t \in Slots, Bound(t) PROVE t < s /\ slotNode[t] # slotReq[s]
  <2>1. t < s /\ t # s
    BY <1>1, <1>3, <1>4, <1>5, <1>6
  <2> QED BY <1>1, <1>5, <1>6, <2>1, MapIs DEF AskType
<1>7. slotNode[s] = None
  <2>1. ~Bound(s)
    BY <1>1, <1>3, <1>6
  <2> QED BY <2>1 DEF Bound
<1> QED BY <1>1, <1>2, <1>5, <1>6, <1>7

(* An engage ends with its node bound in the slot, fenced there, or, if it *)
(* refused, where it was.                                                  *)
LEMMA EngageAsked ==
  ASSUME TableType, NodeType, NEW s \in Slots, NEW n \in Nodes, slotNode[s] = None,
         NEW o, AskEngage(n, s, o)
  PROVE  /\ \A m \in Nodes : m # n => nSlot'[m] = nSlot[m] /\ (m \in lost' <=> m \in lost)
         /\ nSlot'[n] = nSlot[n] \/ nSlot'[n] = s
         /\ o = "ok" => nSlot'[n] = s
         /\ o # "ok" => lost' = lost
         /\ o = "nak" => nSlot' = nSlot
         /\ \A m \in Nodes : nSlot[m] \in Slots \cup {None}
BY DEF AskEngage, Heard, NodeType

LEMMA EngageTable ==
  ASSUME Typed, TableInv, ApplyEngage
  PROVE  TableInv'
<1> USE DEF Typed, Core0Type
<1>1. op \in Applies /\ op.phase = "engage" /\ Others /\ op # Idle
  BY EngageDoes, OpShape DEF Idle
<1>2. UNCHANGED <<mute, slotReq>> /\ Stopped'
  BY <1>1, BusyKeepsStopped DEF Others, TableInv, busVars, askVars
<1>3. CASE op' = Idle /\ Still
  <2>1. Shrinks
    BY <1>3, StillShrinks DEF Still, tableVars, nodeVars
  <2> QED BY <1>1, <1>2, <1>3, <2>1, NothingYet, TableStep, OpBegins DEF TableInv
<1>4. ASSUME NEW s \in Wanted \ slotFenced, NEW n, n = slotReq[s], NEW o, s >= op.at, AskEngage(n, s, o),
             \/ o = "ok" /\ SlotBind(s, n) /\ op' = Next1(s)
             \/ o = "nak" /\ op' = Idle /\ UNCHANGED <<tableVars, viewVars, datumVars>>
             \/ o \notin {"ok", "nak"} /\ op' = Idle /\ SlotFence({s}, n)
      PROVE  TableInv'
  <2>1. /\ s \in Slots /\ n \in Nodes /\ slotNode[s] = None /\ s \notin slotFenced
        /\ \A t \in Slots : Bound(t) => t < s /\ slotNode[t] = slotReq[t] /\ slotNode[t] # n
    BY <1>1, <1>4, EngageIsFree
  <2>2. /\ \A m \in Nodes : m # n => nSlot'[m] = nSlot[m] /\ (m \in lost' <=> m \in lost)
        /\ nSlot'[n] = nSlot[n] \/ nSlot'[n] = s
        /\ o = "ok" => nSlot'[n] = s
        /\ o # "ok" => lost' = lost
        /\ o = "nak" => nSlot' = nSlot
        /\ \A m \in Nodes : nSlot[m] \in Slots \cup {None}
    BY <1>4, <2>1, EngageAsked
  <2>3. CASE o = "nak"
    <3>1. Shrinks
      BY <1>4, <2>2, <2>3, StillShrinks DEF tableVars
    <3> QED BY <1>1, <1>2, <1>4, <2>3, <3>1, NothingYet, TableStep, OpBegins DEF TableInv
  <2>4. ASSUME o # "nak", /\ slotNode'[s] = n
                          /\ \A t \in Slots : t # s /\ slotNode[t] # n => slotNode'[t] = slotNode[t],
               \A t \in Slots : Bound(t)' => (t = s /\ o = "ok") \/ (Bound(t) /\ slotNode'[t] = slotNode[t])
        PROVE  BoundOnce' /\ BoundListens' /\ OneListener'
    <3>1. BoundOnce'
      BY <2>1, <2>4 DEF BoundOnce, TableInv
    <3>2. BoundListens'
      <4>1. \A t \in Slots : Bound(t) => slotNode[t] \in Nodes
        BY DEF Bound, TableType
      <4> QED BY <2>1, <2>2, <2>4, <4>1 DEF BoundListens, TableInv
    <3>3. OneListener'
      <4>1. ASSUME NEW m \in Nodes, op'.phase # "sweep", m \notin mute', nSlot'[m] # None
            PROVE  slotNode'[nSlot'[m]] = m
        <5>1. CASE nSlot'[m] = nSlot[m]
          <6>1. slotNode[nSlot[m]] = m /\ nSlot[m] \in Slots
            BY <1>1, <1>2, <2>2, <4>1, <5>1 DEF OneListener, TableInv
          <6>2. nSlot[m] # s
            BY <2>1, <6>1, NoneIs
          <6>3. CASE m # n
            BY <2>4, <5>1, <6>1, <6>2, <6>3
          <6>4. CASE m = n
            BY <1>4, <2>2, <2>4, <5>1, <6>1, <6>2, <6>4 DEF SlotFence, TableType
          <6> QED BY <6>3, <6>4
        <5>2. CASE m = n /\ nSlot'[m] = s
          BY <2>4, <5>2
        <5> QED BY <2>2, <5>1, <5>2
      <4> QED BY <4>1 DEF OneListener
    <3> QED BY <3>1, <3>2, <3>3
  <2>5. CASE o = "ok"
    <3>1. SlotBind(s, n) /\ op' = Next1(s)
      BY <1>4, <2>5
    <3>2. /\ slotNode' = [t \in Slots |-> IF t = s THEN n ELSE IF t \in Holds(n) \ {s} THEN None ELSE slotNode[t]]
          /\ slotFenced' = slotFenced \ (Holds(n) \ {s})
      BY <3>1 DEF SlotBind
    <3>3. \A t \in Slots : t \in Holds(n) <=> slotNode[t] = n
      BY DEF Holds
    <3>4. \A t \in Slots : Bound(t)' => (t = s /\ o = "ok") \/ (Bound(t) /\ slotNode'[t] = slotNode[t])
      BY <2>5, <3>2, <3>3 DEF Bound
    <3>5. /\ slotNode'[s] = n
          /\ \A t \in Slots : t # s /\ slotNode[t] # n => slotNode'[t] = slotNode[t]
      BY <2>1, <3>2, <3>3
    <3>6. BoundOnce' /\ BoundListens' /\ OneListener'
      BY <2>4, <2>5, <3>4, <3>5
    <3>7. Progress'
      <4>1. op'.phase = "engage" /\ op'.at = s + 1
        BY <1>1, <2>1, <3>1, OpGoesOn
      <4>2. \A t \in Slots : t \in Int
        BY SlotAssumption DEF Slots
      <4>3. ASSUME NEW t \in Slots, Bound(t)' PROVE t < s + 1 /\ slotNode'[t] = slotReq'[t]
        <5>1. CASE t = s
          BY <1>2, <1>4, <2>1, <3>5, <4>2, <5>1
        <5>2. CASE Bound(t) /\ slotNode'[t] = slotNode[t]
          BY <1>2, <2>1, <4>2, <5>2
        <5> QED BY <3>4, <4>3, <5>1, <5>2
      <4> QED BY <4>1, <4>3 DEF Progress
    <3> QED BY <1>2, <3>6, <3>7 DEF TableInv
  <2>6. CASE o \notin {"ok", "nak"}
    <3>1. SlotFence({s}, n) /\ op' = Idle
      BY <1>4, <2>6
    <3>2. \A t \in Slots : Bound(t)' => (t = s /\ o = "ok") \/ (Bound(t) /\ slotNode'[t] = slotNode[t])
      BY <3>1 DEF SlotFence, Bound
    <3>3. /\ slotNode'[s] = n
          /\ \A t \in Slots : t # s /\ slotNode[t] # n => slotNode'[t] = slotNode[t]
      BY <2>1, <3>1 DEF SlotFence
    <3>4. BoundOnce' /\ BoundListens' /\ OneListener'
      BY <2>4, <2>6, <3>2, <3>3
    <3> QED BY <1>2, <3>1, <3>4, NothingYet, OpBegins DEF TableInv
  <2> QED BY <2>3, <2>5, <2>6
<1> QED BY <1>3, <1>4, EngageDoes

LEMMA SafeParkTable ==
  ASSUME Typed, TableInv, ApplySafe \/ ApplyPark
  PROVE  TableInv'
<1> USE DEF Typed, Core0Type
<1>1. op \in Applies /\ Others /\ op # Idle
  BY SafeDoes, ParkDoes, OpShape DEF Idle
<1>2. UNCHANGED mute /\ Stopped' /\ op.phase # "sweep" /\ op.at \in Int /\ \A t \in Slots : t \in Nat
  BY <1>1, BusyKeepsStopped, SlotAssumption DEF Others, TableInv, busVars, Applies, Slots
<1>3. Still => Shrinks /\ \A s \in Slots : Bound(s)' <=> Bound(s)
  BY StillShrinks DEF Still, tableVars, nodeVars, Bound
<1>4. CASE ApplySafe
  <2>1. op.phase = "safe"
    BY <1>4, SafeDoes
  <2>2. CASE op' = Phase("park") /\ Still
    <3>1. op'.phase = "park" /\ op'.at = 0
      BY <1>1, <2>2, OpGoesOn
    <3>2. Progress'
      BY <1>2, <3>1 DEF Progress
    <3> QED BY <1>2, <1>3, <2>2, <3>2, TableStep DEF TableInv
  <2>3. ASSUME NEW s \in Wanted \cap slotFenced, NEW o, SlotMakeSafe(slotNode[s], o), op' = Next1(s)
        PROVE  TableInv'
    <3>1. s \in Slots /\ slotNode[s] \in Nodes
      BY DEF TableType, Wanted
    <3>2. Shrinks
      BY <2>3, <3>1, SafeShrinks
    <3>3. op'.phase = "safe"
      BY <1>1, <2>1, <2>3, <3>1, OpGoesOn
    <3> QED BY <1>2, <3>2, <3>3, NothingYet, TableStep DEF TableInv
  <2> QED BY <1>4, <2>2, <2>3, SafeDoes
<1>5. CASE ApplyPark
  <2>1. op.phase = "park"
    BY <1>5, ParkDoes
  <2>2. \A t \in Slots : Bound(t) <=> t \in Holders
    BY DEF Bound, Holders
  <2>3. \A t \in Slots : Bound(t) => t >= op.at
    BY <2>1 DEF TableInv, Progress
  <2>4. CASE op' = Phase("engage") /\ Still /\ \A s \in Holders : ~(s >= op.at)
    <3>1. op'.phase = "engage"
      BY <1>1, <2>4, OpGoesOn
    <3>2. \A s \in Slots : ~Bound(s)'
      BY <1>3, <2>2, <2>3, <2>4
    <3>3. Progress'
      BY <3>1, <3>2 DEF Progress
    <3> QED BY <1>2, <1>3, <2>4, <3>3, TableStep DEF TableInv
  <2>5. ASSUME NEW s \in Holders, NEW o, \A t \in Holders : t >= op.at => s <= t,
               AskEngage(slotNode[s], None, o), op' = Next1(s),
               IF o # "ok" THEN SlotFence({s}, slotNode[s]) ELSE Parked(s, slotNode[s])
        PROVE  TableInv'
    <3>1. s \in Slots
      BY DEF Holders
    <3>2. Shrinks /\ \A t \in Slots : Bound(t)' => t # s
      BY <2>5, ParkShrinks DEF TableInv
    <3>3. op'.phase = "park" /\ op'.at = s + 1
      BY <1>1, <2>1, <2>5, <3>1, OpGoesOn
    <3>4. Progress'
      <4>1. ASSUME NEW t \in Slots, Bound(t)' PROVE t >= s + 1
        <5>1. Bound(t) /\ t # s
          BY <3>2, <4>1 DEF Shrinks
        <5>2. s <= t
          BY <2>2, <2>3, <2>5, <5>1
        <5>3. s \in Nat /\ t \in Nat
          BY <1>2, <3>1
        <5> QED BY <5>1, <5>2, <5>3
      <4> QED BY <3>3, <4>1 DEF Progress
    <3> QED BY <1>2, <3>2, <3>4, TableStep DEF TableInv
  <2> QED BY <1>5, <2>4, <2>5, ParkDoes
<1> QED BY <1>4, <1>5

(* The steps of the check, of the polls and of Core 1.                     *)
LEMMA PollTable ==
  ASSUME Typed, TableInv, UnstopAsk \/ BusSweepAsk
  PROVE  TableInv'
<1> USE DEF Typed, Core0Type
<1>1. op \in Polls /\ op # Idle /\ UNCHANGED <<reqVars, askVars, stopVars, busVars>>
  BY OpShape DEF UnstopAsk, BusSweepAsk, Idle
<1>2. UNCHANGED mute /\ Stopped'
  BY <1>1, BusyKeepsStopped DEF TableInv, busVars
<1>3. UnstopLeft \subseteq Nodes
  BY NoneIs DEF UnstopLeft, busTouched, MaskType, TableType
<1>4. PICK n, o :
        /\ n \in Nodes
        /\ SlotMakeSafe(n, o)
        /\ op' = [op EXCEPT !.asked = @ \cup {n}, !.bad = IF o = "ok" THEN @ ELSE @ \cup {n}]
  BY <1>3 DEF UnstopAsk, BusSweepAsk
<1>5. /\ op'.phase = op.phase
      /\ op'.asked \ op'.bad \subseteq (op.asked \ op.bad) \cup (IF o = "ok" THEN {n} ELSE {})
  <2>1. /\ op'.phase = op.phase /\ op'.asked = op.asked \cup {n}
        /\ op'.bad = IF o = "ok" THEN op.bad ELSE op.bad \cup {n}
    BY <1>1, <1>4, OpAsks
  <2> QED BY <2>1
<1>6. /\ Shrinks
      /\ \A s \in Slots : slotNode'[s] = slotNode[s] \/ slotNode'[s] = None
      /\ nodeEnabled' \subseteq nodeEnabled
      /\ o = "ok" => Holds(n)' = {} /\ nSlot'[n] = None /\ n \notin nodeEnabled'
  BY <1>4, SafeShrinks
<1>7. op.asked \subseteq Nodes
  BY <1>1 DEF Polls
<1>8. ASSUME NEW m \in op'.asked \ op'.bad
      PROVE  /\ op.phase = "sweep" => nSlot'[m] = None
             /\ op.phase = "unstop" => Holds(m)' = {} /\ m \notin nodeEnabled'
  <2>1. CASE o = "ok" /\ m = n
    BY <1>6, <2>1
  <2>2. CASE m \in op.asked \ op.bad
    <3>1. m \in Nodes
      BY <1>7, <2>2
    <3>2. /\ op.phase = "sweep" => nSlot[m] = None
          /\ op.phase = "unstop" => Holds(m) = {} /\ m \notin nodeEnabled
      BY <2>2 DEF TableInv, Progress
    <3>3. op.phase = "sweep" => nSlot'[m] = None
      BY <1>6, <3>1, <3>2 DEF Shrinks
    <3>4. Holds(m) = {} => Holds(m)' = {}
      BY <1>6, <3>1, NoneIs DEF Holds
    <3> QED BY <1>6, <3>2, <3>3, <3>4
  <2> QED BY <1>5, <1>8, <2>1, <2>2
<1>9. Progress'
  <2>1. op.phase \in {"unstop", "sweep"}
    BY <1>1 DEF Polls
  <2> QED BY <1>5, <1>8, <2>1 DEF Progress
<1> QED BY <1>2, <1>5, <1>6, <1>9, TableStep DEF TableInv

LEMMA CoreTable ==
  ASSUME Typed, TableInv, Core
  PROVE  TableInv'
<1> USE DEF Typed, Core0Type
<1>1. CASE ApplySafe \/ ApplyPark
  BY <1>1, SafeParkTable
<1>2. CASE ApplyEngage
  BY <1>2, EngageTable
<1>3. CASE CheckPending
  <2>1. /\ op \in Checks /\ op # Idle /\ op.phase = "check"
        /\ UNCHANGED <<axesReq, askVars, stopVars, busVars>>
    BY <1>3, CheckDoes, OpShape DEF Idle
  <2>2. PICK k, o : k \in axesPending /\ ChecksAxis(k, o)
    BY <1>3, CheckDoes
  <2>3. axesReq[k] \in Nodes /\ k \in Slots
    BY <2>2, MapIs DEF ReqType, Named
  <2>4. Shrinks
    <3>1. CASE SlotMakeSafe(axesReq[k], o)
      BY <2>3, <3>1, SafeShrinks
    <3>2. CASE AskStatus(axesReq[k], o) /\ UNCHANGED tableVars
      BY <3>2, StillShrinks DEF AskStatus, nodeVars, tableVars
    <3> QED BY <2>2, <3>1, <3>2 DEF ChecksAxis
  <2>5. op'.phase = "check"
    BY <2>1, <2>2, <2>3, OpChecks DEF ChecksAxis
  <2> QED BY <2>1, <2>4, <2>5, NothingYet, TableStep, BusyKeepsStopped DEF TableInv, busVars
<1>4. CASE AxesRefused \/ AxesCommit
  <2>1. op.phase = "check" /\ op # Idle /\ UNCHANGED <<tableVars, nodeVars, stopVars, busVars>>
    BY <1>4 DEF AxesRefused, AxesCommit, Idle
  <2>2. op'.phase \in {"idle", "safe"}
    BY <1>4, OpBegins DEF AxesRefused, AxesCommit, ReqType
  <2>3. Shrinks
    BY <2>1, StillShrinks DEF tableVars, nodeVars
  <2> QED BY <2>1, <2>2, <2>3, NothingYet, TableStep, BusyKeepsStopped DEF TableInv, busVars
<1>5. CASE EstopSweep
  <2>1. /\ op = Idle /\ \A s \in Slots : ~Bound(s)
        /\ UNCHANGED <<slotNode, slotFenced, op, mute, lost>> /\ swept'
    BY <1>5 DEF EstopSweep, TableInv, Stopped, core0Vars, tableVars, busVars
  <2>2. PICK heard : nSlot' = [n \in Nodes |-> IF n \in heard THEN None ELSE nSlot[n]]
    BY <1>5 DEF EstopSweep
  <2>3. Shrinks
    BY <2>1, <2>2 DEF Shrinks, Bound
  <2> QED BY <2>1, <2>3, NothingYet, OpBegins, TableStep DEF TableInv, Stopped
<1>6. CASE ObserveSwept \/ StreamStep \/ ParkLegEnds
  <2>1. /\ op = Idle /\ UNCHANGED <<slotNode, slotFenced, op, mute, lost, nSlot, latched, swept>>
        /\ axes_homed' \subseteq axes_homed \/ ~latched
    BY <1>6 DEF ObserveSwept, StreamStep, ParkLegEnds, SlotStep, Ready, core0Vars, tableVars, nodeVars,
                busVars, stopVars
  <2>2. Stopped'
    BY <2>1 DEF TableInv, Stopped, Bound
  <2> QED BY <2>1, <2>2, StillShrinks, NothingYet, OpBegins, TableStep DEF TableInv
<1>7. CASE UnstopAsk \/ BusSweepAsk
  BY <1>7, PollTable
<1>8. CASE UnstopEnds
  <2>1. /\ op.phase = "unstop" /\ op # Idle /\ op' = Idle
        /\ UNCHANGED <<slotNode, slotFenced, mute, lost, nSlot>>
    BY <1>8 DEF UnstopEnds, Idle, tableVars, nodeVars, busVars
  <2>2. Stopped'
    <3>1. CASE latched' = latched /\ swept' = swept
      BY <2>1, <3>1 DEF TableInv, Stopped
    <3>2. CASE ~latched'
      BY <3>2 DEF Stopped
    <3> QED BY <1>8, <3>1, <3>2 DEF UnstopEnds
  <2> QED BY <2>1, <2>2, StillShrinks, NothingYet, OpBegins, TableStep DEF TableInv
<1>9. CASE BusSweepEnds
  <2>1. /\ op.phase = "sweep" /\ op.asked = Nodes /\ op # Idle
        /\ mute' = op.bad \cap (Nodes \cup busTouched)
        /\ UNCHANGED <<tableVars, stopVars, nodeVars>>
    BY <1>9 DEF BusSweepEnds, Idle, configNodes
  <2>2. op'.phase \in {"idle", "check"}
    BY <1>9, OpBegins, AxesMapTypes, NoneIs DEF BusSweepEnds
  <2>3. OneListener'
    <3>1. \A n \in Nodes : n \notin mute' => nSlot[n] = None
      BY <2>1 DEF TableInv, Progress
    <3> QED BY <2>1, <3>1 DEF OneListener, nodeVars
  <2>4. BoundOnce' /\ BoundListens'
    BY <2>1, StillShrinks, ShrinksKeeps DEF TableInv, tableVars, nodeVars
  <2> QED BY <2>1, <2>2, <2>3, <2>4, NothingYet, BusyKeepsStopped DEF TableInv
<1> QED BY <1>1, <1>2, <1>3, <1>4, <1>5, <1>6, <1>7, <1>8, <1>9 DEF Core

LEMMA DropShrinks ==
  ASSUME TableType, NodeType, NEW n \in Nodes, Dropped(n, "ok")
  PROVE  Shrinks
<1>1. /\ nSlot' = [nSlot EXCEPT ![n] = None] /\ lost' = lost
      /\ slotNode' = [s \in Slots |-> IF slotNode[s] = n THEN None ELSE slotNode[s]]
      /\ slotFenced' = slotFenced \ Holds(n)
  BY DEF Dropped, AskMakeSafe, Heard
<1>2. ASSUME NEW s \in Slots, Bound(s)'
      PROVE  /\ Bound(s) /\ slotNode'[s] = slotNode[s]
             /\ \/ slotNode[s] \in lost'
                \/ slotNode[s] \notin lost /\ nSlot'[slotNode[s]] = nSlot[slotNode[s]]
  <2>1. Bound(s) /\ slotNode'[s] = slotNode[s] /\ slotNode[s] # n /\ slotNode[s] \in Nodes
    BY <1>1, <1>2 DEF Bound, Holds, TableType
  <2> QED BY <1>1, <2>1 DEF NodeType
<1>3. ASSUME NEW m \in Nodes, nSlot'[m] # None
      PROVE  nSlot'[m] = nSlot[m] /\ (slotNode[nSlot[m]] = m => slotNode'[nSlot[m]] = m)
  <2>1. nSlot'[m] = nSlot[m] /\ m # n
    BY <1>1, <1>3 DEF NodeType
  <2>2. nSlot[m] \in Slots
    BY <1>3, <2>1 DEF NodeType
  <2> QED BY <1>1, <2>1, <2>2
<1> QED BY <1>2, <1>3 DEF Shrinks

(* A command finds no handler in progress; it binds nothing, and begins at *)
(* most one handler.                                                       *)
LEMMA CommandIs ==
  ASSUME Typed, Command
  PROVE  op = Idle /\ UNCHANGED mute /\ Shrinks /\ Progress'
<1> USE DEF Typed, Core0Type
<1>1. op = Idle
  BY DEF Command, cmdSlotMap, cmdAxesMap, cmdUnalarm, cmdSetOrigin, cmdSetProbe, cmdUnprobe, cmdEnable,
         cmdDisable, cmdAxesEnableOff, cmdBusEnable, cmdMakeSafe, cmdBusExclude, cmdStep, cmdStop, cmdUnstop,
         cmdReset, AdmitWrite, Ready
<1>2. \A q \in {"unstop", "sweep"} : op' = Poll(q) => Progress'
  <2>1. ASSUME op'.phase \in {"unstop", "sweep"}, op'.asked = {} PROVE Progress'
    BY <2>1 DEF Progress
  <2> QED BY <2>1, OpBegins
<1>3. op' = op => Progress'
  BY <1>1, NothingYet, OpBegins
<1>4. CASE cmdMakeSafe
  <2>1. PICK n, o :
          /\ n \in Nodes
          /\ \/ o # "ok" /\ SlotMakeSafe(n, o)
             \/ o = "ok" /\ Dropped(n, o)
    BY <1>4 DEF cmdMakeSafe, Dropped
  <2> QED BY <1>1, <1>3, <1>4, <2>1, SafeShrinks, DropShrinks DEF cmdMakeSafe, busVars
<1>5. CASE cmdStop
  <2>1. /\ slotNode' = slotNode /\ nSlot' = nSlot /\ lost' = lost
        /\ slotFenced' = {s \in Slots : slotNode[s] # None}
    BY <1>5 DEF cmdStop, nodeVars
  <2>2. Shrinks
    BY <2>1 DEF Shrinks, Bound
  <2> QED BY <1>1, <1>3, <1>5, <2>2 DEF cmdStop, busVars
<1>6. CASE cmdSlotMap
  BY <1>1, <1>6, NothingYet, OpBegins, StillShrinks DEF cmdSlotMap, tableVars, nodeVars, busVars
<1>7. CASE cmdAxesMap
  <2>1. op'.phase = "check"
    BY <1>7, AxesMapTypes DEF cmdAxesMap
  <2> QED BY <1>1, <1>7, <2>1, NothingYet, StillShrinks DEF cmdAxesMap, tableVars, nodeVars, busVars
<1>8. CASE cmdUnalarm
  <2>1. NoOld \in Reqs
    BY NoneIs DEF NoOld, Reqs
  <2>2. op'.phase \in {"check", "safe"}
    BY <1>8, <2>1, OpBegins DEF cmdUnalarm
  <2> QED BY <1>1, <1>8, <2>2, NothingYet, StillShrinks DEF cmdUnalarm, core0Vars, tableVars, nodeVars, busVars
<1>9. CASE cmdSetOrigin \/ cmdSetProbe \/ cmdUnprobe
  BY <1>1, <1>3, <1>9, StillShrinks DEF cmdSetOrigin, cmdSetProbe, cmdUnprobe, tableVars, nodeVars, busVars
<1>10. CASE cmdEnable \/ cmdDisable \/ cmdAxesEnableOff \/ cmdBusEnable
  BY <1>1, <1>3, <1>10, StillShrinks DEF cmdEnable, cmdDisable, cmdAxesEnableOff, cmdBusEnable, Energise,
     Release, core0Vars, tableVars, busVars
<1>11. CASE cmdBusExclude \/ cmdStep
  BY <1>1, <1>3, <1>11, StillShrinks DEF cmdBusExclude, cmdStep, SlotStep, core0Vars, tableVars, nodeVars, busVars
<1>12. CASE cmdUnstop \/ cmdReset
  BY <1>1, <1>2, <1>12, StillShrinks DEF cmdUnstop, cmdReset, core0Vars, tableVars, nodeVars, busVars
<1> QED BY <1>4, <1>5, <1>6, <1>7, <1>8, <1>9, <1>10, <1>11, <1>12 DEF Command

LEMMA CommandTable ==
  ASSUME Typed, TableInv, Command
  PROVE  TableInv'
<1> USE DEF Typed, Core0Type
<1>1. op = Idle /\ UNCHANGED mute /\ Shrinks /\ Progress'
  BY CommandIs
<1>2. op.phase # "sweep"
  BY <1>1, OpBegins
<1>3. Stopped'
  <2>1. CASE latched /\ ~swept
    <3>1. cmdUnprobe \/ cmdBusExclude \/ cmdStop
      BY <2>1 DEF Command, cmdSlotMap, cmdAxesMap, cmdUnalarm, cmdSetOrigin, cmdSetProbe, cmdEnable, cmdDisable,
         cmdAxesEnableOff, cmdBusEnable, cmdMakeSafe, cmdStep, cmdUnstop, cmdReset, AdmitWrite
    <3>2. CASE cmdUnprobe \/ cmdBusExclude
      BY <2>1, <3>2 DEF cmdUnprobe, cmdBusExclude, TableInv, Stopped, Bound, core0Vars, tableVars, viewVars
    <3>3. CASE cmdStop
      BY <1>1, <3>3 DEF cmdStop, Stopped, Bound
    <3> QED BY <3>1, <3>2, <3>3
  <2>2. CASE ~(latched /\ ~swept)
    <3>1. CASE cmdStop
      BY <1>1, <3>1 DEF cmdStop, Stopped, Bound
    <3>2. CASE cmdReset
      BY <3>2 DEF cmdReset, Stopped
    <3>3. CASE latched' = latched /\ swept' = swept
      BY <2>2, <3>3 DEF Stopped
    <3>4. UNCHANGED stopVars \/ cmdStop \/ cmdReset
      BY DEF Command, cmdSlotMap, cmdAxesMap, cmdUnalarm, cmdSetOrigin, cmdSetProbe, cmdUnprobe, cmdEnable,
         cmdDisable, cmdAxesEnableOff, cmdBusEnable, cmdMakeSafe, cmdBusExclude, cmdStep, SlotStep, cmdUnstop
    <3> QED BY <3>1, <3>2, <3>3, <3>4 DEF stopVars
  <2> QED BY <2>1, <2>2
<1> QED BY <1>1, <1>2, <1>3, TableStep DEF TableInv

LEMMA UpsetTable ==
  ASSUME Typed, TableInv, NodeResets \/ HandMoves
  PROVE  TableInv'
<1> USE DEF Typed, Core0Type
<1>1. UNCHANGED <<slotNode, slotFenced, slotReq, nodeEnabled, latched, swept, op, mute, axes_homed>>
  BY DEF NodeResets, HandMoves, core0Vars, tableVars, askVars, viewVars, stopVars, busVars
<1>2. Shrinks
  <2>1. CASE NodeResets
    <3>1. PICK n \in Nodes : nSlot' = [nSlot EXCEPT ![n] = None] /\ lost' = lost \cup {n}
      BY <2>1 DEF NodeResets
    <3>2. ASSUME NEW s \in Slots, Bound(s)'
          PROVE  /\ Bound(s) /\ slotNode'[s] = slotNode[s]
                 /\ \/ slotNode[s] \in lost'
                    \/ slotNode[s] \notin lost /\ nSlot'[slotNode[s]] = nSlot[slotNode[s]]
      <4>1. Bound(s) /\ slotNode'[s] = slotNode[s] /\ slotNode[s] \in Nodes
        BY <1>1, <3>2 DEF Bound, TableType
      <4> QED BY <3>1, <4>1 DEF NodeType
    <3>3. \A m \in Nodes : nSlot'[m] # None => nSlot'[m] = nSlot[m]
      BY <3>1 DEF NodeType
    <3> QED BY <1>1, <3>2, <3>3 DEF Shrinks
  <2>2. CASE HandMoves
    BY <1>1, <2>2, StillShrinks DEF HandMoves
  <2> QED BY <2>1, <2>2
<1>3. Stopped'
  BY <1>1 DEF TableInv, Stopped, Bound
<1>4. Progress'
  <2>1. \A s \in Slots : Bound(s)' <=> Bound(s)
    BY <1>1 DEF Bound
  <2>2. ASSUME op.phase = "sweep", NEW n \in op.asked \ op.bad PROVE nSlot'[n] = None
    <3>1. n \in Nodes
      BY <2>2, OpShape DEF Polls
    <3> QED BY <1>2, <2>2, <3>1 DEF TableInv, Progress, Shrinks
  <2> QED BY <1>1, <2>1, <2>2 DEF TableInv, Progress, Holds
<1> QED BY <1>1, <1>2, <1>3, <1>4, TableStep DEF TableInv

LEMMA TableInvStep ==
  ASSUME Typed, TableInv, [Next]_vars
  PROVE  TableInv'
<1>1. CASE Core
  BY <1>1, CoreTable
<1>2. CASE Command
  BY <1>2, CommandTable
<1>3. CASE NodeResets \/ HandMoves
  BY <1>3, UpsetTable
<1>4. CASE UNCHANGED vars
  BY <1>4 DEF vars, core0Vars, tableVars, askVars, viewVars, stopVars, busVars, nodeVars,
              TableInv, BoundOnce, BoundListens, OneListener, Progress, Stopped, Bound, Holds
<1> QED BY <1>1, <1>2, <1>3, <1>4 DEF Next

LEMMA TableInvInit == Init => TableInv
BY DEF Init, Poll, NoMap, TableInv, BoundOnce, BoundListens, OneListener, Progress, Stopped, Bound

LEMMA TypedTableHolds == Spec => [](Typed /\ CountType /\ TableInv)
<1>1. Init => Typed /\ CountType /\ TableInv
  BY TypeInit, TableInvInit
<1>2. (Typed /\ CountType /\ TableInv) /\ [Next]_vars => (Typed /\ CountType /\ TableInv)'
  BY TypeStep, CountStep, TableInvStep
<1> QED BY <1>1, <1>2, PTL DEF Spec

(* A request that is complete is met on the bus.                           *)
LEMMA TableIsMet == Typed /\ TableInv => MapIsMet
<1> SUFFICES ASSUME Typed, TableInv, haveSlotReq, slotMapComplete, NEW s \in Slots, slotReq[s] # None
             PROVE  slotReq[s] \in lost \/ nSlot[slotReq[s]] = s
  BY DEF MapIsMet
<1>1. Bound(s) /\ slotNode[s] = slotReq[s]
  BY DEF slotMapComplete, Bound
<1> QED BY <1>1 DEF TableInv, BoundListens

(* The table tells the truth about the bus, for every bus: a node that     *)
(* listens on a slot is the slot's in the table, fenced or bound, and a    *)
(* request taken as met has every node it names on its slot, whatever      *)
(* reply was lost, engage refused or node reset (slot_map.cpp:83).         *)
THEOREM SlotsTrue == Spec => []SlotsAreTrue
<1>1. Typed /\ CountType /\ TableInv => SlotsAreTrue
  BY TableIsMet DEF SlotsAreTrue, TableInv
<1> QED BY <1>1, TypedTableHolds, PTL

(* The latch clears only into an empty table and mask but for the nodes    *)
(* the operator excluded, whatever was bound and whoever was energised     *)
(* when the stop came (lifecycle.cpp:40).                                  *)
THEOREM UnstopEmpties == Spec => UnstopUnmaps
<1> DEFINE Unmaps == latched /\ ~latched' /\ op.phase = "unstop" =>
                       busTouched' \subseteq excluded /\ ~haveSlotReq' /\ axesReq' = NoMap
<1>1. ASSUME Typed, TableInv, [Next]_vars
      PROVE  Unmaps
  <2> SUFFICES ASSUME latched, ~latched', op.phase = "unstop"
               PROVE  busTouched' \subseteq excluded /\ ~haveSlotReq' /\ axesReq' = NoMap
    OBVIOUS
  <2>1. op # Idle
    BY OpBegins
  <2>2. UnstopEnds
    <3>1. ~Command
      BY <1>1, <2>1, CommandIs
    <3>2. Core
      BY <1>1, <3>1 DEF Next, vars, stopVars, NodeResets, HandMoves
    <3>3. ~(ApplySafe \/ ApplyPark \/ ApplyEngage \/ CheckPending \/ AxesRefused \/ AxesCommit \/ BusSweepAsk
            \/ BusSweepEnds \/ ObserveSwept \/ StreamStep \/ ParkLegEnds)
      BY <2>1 DEF ApplySafe, ApplyPark, ApplyEngage, CheckPending, AxesRefused, AxesCommit, BusSweepAsk,
                  BusSweepEnds, ObserveSwept, StreamStep, ParkLegEnds, Ready
    <3>4. ~EstopSweep /\ ~UnstopAsk
      BY DEF EstopSweep, UnstopAsk, stopVars
    <3> QED BY <3>2, <3>3, <3>4 DEF Core
  <2>3. /\ op.bad = {} /\ (busTouched \ excluded) \subseteq op.asked
        /\ ~haveSlotReq' /\ axesReq' = NoMap
        /\ UNCHANGED <<slotNode, nodeEnabled>>
    BY <2>2 DEF UnstopEnds, UnstopLeft, AxesReqSet, tableVars
  <2>4. \A n \in op.asked : Holds(n) = {} /\ n \notin nodeEnabled
    BY <1>1, <2>3 DEF TableInv, Progress
  <2>5. ASSUME NEW n \in busTouched, n \notin excluded PROVE FALSE
    <3>1. Holds(n) = {} /\ n \notin nodeEnabled
      BY <2>3, <2>4, <2>5
    <3> QED BY <3>1 DEF busTouched, Holds
  <2>6. busTouched' = busTouched
    BY <2>3 DEF busTouched
  <2> QED BY <2>3, <2>5, <2>6
<1>2. (Typed /\ CountType /\ TableInv) /\ [Next]_vars => [Unmaps]_vars
  BY <1>1
<1>3. Spec => [][Unmaps]_vars
  BY <1>2, TypedTableHolds, PTL DEF Spec
<1> QED BY <1>3 DEF UnstopUnmaps

----------------------------------------------------------------------------
(* The positions.                                                          *)

(* A homed slot is an axis whose node has an origin; unless the node reset *)
(* since it engaged, its witness holds and its counter agrees with the     *)
(* machine's.                                                              *)
HomedAt(s) ==
  /\ s \notin axesPending \cup slotFenced /\ axesReq[s] = slotNode[s] /\ slotNode[s] \in Steppers
  /\ nodeOrigin[slotNode[s]] # None
  /\ slotNode[s] \notin lost => /\ slotNode[s] \in nDatum
                                /\ machinePos[s] = Minus(nPos[slotNode[s]], nodeOrigin[slotNode[s]])

(* A witness is of a motor with torque, but for one datumed without it;    *)
(* while it holds, the origin in force places the shaft.                   *)
DatumHolds   == nDatum \subseteq Steppers /\ nDatum \subseteq nEnabled \cup floating
OriginIsTrue == \A n \in nDatum \ floating :
                  nodeOrigin[n] # None => truth[n] = Minus(nPos[n], nodeOrigin[n])
HomedInv     == \A s \in axes_homed : HomedAt(s)
FencedZero   == latched /\ swept /\ ~sweepFact => \A s \in slotFenced : machinePos[s] = 0

PosInv == DatumHolds /\ OriginIsTrue /\ HomedInv /\ FencedZero /\ ProbeMatchesOrigin

LEMMA PosIsTrue == Typed /\ PosInv => PositionIsTrue
<1> SUFFICES ASSUME Typed, PosInv PROVE PositionIsTrue
  OBVIOUS
<1> USE DEF Typed, Core0Type, PosInv
<1>1. HomedIsTrue
  <2>1. ASSUME NEW s \in axes_homed
        PROVE  /\ slotNode[s] # None /\ s \notin slotFenced
               /\ slotNode[s] \notin lost \cup floating => machinePos[s] = truth[slotNode[s]]
    <3>1. HomedAt(s)
      BY DEF HomedInv
    <3> QED BY <3>1, NoneIs DEF HomedAt, OriginIsTrue
  <2> QED BY <2>1 DEF HomedIsTrue
<1> QED BY <1>1 DEF PositionIsTrue, FencedZero, StoppedReadsZero

(* A remainder is what is left of any whole number of turns.              *)
LEMMA Remainder ==
  ASSUME NEW n \in Nat \ {0}, NEW a \in Int, NEW q \in Int, NEW r \in 0..(n - 1), a = n * q + r
  PROVE  a % n = r
<1>1. a = n * (a \div n) + (a % n) /\ a % n \in 0..(n - 1) /\ a \div n \in Int
  BY SMT
<1>2. PICK p \in Int, s \in 0..(n - 1) : n * q + r = n * p + s /\ s = a % n
  BY <1>1
<1>3. CASE q < p
  <2>1. n * (p - q) >= n
    BY <1>3, SMT
  <2>2. n * (p - q) = n * p - n * q
    BY SMT
  <2> QED BY <2>1, <2>2, <1>2, SMT
<1>4. CASE p < q
  <2>1. n * (q - p) >= n
    BY <1>4, SMT
  <2>2. n * (q - p) = n * q - n * p
    BY SMT
  <2> QED BY <2>1, <2>2, <1>2, SMT
<1>5. CASE p = q
  BY <1>5, <1>2, SMT
<1> QED BY <1>3, <1>4, <1>5, SMT

(* Where a counter wraps.                                                  *)
LEMMA WrapsAt ==
  /\ \A p, q \in Pos : Minus(p, q) = IF p >= q THEN p - q ELSE p - q + Span
  /\ \A p \in Pos : Plus(p, 1) = IF p = Span - 1 THEN 0 ELSE p + 1
<1>1. Span \in Nat \ {0} /\ \A p \in Pos : p \in 0..(Span - 1)
  BY SlotAssumption DEF Pos
<1>2. Span * (-1) = -Span /\ Span * 0 = 0 /\ Span * 1 = Span
  <2>1. \A m \in Int : m * (-1) = -m /\ m * 0 = 0 /\ m * 1 = m
    OBVIOUS
  <2> QED BY <1>1, <2>1
<1>3. ASSUME NEW x \in Int, NEW r \in 0..(Span - 1), x = r \/ x = r - Span \/ x = r + Span
      PROVE  x % Span = r
  <2>1. r \in Int /\ Span \in Int
    BY <1>1
  <2>2. x = Span * 0 + r \/ x = Span * (-1) + r \/ x = Span * 1 + r
    BY ONLY <1>2, <1>3, <2>1
  <2>3. \A k \in Int : x = Span * k + r => x % Span = r
    BY <1>1, Remainder
  <2>4. 0 \in Int /\ -1 \in Int /\ 1 \in Int
    OBVIOUS
  <2> QED BY <2>2, <2>3, <2>4
<1>4. ASSUME NEW p \in Pos, NEW q \in Pos
      PROVE  Minus(p, q) = IF p >= q THEN p - q ELSE p - q + Span
  <2>1. p \in 0..(Span - 1) /\ q \in 0..(Span - 1) /\ Span \in Nat
    BY <1>1
  <2>2. p - q \in Int /\ (IF p >= q THEN p - q ELSE p - q + Span) \in 0..(Span - 1)
    BY <2>1
  <2>3. \/ p - q = (IF p >= q THEN p - q ELSE p - q + Span)
        \/ p - q = (IF p >= q THEN p - q ELSE p - q + Span) - Span
    BY <2>1
  <2> QED BY <1>3, <2>2, <2>3 DEF Minus
<1>5. ASSUME NEW p \in Pos PROVE Plus(p, 1) = IF p = Span - 1 THEN 0 ELSE p + 1
  <2>1. p \in 0..(Span - 1) /\ Span \in Nat \ {0}
    BY <1>1
  <2>2. p + 1 \in Int /\ (IF p = Span - 1 THEN 0 ELSE p + 1) \in 0..(Span - 1)
    BY <2>1
  <2>3. \/ p + 1 = (IF p = Span - 1 THEN 0 ELSE p + 1)
        \/ p + 1 = (IF p = Span - 1 THEN 0 ELSE p + 1) + Span
    BY <2>1
  <2> QED BY <1>3, <2>2, <2>3 DEF Plus
<1> QED BY <1>4, <1>5

(* Counters differ as their steps do.                                      *)
LEMMA MinusIs ==
  ASSUME NEW p \in Pos, NEW q \in Pos
  PROVE  Minus(p, Minus(p, q)) = q /\ Minus(Plus(p, 1), q) = Plus(Minus(p, q), 1)
<1>1. Span \in Nat \ {0} /\ p \in 0..(Span - 1) /\ q \in 0..(Span - 1)
  BY SlotAssumption DEF Pos
<1>2. PICK d \in Pos : d = Minus(p, q) /\ d = IF p >= q THEN p - q ELSE p - q + Span
  BY Wraps, WrapsAt
<1>3. d \in 0..(Span - 1)
  BY <1>2 DEF Pos
<1>4. Minus(p, d) = q
  <2>1. Minus(p, d) = IF p >= d THEN p - d ELSE p - d + Span
    BY <1>2, WrapsAt
  <2> QED BY <1>1, <1>2, <1>3, <2>1
<1>5. PICK u \in Pos : u = Plus(p, 1) /\ u = IF p = Span - 1 THEN 0 ELSE p + 1
  BY Wraps, WrapsAt
<1>6. Minus(u, q) = Plus(d, 1)
  <2>1. Minus(u, q) = IF u >= q THEN u - q ELSE u - q + Span
    BY <1>5, WrapsAt
  <2>2. Plus(d, 1) = IF d = Span - 1 THEN 0 ELSE d + 1
    BY WrapsAt
  <2>3. u = IF p = Span - 1 THEN 0 ELSE p + 1
    BY <1>5
  <2>4. d = IF p >= q THEN p - q ELSE p - q + Span
    BY <1>2
  <2> QED BY <1>1, <1>3, <2>1, <2>2, <2>3, <2>4
<1> QED BY <1>2, <1>4, <1>5, <1>6

(* A homed slot is bound as the axis of its node.                          *)
LEMMA HomeIs ==
  ASSUME ViewType, HomedInv, NEW s \in axes_homed
  PROVE  /\ s \in Slots /\ HomedAt(s) /\ Bound(s) /\ slotNode[s] \in Nodes
         /\ s \in AxesOf(slotNode[s]) /\ s \in Holds(slotNode[s])
<1>1. s \in Slots /\ HomedAt(s)
  BY DEF ViewType, HomedInv
<1>2. slotNode[s] \in Nodes
  BY <1>1, NoneIs DEF HomedAt
<1> QED BY <1>1, <1>2, NoneIs DEF HomedAt, Bound, AxesOf, axisNode, AxisNodeOf, Holds

LEMMA AxisIs ==
  ASSUME NEW n \in Nodes, NEW k \in AxesOf(n)
  PROVE  /\ k \in Slots /\ slotNode[k] = n /\ axesReq[k] = n
         /\ k \notin axesPending \cup slotFenced
BY NoneIs DEF AxesOf, axisNode, AxisNodeOf

(* What a step that homes nothing leaves of a homed slot.                  *)
Kept(s) ==
  /\ s \in axes_homed
  /\ s \notin axesPending' \cup slotFenced' /\ slotNode'[s] = slotNode[s] /\ axesReq'[s] = slotNode[s]
  /\ nodeOrigin'[slotNode[s]] = nodeOrigin[slotNode[s]]
  /\ slotNode[s] \notin lost' =>
       /\ slotNode[s] \notin lost /\ (slotNode[s] \in nDatum => slotNode[s] \in nDatum')
       /\ machinePos'[s] = machinePos[s] /\ nPos'[slotNode[s]] = nPos[slotNode[s]]

LEMMA KeptIs ==
  ASSUME HomedInv, NEW s, Kept(s)
  PROVE  HomedAt(s)'
BY DEF HomedInv, HomedAt, Kept

(* What a step that records nothing does to the origins and the probes.    *)
Forgets ==
  \A n \in Nodes : /\ nodeOrigin'[n] = None \/ nodeOrigin'[n] = nodeOrigin[n]
                   /\ \/ probeZ'[n] = None
                      \/ probeZ'[n] = probeZ[n] /\ nodeOrigin'[n] = nodeOrigin[n]

LEMMA ForgetsKeeps ==
  ASSUME NodeType, OriginIsTrue, ProbeMatchesOrigin, Forgets, nDatum' \subseteq nDatum,
         UNCHANGED <<nPos, truth, floating>>
  PROVE  OriginIsTrue' /\ ProbeMatchesOrigin'
BY DEF NodeType, OriginIsTrue, ProbeMatchesOrigin, Forgets

(* No step but the stop's own takes a fenced position from zero.           *)
FencesRead == \A s \in slotFenced' : \/ machinePos'[s] = 0
                                     \/ s \in slotFenced /\ machinePos'[s] = machinePos[s]

LEMMA FencedStep == FencedZero /\ FencesRead /\ UNCHANGED stopVars => FencedZero'
BY DEF FencedZero, FencesRead, stopVars

(* A step of a handler: it homes nothing and records no origin.            *)
LEMMA PosStep ==
  ASSUME Typed, PosInv, Forgets, FencesRead, \A s \in axes_homed' : Kept(s),
         DatumHolds', nDatum' \subseteq nDatum, UNCHANGED <<nPos, truth, floating, stopVars>>
  PROVE  PosInv'
<1>1. OriginIsTrue' /\ ProbeMatchesOrigin'
  BY ForgetsKeeps DEF PosInv, Typed
<1>2. FencedZero'
  BY FencedStep DEF PosInv
<1>3. HomedInv'
  BY KeptIs DEF PosInv, HomedInv
<1> QED BY <1>1, <1>2, <1>3 DEF PosInv

(* What the operators do to the homed slots.                               *)
LEMMA UnbindHomes ==
  ASSUME TableType, ViewType, NEW ss, SlotUnbind(ss)
  PROVE  /\ FencesRead
         /\ \A s \in axes_homed' : /\ s \in axes_homed /\ s \notin ss /\ slotNode'[s] = slotNode[s]
                                   /\ machinePos'[s] = machinePos[s]
                                   /\ s \notin slotFenced => s \notin slotFenced'
<1>1. ASSUME NEW s \in slotFenced'
      PROVE  machinePos'[s] = 0 \/ (s \in slotFenced /\ machinePos'[s] = machinePos[s])
  BY DEF SlotUnbind, TableType
<1>2. ASSUME NEW s \in axes_homed'
      PROVE  /\ s \in axes_homed /\ s \notin ss /\ slotNode'[s] = slotNode[s]
             /\ machinePos'[s] = machinePos[s] /\ (s \notin slotFenced => s \notin slotFenced')
  BY DEF SlotUnbind, ViewType
<1> QED BY <1>1, <1>2 DEF FencesRead

LEMMA WithoutForgets ==
  ASSUME DatumType, NEW ns, nodeOrigin' = Without(nodeOrigin, ns), probeZ' = Without(probeZ, ns)
  PROVE  Forgets /\ \A n \in Nodes : n \notin ns => nodeOrigin'[n] = nodeOrigin[n]
BY WithoutIs DEF DatumType, Forgets

LEMMA FenceHomes ==
  ASSUME TableType, ViewType, DatumType, HomedInv, NEW ss \in SUBSET Slots, NEW n \in Nodes, SlotFence(ss, n)
  PROVE  /\ FencesRead /\ Forgets
         /\ \A s \in axes_homed' : /\ s \in axes_homed /\ s \notin ss /\ slotNode'[s] = slotNode[s]
                                   /\ machinePos'[s] = machinePos[s]
                                   /\ s \notin slotFenced => s \notin slotFenced'
                                   /\ slotNode[s] # n /\ nodeOrigin'[slotNode[s]] = nodeOrigin[slotNode[s]]
<1>1. /\ slotNode' = [s \in Slots |-> IF s \in ss THEN n ELSE slotNode[s]]
      /\ slotFenced' = slotFenced \cup ss
      /\ machinePos' = [s \in Slots |-> IF s \in ss THEN 0 ELSE machinePos[s]]
      /\ axes_homed' = axes_homed \ (ss \cup AxesOf(n))
  BY DEF SlotFence
<1>2. FencesRead
  BY <1>1 DEF FencesRead, TableType
<1>3. Forgets /\ \A m \in Nodes : m # n => nodeOrigin'[m] = nodeOrigin[m]
  BY WithoutForgets DEF SlotFence
<1>4. ASSUME NEW s \in axes_homed'
      PROVE  /\ s \in axes_homed /\ s \notin ss /\ slotNode'[s] = slotNode[s]
             /\ machinePos'[s] = machinePos[s] /\ (s \notin slotFenced => s \notin slotFenced')
             /\ slotNode[s] # n /\ nodeOrigin'[slotNode[s]] = nodeOrigin[slotNode[s]]
  <2>1. s \in axes_homed /\ s \notin ss /\ s \notin AxesOf(n)
    BY <1>1
  <2>2. s \in Slots /\ slotNode[s] \in Nodes /\ s \in AxesOf(slotNode[s])
    BY <2>1, HomeIs
  <2> QED BY <1>1, <1>3, <2>1, <2>2
<1> QED BY <1>2, <1>3, <1>4

LEMMA InvalidateHomes ==
  ASSUME TableType, ViewType, DatumType, HomedInv, NEW ns, OriginInvalidate(ns)
  PROVE  /\ Forgets /\ machinePos' = machinePos
         /\ \A s \in axes_homed' : /\ s \in axes_homed /\ slotNode[s] \notin ns
                                   /\ nodeOrigin'[slotNode[s]] = nodeOrigin[slotNode[s]]
<1>1. Forgets /\ \A m \in Nodes : m \notin ns => nodeOrigin'[m] = nodeOrigin[m]
  BY WithoutForgets DEF OriginInvalidate
<1>2. ASSUME NEW s \in axes_homed'
      PROVE  s \in axes_homed /\ slotNode[s] \notin ns /\ nodeOrigin'[slotNode[s]] = nodeOrigin[slotNode[s]]
  <2>1. s \in axes_homed /\ s \notin UNION {AxesOf(n) : n \in ns}
    BY DEF OriginInvalidate
  <2>2. slotNode[s] \in Nodes /\ s \in AxesOf(slotNode[s])
    BY <2>1, HomeIs
  <2>3. slotNode[s] \notin ns
    BY <2>1, <2>2
  <2> QED BY <1>1, <2>1, <2>2, <2>3
<1> QED BY <1>1, <1>2 DEF OriginInvalidate

LEMMA ReqHomes ==
  ASSUME TableType, ViewType, HomedInv, NEW ids, NEW pending, AxesReqSet(ids, pending), UNCHANGED tableVars
  PROVE  /\ FencesRead
         /\ \A s \in axes_homed' : /\ s \in axes_homed /\ s \notin axesPending' \cup slotFenced'
                                   /\ axesReq'[s] = slotNode[s] /\ machinePos'[s] = machinePos[s]
<1>1. PICK gone : /\ gone = {k \in Slots : AxisNodeOf(k, slotNode, slotFenced, ids, pending) = None}
                  /\ machinePos' = [k \in Slots |-> IF k \in gone THEN 0 ELSE machinePos[k]]
                  /\ axes_homed' = axes_homed \ gone
                  /\ axesReq' = ids /\ axesPending' = pending
                  /\ slotFenced' = slotFenced
  BY DEF AxesReqSet, tableVars
<1>2. \A k \in Slots : k \notin gone => k \notin pending \cup slotFenced /\ slotNode[k] = ids[k]
  BY <1>1 DEF AxisNodeOf
<1>3. FencesRead
  BY <1>1, <1>2 DEF FencesRead, TableType
<1>4. ASSUME NEW s \in axes_homed'
      PROVE  /\ s \in axes_homed /\ s \notin axesPending' \cup slotFenced'
             /\ axesReq'[s] = slotNode[s] /\ machinePos'[s] = machinePos[s]
  <2>1. s \in Slots /\ s \in axes_homed /\ s \notin gone
    BY <1>1 DEF ViewType
  <2> QED BY <1>1, <1>2, <2>1
<1> QED BY <1>3, <1>4

(* A make-safe, whatever its outcome.                                      *)
LEMMA SafePos ==
  ASSUME Typed, PosInv, NEW n \in Nodes, NEW o, SlotMakeSafe(n, o),
         axesReq' = axesReq, axesPending' \subseteq axesPending, UNCHANGED stopVars
  PROVE  PosInv'
<1> USE DEF Typed, Core0Type
<1>1. /\ nDatum' = IF Heard(o) THEN nDatum \ {n} ELSE nDatum
      /\ nEnabled' = IF Heard(o) THEN nEnabled \ {n} ELSE nEnabled
      /\ UNCHANGED <<nPos, truth, lost, floating>>
  BY DEF SlotMakeSafe, AskMakeSafe
<1>2. DatumHolds' /\ nDatum' \subseteq nDatum
  BY <1>1 DEF PosInv, DatumHolds
<1>3. /\ FencesRead /\ Forgets
      /\ \A s \in axes_homed' : /\ s \in axes_homed /\ slotNode[s] # n /\ slotNode'[s] = slotNode[s]
                                /\ machinePos'[s] = machinePos[s]
                                /\ s \notin slotFenced => s \notin slotFenced'
                                /\ nodeOrigin'[slotNode[s]] = nodeOrigin[slotNode[s]]
  <2>1. \A s \in axes_homed : s \in Holds(slotNode[s])
    BY HomeIs DEF PosInv
  <2>2. Holds(n) \in SUBSET Slots
    BY DEF Holds
  <2>3. CASE SlotUnbind(Holds(n)) /\ UNCHANGED datumVars
    BY <2>1, <2>3, UnbindHomes DEF Forgets, datumVars
  <2>4. CASE Holds(n) = {} /\ UNCHANGED <<tableVars, viewVars, datumVars>>
    BY <2>1, <2>4 DEF Forgets, FencesRead, datumVars, tableVars, viewVars
  <2>5. CASE SlotFence(Holds(n), n)
    BY <2>2, <2>5, FenceHomes DEF PosInv
  <2> QED BY <2>3, <2>4, <2>5 DEF SlotMakeSafe
<1>4. ASSUME NEW s \in axes_homed' PROVE Kept(s)
  <2>1. HomedAt(s) /\ slotNode[s] # n
    BY <1>3 DEF PosInv, HomedInv
  <2> QED BY <1>1, <1>3, <2>1 DEF HomedAt, Kept
<1> QED BY <1>1, <1>2, <1>3, <1>4, PosStep

(* The applies.                                                            *)
LEMMA EngageKeeps ==
  ASSUME PosInv, NEW n \in Nodes, NEW s, NEW o, AskEngage(n, s, o)
  PROVE  /\ UNCHANGED <<nPos, nDatum, nEnabled, truth, floating>> /\ DatumHolds'
         /\ \A m \in Nodes : m # n => (m \in lost' <=> m \in lost)
         /\ o # "ok" => lost' = lost
BY DEF PosInv, DatumHolds, AskEngage

LEMMA ParkPos ==
  ASSUME Typed, TableInv, PosInv, Others, NEW s \in Holders, NEW n, n = slotNode[s], NEW o,
         AskEngage(n, None, o), IF o # "ok" THEN SlotFence({s}, n) ELSE Parked(s, n)
  PROVE  PosInv'
<1> USE DEF Typed, Core0Type
<1>1. s \in Slots /\ n \in Nodes /\ Bound(s)
  BY DEF Holders, TableType, Bound
<1>2. /\ UNCHANGED <<nPos, nDatum, nEnabled, truth, floating>> /\ DatumHolds'
      /\ \A m \in Nodes : m # n => (m \in lost' <=> m \in lost)
  BY <1>1, EngageKeeps
<1>3. /\ FencesRead /\ Forgets
      /\ \A t \in axes_homed' : /\ t \in axes_homed /\ t # s /\ slotNode'[t] = slotNode[t]
                                /\ machinePos'[t] = machinePos[t]
                                /\ t \notin slotFenced => t \notin slotFenced'
                                /\ nodeOrigin'[slotNode[t]] = nodeOrigin[slotNode[t]]
  <2>1. CASE o # "ok"
    BY <1>1, <2>1, FenceHomes DEF PosInv
  <2>2. CASE o = "ok"
    BY <2>2, UnbindHomes DEF Parked, Forgets
  <2> QED BY <2>1, <2>2
<1>4. ASSUME NEW t \in axes_homed' PROVE Kept(t)
  <2>1. t \in Slots /\ HomedAt(t) /\ Bound(t) /\ slotNode[t] \in Nodes
    BY <1>3, HomeIs DEF PosInv
  <2>2. slotNode[t] # n
    BY <1>1, <1>3, <2>1 DEF TableInv, BoundOnce
  <2> QED BY <1>2, <1>3, <2>1, <2>2 DEF HomedAt, Kept, Others, reqVars
<1> QED BY <1>2, <1>3, <1>4, PosStep DEF Others

LEMMA BindPos ==
  ASSUME Typed, PosInv, Others, NEW s \in Slots \ slotFenced, NEW n \in Nodes,
         AskEngage(n, s, "ok"), SlotBind(s, n)
  PROVE  PosInv'
<1> USE DEF Typed, Core0Type
<1>1. /\ UNCHANGED <<nPos, nDatum, nEnabled, truth, floating>> /\ DatumHolds'
      /\ \A m \in Nodes : m # n => (m \in lost' <=> m \in lost)
      /\ UNCHANGED <<axesReq, axesPending, stopVars>>
  BY EngageKeeps DEF Others, reqVars
<1> DEFINE others == Holds(n) \ {s}
           table  == [t \in Slots |-> IF t = s THEN n ELSE IF t \in others THEN None ELSE slotNode[t]]
           fenced == slotFenced \ others
           moved  == n \in Steppers /\ parkPos[n] # None /\ parkPos[n] # nPos[n]
           void   == moved \/ n \notin nDatum
           axis   == AxisNodeOf(s, table, fenced, axesReq, axesPending) = n
           homed  == axis /\ n \in Steppers /\ ~void /\ nodeOrigin[n] # None
<1>2. /\ others = Holds(n) \ {s} /\ fenced = slotFenced \ others
      /\ table = [t \in Slots |-> IF t = s THEN n ELSE IF t \in others THEN None ELSE slotNode[t]]
      /\ n \notin nDatum => void
      /\ homed => /\ AxisNodeOf(s, table, fenced, axesReq, axesPending) = n
                  /\ n \in Steppers /\ ~void /\ nodeOrigin[n] # None
      /\ slotNode' = table /\ slotFenced' = fenced
      /\ nodeOrigin' = IF void THEN Without(nodeOrigin, {n}) ELSE nodeOrigin
      /\ probeZ' = IF void THEN Without(probeZ, {n}) ELSE probeZ
      /\ machinePos' = [t \in Slots |-> IF t = s THEN IF homed THEN Minus(nPos[n], nodeOrigin[n]) ELSE 0
                                        ELSE IF t \in others THEN 0 ELSE machinePos[t]]
      /\ axes_homed' = (axes_homed \ ({s} \cup others)) \cup (IF homed THEN {s} ELSE {})
  BY DEF SlotBind
<1> HIDE DEF others, table, fenced, moved, void, axis, homed
<1>3. Forgets /\ \A m \in Nodes : m # n \/ ~void => nodeOrigin'[m] = nodeOrigin[m]
  BY <1>2, WithoutIs DEF Forgets, DatumType
<1>4. FencesRead
  BY <1>2 DEF FencesRead, TableType
<1>5. ASSUME NEW t \in axes_homed', t # s PROVE Kept(t)
  <2>1. t \in axes_homed /\ t \notin others
    BY <1>2, <1>5
  <2>2. t \in Slots /\ HomedAt(t) /\ slotNode[t] \in Nodes /\ t \in Holds(slotNode[t])
    BY <2>1, HomeIs DEF PosInv
  <2>3. slotNode[t] # n
    BY <1>2, <1>5, <2>1, <2>2
  <2>4. slotNode'[t] = slotNode[t] /\ machinePos'[t] = machinePos[t] /\ t \notin slotFenced'
    BY <1>2, <1>5, <2>1, <2>2 DEF HomedAt
  <2> QED BY <1>1, <1>3, <2>1, <2>2, <2>3, <2>4 DEF HomedAt, Kept
<1>6. ASSUME s \in axes_homed' PROVE HomedAt(s)'
  <2>1. homed
    BY <1>2, <1>6
  <2>2. slotNode'[s] = n /\ machinePos'[s] = Minus(nPos[n], nodeOrigin[n]) /\ nodeOrigin'[n] = nodeOrigin[n]
    BY <1>2, <1>3, <2>1
  <2>3. s \notin axesPending \cup slotFenced' /\ axesReq[s] = n
    BY <1>2, <2>1, <2>2, NoneIs DEF AxisNodeOf
  <2>4. n \in Steppers /\ nodeOrigin[n] # None /\ n \in nDatum
    BY <1>2, <2>1
  <2> QED BY <1>1, <2>2, <2>3, <2>4 DEF HomedAt
<1>7. HomedInv'
  BY <1>5, <1>6, KeptIs DEF HomedInv, PosInv
<1>8. OriginIsTrue' /\ ProbeMatchesOrigin'
  BY <1>1, <1>3, ForgetsKeeps DEF PosInv
<1> QED BY <1>1, <1>4, <1>7, <1>8, FencedStep DEF PosInv

(* A step that leaves the positions alone.                                 *)
LEMMA StillPos ==
  PosInv /\ UNCHANGED <<tableVars, reqVars, viewVars, datumVars, stopVars, nodeVars>> => PosInv'
BY DEF PosInv, DatumHolds, OriginIsTrue, HomedInv, HomedAt, FencedZero, ProbeMatchesOrigin, tableVars, reqVars,
       viewVars, datumVars, stopVars, nodeVars

LEMMA ApplyPos ==
  ASSUME Typed, TableInv, PosInv, ApplySafe \/ ApplyPark \/ ApplyEngage
  PROVE  PosInv'
<1> USE DEF Typed, Core0Type
<1>1. Still /\ Others => PosInv'
  BY StillPos DEF Still, Others
<1>2. CASE ApplySafe
  <2>1. ASSUME NEW s \in Wanted \cap slotFenced, NEW o, SlotMakeSafe(slotNode[s], o), Others PROVE PosInv'
    <3>1. slotNode[s] \in Nodes
      BY DEF TableType
    <3> QED BY <2>1, <3>1, SafePos DEF Others, reqVars
  <2> QED BY <1>1, <1>2, <2>1, SafeDoes
<1>3. CASE ApplyPark
  <2>1. ASSUME NEW s \in Holders, NEW o, AskEngage(slotNode[s], None, o), Others,
               IF o # "ok" THEN SlotFence({s}, slotNode[s]) ELSE Parked(s, slotNode[s])
        PROVE  PosInv'
    BY <2>1, ParkPos
  <2> QED BY <1>1, <1>3, <2>1, ParkDoes
<1>4. CASE ApplyEngage
  <2>1. op \in Applies /\ op.phase = "engage" /\ Others
    BY <1>4, EngageDoes, OpShape
  <2>2. ASSUME NEW s \in Wanted \ slotFenced, NEW n, n = slotReq[s], NEW o, s >= op.at, AskEngage(n, s, o),
               \/ o = "ok" /\ SlotBind(s, n)
               \/ o = "nak" /\ UNCHANGED <<tableVars, viewVars, datumVars>>
               \/ o \notin {"ok", "nak"} /\ SlotFence({s}, n)
        PROVE  PosInv'
    <3>1. s \in Slots \ slotFenced /\ n \in Nodes
      BY <2>1, <2>2, EngageIsFree
    <3>2. CASE o = "ok" /\ SlotBind(s, n)
      BY <2>1, <2>2, <3>1, <3>2, BindPos
    <3>3. /\ UNCHANGED <<nPos, nDatum, nEnabled, truth, floating>> /\ DatumHolds'
          /\ o # "ok" => lost' = lost
      BY <2>2, <3>1, EngageKeeps
    <3>4. CASE o = "nak" /\ UNCHANGED <<tableVars, viewVars, datumVars>>
      <4>1. UNCHANGED <<reqVars, stopVars, nPos, nDatum, nEnabled, truth, floating, lost>>
        BY <2>1, <3>3, <3>4 DEF Others
      <4> QED BY <3>4, <4>1 DEF PosInv, DatumHolds, OriginIsTrue, HomedInv, HomedAt, FencedZero,
                 ProbeMatchesOrigin, tableVars, reqVars, viewVars, datumVars, stopVars
    <3>5. CASE o # "ok" /\ SlotFence({s}, n)
      <4>1. /\ FencesRead /\ Forgets
            /\ \A t \in axes_homed' : /\ t \in axes_homed /\ slotNode'[t] = slotNode[t]
                                      /\ machinePos'[t] = machinePos[t]
                                      /\ t \notin slotFenced => t \notin slotFenced'
                                      /\ slotNode[t] # n /\ nodeOrigin'[slotNode[t]] = nodeOrigin[slotNode[t]]
        BY <3>1, <3>5, FenceHomes DEF PosInv
      <4>2. ASSUME NEW t \in axes_homed' PROVE Kept(t)
        BY <2>1, <3>3, <3>5, <4>1 DEF PosInv, HomedInv, HomedAt, Kept, Others, reqVars
      <4> QED BY <2>1, <3>3, <4>1, <4>2, PosStep DEF Others
    <3> QED BY <2>2, <3>2, <3>4, <3>5
  <2>3. CASE op' = Idle /\ Still
    BY <1>1, <2>1, <2>3
  <2> QED BY <1>4, <2>2, <2>3, EngageDoes
<1> QED BY <1>2, <1>3, <1>4

(* A new request takes the homes of the slots it leaves without an axis.   *)
LEMMA ReqPos ==
  ASSUME Typed, PosInv, NEW ids, NEW pending, AxesReqSet(ids, pending),
         UNCHANGED <<tableVars, datumVars, nodeVars>>, UNCHANGED stopVars \/ ~latched'
  PROVE  PosInv'
<1> USE DEF Typed, Core0Type
<1>1. /\ FencesRead
      /\ \A s \in axes_homed' : /\ s \in axes_homed /\ s \notin axesPending' \cup slotFenced'
                                /\ axesReq'[s] = slotNode[s] /\ machinePos'[s] = machinePos[s]
  BY ReqHomes DEF PosInv
<1>2. HomedInv'
  <2>1. ASSUME NEW s \in axes_homed' PROVE HomedAt(s)'
    BY <1>1 DEF PosInv, HomedInv, HomedAt, tableVars, datumVars, nodeVars
  <2> QED BY <2>1 DEF HomedInv
<1>3. DatumHolds' /\ OriginIsTrue' /\ ProbeMatchesOrigin'
  BY DEF PosInv, DatumHolds, OriginIsTrue, ProbeMatchesOrigin, datumVars, nodeVars
<1>4. FencedZero'
  <2>1. CASE UNCHANGED stopVars
    BY <1>1, <2>1, FencedStep DEF PosInv
  <2>2. CASE ~latched'
    BY <2>2 DEF FencedZero
  <2> QED BY <2>1, <2>2
<1> QED BY <1>2, <1>3, <1>4 DEF PosInv

(* A step on a slot moves the machine and the counter that listens alike,  *)
(* and the shaft of every node whose witness holds.                        *)
LEMMA StepPos ==
  ASSUME Typed, TableInv, PosInv, NEW s \in Slots, SlotStep(s), ~(latched /\ swept)
  PROVE  PosInv'
<1> USE DEF Typed, Core0Type
<1>1. /\ UNCHANGED <<tableVars, reqVars, axes_homed, datumVars, stopVars, nSlot, nDatum, nEnabled, lost, floating>>
      /\ machinePos' = [machinePos EXCEPT ![s] = Plus(@, 1)]
      /\ \A n \in Steppers : nPos'[n] = IF nSlot[n] = s THEN Plus(nPos[n], 1) ELSE nPos[n]
      /\ \A n \in Steppers \cap nEnabled : truth'[n] = IF nSlot[n] = s THEN Plus(truth[n], 1) ELSE truth[n]
  BY NoneIs DEF SlotStep
<1>2. \A n \in Steppers : nPos[n] \in Pos /\ nodeOrigin[n] \in Pos \cup {None}
  BY NoneIs DEF NodeType, DatumType
<1>3. ASSUME NEW n \in nDatum \ floating, nodeOrigin[n] # None
      PROVE  truth'[n] = Minus(nPos'[n], nodeOrigin[n])
  <2>1. n \in Steppers \cap nEnabled
    BY DEF PosInv, DatumHolds
  <2>2. truth[n] = Minus(nPos[n], nodeOrigin[n])
    BY <1>3 DEF PosInv, OriginIsTrue
  <2>3. Minus(Plus(nPos[n], 1), nodeOrigin[n]) = Plus(Minus(nPos[n], nodeOrigin[n]), 1)
    BY <1>2, <1>3, <2>1, MinusIs
  <2> QED BY <1>1, <2>1, <2>2, <2>3
<1>4. ASSUME NEW t \in axes_homed PROVE HomedAt(t)'
  <2>1. t \in Slots /\ HomedAt(t) /\ Bound(t)
    BY <1>4, HomeIs DEF PosInv
  <2>2. ASSUME slotNode[t] \notin lost
        PROVE  machinePos'[t] = Minus(nPos'[slotNode[t]], nodeOrigin[slotNode[t]])
    <3>1. nSlot[slotNode[t]] = t
      BY <2>1, <2>2 DEF TableInv, BoundListens
    <3>2. /\ slotNode[t] \in Steppers /\ nodeOrigin[slotNode[t]] # None
          /\ machinePos[t] = Minus(nPos[slotNode[t]], nodeOrigin[slotNode[t]])
      BY <2>1, <2>2 DEF HomedAt
    <3>3. Minus(Plus(nPos[slotNode[t]], 1), nodeOrigin[slotNode[t]]) = Plus(machinePos[t], 1)
      BY <1>2, <3>2, MinusIs
    <3>4. machinePos'[t] = IF t = s THEN Plus(machinePos[t], 1) ELSE machinePos[t]
      BY <1>1, <2>1 DEF ViewType
    <3> QED BY <1>1, <3>1, <3>2, <3>3, <3>4
  <2> QED BY <1>1, <2>1, <2>2 DEF HomedAt, tableVars, reqVars, datumVars
<1>5. FencedZero'
  BY <1>1 DEF FencedZero, stopVars
<1> QED BY <1>1, <1>3, <1>4, <1>5 DEF PosInv, DatumHolds, OriginIsTrue, HomedInv, ProbeMatchesOrigin, datumVars

LEMMA ParkLegPos ==
  ASSUME Typed, PosInv, ParkLegEnds
  PROVE  PosInv'
<1> USE DEF Typed, Core0Type
<1>1. PICK n \in Steppers \cap nEnabled \cap nDatum :
        /\ nodeOrigin[n] # None
        /\ nPos' = [nPos EXCEPT ![n] = Plus(@, 1)]
        /\ truth' = [truth EXCEPT ![n] = Plus(@, 1)]
        /\ OriginAdopt(n, nPos'[n]) \/ OriginInvalidate({n})
  BY DEF ParkLegEnds
<1>2. UNCHANGED <<tableVars, reqVars, stopVars, nDatum, nEnabled, lost, floating>> /\ ~latched
  BY DEF ParkLegEnds
<1>3. /\ n \in Nodes /\ nPos[n] \in Pos /\ nodeOrigin[n] \in Pos
      /\ nPos'[n] = Plus(nPos[n], 1) /\ truth'[n] = Plus(truth[n], 1)
      /\ \A m \in Nodes : m # n => nPos'[m] = nPos[m] /\ truth'[m] = truth[m]
  BY <1>1, NoneIs DEF NodeType, DatumType
<1>4. DatumHolds' /\ FencedZero'
  BY <1>2 DEF PosInv, DatumHolds, FencedZero, stopVars
<1>5. n \notin floating => truth'[n] = Minus(nPos'[n], nodeOrigin[n])
  BY <1>1, <1>3, MinusIs DEF PosInv, OriginIsTrue
<1>6. CASE OriginAdopt(n, nPos'[n])
  <2>1. /\ UNCHANGED <<nodeOrigin, probeZ, axes_homed>>
        /\ machinePos' = [k \in Slots |-> IF k \in AxesOf(n) THEN Minus(nPos'[n], nodeOrigin[n]) ELSE machinePos[k]]
    BY <1>6 DEF OriginAdopt
  <2>2. ASSUME NEW s \in axes_homed PROVE HomedAt(s)'
    <3>1. /\ s \in Slots /\ HomedAt(s) /\ slotNode[s] \in Nodes
          /\ s \in AxesOf(n) <=> slotNode[s] = n
      BY <1>3, HomeIs, AxisIs DEF PosInv
    <3>2. CASE slotNode[s] = n
      BY <1>1, <1>2, <2>1, <3>1, <3>2 DEF HomedAt, tableVars, reqVars
    <3>3. CASE slotNode[s] # n
      BY <1>2, <1>3, <2>1, <3>1, <3>3 DEF HomedAt, tableVars, reqVars
    <3> QED BY <3>2, <3>3
  <2>3. OriginIsTrue'
    <3>1. ASSUME NEW m \in nDatum \ floating, nodeOrigin[m] # None
          PROVE  truth'[m] = Minus(nPos'[m], nodeOrigin[m])
      <4>1. m \in Nodes
        BY DEF NodeType
      <4> QED BY <1>3, <1>5, <3>1, <4>1 DEF PosInv, OriginIsTrue
    <3> QED BY <1>2, <2>1, <3>1 DEF OriginIsTrue
  <2> QED BY <1>4, <2>1, <2>2, <2>3 DEF PosInv, HomedInv, ProbeMatchesOrigin
<1>7. CASE OriginInvalidate({n})
  <2>1. /\ Forgets /\ machinePos' = machinePos
        /\ \A s \in axes_homed' : /\ s \in axes_homed /\ slotNode[s] # n
                                  /\ nodeOrigin'[slotNode[s]] = nodeOrigin[slotNode[s]]
    BY <1>7, InvalidateHomes DEF PosInv
  <2>2. nodeOrigin'[n] = None
    BY <1>3, <1>7, WithoutIs DEF OriginInvalidate, DatumType
  <2>3. ASSUME NEW s \in axes_homed' PROVE HomedAt(s)'
    <3>1. HomedAt(s) /\ slotNode[s] \in Nodes /\ slotNode[s] # n
      BY <2>1, HomeIs DEF PosInv
    <3> QED BY <1>2, <1>3, <2>1, <3>1 DEF HomedAt, tableVars, reqVars
  <2>4. OriginIsTrue'
    <3>1. ASSUME NEW m \in nDatum \ floating, nodeOrigin'[m] # None
          PROVE  truth'[m] = Minus(nPos'[m], nodeOrigin'[m])
      <4>1. m \in Nodes /\ m # n
        BY <2>2, <3>1 DEF NodeType
      <4> QED BY <1>3, <2>1, <3>1, <4>1 DEF PosInv, OriginIsTrue, Forgets
    <3> QED BY <1>2, <3>1 DEF OriginIsTrue
  <2>5. ProbeMatchesOrigin'
    BY <2>1 DEF PosInv, ProbeMatchesOrigin, Forgets
  <2> QED BY <1>4, <2>3, <2>4, <2>5 DEF PosInv, HomedInv
<1> QED BY <1>1, <1>6, <1>7

LEMMA CorePos ==
  ASSUME Typed, TableInv, PosInv, Core
  PROVE  PosInv'
<1> USE DEF Typed, Core0Type
<1>1. CASE ApplySafe \/ ApplyPark \/ ApplyEngage
  BY <1>1, ApplyPos
<1>2. CASE CheckPending
  <2>1. UNCHANGED <<axesReq, stopVars>>
    BY <1>2, CheckDoes
  <2>2. PICK k, o : k \in axesPending /\ ChecksAxis(k, o)
    BY <1>2, CheckDoes
  <2>3. axesReq[k] \in Nodes /\ axesPending' \subseteq axesPending
    BY <2>2, MapIs DEF ReqType, Named, ChecksAxis
  <2>4. CASE SlotMakeSafe(axesReq[k], o)
    BY <2>1, <2>3, <2>4, SafePos
  <2>5. CASE UNCHANGED <<nodeVars, tableVars, viewVars, datumVars>>
    BY <2>1, <2>3, <2>5 DEF PosInv, DatumHolds, OriginIsTrue, HomedInv, HomedAt, FencedZero, ProbeMatchesOrigin,
       tableVars, viewVars, datumVars, stopVars, nodeVars
  <2> QED BY <2>2, <2>4, <2>5 DEF ChecksAxis, AskStatus
<1>3. CASE AxesRefused
  BY <1>3, ReqPos DEF AxesRefused
<1>4. CASE AxesCommit
  BY <1>4, StillPos DEF AxesCommit
<1>5. CASE EstopSweep
  <2>1. axes_homed = {}
    BY <1>5 DEF EstopSweep, TableInv, Stopped
  <2>2. /\ UNCHANGED <<axes_homed, nodeOrigin, probeZ, nPos, truth, floating>> /\ sweepFact'
        /\ \E heard : nDatum' = nDatum \ heard /\ nEnabled' = nEnabled \ heard
    BY <1>5 DEF EstopSweep, core0Vars, viewVars, datumVars
  <2> QED BY <2>1, <2>2 DEF PosInv, DatumHolds, OriginIsTrue, HomedInv, FencedZero, ProbeMatchesOrigin
<1>6. CASE ObserveSwept
  <2>1. /\ UNCHANGED <<tableVars, reqVars, axes_homed, datumVars, nodeVars>>
        /\ machinePos' = [s \in Slots |-> IF s \in slotFenced THEN 0 ELSE machinePos[s]]
    BY <1>6 DEF ObserveSwept
  <2>2. ASSUME NEW s \in axes_homed PROVE HomedAt(s)'
    <3>1. s \in Slots /\ HomedAt(s)
      BY HomeIs DEF PosInv
    <3> QED BY <2>1, <3>1 DEF HomedAt, tableVars, reqVars, datumVars, nodeVars
  <2>3. FencedZero'
    BY <2>1 DEF FencedZero, tableVars, TableType
  <2> QED BY <2>1, <2>2, <2>3 DEF PosInv, DatumHolds, OriginIsTrue, HomedInv, ProbeMatchesOrigin,
             datumVars, nodeVars
<1>7. CASE UnstopAsk \/ BusSweepAsk
  <2>1. UnstopLeft \subseteq Nodes
    BY NoneIs DEF UnstopLeft, busTouched, MaskType, TableType
  <2>2. PICK n, o : n \in Nodes /\ SlotMakeSafe(n, o) /\ UNCHANGED <<reqVars, stopVars>>
    BY <1>7, <2>1 DEF UnstopAsk, BusSweepAsk
  <2> QED BY <2>2, SafePos DEF reqVars
<1>8. CASE UnstopEnds
  <2>1. CASE op.bad # {}
    BY <1>8, <2>1, StillPos DEF UnstopEnds, stopVars
  <2>2. CASE op.bad = {}
    BY <1>8, <2>2, ReqPos DEF UnstopEnds
  <2> QED BY <2>1, <2>2
<1>9. CASE BusSweepEnds
  BY <1>9, StillPos, ReqPos DEF BusSweepEnds, AxesMapApply
<1>10. CASE StreamStep
  <2>1. PICK s \in Slots : SlotStep(s) /\ (latched => ~swept)
    BY <1>10 DEF StreamStep
  <2> QED BY <2>1, StepPos
<1>11. CASE ParkLegEnds
  BY <1>11, ParkLegPos
<1> QED BY <1>1, <1>2, <1>3, <1>4, <1>5, <1>6, <1>7, <1>8, <1>9, <1>10, <1>11 DEF Core

(* The commands.                                                           *)
LEMMA SetOriginPos ==
  ASSUME Typed, PosInv, cmdSetOrigin
  PROVE  PosInv'
<1> USE DEF Typed, Core0Type
<1>1. PICK n, o :
        /\ n \in Steppers
        /\ nDatum' = IF Heard(o) THEN nDatum \cup {n} ELSE nDatum
        /\ floating' = IF ~Heard(o) THEN floating
                       ELSE IF n \in nEnabled THEN floating \ {n} ELSE floating \cup {n}
        /\ UNCHANGED <<nSlot, nPos, nEnabled, truth, lost>>
        /\ IF o = "ok" THEN OriginRecord(n, nPos[n], truth[n]) ELSE OriginInvalidate({n})
  BY DEF cmdSetOrigin
<1>2. UNCHANGED <<tableVars, reqVars, stopVars>> /\ n \in Nodes /\ nPos[n] \in Pos /\ truth[n] \in Pos
  BY <1>1, NoneIs DEF cmdSetOrigin, NodeType
<1>3. DatumHolds' /\ nDatum \subseteq nDatum'
  BY <1>1 DEF PosInv, DatumHolds
<1>4. \A m \in nDatum' \ floating' : m # n => m \in nDatum \ floating
  BY <1>1
<1>5. CASE o = "ok"
  <2>1. /\ nodeOrigin' = [nodeOrigin EXCEPT ![n] = Minus(nPos[n], truth[n])]
        /\ probeZ' = Without(probeZ, {n})
        /\ machinePos' = [k \in Slots |-> IF k \in AxesOf(n) THEN truth[n] ELSE machinePos[k]]
        /\ axes_homed' = axes_homed \cup AxesOf(n)
        /\ n \in nDatum'
    BY <1>1, <1>5 DEF OriginRecord, Heard
  <2>2. /\ nodeOrigin'[n] = Minus(nPos[n], truth[n]) /\ nodeOrigin'[n] # None
        /\ Minus(nPos[n], nodeOrigin'[n]) = truth[n]
        /\ \A m \in Nodes : m # n => nodeOrigin'[m] = nodeOrigin[m]
    <3>1. Minus(nPos[n], truth[n]) \in Pos /\ Minus(nPos[n], Minus(nPos[n], truth[n])) = truth[n]
      BY <1>2, MinusIs, Wraps
    <3>2. /\ nodeOrigin'[n] = Minus(nPos[n], truth[n])
          /\ \A m \in Nodes : m # n => nodeOrigin'[m] = nodeOrigin[m]
      BY <1>2, <2>1 DEF DatumType
    <3> QED BY <3>1, <3>2, NoneIs
  <2>3. ASSUME NEW s \in axes_homed' PROVE HomedAt(s)'
    <3>1. CASE s \in AxesOf(n)
      BY <1>1, <1>2, <2>1, <2>2, <3>1, AxisIs DEF HomedAt, tableVars, reqVars
    <3>2. CASE s \notin AxesOf(n)
      <4>1. s \in axes_homed /\ s \in Slots /\ HomedAt(s) /\ slotNode[s] \in Nodes /\ slotNode[s] # n
        BY <2>1, <3>2, HomeIs DEF PosInv
      <4> QED BY <1>1, <1>2, <1>3, <2>1, <2>2, <3>2, <4>1 DEF HomedAt, tableVars, reqVars
    <3> QED BY <3>1, <3>2
  <2>4. OriginIsTrue'
    <3>1. nDatum' \subseteq Nodes
      BY <1>3, NoneIs DEF DatumHolds
    <3> QED BY <1>1, <1>4, <2>2, <3>1 DEF PosInv, OriginIsTrue
  <2>5. ProbeMatchesOrigin'
    BY <1>2, <2>1, <2>2, WithoutIs DEF PosInv, ProbeMatchesOrigin, DatumType
  <2>6. FencedZero'
    <3>1. \A s \in slotFenced : s \in Slots /\ s \notin AxesOf(n)
      BY <1>2, AxisIs DEF TableType
    <3> QED BY <1>2, <2>1, <3>1 DEF PosInv, FencedZero, stopVars, tableVars
  <2> QED BY <1>3, <2>3, <2>4, <2>5, <2>6 DEF PosInv, HomedInv
<1>6. CASE o # "ok"
  <2>1. /\ Forgets /\ machinePos' = machinePos
        /\ \A s \in axes_homed' : /\ s \in axes_homed /\ slotNode[s] # n
                                  /\ nodeOrigin'[slotNode[s]] = nodeOrigin[slotNode[s]]
    BY <1>1, <1>6, InvalidateHomes DEF PosInv
  <2>2. nodeOrigin'[n] = None
    BY <1>1, <1>2, <1>6, WithoutIs DEF OriginInvalidate, DatumType
  <2>3. ASSUME NEW s \in axes_homed' PROVE HomedAt(s)'
    BY <1>1, <1>2, <1>3, <2>1 DEF PosInv, HomedInv, HomedAt, tableVars, reqVars
  <2>4. OriginIsTrue'
    <3>1. nDatum \subseteq Nodes
      BY DEF NodeType
    <3> QED BY <1>1, <1>4, <2>1, <2>2, <3>1 DEF PosInv, OriginIsTrue, Forgets
  <2>5. ProbeMatchesOrigin'
    BY <2>1 DEF PosInv, ProbeMatchesOrigin, Forgets
  <2>6. FencedZero'
    BY <1>2, <2>1 DEF PosInv, FencedZero, stopVars, tableVars
  <2> QED BY <1>3, <2>3, <2>4, <2>5, <2>6 DEF PosInv, HomedInv
<1> QED BY <1>5, <1>6

(* Torque is taken from no node whose origin stays.                        *)
LEMMA ReleasePos ==
  ASSUME Typed, PosInv, NEW hs, NEW ns, Release(hs), OriginInvalidate(ns), hs \subseteq ns,
         UNCHANGED <<tableVars, reqVars, stopVars>>
  PROVE  PosInv'
<1> USE DEF Typed, Core0Type
<1>1. /\ nDatum' = nDatum \ hs /\ nEnabled' = nEnabled \ hs
      /\ UNCHANGED <<nPos, truth, lost, floating>>
  BY DEF Release
<1>2. DatumHolds' /\ nDatum' \subseteq nDatum
  BY <1>1 DEF PosInv, DatumHolds
<1>3. /\ Forgets /\ machinePos' = machinePos
      /\ \A s \in axes_homed' : /\ s \in axes_homed /\ slotNode[s] \notin ns
                                /\ nodeOrigin'[slotNode[s]] = nodeOrigin[slotNode[s]]
  BY InvalidateHomes DEF PosInv
<1>4. FencesRead
  BY <1>3 DEF FencesRead, tableVars
<1>5. ASSUME NEW s \in axes_homed' PROVE Kept(s)
  BY <1>1, <1>3 DEF PosInv, HomedInv, HomedAt, Kept, tableVars, reqVars
<1> QED BY <1>1, <1>2, <1>3, <1>4, <1>5, PosStep

LEMMA DropPos ==
  ASSUME Typed, PosInv, NEW n \in Nodes, Dropped(n, "ok"), UNCHANGED stopVars
  PROVE  PosInv'
<1> USE DEF Typed, Core0Type
<1>1. /\ nDatum' = nDatum \ {n} /\ nEnabled' = nEnabled \ {n}
      /\ UNCHANGED <<nPos, truth, lost, floating, datumVars>>
      /\ slotNode' = [s \in Slots |-> IF slotNode[s] = n THEN None ELSE slotNode[s]]
      /\ slotFenced' = slotFenced \ Holds(n)
  BY DEF Dropped, AskMakeSafe, Heard
<1>2. PICK gone : /\ gone = {k \in Slots : AxisNodeOf(k, slotNode', slotFenced', axesReq', axesPending') = None}
                  /\ machinePos' = [k \in Slots |-> IF k \in gone THEN 0 ELSE machinePos[k]]
                  /\ axes_homed' = axes_homed \ gone
  BY DEF Dropped
<1>3. \A k \in Slots : k \notin gone => /\ k \notin axesPending' \cup slotFenced'
                                        /\ slotNode'[k] = axesReq'[k] /\ slotNode'[k] # None
  BY <1>2 DEF AxisNodeOf
<1>4. DatumHolds' /\ nDatum' \subseteq nDatum /\ Forgets
  BY <1>1 DEF PosInv, DatumHolds, Forgets, datumVars
<1>5. FencesRead
  BY <1>1, <1>2, <1>3 DEF FencesRead, TableType
<1>6. ASSUME NEW s \in axes_homed' PROVE Kept(s)
  <2>1. s \in axes_homed /\ s \in Slots /\ s \notin gone
    BY <1>2 DEF ViewType
  <2>2. slotNode'[s] = slotNode[s] /\ slotNode[s] # n
    BY <1>1, <1>3, <2>1
  <2> QED BY <1>1, <1>2, <1>3, <2>1, <2>2 DEF Kept, datumVars
<1> QED BY <1>1, <1>4, <1>5, <1>6, PosStep

LEMMA CommandPos ==
  ASSUME Typed, TableInv, PosInv, Command
  PROVE  PosInv'
<1> USE DEF Typed, Core0Type
<1>1. CASE cmdSlotMap
  BY <1>1, StillPos DEF cmdSlotMap
<1>2. CASE cmdAxesMap
  BY <1>2, ReqPos DEF cmdAxesMap, AxesMapApply
<1>3. CASE cmdUnalarm
  BY <1>3, StillPos DEF cmdUnalarm, core0Vars
<1>4. CASE cmdSetOrigin
  BY <1>4, SetOriginPos
<1>5. CASE cmdSetProbe
  <2>1. PICK k \in Slots : /\ nodeOrigin[axisNode(k)] # None
                           /\ probeZ' = [probeZ EXCEPT ![axisNode(k)] = nodeOrigin[axisNode(k)]]
    BY <1>5 DEF cmdSetProbe
  <2>2. ProbeMatchesOrigin'
    BY <1>5, <2>1 DEF cmdSetProbe, PosInv, ProbeMatchesOrigin, DatumType
  <2> QED BY <1>5, <2>2 DEF cmdSetProbe, PosInv, DatumHolds, OriginIsTrue, HomedInv, HomedAt, FencedZero,
             tableVars, reqVars, viewVars, stopVars, nodeVars
<1>6. CASE cmdUnprobe
  <2>1. PICK n \in Nodes : probeZ' = Without(probeZ, {n})
    BY <1>6 DEF cmdUnprobe
  <2>2. ProbeMatchesOrigin'
    BY <1>6, <2>1, WithoutIs DEF cmdUnprobe, PosInv, ProbeMatchesOrigin, DatumType
  <2> QED BY <1>6, <2>2 DEF cmdUnprobe, PosInv, DatumHolds, OriginIsTrue, HomedInv, HomedAt, FencedZero,
             tableVars, reqVars, viewVars, stopVars, nodeVars
<1>7. ASSUME NEW ns, Energise(ns), UNCHANGED <<tableVars, reqVars, viewVars, datumVars, stopVars>>
      PROVE  PosInv'
  BY <1>7 DEF Energise, PosInv, DatumHolds, OriginIsTrue, HomedInv, HomedAt, FencedZero, ProbeMatchesOrigin,
     tableVars, reqVars, viewVars, datumVars, stopVars
<1>8. CASE cmdEnable
  BY <1>7, <1>8 DEF cmdEnable, core0Vars
<1>9. CASE cmdDisable
  BY <1>9, ReleasePos DEF cmdDisable
<1>10. CASE cmdAxesEnableOff
  BY <1>10, ReleasePos DEF cmdAxesEnableOff
<1>11. CASE cmdBusEnable
  <2>1. PICK heard \in SUBSET Steppers :
          \/ Energise(heard) /\ UNCHANGED <<viewVars, datumVars>>
          \/ Release(heard) /\ OriginInvalidate(Nodes)
    BY <1>11 DEF cmdBusEnable
  <2>2. UNCHANGED <<tableVars, reqVars, stopVars>> /\ heard \subseteq Nodes
    BY <1>11, NoneIs DEF cmdBusEnable
  <2> QED BY <1>7, <2>1, <2>2, ReleasePos
<1>12. CASE cmdMakeSafe
  <2>1. PICK n, o :
          /\ n \in Nodes
          /\ \/ o # "ok" /\ SlotMakeSafe(n, o) /\ UNCHANGED <<axesReq, axesPending>>
             \/ o = "ok" /\ Dropped(n, o)
    BY <1>12 DEF cmdMakeSafe, Dropped
  <2>2. UNCHANGED stopVars
    BY <1>12 DEF cmdMakeSafe
  <2> QED BY <2>1, <2>2, SafePos, DropPos
<1>13. CASE cmdBusExclude
  BY <1>13, StillPos DEF cmdBusExclude, core0Vars
<1>14. CASE cmdStep
  <2>1. PICK n \in nodeEnabled : Holds(n) # {} /\ SlotStep(First(Holds(n)))
    BY <1>14 DEF cmdStep
  <2>2. First(Holds(n)) \in Slots
    <3>1. Holds(n) \in SUBSET Slots
      BY DEF Holds
    <3> QED BY <2>1, <3>1, FirstIs
  <2> QED BY <1>14, <2>1, <2>2, StepPos DEF cmdStep
<1>15. CASE cmdStop
  <2>1. /\ axes_homed' = {} /\ ~swept' /\ UNCHANGED nodeVars
        /\ nodeOrigin' = Without(nodeOrigin, Nodes) /\ probeZ' = Without(probeZ, Nodes)
    BY <1>15 DEF cmdStop
  <2>2. Forgets
    BY <2>1, WithoutForgets
  <2>3. OriginIsTrue' /\ ProbeMatchesOrigin'
    BY <2>1, <2>2, ForgetsKeeps DEF PosInv, nodeVars
  <2> QED BY <2>1, <2>3 DEF PosInv, DatumHolds, HomedInv, FencedZero, nodeVars
<1>16. CASE cmdUnstop
  BY <1>16, StillPos DEF cmdUnstop, core0Vars
<1>17. CASE cmdReset
  BY <1>17 DEF cmdReset, PosInv, DatumHolds, OriginIsTrue, HomedInv, FencedZero, ProbeMatchesOrigin,
     datumVars, nodeVars
<1> QED BY <1>1, <1>2, <1>3, <1>4, <1>5, <1>6, <1>8, <1>9, <1>10, <1>11, <1>12, <1>13, <1>14, <1>15, <1>16,
           <1>17 DEF Command

LEMMA UpsetPos ==
  ASSUME Typed, PosInv, NodeResets \/ HandMoves
  PROVE  PosInv'
<1> USE DEF Typed, Core0Type
<1>1. UNCHANGED <<tableVars, reqVars, viewVars, datumVars, stopVars, floating>>
  BY DEF NodeResets, HandMoves, core0Vars
<1>2. FencedZero' /\ ProbeMatchesOrigin'
  BY <1>1 DEF PosInv, FencedZero, ProbeMatchesOrigin, tableVars, viewVars, stopVars, datumVars
<1>3. nDatum \subseteq Nodes /\ \A s \in axes_homed : HomedAt(s) /\ slotNode[s] \in Nodes
  BY HomeIs DEF PosInv, NodeType
<1>4. CASE NodeResets
  <2>1. PICK n \in Nodes :
          /\ nDatum' = nDatum \ {n} /\ nEnabled' = nEnabled \ {n} /\ lost' = lost \cup {n}
          /\ truth' = truth
          /\ \A m \in Nodes : m # n => nPos'[m] = nPos[m]
    BY <1>4 DEF NodeResets, NodeType
  <2>2. ASSUME NEW s \in axes_homed PROVE HomedAt(s)'
    BY <1>1, <1>3, <2>1 DEF HomedAt, tableVars, reqVars, viewVars, datumVars
  <2>3. DatumHolds' /\ OriginIsTrue'
    BY <1>1, <1>3, <2>1 DEF PosInv, DatumHolds, OriginIsTrue, datumVars
  <2> QED BY <1>1, <1>2, <2>2, <2>3 DEF PosInv, HomedInv, viewVars
<1>5. CASE HandMoves
  <2>1. PICK n \in Steppers \ nEnabled : truth' = [truth EXCEPT ![n] = Plus(@, 1)]
    BY <1>5 DEF HandMoves
  <2>2. UNCHANGED <<nPos, nDatum, nEnabled, lost>>
    BY <1>5 DEF HandMoves
  <2>3. \A m \in nDatum \ floating : truth'[m] = truth[m]
    BY <1>3, <2>1 DEF PosInv, DatumHolds, NodeType
  <2>4. ASSUME NEW s \in axes_homed PROVE HomedAt(s)'
    BY <1>1, <1>3, <2>2 DEF HomedAt, tableVars, reqVars, viewVars, datumVars
  <2>5. DatumHolds' /\ OriginIsTrue'
    BY <1>1, <2>2, <2>3 DEF PosInv, DatumHolds, OriginIsTrue, datumVars
  <2> QED BY <1>1, <1>2, <2>4, <2>5 DEF PosInv, HomedInv, viewVars
<1> QED BY <1>4, <1>5

LEMMA PosInvStep ==
  ASSUME Typed, TableInv, PosInv, [Next]_vars
  PROVE  PosInv'
<1>1. CASE Core
  BY <1>1, CorePos
<1>2. CASE Command
  BY <1>2, CommandPos
<1>3. CASE NodeResets \/ HandMoves
  BY <1>3, UpsetPos
<1>4. CASE UNCHANGED vars
  BY <1>4, StillPos DEF vars, core0Vars
<1> QED BY <1>1, <1>2, <1>3, <1>4 DEF Next

LEMMA PosInvInit == Init => PosInv
BY DEF Init, PosInv, DatumHolds, OriginIsTrue, HomedInv, FencedZero, ProbeMatchesOrigin

(* No position shown to the operator, or that a move starts from, is a     *)
(* stale one: a homed axis is where it is said to be, whatever parks,      *)
(* rebinds, park legs, bursts and resets came between (position.cpp:282);  *)
(* a probe is of the origin in force; and what a stop fenced reads zero.   *)
THEOREM PositionsTrue == Spec => []PositionIsTrue
<1>1. Init => Typed /\ TableInv /\ PosInv
  BY TypeInit, TableInvInit, PosInvInit
<1>2. (Typed /\ TableInv /\ PosInv) /\ [Next]_vars => (Typed /\ TableInv /\ PosInv)'
  BY TypeStep, TableInvStep, PosInvStep
<1>3. Typed /\ TableInv /\ PosInv => PositionIsTrue
  BY PosIsTrue
<1> QED BY <1>1, <1>2, <1>3, PTL DEF Spec
=============================================================================
