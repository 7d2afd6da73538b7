----------------------------- MODULE LegsProofs -----------------------------
(***************************************************************************)
(* Proofs about Legs: for every set of nodes, any of them rotary or a head *)
(* Z, every order of cycles, number of polls and upsets, and every set of  *)
(* commands.                                                               *)
(***************************************************************************)
EXTENDS Legs, SequenceTheorems, WellFoundedInduction, TLAPS

(* The types of the state a handler maps.                                  *)
HomeJobs  == {"none", "park", "rotary", "linear"}
StepKinds == {"zs", "as", "a", "line"}
SeqIds    == {"none", "home", "recovery", "leg", "traverse", "gotoaxis", "goto", "toolchange", "place"}
LegStates == [intent : Intents, goal : Places, misses : Nat, settle : Nat]
LegEvents == [kind : {"leg"}, node : Nodes, failed : BOOLEAN]
Boxed     == [kind : {"step"}] \cup LegEvents
Runs      == [cycle : Nat, job : [Nodes -> HomeJobs], phase : [Nodes -> Nat],
              onSwitch : SUBSET Nodes, done : SUBSET Nodes, started : BOOLEAN]

Cores ==
  [pc : {"observe", "serve", "sequence", "tools"}, ctx : {"IDLE", "HOMING", "JOB"},
   why : {"none", "PLACE", "BUFFERING", "TOOL_CHANGE", "TOOL_WAIT"},
   begun : BOOLEAN, isSet : BOOLEAN, aborted : BOOLEAN,
   events : SUBSET {"F_SEQUENCE", "F_HOMING", "F_TOOL"}, estop : {"clear", "asked", "swept"},
   leg : [Nodes -> LegStates], open : SUBSET Nodes, last : SUBSET Nodes, live : BOOLEAN,
   box : Seq(Boxed), seq : SeqIds, steps : Seq(StepKinds), ringStep : BOOLEAN,
   run : Runs, rec : SUBSET Nodes, parking : BOOLEAN,
   enabled : SUBSET Nodes, origin : SUBSET Nodes, seen : [Nodes -> Places], latch : SUBSET Nodes]

(* A node publishes the leg its pulser runs.                               *)
NodeStates ==
  {d \in [active : BOOLEAN, mode : {"seek", "retract", "sweep", "park"}, goal : Places \ {"none"},
          finished : BOOLEAN, lit : BOOLEAN, hit : BOOLEAN, latched : BOOLEAN, index : BOOLEAN,
          at : Places \ {"none"}, on : BOOLEAN, datum : BOOLEAN, blind : BOOLEAN, reset : BOOLEAN] :
     d.active = TRUE => d.lit = TRUE}

Rings == [state : {"idle", "queued", "moving"}, moves : SUBSET Nodes, abort : BOOLEAN,
          leaving : {"no", "drained", "aborted"}, facts : Nat]

States == [c : Cores, n : [Nodes -> NodeStates], r : Rings]

(* What an operator leaves alone: the machine and its sequence, the legs.  *)
SameMachine(t, s) ==
  /\ t.c.ctx = s.c.ctx /\ t.c.why = s.c.why /\ t.c.begun = s.c.begun /\ t.c.isSet = s.c.isSet
  /\ t.c.aborted = s.c.aborted /\ t.c.events = s.c.events /\ t.c.estop = s.c.estop
SameSequence(t, s) ==
  /\ t.c.seq = s.c.seq /\ t.c.ringStep = s.c.ringStep /\ t.c.steps = s.c.steps
  /\ t.c.run = s.c.run /\ t.c.rec = s.c.rec /\ t.c.parking = s.c.parking /\ t.r = s.r
SameLegs(t, s) ==
  /\ t.c.leg = s.c.leg /\ t.c.live = s.c.live /\ t.c.box = s.c.box

(* A leg that is claimed is a live step's.                                 *)
Held(s) == Claimed(s) # {} => s.c.live

(* A set of naturals has a least member.                                   *)
LEMMA LeastExists ==
  ASSUME NEW A \in SUBSET Nat, A # {}
  PROVE  \E m \in A : \A k \in A : m <= k
<1> DEFINE R == OpToRel(<, Nat)
<1>1. IsWellFoundedOn(R, Nat)
  BY NatLessThanWellFounded
<1>2. \A x, y \in Nat : x < y => <<x, y>> \in R
  BY Zenon DEF OpToRel
<1> HIDE DEF R
<1>3. PICK m \in A : \A y \in A : ~(<<y, m>> \in R)
  BY <1>1, WFMin
<1>4. ASSUME NEW k \in A PROVE m <= k
  <2>1. ~(k < m)
    BY <1>2, <1>3
  <2>2. k \in Int /\ m \in Int
    OBVIOUS
  <2> QED BY <2>1, <2>2
<1> QED BY <1>4

(* A state whose parts are replaced by parts of their types.               *)
LEMMA CoreSet ==
  ASSUME NEW s \in States, NEW c \in Cores
  PROVE  [s EXCEPT !.c = c] \in States
BY DEF States

----------------------------------------------------------------------------
(* The operators: position                                                 *)

LEMMA OriginInvalidateIs ==
  ASSUME NEW s \in States, NEW A
  PROVE  LET t == OriginInvalidate(s, A)
         IN t \in States /\ SameMachine(t, s) /\ SameSequence(t, s) /\ SameLegs(t, s)
<1> DEFINE t == OriginInvalidate(s, A)
<1>1. t \in States
  BY DEF OriginInvalidate, States, Cores, Places
<1>2. SameMachine(t, s) /\ SameSequence(t, s) /\ SameLegs(t, s)
  BY DEF OriginInvalidate, States, Cores, SameMachine, SameSequence, SameLegs
<1> QED BY <1>1, <1>2

LEMMA OriginAdoptIs ==
  ASSUME NEW s \in States, NEW A
  PROVE  LET t == OriginAdopt(s, A)
         IN t \in States /\ SameMachine(t, s) /\ SameSequence(t, s) /\ SameLegs(t, s)
<1> DEFINE t == OriginAdopt(s, A)
           m == [n \in Nodes |-> IF n \in A \cap s.c.origin THEN s.n[n].at ELSE s.c.seen[n]]
<1>1. m \in [Nodes -> Places]
  BY DEF States, Cores, NodeStates
<1>2. t = [s EXCEPT !.c.seen = m]
  BY DEF OriginAdopt, States, Cores
<1> HIDE DEF m, t
<1>3. t \in States
  <2> DEFINE c == [s.c EXCEPT !.seen = m]
  <2>1. s.c \in Cores
    BY DEF States
  <2>2. c \in Cores
    BY <1>1, <2>1 DEF Cores
  <2>3. t = [s EXCEPT !.c = c]
    BY <1>2 DEF States
  <2> HIDE DEF c
  <2> QED BY <2>2, <2>3, CoreSet
<1>4. SameMachine(t, s) /\ SameSequence(t, s) /\ SameLegs(t, s)
  BY <1>2 DEF States, Cores, SameMachine, SameSequence, SameLegs
<1> QED BY <1>3, <1>4 DEF t

LEMMA OriginDatumIs ==
  ASSUME NEW s \in States, NEW A \in SUBSET Nodes, NEW where \in [Nodes -> Places], NEW o
  PROVE  LET t == OriginDatum(s, A, where, o)
         IN t \in States /\ SameMachine(t, s) /\ SameSequence(t, s) /\ SameLegs(t, s)
<1> DEFINE t == OriginDatum(s, A, where, o)
           heard == {n \in A : Out(o, n) = "ok"}
           armed == {n \in A : Out(o, n) # "unheard"}
           m == [n \in Nodes |-> IF n \in armed THEN [s.n[n] EXCEPT !.datum = TRUE] ELSE s.n[n]]
           w == [n \in Nodes |-> IF n \in heard THEN where[n] ELSE IF n \in A THEN "none" ELSE s.c.seen[n]]
           h == (s.c.origin \ A) \cup heard
<1>1. m \in [Nodes -> NodeStates]
  <2>1. ASSUME NEW d \in NodeStates
        PROVE  [d EXCEPT !.datum = TRUE] \in NodeStates
    BY ZenonT(30) DEF NodeStates
  <2>2. \A n \in Nodes : s.n[n] \in NodeStates
    BY DEF States
  <2> QED BY <2>1, <2>2
<1>2. w \in [Nodes -> Places] /\ h \in SUBSET Nodes
  BY DEF States, Cores, Places
<1>3. t = [s EXCEPT !.n = m, !.c.origin = h, !.c.seen = w]
  BY DEF OriginDatum, States, Cores
<1> HIDE DEF m, w, h, t
<1>4. t \in States
  BY <1>1, <1>2, <1>3 DEF States, Cores
<1>5. SameMachine(t, s) /\ SameSequence(t, s) /\ SameLegs(t, s)
  BY <1>3 DEF States, Cores, SameMachine, SameSequence, SameLegs
<1> QED BY <1>4, <1>5 DEF t

LEMMA EnableIs ==
  ASSUME NEW s \in States, NEW A \in SUBSET Nodes, NEW o
  PROVE  LET t == Enable(s, A, o)
         IN t \in States /\ SameMachine(t, s) /\ SameSequence(t, s) /\ SameLegs(t, s)
<1> DEFINE t == Enable(s, A, o)
           tried == {n \in A : \A k \in Deaf(A, o) : Rank(n) <= Rank(k)}
           m == [n \in Nodes |-> IF n \in tried /\ Out(o, n) # "unheard"
                                 THEN [s.n[n] EXCEPT !.on = TRUE] ELSE s.n[n]]
           e == s.c.enabled \cup (tried \ Deaf(A, o))
<1>0. \A n \in Nodes : s.n[n] \in NodeStates /\ [s.n[n] EXCEPT !.on = TRUE] \in NodeStates
  <2>1. \A n \in Nodes : s.n[n] \in NodeStates
    BY DEF States
  <2>2. \A d \in NodeStates : [d EXCEPT !.on = TRUE] \in NodeStates
    BY DEF NodeStates
  <2> QED BY <2>1, <2>2
<1>1. m \in [Nodes -> NodeStates]
  BY <1>0
<1>2. e \in SUBSET Nodes
  BY DEF States, Cores
<1>3. t = [s EXCEPT !.n = m, !.c.enabled = e]
  BY DEF Enable, States, Cores
<1> HIDE DEF m, e, t
<1>4. t \in States
  BY <1>1, <1>2, <1>3 DEF States, Cores
<1>5. SameMachine(t, s) /\ SameSequence(t, s) /\ SameLegs(t, s)
  BY <1>3 DEF States, Cores, SameMachine, SameSequence, SameLegs
<1> QED BY <1>4, <1>5 DEF t

LEMMA ReadiedIs ==
  ASSUME NEW s \in States, NEW A \in SUBSET Nodes, NEW o
  PROVE  LET t == Readied(s, A, o)
         IN t \in States /\ SameMachine(t, s) /\ SameSequence(t, s) /\ SameLegs(t, s)
<1>1. SameMachine(s, s) /\ SameSequence(s, s) /\ SameLegs(s, s)
  BY DEF SameMachine, SameSequence, SameLegs
<1> QED BY <1>1, EnableIs DEF Readied

----------------------------------------------------------------------------
(* The operators: the supervisor and the runner                            *)

NoLegs == [n \in Nodes |-> NoLeg]

LEMMA NoLegType == NoLeg \in LegStates /\ NoLegs \in [Nodes -> LegStates]
BY DEF NoLeg, NoLegs, LegStates, Intents, Places

(* The step is cut: no leg, and nothing in the mailbox.                    *)
Cut(s) == s.c.leg = NoLegs /\ s.c.live = FALSE /\ s.c.box = <<>>

LEMMA CutHolds ==
  ASSUME NEW s, s.c.leg = NoLegs
  PROVE  Claimed(s) = {} /\ Held(s)
BY DEF Claimed, NoLegs, Held

LEMMA StepCutIs ==
  ASSUME NEW s \in States
  PROVE  LET t == StepCut(s)
         IN t \in States /\ SameMachine(t, s) /\ SameSequence(t, s) /\ Cut(t)
<1> DEFINE t == StepCut(s)
<1>1. NoLegs \in [Nodes -> LegStates] /\ <<>> \in Seq(Boxed) /\ {} \in SUBSET Nodes
  BY NoLegType
<1>2. t = [s EXCEPT !.c.leg = NoLegs, !.c.open = {}, !.c.last = {}, !.c.live = FALSE, !.c.box = <<>>]
  BY DEF StepCut, NoLegs
<1> HIDE DEF t
<1>3. t \in States
  <2> DEFINE c == [s.c EXCEPT !.leg = NoLegs, !.open = {}, !.last = {}, !.live = FALSE, !.box = <<>>]
  <2>1. s.c \in Cores
    BY DEF States
  <2>2. c \in Cores
    BY <1>1, <2>1 DEF Cores
  <2>3. t = [s EXCEPT !.c = c]
    BY <1>2 DEF States
  <2> HIDE DEF c
  <2> QED BY <2>2, <2>3, CoreSet
<1>4. SameMachine(t, s) /\ SameSequence(t, s) /\ Cut(t)
  BY <1>2 DEF States, Cores, SameMachine, SameSequence, Cut
<1> QED BY <1>3, <1>4 DEF t

LEMMA AbortLegType ==
  ASSUME NEW d \in NodeStates, NEW o, NEW n
  PROVE  AbortLeg(d, o, n) \in NodeStates
BY DEF AbortLeg, LegHalt, NodeStates

LEMMA AbortAllIs ==
  ASSUME NEW s \in States, NEW o
  PROVE  LET t == AbortAll(s, o)
         IN t \in States /\ SameMachine(t, s) /\ SameSequence(t, s) /\ Cut(t)
<1> DEFINE kept == {n \in Claimed(s) : Out(o, n) = "ok" /\ s.c.leg[n].intent = "park" /\ s.n[n].datum}
           m == [n \in Nodes |-> IF n \in Claimed(s) THEN AbortLeg(s.n[n], o, n) ELSE s.n[n]]
           h == [s EXCEPT !.n = m]
           a == OriginAdopt(h, kept)
           i == OriginInvalidate(a, Claimed(s) \ kept)
<1>1. \A n \in Nodes : s.n[n] \in NodeStates
  BY DEF States
<1>2. m \in [Nodes -> NodeStates]
  BY <1>1, AbortLegType
<1>3. AbortAll(s, o) = StepCut(i)
  BY DEF AbortAll, States
<1> HIDE DEF m
<1>4. h \in States /\ SameMachine(h, s) /\ SameSequence(h, s)
  BY <1>2 DEF States, SameMachine, SameSequence
<1> HIDE DEF h, kept
<1>5. a \in States /\ SameMachine(a, h) /\ SameSequence(a, h)
  BY <1>4, OriginAdoptIs
<1> HIDE DEF a
<1>6. i \in States /\ SameMachine(i, a) /\ SameSequence(i, a)
  BY <1>5, OriginInvalidateIs
<1> HIDE DEF i
<1>7. StepCut(i) \in States /\ SameMachine(StepCut(i), i) /\ SameSequence(StepCut(i), i) /\ Cut(StepCut(i))
  BY <1>6, StepCutIs
<1> QED BY <1>3, <1>4, <1>5, <1>6, <1>7 DEF SameMachine, SameSequence

LEMMA DropAllIs ==
  ASSUME NEW s \in States
  PROVE  LET t == DropAll(s)
         IN t \in States /\ SameMachine(t, s) /\ SameSequence(t, s) /\ Cut(t)
<1> DEFINE i == OriginInvalidate(s, Claimed(s))
<1>1. i \in States /\ SameMachine(i, s) /\ SameSequence(i, s)
  BY OriginInvalidateIs
<1> HIDE DEF i
<1>2. StepCut(i) \in States /\ SameMachine(StepCut(i), i) /\ SameSequence(StepCut(i), i) /\ Cut(StepCut(i))
  BY <1>1, StepCutIs
<1> QED BY <1>1, <1>2 DEF DropAll, SameMachine, SameSequence, i

(* The step's end is posted when no leg is left.                           *)
LEMMA StepCheckIs ==
  ASSUME NEW s \in States
  PROVE  LET t == StepCheck(s)
         IN /\ t \in States /\ SameMachine(t, s) /\ SameSequence(t, s) /\ t.c.leg = s.c.leg
            /\ Claimed(t) = Claimed(s) /\ (Held(s) => Held(t))
            /\ \/ t = s
               \/ Claimed(s) = {} /\ t.c.box = Append(s.c.box, [kind |-> "step"])
<1> DEFINE t == StepCheck(s)
           b == Append(s.c.box, [kind |-> "step"])
<1>1. s.c.box \in Seq(Boxed) /\ [kind |-> "step"] \in Boxed
  BY DEF States, Cores, Boxed
<1>2. b \in Seq(Boxed)
  BY <1>1
<1>3. CASE t = s
  BY <1>3 DEF SameMachine, SameSequence
<1>4. CASE t # s
  <2>1. t = [s EXCEPT !.c.live = FALSE, !.c.box = b] /\ Claimed(s) = {}
    BY <1>4 DEF StepCheck
  <2> HIDE DEF b, t
  <2>2. t \in States
    BY <1>2, <2>1 DEF States, Cores
  <2>3. SameMachine(t, s) /\ SameSequence(t, s) /\ t.c.leg = s.c.leg /\ t.c.box = b
    BY <2>1 DEF States, Cores, SameMachine, SameSequence
  <2>4. Claimed(t) = {}
    BY <2>1, <2>3 DEF Claimed
  <2> QED BY <2>1, <2>2, <2>3, <2>4 DEF Held, b, t
<1> QED BY <1>3, <1>4

(* What a step asks of a node.                                             *)
Plans == [intent : Intents \ {"none"}, goal : Places \ {"none"}, last : BOOLEAN]

LEMMA NodeArmType ==
  ASSUME NEW s \in States, NEW n \in Nodes, NEW p \in Plans, NEW o
  PROVE  NodeArm(s, n, p, o) \in NodeStates
<1> DEFINE d == s.n[n]
           a == PulserArm(d, p.intent, p.goal)
<1>1. d \in NodeStates
  BY DEF States
<1>2. Mode(p.intent) \in {"seek", "retract", "sweep", "park"}
  BY DEF Mode, Plans, Intents
<1>3. a \in NodeStates
  <2> DEFINE b == IF d.on /\ Mode(p.intent) # "retract" THEN "between" ELSE d.at
             mode == Mode(p.intent)
  <2>1. b \in Places \ {"none"} /\ p.goal \in Places \ {"none"}
    BY <1>1 DEF NodeStates, Plans, Places
  <2>2. a = [d EXCEPT !.active = TRUE, !.mode = mode, !.goal = p.goal, !.lit = TRUE, !.hit = FALSE,
                      !.at = b]
    BY DEF PulserArm
  <2> HIDE DEF b, a, d, mode
  <2>3. d \in NodeStates /\ mode \in {"seek", "retract", "sweep", "park"}
    BY <1>1, <1>2 DEF mode
  <2> QED BY <2>1, <2>2, <2>3 DEF NodeStates
<1> HIDE DEF a, d
<1>4. [a EXCEPT !.blind = Out(o, n) # "ok",
                !.reset = @ /\ ~(p.intent \in {"seek", "sweep"} /\ d.on)] \in NodeStates
  <2> DEFINE b == Out(o, n) # "ok"
             r == a.reset /\ ~(p.intent \in {"seek", "sweep"} /\ d.on)
  <2>1. b \in BOOLEAN /\ r \in BOOLEAN
    OBVIOUS
  <2> HIDE DEF b, r
  <2>2. [a EXCEPT !.blind = b, !.reset = r] \in NodeStates
    BY ZenonT(30), <1>3, <2>1 DEF NodeStates
  <2> QED BY <2>2 DEF b, r
<1> QED BY <1>1, <1>4 DEF NodeArm, a, d

LEMMA JoinIs ==
  ASSUME NEW s \in States, NEW D \in SUBSET Nodes, NEW plan \in [D -> Plans], NEW A \in SUBSET D
  PROVE  LET t == Join(s, A, plan)
         IN /\ t \in States /\ SameMachine(t, s) /\ SameSequence(t, s) /\ t.c.box = s.c.box
            /\ Claimed(t) = Claimed(s) \cup A /\ (Held(s) => Held(t))
<1> DEFINE t == Join(s, A, plan)
           New(n) == [intent |-> plan[n].intent, goal |-> plan[n].goal, misses |-> 0,
                      settle |-> IF plan[n].intent \in {"park", "sweep"} THEN 0 ELSE SettlePolls]
           m == [n \in Nodes |-> IF n \notin A THEN s.c.leg[n] ELSE New(n)]
           q == s.c.open \cup A
           l == (s.c.last \ A) \cup {n \in A : plan[n].last}
           v == s.c.live \/ A # {}
<1>1. \A n \in A : New(n) \in LegStates /\ New(n) # NoLeg
  BY LegsAssumption DEF Plans, LegStates, NoLeg, Intents
<1> HIDE DEF New
<1>2. m \in [Nodes -> LegStates]
  BY <1>1 DEF States, Cores
<1>3. q \in SUBSET Nodes /\ l \in SUBSET Nodes /\ v \in BOOLEAN
  BY DEF States, Cores
<1>4. t = [s EXCEPT !.c.leg = m, !.c.open = q, !.c.last = l, !.c.live = v]
  BY DEF Join, States, Cores, New
<1>5. \A n \in Nodes : m[n] # NoLeg <=> (n \in A \/ s.c.leg[n] # NoLeg)
  BY <1>1
<1> HIDE DEF m, q, l, v, t
<1>6. t \in States
  BY <1>2, <1>3, <1>4 DEF States, Cores
<1>7. /\ SameMachine(t, s) /\ SameSequence(t, s) /\ t.c.box = s.c.box
      /\ t.c.leg = m /\ t.c.live = v
  BY <1>4 DEF States, Cores, SameMachine, SameSequence
<1>8. Claimed(t) = Claimed(s) \cup A
  BY <1>5, <1>7 DEF Claimed
<1> QED BY <1>6, <1>7, <1>8 DEF Held, v, t

LEMMA ArmIs ==
  ASSUME NEW s \in States, NEW D \in SUBSET Nodes, NEW plan \in [D -> Plans], NEW o
  PROVE  LET t == Arm(s, plan, o).s
         IN /\ t \in States /\ SameMachine(t, s) /\ SameSequence(t, s) /\ t.c.box = s.c.box
            /\ (Held(s) => Held(t)) /\ Claimed(t) \subseteq Claimed(s) \cup D
            /\ ~Arm(s, plan, o).any => Claimed(t) = Claimed(s)
            /\ Arm(s, plan, o).any \in BOOLEAN
<1> DEFINE refused == {n \in DOMAIN plan : ArmWhy(s, n, plan[n], o) # "ok"}
           bad     == IF refused = {} THEN None ELSE FirstOf(refused)
           tried   == {n \in DOMAIN plan : bad = None \/ Rank(n) <= Rank(bad)}
           m       == [n \in Nodes |-> IF n \in tried THEN NodeArm(s, n, plan[n], o) ELSE s.n[n]]
           asked   == [s EXCEPT !.n = m]
           A       == tried \ {bad}
<1>1. Arm(s, plan, o) = [s |-> Join(asked, A, plan), bad |-> bad, any |-> A # {}]
  BY DEF Arm, States
<1>2. tried \in SUBSET D /\ A \in SUBSET D
  OBVIOUS
<1> HIDE DEF tried, bad, refused
<1>3. \A n \in Nodes : s.n[n] \in NodeStates
  BY DEF States
<1>4. \A n \in tried : NodeArm(s, n, plan[n], o) \in NodeStates
  BY <1>2, NodeArmType
<1>5. m \in [Nodes -> NodeStates]
  BY <1>3, <1>4
<1> HIDE DEF m
<1>6. asked \in States /\ SameMachine(asked, s) /\ SameSequence(asked, s) /\ SameLegs(asked, s)
  BY <1>5 DEF States, SameMachine, SameSequence, SameLegs
<1>7. Claimed(asked) = Claimed(s) /\ (Held(s) => Held(asked))
  BY <1>6 DEF Claimed, Held, SameLegs
<1> HIDE DEF asked, A
<1> DEFINE t == Join(asked, A, plan)
<1>8. /\ t \in States /\ SameMachine(t, asked) /\ SameSequence(t, asked) /\ t.c.box = asked.c.box
      /\ Claimed(t) = Claimed(asked) \cup A /\ (Held(asked) => Held(t))
  BY <1>2, <1>6, JoinIs
<1>9. SameMachine(t, s) /\ SameSequence(t, s) /\ t.c.box = s.c.box
  BY <1>6, <1>8 DEF SameMachine, SameSequence, SameLegs
<1>10. Arm(s, plan, o).s = t /\ Arm(s, plan, o).any = (A # {})
  BY <1>1
<1> HIDE DEF t
<1> QED BY <1>2, <1>7, <1>8, <1>9, <1>10

LEMMA EffectEndIs ==
  ASSUME NEW s \in States, NEW n \in Nodes, NEW intent, NEW why, NEW datum
  PROVE  LET t == EffectEnd(s, n, intent, why, datum)
         IN t \in States /\ SameMachine(t, s) /\ SameSequence(t, s) /\ SameLegs(t, s)
<1> DEFINE switched == why = "none" /\ Mode(intent) \in {"seek", "retract"}
           l == IF ~switched THEN s.c.latch
                ELSE IF Mode(intent) = "seek" THEN s.c.latch \cup {n} ELSE s.c.latch \ {n}
           latched == [s EXCEPT !.c.latch = l]
           t == EffectEnd(s, n, intent, why, datum)
<1>1. l \in SUBSET Nodes
  BY DEF States, Cores
<1>2. t = OriginAdopt(latched, {n}) \/ t = OriginInvalidate(latched, {n})
  BY DEF EffectEnd, States, Cores
<1> HIDE DEF l, t
<1>3. latched \in States
  BY <1>1 DEF States, Cores
<1>4. SameMachine(latched, s) /\ SameSequence(latched, s) /\ SameLegs(latched, s)
  BY DEF States, Cores, SameMachine, SameSequence, SameLegs
<1> HIDE DEF latched
<1>5. t \in States /\ SameMachine(t, latched) /\ SameSequence(t, latched) /\ SameLegs(t, latched)
  BY <1>2, <1>3, OriginAdoptIs, OriginInvalidateIs
<1> QED BY <1>4, <1>5 DEF SameMachine, SameSequence, SameLegs, t

LEMMA ThreadCloseIs ==
  ASSUME NEW s \in States, NEW n \in Nodes
  PROVE  LET t == ThreadClose(s, n)
         IN t \in States /\ SameMachine(t, s) /\ SameSequence(t, s) /\ SameLegs(t, s)
<1> DEFINE q == IF n \in s.c.last THEN s.c.open \ {n} ELSE s.c.open
           l == s.c.last \ {n}
           t == ThreadClose(s, n)
<1>1. q \in SUBSET Nodes /\ l \in SUBSET Nodes
  BY DEF States, Cores
<1>2. t = [s EXCEPT !.c.open = q, !.c.last = l]
  BY DEF ThreadClose, States, Cores
<1> HIDE DEF q, l, t
<1>3. t \in States
  BY <1>1, <1>2 DEF States, Cores
<1>4. SameMachine(t, s) /\ SameSequence(t, s) /\ SameLegs(t, s)
  BY <1>2 DEF States, Cores, SameMachine, SameSequence, SameLegs
<1> QED BY <1>3, <1>4 DEF t

(* A leg that ends posts its own end, then its step's if it was the last.  *)
LEMMA LegEndsIs ==
  ASSUME NEW s \in States, NEW n \in Nodes, NEW why, NEW datum
  PROVE  LET t == LegEnds(s, n, why, datum)
         IN /\ t \in States /\ SameMachine(t, s) /\ SameSequence(t, s)
            /\ Claimed(t) = Claimed(s) \ {n} /\ (Held(s) => Held(t))
            /\ \E e \in LegEvents :
                 \/ t.c.box = Append(s.c.box, e)
                 \/ Claimed(t) = {} /\ t.c.box = Append(Append(s.c.box, e), [kind |-> "step"])
<1> DEFINE intent == s.c.leg[n].intent
           x == EffectEnd(s, n, intent, why, datum)
           y == ThreadClose(x, n)
           e == [kind |-> "leg", node |-> n, failed |-> EndFailed(intent, why)]
           d == [y.n[n] EXCEPT !.blind = @ \/ s.n[n].active]
           m == [y.n EXCEPT ![n] = d]
           g == [y.c.leg EXCEPT ![n] = NoLeg]
           b == Append(y.c.box, e)
           freed == [y EXCEPT !.n = m, !.c.leg = g, !.c.box = b]
           t == StepCheck(freed)
<1>1. x \in States /\ SameMachine(x, s) /\ SameSequence(x, s) /\ SameLegs(x, s)
  BY EffectEndIs
<1> HIDE DEF x
<1>2. y \in States /\ SameMachine(y, x) /\ SameSequence(y, x) /\ SameLegs(y, x)
  BY <1>1, ThreadCloseIs
<1>3. LegEnds(s, n, why, datum) = t
  <2>1. LegEnds(s, n, why, datum) =
          StepCheck([y EXCEPT !.n[n].blind = @ \/ s.n[n].active, !.c.leg[n] = NoLeg,
                              !.c.box = Append(@, e)])
    BY DEF LegEnds, x
  <2>2. [y EXCEPT !.n[n].blind = @ \/ s.n[n].active, !.c.leg[n] = NoLeg, !.c.box = Append(@, e)]
          = freed
    BY <1>2 DEF States, Cores
  <2> QED BY <2>1, <2>2
<1> HIDE DEF y
<1>4. e \in LegEvents /\ e \in Boxed
  BY DEF EndFailed, LegEvents, Boxed
<1>5. d \in NodeStates
  BY <1>2 DEF States, NodeStates
<1>6. /\ m \in [Nodes -> NodeStates] /\ g \in [Nodes -> LegStates]
      /\ \A k \in Nodes : g[k] # NoLeg <=> (y.c.leg[k] # NoLeg /\ k # n)
  <2> HIDE DEF d
  <2> QED BY <1>2, <1>5, NoLegType DEF States, Cores
<1>7. y.c.box \in Seq(Boxed)
  BY <1>2 DEF States, Cores
<1>8. b \in Seq(Boxed)
  BY <1>4, <1>7
<1> HIDE DEF m, g, b, e
<1>9. freed \in States
  BY <1>2, <1>6, <1>8 DEF States, Cores
<1>10. /\ SameMachine(freed, y) /\ SameSequence(freed, y)
       /\ freed.c.leg = g /\ freed.c.box = b /\ freed.c.live = y.c.live
  BY <1>2 DEF States, Cores, SameMachine, SameSequence
<1> HIDE DEF freed
<1>11. Claimed(freed) = Claimed(s) \ {n} /\ (Held(s) => Held(freed))
  BY <1>1, <1>2, <1>6, <1>10 DEF Claimed, Held, SameLegs
<1>12. /\ t \in States /\ SameMachine(t, freed) /\ SameSequence(t, freed) /\ t.c.leg = freed.c.leg
       /\ Claimed(t) = Claimed(freed) /\ (Held(freed) => Held(t))
       /\ \/ t = freed
          \/ Claimed(freed) = {} /\ t.c.box = Append(freed.c.box, [kind |-> "step"])
  BY <1>9, StepCheckIs
<1>13. b = Append(s.c.box, e)
  BY <1>1, <1>2 DEF SameLegs, b
<1> HIDE DEF t
<1>14. SameMachine(t, s) /\ SameSequence(t, s)
  BY <1>1, <1>2, <1>10, <1>12 DEF SameMachine, SameSequence
<1>15. \/ t.c.box = Append(s.c.box, e)
       \/ Claimed(t) = {} /\ t.c.box = Append(Append(s.c.box, e), [kind |-> "step"])
  BY <1>10, <1>12, <1>13
<1> QED BY <1>3, <1>4, <1>11, <1>12, <1>14, <1>15

(* What the supervisor's tick does: at most one leg ends, and is posted.   *)
Ticks(t, s) ==
  /\ t \in States /\ SameMachine(t, s) /\ SameSequence(t, s)
  /\ Claimed(t) \subseteq Claimed(s) /\ (Held(s) => Held(t))
  /\ \/ t.c.box = s.c.box
     \/ \E e \in LegEvents :
          \/ t.c.box = Append(s.c.box, e)
          \/ Claimed(t) = {} /\ t.c.box = Append(Append(s.c.box, e), [kind |-> "step"])

LEMMA LegEndsTicks ==
  ASSUME NEW s \in States, NEW n \in Nodes, NEW why, NEW datum
  PROVE  Ticks(LegEnds(s, n, why, datum), s)
BY LegEndsIs DEF Ticks

(* A poll that ends nothing counts its misses or its settling.             *)
LEMMA PollCounts ==
  ASSUME NEW s \in States, NEW n \in Claimed(s), NEW g \in LegStates
  PROVE  Ticks([s EXCEPT !.c.leg[n] = g], s)
<1> DEFINE t == [s EXCEPT !.c.leg[n] = g]
           m == [s.c.leg EXCEPT ![n] = g]
<1>1. n \in Nodes
  BY DEF Claimed
<1>2. m \in [Nodes -> LegStates] /\ \A k \in Nodes : k # n => m[k] = s.c.leg[k]
  BY <1>1 DEF States, Cores
<1>3. t = [s EXCEPT !.c.leg = m]
  BY DEF States, Cores
<1> HIDE DEF m, t
<1>4. t \in States
  BY <1>2, <1>3 DEF States, Cores
<1>5. /\ SameMachine(t, s) /\ SameSequence(t, s) /\ t.c.box = s.c.box
      /\ t.c.live = s.c.live /\ t.c.leg = m
  BY <1>3 DEF States, Cores, SameMachine, SameSequence
<1>6. Claimed(t) \subseteq Claimed(s)
  BY <1>2, <1>5 DEF Claimed
<1> QED BY <1>4, <1>5, <1>6 DEF Ticks, Held, t

LEMMA PollOneTicks ==
  ASSUME NEW s \in States, NEW n \in Claimed(s), NEW o
  PROVE  Ticks(PollOne(s, n, o), s)
<1> DEFINE g == s.c.leg[n]
           heard == [g EXCEPT !.misses = 0]
           missed == [g EXCEPT !.misses = @ + 1]
           settled == [heard EXCEPT !.settle = @ - 1]
<1>1. n \in Nodes /\ g \in LegStates
  BY DEF Claimed, States, Cores
<1>2. heard \in LegStates /\ missed \in LegStates
  BY <1>1 DEF LegStates
<1>3. g.settle > 0 => settled \in LegStates
  <2>1. heard.settle = g.settle /\ g.settle \in Nat
    BY <1>1 DEF LegStates
  <2>2. g.settle > 0 => heard.settle - 1 \in Nat
    BY <2>1
  <2> HIDE DEF heard
  <2> QED BY <1>2, <2>2 DEF LegStates
<1>4. \/ PollOne(s, n, o) = [s EXCEPT !.c.leg[n] = missed]
      \/ PollOne(s, n, o) = [s EXCEPT !.c.leg[n] = heard]
      \/ g.settle > 0 /\ PollOne(s, n, o) = [s EXCEPT !.c.leg[n] = settled]
      \/ \E why \in {"failed", "none", "budget"}, datum \in BOOLEAN :
           PollOne(s, n, o) = LegEnds(s, n, why, datum)
  <2>1. [s EXCEPT !.c.leg[n].misses = 0] = [s EXCEPT !.c.leg[n] = heard]
    BY <1>1 DEF States, Cores
  <2>2. [s EXCEPT !.c.leg[n].misses = @ + 1] = [s EXCEPT !.c.leg[n] = missed]
    BY <1>1 DEF States, Cores
  <2>3. [[s EXCEPT !.c.leg[n].misses = 0] EXCEPT !.c.leg[n].settle = @ - 1]
          = [s EXCEPT !.c.leg[n] = settled]
    <3> HIDE DEF heard
    <3>1. [[s EXCEPT !.c.leg[n] = heard] EXCEPT !.c.leg[n].settle = @ - 1]
            = [s EXCEPT !.c.leg[n] = settled]
      <4> DEFINE m == [s.c.leg EXCEPT ![n] = heard]
                 k == [s.c EXCEPT !.leg = m]
                 u == [s EXCEPT !.c = k]
      <4>1. u = [s EXCEPT !.c.leg[n] = heard]
        BY DEF States, Cores
      <4>2. /\ u.c = k /\ k.leg = m /\ m[n] = heard /\ u \in [c : {k}, n : {s.n}, r : {s.r}]
            /\ s.c.leg \in [Nodes -> LegStates]
        BY <1>1 DEF States, Cores
      <4>3. [u EXCEPT !.c.leg[n].settle = @ - 1]
              = [u EXCEPT !.c = [k EXCEPT !.leg = [m EXCEPT ![n] = settled]]]
        BY <4>2
      <4>4. [m EXCEPT ![n] = settled] = [s.c.leg EXCEPT ![n] = settled]
        BY <4>2
      <4>5. [k EXCEPT !.leg = [m EXCEPT ![n] = settled]]
              = [s.c EXCEPT !.leg = [s.c.leg EXCEPT ![n] = settled]]
        BY <4>4 DEF States, Cores
      <4>6. \A d : [u EXCEPT !.c = d] = [s EXCEPT !.c = d]
        BY DEF States
      <4> QED BY <4>1, <4>3, <4>5, <4>6
    <3> QED BY <2>1, <3>1
  <2>4. s.n[n].datum \in BOOLEAN /\ [s EXCEPT !.c.leg[n].misses = 0].c.leg[n].settle = g.settle
    BY <1>1 DEF States, Cores, NodeStates, LegStates
  <2> HIDE DEF heard, missed, settled
  <2> QED BY <2>1, <2>2, <2>3, <2>4 DEF PollOne
<1> HIDE DEF heard, missed, settled
<1> QED BY <1>1, <1>2, <1>3, <1>4, PollCounts, LegEndsTicks

----------------------------------------------------------------------------
(* The operators: the teardown                                             *)

LEMMA NoRunType == NoRun \in Runs
BY DEF NoRun, Runs, HomeJobs

LEMMA SequenceEndIs ==
  ASSUME NEW s \in States
  PROVE  LET t == SequenceEnd(s)
         IN /\ t \in States /\ SameMachine(t, s) /\ SameLegs(t, s) /\ t.r = s.r /\ t.n = s.n
            /\ t.c.seq = "none" /\ t.c.ringStep = FALSE
<1> DEFINE t == SequenceEnd(s)
<1>1. <<>> \in Seq(StepKinds) /\ {} \in SUBSET Nodes /\ "none" \in SeqIds
  BY DEF SeqIds
<1>2. t \in States
  BY ZenonT(60), <1>1, NoRunType DEF SequenceEnd, States, Cores
<1>3. /\ SameMachine(t, s) /\ SameLegs(t, s) /\ t.r = s.r /\ t.n = s.n
      /\ t.c.seq = "none" /\ t.c.ringStep = FALSE
  <2> DEFINE c == [s.c EXCEPT !.seq = "none", !.ringStep = FALSE, !.steps = <<>>,
                              !.rec = {}, !.parking = FALSE, !.run = NoRun]
  <2>1. t = [s EXCEPT !.c = c]
    BY DEF SequenceEnd, States
  <2>2. t.c = c /\ t.r = s.r /\ t.n = s.n
    BY <2>1 DEF States
  <2>3. s.c \in Cores
    BY DEF States
  <2>4. SameMachine([c |-> c], s)
    BY <2>3 DEF Cores, SameMachine
  <2>5. SameLegs([c |-> c], s)
    BY <2>3 DEF Cores, SameLegs
  <2>6. c.seq = "none" /\ c.ringStep = FALSE
    BY <2>3 DEF Cores
  <2> HIDE DEF c, t
  <2> QED BY <2>2, <2>4, <2>5, <2>6 DEF SameMachine, SameLegs
<1> QED BY <1>2, <1>3

LEMMA SequenceStartIs ==
  ASSUME NEW s \in States, NEW id \in SeqIds
  PROVE  LET t == SequenceStart(s, id)
         IN /\ t \in States /\ SameMachine(t, s) /\ SameLegs(t, s) /\ t.r = s.r /\ t.n = s.n
            /\ t.c.seq = id /\ t.c.ringStep = FALSE
<1> DEFINE t == SequenceStart(s, id)
<1>1. t \in States
  BY DEF SequenceStart, States, Cores
<1>2. /\ SameMachine(t, s) /\ SameLegs(t, s) /\ t.r = s.r /\ t.n = s.n
      /\ t.c.seq = id /\ t.c.ringStep = FALSE
  BY DEF SequenceStart, States, Cores, SameMachine, SameLegs
<1> QED BY <1>1, <1>2

(* What a teardown leaves of the legs.                                     *)
Emptied(t, s) ==
  /\ Claimed(t) \subseteq Claimed(s) /\ (Held(s) => Held(t))
  /\ t.c.box = s.c.box \/ t.c.box = <<>>

LEMMA SequenceAbortIs ==
  ASSUME NEW s \in States, NEW o
  PROVE  LET t == SequenceAbort(s, o)
         IN t \in States /\ SameMachine(t, s) /\ t.r = s.r /\ Emptied(t, s) /\ t.c.seq = "none"
<1> DEFINE a == IF s.c.live THEN AbortAll(s, o) ELSE s
<1>1. a \in States /\ SameMachine(a, s) /\ a.r = s.r /\ Emptied(a, s)
  <2>1. CASE s.c.live
    <3>1. a \in States /\ SameMachine(a, s) /\ SameSequence(a, s) /\ Cut(a)
      BY <2>1, AbortAllIs
    <3> HIDE DEF a
    <3>2. Claimed(a) = {} /\ Held(a) /\ a.c.box = <<>>
      BY <3>1, CutHolds DEF Cut
    <3> QED BY <3>1, <3>2 DEF SameSequence, Emptied
  <2>2. CASE ~s.c.live
    BY <2>2 DEF SameMachine, Emptied
  <2> QED BY <2>1, <2>2
<1>2. SequenceAbort(s, o) = IF s.c.seq = "none" THEN s ELSE SequenceEnd(a)
  BY DEF SequenceAbort
<1> HIDE DEF a
<1>3. CASE s.c.seq = "none"
  BY <1>2, <1>3 DEF SameMachine, Emptied
<1>4. CASE s.c.seq # "none"
  <2> DEFINE t == SequenceEnd(a)
  <2>1. /\ t \in States /\ SameMachine(t, a) /\ SameLegs(t, a) /\ t.r = a.r
        /\ t.c.seq = "none"
    BY <1>1, SequenceEndIs
  <2> HIDE DEF t
  <2>2. SameMachine(t, s) /\ t.r = s.r
    BY <1>1, <2>1 DEF SameMachine
  <2>3. Emptied(t, s)
    BY <1>1, <2>1 DEF Emptied, SameLegs, Claimed, Held
  <2> QED BY <1>2, <1>4, <2>1, <2>2, <2>3 DEF t
<1> QED BY <1>3, <1>4

(* Outside a job an abort only raises the flag.                            *)
LEMMA JobAbortIs ==
  ASSUME NEW s \in States, NEW o
  PROVE  LET t == JobAbort(s, o)
         IN /\ t \in States /\ Emptied(t, s)
            /\ t.c.ctx = s.c.ctx /\ t.c.why = s.c.why /\ t.c.begun = s.c.begun /\ t.c.events = s.c.events
            /\ t.c.estop = s.c.estop /\ t.r.abort = TRUE
            /\ \/ s.c.ctx = "JOB" /\ t.c.seq = "none" /\ t.c.aborted = TRUE
               \/ /\ s.c.ctx # "JOB" /\ t.c.seq = s.c.seq /\ t.c.ringStep = s.c.ringStep
                  /\ t.c.leg = s.c.leg /\ t.c.box = s.c.box
<1> DEFINE t == JobAbort(s, o)
<1>1. CASE s.c.ctx # "JOB"
  <2>1. t = [s EXCEPT !.r.abort = TRUE]
    BY <1>1 DEF JobAbort
  <2> HIDE DEF t
  <2>2. t \in States
    BY <2>1 DEF States, Rings
  <2>3. t.c = s.c /\ t.r.abort = TRUE
    BY <2>1 DEF States, Rings
  <2>4. Emptied(t, s)
    BY <2>3 DEF Emptied, Claimed, Held
  <2> QED BY <1>1, <2>2, <2>3, <2>4 DEF t
<1>2. CASE s.c.ctx = "JOB"
  <2> DEFINE a == SequenceAbort(s, o)
  <2>1. a \in States /\ SameMachine(a, s) /\ a.r = s.r /\ Emptied(a, s) /\ a.c.seq = "none"
    BY SequenceAbortIs
  <2>2. t = [a EXCEPT !.c.aborted = TRUE, !.r.abort = TRUE]
    BY <1>2 DEF JobAbort
  <2> HIDE DEF a, t
  <2>3. t \in States
    <3> DEFINE c == [a.c EXCEPT !.aborted = TRUE]
               r == [a.r EXCEPT !.abort = TRUE]
    <3>1. c \in Cores /\ r \in Rings
      <4>1. a.c \in Cores /\ a.r \in Rings
        BY <2>1 DEF States
      <4>2. c \in Cores
        BY <4>1 DEF Cores
      <4> QED BY <4>1, <4>2 DEF Rings
    <3>2. t = [a EXCEPT !.c = c, !.r = r]
      BY <2>1, <2>2 DEF States
    <3> HIDE DEF c, r
    <3> QED BY <2>1, <3>1, <3>2 DEF States
  <2>4. /\ t.c.ctx = a.c.ctx /\ t.c.why = a.c.why /\ t.c.begun = a.c.begun /\ t.c.events = a.c.events
        /\ t.c.estop = a.c.estop /\ t.r.abort = TRUE /\ t.c.seq = a.c.seq /\ SameLegs(t, a)
        /\ t.c.aborted = TRUE
    BY <2>1, <2>2 DEF States, Cores, Rings, SameLegs
  <2>5. Emptied(t, s)
    BY <2>1, <2>4 DEF Emptied, SameLegs, Claimed, Held
  <2> QED BY <1>2, <2>1, <2>3, <2>4, <2>5 DEF SameMachine, t
<1> QED BY <1>1, <1>2

LEMMA StopJogIs ==
  ASSUME NEW s \in States
  PROVE  StopJog(s) \in States /\ StopJog(s).c = s.c
BY DEF StopJog, States, Rings

(* Nothing runs: no sequence, no leg, no homing, no job but an aborted one. *)
Torn(t) == /\ t \in States /\ t.c.seq = "none" /\ Claimed(t) = {} /\ t.c.ctx # "HOMING"
           /\ t.c.ctx = "JOB" => t.c.aborted = TRUE

LEMMA TearDownIs ==
  ASSUME NEW s \in States, Held(s), NEW o
  PROVE  LET t == TearDown(s, o)
         IN Torn(t) /\ t.c.events = s.c.events /\ (t.c.box = s.c.box \/ t.c.box = <<>>)
<1> DEFINE a == IF s.c.live THEN AbortAll(s, o) ELSE s
           b == SequenceAbort(a, o)
           t == ContextEnds(b, o)
<1>1. a \in States /\ SameMachine(a, s) /\ Claimed(a) = {} /\ Held(a)
        /\ (a.c.box = s.c.box \/ a.c.box = <<>>)
  <2>1. CASE s.c.live
    <3>1. a \in States /\ SameMachine(a, s) /\ SameSequence(a, s) /\ Cut(a)
      BY <2>1, AbortAllIs
    <3> HIDE DEF a
    <3>2. Claimed(a) = {} /\ Held(a) /\ a.c.box = <<>>
      BY <3>1, CutHolds DEF Cut
    <3> QED BY <3>1, <3>2
  <2>2. CASE ~s.c.live
    BY <2>2 DEF SameMachine, Held
  <2> QED BY <2>1, <2>2
<1>2. TearDown(s, o) = t
  BY DEF TearDown
<1> HIDE DEF a
<1>3. b \in States /\ SameMachine(b, a) /\ b.r = a.r /\ Emptied(b, a) /\ b.c.seq = "none"
  BY <1>1, SequenceAbortIs
<1> HIDE DEF b
<1>4. CASE b.c.ctx = "HOMING"
  <2>1. t = [b EXCEPT !.c.ctx = "IDLE"]
    BY <1>4 DEF ContextEnds
  <2> HIDE DEF t
  <2>2. t \in States
    <3> DEFINE c == [b.c EXCEPT !.ctx = "IDLE"]
    <3>1. b.c \in Cores
      BY <1>3 DEF States
    <3>2. c \in Cores
      BY <3>1 DEF Cores
    <3>3. t = [b EXCEPT !.c = c]
      BY <1>3, <2>1 DEF States
    <3> HIDE DEF c
    <3> QED BY <1>3, <3>2, <3>3, CoreSet
  <2>3. t.c.ctx = "IDLE" /\ t.c.seq = b.c.seq /\ t.c.events = b.c.events /\ SameLegs(t, b)
    BY <1>3, <2>1 DEF States, Cores, SameLegs
  <2> QED BY <1>1, <1>2, <1>3, <2>2, <2>3 DEF Torn, SameMachine, SameLegs, Emptied, Claimed
<1>5. CASE b.c.ctx = "JOB"
  <2>1. t = JobAbort(b, o)
    BY <1>5 DEF ContextEnds
  <2> HIDE DEF t
  <2>2. t \in States /\ Emptied(t, b) /\ t.c.ctx = "JOB" /\ t.c.events = b.c.events /\ t.c.seq = "none"
        /\ t.c.aborted = TRUE
    BY <1>3, <1>5, <2>1, JobAbortIs
  <2> QED BY <1>1, <1>2, <1>3, <2>2 DEF Torn, SameMachine, Emptied
<1>6. CASE b.c.ctx \notin {"HOMING", "JOB"}
  <2>1. t = StopJog(b)
    BY <1>6 DEF ContextEnds
  <2> HIDE DEF t
  <2>2. t \in States /\ t.c = b.c
    BY <1>3, <2>1, StopJogIs
  <2> QED BY <1>1, <1>2, <1>3, <1>6, <2>2 DEF Torn, SameMachine, Emptied, Claimed
<1> QED BY <1>4, <1>5, <1>6

Faults == {"F_SEQUENCE", "F_HOMING", "F_TOOL"}

LEMMA FaultSetIs ==
  ASSUME NEW s \in States, Held(s), NEW f \in Faults, NEW o
  PROVE  LET t == FaultSet(s, f, o)
         IN Torn(t) /\ t.c.events # {} /\ (t.c.box = s.c.box \/ t.c.box = <<>>)
<1> DEFINE e == s.c.events \cup {f}
           x == [s EXCEPT !.c.events = e]
<1>1. FaultSet(s, f, o) = TearDown(x, o)
  BY DEF FaultSet, States, Cores
<1>2. e \in SUBSET Faults /\ e # {}
  BY DEF States, Cores, Faults
<1> HIDE DEF e
<1>3. x \in States
  BY <1>2 DEF States, Cores, Faults
<1>4. x.c.events = e /\ SameLegs(x, s)
  BY DEF States, Cores, SameLegs
<1> HIDE DEF x
<1>5. Held(x) /\ x.c.box = s.c.box
  BY <1>4 DEF Held, Claimed, SameLegs
<1> QED BY <1>1, <1>2, <1>3, <1>4, <1>5, TearDownIs

LEMMA SequenceFailIs ==
  ASSUME NEW s \in States, Held(s), NEW o
  PROVE  LET t == SequenceFail(s, o)
         IN Torn(t) /\ (t.c.box = s.c.box \/ t.c.box = <<>>)
BY FaultSetIs DEF SequenceFail, Faults

LEMMA HomingFailIs ==
  ASSUME NEW s \in States, NEW o
  PROVE  Torn(HomingFail(s, o)) /\ HomingFail(s, o).c.box = <<>>
<1> DEFINE a == AbortAll(s, o)
<1>1. a \in States /\ Cut(a)
  BY AbortAllIs
<1> HIDE DEF a
<1>2. Held(a) /\ a.c.box = <<>>
  BY <1>1, CutHolds DEF Cut
<1> QED BY <1>1, <1>2, FaultSetIs DEF HomingFail, Faults, a

LEMMA HomingAbandonIs ==
  ASSUME NEW s \in States, NEW n, NEW o
  PROVE  Torn(HomingAbandon(s, n, o)) /\ HomingAbandon(s, n, o).c.box = <<>>
<1>1. OriginInvalidate(s, {n}) \in States
  BY OriginInvalidateIs
<1> QED BY <1>1, HomingFailIs DEF HomingAbandon

LEMMA JobClosesIs ==
  ASSUME NEW s \in States
  PROVE  LET t == JobCloses(s)
         IN /\ t \in States /\ t.c.ctx = "IDLE" /\ t.c.events = s.c.events /\ SameSequence(t, s) /\ SameLegs(t, s)
            /\ Claimed(t) = Claimed(s) /\ (Held(s) => Held(t))
<1> DEFINE t == JobCloses(s)
<1>1. t \in States
  BY ZenonT(30) DEF JobCloses, States, Cores
<1>2. t.c.ctx = "IDLE" /\ t.c.events = s.c.events /\ SameSequence(t, s) /\ SameLegs(t, s)
  BY DEF JobCloses, States, Cores, SameSequence, SameLegs
<1> HIDE DEF t
<1> QED BY <1>1, <1>2 DEF Claimed, Held, SameLegs, t

LEMMA TearDownEstopIs ==
  ASSUME NEW s \in States, Held(s)
  PROVE  LET t == TearDownEstop(s)
         IN Torn(t) /\ t.c.events = s.c.events /\ (t.c.box = s.c.box \/ t.c.box = <<>>)
<1> DEFINE a == IF s.c.live THEN DropAll(s) ELSE s
           b == SequenceEnd(a)
           t == JobCloses(b)
<1>1. a \in States /\ SameMachine(a, s) /\ Claimed(a) = {} /\ (a.c.box = s.c.box \/ a.c.box = <<>>)
  <2>1. CASE s.c.live
    <3>1. a \in States /\ SameMachine(a, s) /\ Cut(a)
      BY <2>1, DropAllIs
    <3> HIDE DEF a
    <3> QED BY <3>1, CutHolds DEF Cut
  <2>2. CASE ~s.c.live
    BY <2>2 DEF SameMachine, Held
  <2> QED BY <2>1, <2>2
<1>2. TearDownEstop(s) = t
  BY DEF TearDownEstop
<1> HIDE DEF a
<1>3. b \in States /\ SameMachine(b, a) /\ SameLegs(b, a) /\ b.c.seq = "none"
  BY <1>1, SequenceEndIs
<1> HIDE DEF b
<1>4. /\ t \in States /\ t.c.ctx = "IDLE" /\ t.c.events = b.c.events /\ SameSequence(t, b) /\ SameLegs(t, b)
      /\ Claimed(t) = Claimed(b)
  BY <1>3, JobClosesIs
<1> HIDE DEF t
<1> QED BY <1>1, <1>2, <1>3, <1>4 DEF Torn, SameMachine, SameSequence, SameLegs, Claimed

----------------------------------------------------------------------------
(* The home recipe                                                         *)

(* A handler fails its sequence, or goes on with it or ends it.            *)
Fails(t) == Torn(t) /\ t.c.box = <<>>
Stays(t, s) ==
  /\ t \in States /\ SameMachine(t, s) /\ t.r = s.r /\ t.c.box = s.c.box
  /\ Held(t) /\ t.c.seq \in {s.c.seq, "none"} /\ t.c.ringStep \in {s.c.ringStep, FALSE}

(* A node's chain has at most four legs, the last of them known to be so.  *)
OnSwitchSkip(run, n) == IF n \in run.onSwitch THEN 1 ELSE 0
Chain(run, n) ==
  n \notin run.done /\ run.job[n] \notin {"park", "rotary"} => run.phase[n] + OnSwitchSkip(run, n) <= 2
Chains(run) == run.started /\ \A n \in Nodes : Chain(run, n)

LEMMA HomeLegType ==
  ASSUME NEW job \in HomeJobs, NEW k \in Nat, job \notin {"park", "rotary"} => k <= 3
  PROVE  /\ HomeLeg(job, k) \in Plans
         /\ job \notin {"park", "rotary"} /\ k = 3 => HomeLeg(job, k).last
<1>1. CASE job = "park"
  BY <1>1 DEF HomeLeg, Park, Leg, Plans, Intents, Places
<1>2. CASE job = "rotary"
  BY <1>2 DEF HomeLeg, Leg, Plans, Intents, Places
<1>3. CASE job \notin {"park", "rotary"}
  <2> DEFINE L == << Leg("seek", "switch", FALSE), Leg("retract", "between", FALSE),
                     Leg("seek", "switch", FALSE), Leg("retract", "park", TRUE) >>
  <2>1. HomeLeg(job, k) = L[k + 1]
    BY <1>3 DEF HomeLeg
  <2>2. k \in {0, 1, 2, 3}
    BY <1>3
  <2>3. /\ L[0 + 1] \in Plans /\ L[1 + 1] \in Plans /\ L[2 + 1] \in Plans /\ L[3 + 1] \in Plans
        /\ L[3 + 1].last
    BY DEF Leg, Plans, Intents, Places
  <2> HIDE DEF L
  <2> QED BY <2>1, <2>2, <2>3
<1> QED BY <1>1, <1>2, <1>3

(* A nonempty set of nodes has a first, in homeAxes' order.                *)
LEMMA FirstOfIs ==
  ASSUME NEW A \in SUBSET Nodes, A # {}
  PROVE  FirstOf(A) \in A
<1> DEFINE R == {Rank(n) : n \in A}
<1>1. \A n \in Nodes : Rank(n) \in Nat
  BY DEF Nodes, Rank
<1>2. R \in SUBSET Nat /\ R # {}
  BY <1>1
<1>3. PICK m \in R : \A k \in R : m <= k
  BY <1>2, LeastExists
<1>4. \E n \in A : \A k \in A : Rank(n) <= Rank(k)
  BY <1>3
<1> QED BY <1>4 DEF FirstOf

(* What an arm that is not refused leaves claimed.                         *)
LEMMA ArmClaims ==
  ASSUME NEW s \in States, NEW D \in SUBSET Nodes, NEW plan \in [D -> Plans], NEW o,
         Arm(s, plan, o).bad = None
  PROVE  /\ D \subseteq Claimed(Arm(s, plan, o).s)
         /\ Arm(s, plan, o).any = (D # {})
<1> DEFINE refused == {n \in DOMAIN plan : ArmWhy(s, n, plan[n], o) # "ok"}
           bad     == IF refused = {} THEN None ELSE FirstOf(refused)
           tried   == {n \in DOMAIN plan : bad = None \/ Rank(n) <= Rank(bad)}
           m       == [n \in Nodes |-> IF n \in tried THEN NodeArm(s, n, plan[n], o) ELSE s.n[n]]
           asked   == [s EXCEPT !.n = m]
           A       == tried \ {bad}
<1>1. Arm(s, plan, o) = [s |-> Join(asked, A, plan), bad |-> bad, any |-> A # {}]
  BY DEF Arm, States
<1>2. bad = None
  BY <1>1
<1>3. A = D
  BY <1>2, LegsAssumption
<1> HIDE DEF bad, tried, A, refused
<1>4. \A n \in Nodes : s.n[n] \in NodeStates
  BY DEF States
<1>5. tried \in SUBSET D
  BY DEF tried
<1>6. m \in [Nodes -> NodeStates]
  BY <1>4, <1>5, NodeArmType
<1> HIDE DEF m
<1>7. asked \in States
  BY <1>6 DEF States
<1> HIDE DEF asked
<1>8. Claimed(Join(asked, A, plan)) = Claimed(asked) \cup A
  BY <1>3, <1>7, JoinIs
<1> QED BY <1>1, <1>3, <1>8

(* What a cycle's arms leave in the run.                                   *)
LEMMA HomeMovedIs ==
  ASSUME NEW armed, armed.s \in States, armed.any \in BOOLEAN,
         NEW on \in SUBSET Nodes, NEW lastOf \in SUBSET Nodes
  PROVE  LET t == HomeMoved(armed, on, lastOf)
         IN /\ t \in States /\ SameMachine(t, armed.s) /\ SameLegs(t, armed.s) /\ t.r = armed.s.r
            /\ t.c.seq = armed.s.c.seq /\ t.c.ringStep = armed.s.c.ringStep
            /\ t.c.run.onSwitch = on /\ (t.c.run.started <=> armed.s.c.run.started \/ armed.any)
            /\ t.c.run.done = armed.s.c.run.done \cup {n \in lastOf : armed.s.c.leg[n] # NoLeg}
            /\ t.c.run.job = armed.s.c.run.job /\ t.c.run.phase = armed.s.c.run.phase
            /\ t.c.run.cycle = armed.s.c.run.cycle
<1> DEFINE s == armed.s
           st == s.c.run.started \/ armed.any
           dn == s.c.run.done \cup {n \in lastOf : s.c.leg[n] # NoLeg}
           run == [s.c.run EXCEPT !.onSwitch = on, !.started = st, !.done = dn]
           t == HomeMoved(armed, on, lastOf)
<1>1. s.c.run \in Runs /\ st \in BOOLEAN /\ dn \in SUBSET Nodes
  BY DEF States, Cores, Runs
<1>2. t = [s EXCEPT !.c.run = run]
  <2> DEFINE r == [s.c.run EXCEPT !.onSwitch = on, !.started = @ \/ armed.any,
                                  !.done = @ \cup {n \in lastOf : armed.s.c.leg[n] # NoLeg}]
  <2>1. r = run
    BY <1>1 DEF Runs
  <2>2. t = [s EXCEPT !.c.run = r]
    BY DEF HomeMoved
  <2> HIDE DEF r, run
  <2> QED BY <2>1, <2>2
<1> HIDE DEF st, dn
<1>3. run \in Runs
  BY <1>1 DEF Runs
<1>4. /\ run.onSwitch = on /\ run.started = st /\ run.done = dn
      /\ run.job = s.c.run.job /\ run.phase = s.c.run.phase /\ run.cycle = s.c.run.cycle
  BY <1>1 DEF Runs
<1> HIDE DEF t, run
<1>5. t \in States
  BY ZenonT(30), <1>2, <1>3 DEF States, Cores
<1>6. /\ SameMachine(t, s) /\ SameLegs(t, s) /\ t.r = s.r
      /\ t.c.seq = s.c.seq /\ t.c.ringStep = s.c.ringStep /\ t.c.run = run
  BY <1>2 DEF States, Cores, SameMachine, SameLegs
<1> QED BY <1>4, <1>5, <1>6 DEF st, dn, t

(* The arms of a cycle, or of a node's next leg: the run fails, or is      *)
(* refused before anything moved, or goes on with every chain in its legs. *)
LEMMA HomeArmIs ==
  ASSUME NEW s \in States, Held(s), s.c.seq = "home", NEW A \in SUBSET Nodes, A # {}, NEW o,
         \A n \in A : s.c.run.job[n] \notin {"park", "rotary"} =>
                        s.c.run.phase[n] + OnSwitchSkip(s.c.run, n) <= 3,
         \A n \in A : n \notin s.c.run.done,
         \A n \in Nodes \ A : Chain(s.c.run, n)
  PROVE  LET r == HomeArm(s, A, o)
         IN \/ Fails(r.s) /\ r.bad = None
            \/ r.bad # None /\ ~s.c.run.started /\ Stays(r.s, s) /\ r.s.c.seq = "home"
            \/ r.bad = None /\ Stays(r.s, s) /\ r.s.c.seq = "home" /\ Chains(r.s.c.run)
<1> DEFINE run   == s.c.run
           Idx(n, on) == run.phase[n] + IF n \in on THEN 1 ELSE 0
           stood == {n \in A : /\ run.job[n] = "linear" /\ Idx(n, run.onSwitch) = 0
                               /\ ArmWhy(s, n, HomeLeg("linear", 0), o) = "mismatch"}
           on    == run.onSwitch \cup stood
           plan  == [n \in A |-> HomeLeg(run.job[n], Idx(n, on))]
           armed == Arm(s, plan, o)
           lastOf == {n \in A : plan[n].last}
           t == HomeMoved(armed, on, lastOf)
<1>1. HomeArm(s, A, o) = HomeArmed(t, armed.bad, o)
  BY DEF HomeArm
<1>2. run \in Runs
  BY DEF States, Cores
<1>3. stood \in SUBSET A /\ on \in SUBSET Nodes
  BY <1>2 DEF Runs
<1>4. \A n \in A : /\ run.job[n] \in HomeJobs /\ run.phase[n] \in Nat /\ Idx(n, on) \in Nat
                   /\ run.job[n] \notin {"park", "rotary"} => Idx(n, on) <= 3
  BY <1>2, <1>3 DEF Runs, OnSwitchSkip
<1>5. \A n \in A : /\ HomeLeg(run.job[n], Idx(n, on)) \in Plans
                   /\ run.job[n] \notin {"park", "rotary"} /\ Idx(n, on) = 3
                        => HomeLeg(run.job[n], Idx(n, on)).last
  <2> HIDE DEF Idx, on, run
  <2> QED BY <1>4, HomeLegType
<1>6. \A n \in Nodes \ A : n \in on <=> n \in run.onSwitch
  BY <1>3
<1>7. plan \in [A -> Plans] /\ lastOf \in SUBSET Nodes
  BY <1>5
<1>8. \A n \in A : run.job[n] \notin {"park", "rotary"} => Idx(n, on) <= 2 \/ n \in lastOf
  BY <1>4, <1>5
<1>9. \A n \in A : Idx(n, on) = run.phase[n] + IF n \in on THEN 1 ELSE 0
  OBVIOUS
<1> HIDE DEF Idx, stood, on, plan, lastOf
<1> DEFINE a == armed.s
<1>10. /\ a \in States /\ SameMachine(a, s) /\ SameSequence(a, s) /\ a.c.box = s.c.box
       /\ Held(a) /\ armed.any \in BOOLEAN
  BY <1>7, ArmIs
<1>11. armed.bad = None => A \subseteq Claimed(a) /\ armed.any
  BY <1>7, ArmClaims
<1> HIDE DEF armed
<1>12. /\ t \in States /\ SameMachine(t, a) /\ SameLegs(t, a) /\ t.r = a.r
       /\ t.c.seq = a.c.seq /\ t.c.ringStep = a.c.ringStep
       /\ t.c.run.onSwitch = on /\ (t.c.run.started <=> a.c.run.started \/ armed.any)
       /\ t.c.run.done = a.c.run.done \cup {n \in lastOf : a.c.leg[n] # NoLeg}
       /\ t.c.run.job = a.c.run.job /\ t.c.run.phase = a.c.run.phase
  BY <1>3, <1>7, <1>10, HomeMovedIs
<1> HIDE DEF t
<1>13. Held(t) /\ a.c.run = run
  BY <1>10, <1>12 DEF SameLegs, SameSequence, Held, Claimed
<1>14. Stays(t, s) /\ t.c.seq = "home"
  BY <1>10, <1>12, <1>13 DEF Stays, SameMachine, SameSequence, SameLegs
<1>15. CASE armed.bad # None /\ t.c.run.started
  <2>1. HomeArm(s, A, o) = [s |-> HomingAbandon(t, armed.bad, o), bad |-> None]
    BY <1>1, <1>15 DEF HomeArmed
  <2> QED BY <1>12, <2>1, HomingAbandonIs DEF Fails
<1>16. CASE armed.bad # None /\ ~t.c.run.started
  <2>1. HomeArm(s, A, o) = [s |-> t, bad |-> armed.bad]
    BY <1>1, <1>16 DEF HomeArmed
  <2>2. ~run.started
    BY <1>2, <1>10, <1>12, <1>13, <1>16 DEF Runs
  <2> QED BY <1>14, <1>16, <2>1, <2>2
<1>17. CASE armed.bad = None
  <2>1. HomeArm(s, A, o) = [s |-> t, bad |-> None]
    BY <1>1, <1>17 DEF HomeArmed
  <2>2. t.c.run.started
    BY <1>11, <1>12, <1>17
  <2>3. ASSUME NEW n \in A PROVE Chain(t.c.run, n)
    <3>1. n \in lastOf => n \in t.c.run.done
      BY <1>11, <1>12, <1>17 DEF Claimed
    <3> QED BY <1>8, <1>9, <1>12, <1>13, <3>1 DEF Chain, OnSwitchSkip
  <2>4. ASSUME NEW n \in Nodes \ A PROVE Chain(t.c.run, n)
    <3>1. /\ n \in run.done => n \in t.c.run.done
          /\ n \in t.c.run.onSwitch <=> n \in run.onSwitch
      BY <1>6, <1>12, <1>13
    <3>2. Chain(run, n)
      OBVIOUS
    <3> QED BY <1>12, <1>13, <3>1, <3>2 DEF Chain, OnSwitchSkip
  <2>5. Chains(t.c.run)
    BY <2>2, <2>3, <2>4 DEF Chains
  <2> QED BY <1>14, <2>1, <2>5
<1> QED BY <1>15, <1>16, <1>17

(* The run of a home alone changes.                                        *)
LEMMA RunSetIs ==
  ASSUME NEW s \in States, NEW run \in Runs
  PROVE  LET t == [s EXCEPT !.c.run = run]
         IN /\ t \in States /\ SameMachine(t, s) /\ SameLegs(t, s) /\ t.r = s.r /\ t.n = s.n
            /\ t.c.seq = s.c.seq /\ t.c.ringStep = s.c.ringStep /\ t.c.run = run
<1> DEFINE t == [s EXCEPT !.c.run = run]
<1>1. t \in States
  BY DEF States, Cores
<1>2. /\ SameMachine(t, s) /\ SameLegs(t, s) /\ t.r = s.r /\ t.n = s.n
      /\ t.c.seq = s.c.seq /\ t.c.ringStep = s.c.ringStep /\ t.c.run = run
  BY DEF States, Cores, SameMachine, SameLegs
<1> QED BY <1>1, <1>2

LEMMA CycleStartIs ==
  ASSUME NEW s \in States, Held(s), s.c.seq = "home", NEW k \in Nat, CycleNodes(s, k) # {}, NEW o,
         \A n \in Nodes : Chain(s.c.run, n)
  PROVE  LET r == CycleStart(s, k, o)
         IN \/ Fails(r.s) /\ r.bad = None
            \/ r.bad # None /\ ~s.c.run.started /\ Stays(r.s, s) /\ r.s.c.seq = "home"
            \/ r.bad = None /\ Stays(r.s, s) /\ r.s.c.seq = "home" /\ Chains(r.s.c.run)
<1> DEFINE A == CycleNodes(s, k)
           dn == s.c.run.done \ A
           ph == [n \in Nodes |-> IF n \in A THEN 0 ELSE s.c.run.phase[n]]
           run == [s.c.run EXCEPT !.cycle = k, !.done = dn, !.phase = ph]
           x == [s EXCEPT !.c.run = run]
<1>1. s.c.run \in Runs /\ A \in SUBSET Nodes /\ dn \in SUBSET Nodes
  BY DEF States, Cores, Runs, CycleNodes
<1>2. ph \in [Nodes -> Nat]
  BY <1>1 DEF Runs
<1>3. CycleStart(s, k, o) = HomeArm(x, A, o)
  <2> DEFINE r == [s.c.run EXCEPT !.cycle = k, !.done = @ \ A,
                                  !.phase = [n \in Nodes |-> IF n \in A THEN 0 ELSE @[n]]]
  <2>1. CycleStart(s, k, o) = HomeArm([s EXCEPT !.c.run = r], A, o)
    BY DEF CycleStart
  <2> HIDE DEF A
  <2>2. r = run
    BY <1>1 DEF Runs
  <2> QED BY <2>1, <2>2
<1> HIDE DEF A, dn, ph
<1>4. run \in Runs
  BY <1>1, <1>2 DEF Runs
<1>5. /\ run.started = s.c.run.started /\ run.job = s.c.run.job /\ run.done = dn /\ run.phase = ph
      /\ run.onSwitch = s.c.run.onSwitch /\ run.onSwitch \in SUBSET Nodes
  BY <1>1 DEF Runs
<1> HIDE DEF run
<1>6. /\ x \in States /\ SameMachine(x, s) /\ SameLegs(x, s) /\ x.r = s.r
      /\ x.c.seq = s.c.seq /\ x.c.ringStep = s.c.ringStep /\ x.c.run = run
  BY <1>4, RunSetIs
<1> HIDE DEF x
<1>7. Held(x)
  BY <1>6 DEF Held, Claimed, SameLegs
<1>8. ASSUME NEW n \in A
      PROVE  n \notin run.done /\ run.phase[n] + OnSwitchSkip(run, n) <= 3
  BY <1>1, <1>5 DEF dn, ph, OnSwitchSkip
<1>9. ASSUME NEW n \in Nodes \ A PROVE Chain(run, n)
  <2>1. Chain(s.c.run, n)
    OBVIOUS
  <2>2. (n \in run.done <=> n \in s.c.run.done) /\ run.phase[n] = s.c.run.phase[n]
    BY <1>5 DEF dn, ph
  <2> QED BY <1>5, <2>1, <2>2 DEF Chain, OnSwitchSkip
<1>10. A # {}
  BY DEF A
<1> DEFINE r == HomeArm(x, A, o)
<1>11. \/ Fails(r.s) /\ r.bad = None
       \/ r.bad # None /\ ~x.c.run.started /\ Stays(r.s, x) /\ r.s.c.seq = "home"
       \/ r.bad = None /\ Stays(r.s, x) /\ r.s.c.seq = "home" /\ Chains(r.s.c.run)
  BY <1>1, <1>6, <1>7, <1>8, <1>9, <1>10, HomeArmIs
<1> HIDE DEF r
<1>12. Stays(r.s, x) => Stays(r.s, s)
  BY <1>6 DEF Stays, SameMachine, SameLegs
<1> QED BY <1>3, <1>5, <1>6, <1>11, <1>12 DEF r

(* A commit fails the run, or changes the datum alone.                     *)
LEMMA CycleCommitIs ==
  ASSUME NEW s \in States, NEW apart, NEW o
  PROVE  LET x == CycleCommit(s, apart, o)
         IN \/ x.ok = FALSE /\ Fails(x.s)
            \/ /\ x.ok = TRUE /\ x.s \in States
               /\ SameMachine(x.s, s) /\ SameSequence(x.s, s) /\ SameLegs(x.s, s)
<1> DEFINE homed  == {n \in CycleNodes(s, s.c.run.cycle) : s.c.run.job[n] # "park"}
           dated  == OriginDatum(s, homed, PulledOff(s), o)
<1>1. homed \in SUBSET Nodes
  BY DEF CycleNodes
<1>2. PulledOff(s) \in [Nodes -> Places]
  BY DEF PulledOff, States, NodeStates, Places
<1> HIDE DEF homed
<1>3. dated \in States /\ SameMachine(dated, s) /\ SameSequence(dated, s) /\ SameLegs(dated, s)
  BY <1>1, <1>2, OriginDatumIs
<1>4. \/ \E n : CycleCommit(s, apart, o) = [s |-> HomingAbandon(s, n, o), ok |-> FALSE]
      \/ \E n : CycleCommit(s, apart, o) = [s |-> HomingAbandon(dated, n, o), ok |-> FALSE]
      \/ CycleCommit(s, apart, o) = [s |-> dated, ok |-> TRUE]
  BY DEF CycleCommit, homed
<1> HIDE DEF dated
<1>5. \A n : Fails(HomingAbandon(s, n, o)) /\ Fails(HomingAbandon(dated, n, o))
  BY <1>3, HomingAbandonIs DEF Fails
<1> QED BY <1>3, <1>4, <1>5

(* The next cycle has a node in it.                                        *)
LEMMA CycleAfterIs ==
  ASSUME NEW s, NEW k \in Nat, CycleAfter(s, k) # 0
  PROVE  CycleAfter(s, k) \in Nat /\ CycleNodes(s, CycleAfter(s, k)) # {}
<1> DEFINE ks == {Cycle[n] : n \in {m \in Nodes : s.c.run.job[m] # "none" /\ Cycle[m] > k}}
<1>1. ks \in SUBSET Nat
  BY LegsAssumption
<1>2. ks # {} /\ CycleAfter(s, k) = CHOOSE j \in ks : \A i \in ks : j <= i
  BY DEF CycleAfter
<1>3. \E j \in ks : \A i \in ks : j <= i
  <2> HIDE DEF ks
  <2> QED BY <1>1, <1>2, LeastExists
<1>4. CycleAfter(s, k) \in ks
  BY <1>2, <1>3
<1> QED BY <1>1, <1>4 DEF CycleNodes

(* What homing's handlers do with a run that goes.                         *)
HomeGoes(t, s) ==
  \/ Fails(t)
  \/ Stays(t, s) /\ (t.c.seq = "home" => Chains(t.c.run))

LEMMA HomeNextIs ==
  ASSUME NEW s \in States, Held(s), s.c.seq = "home", Chains(s.c.run), NEW apart, NEW o
  PROVE  HomeGoes(HomeNext(s, apart, o), s)
<1> DEFINE x == CycleCommit(s, apart, o)
           d == x.s
           next == CycleAfter(s, s.c.run.cycle)
<1>1. \/ x.ok = FALSE /\ Fails(d)
      \/ x.ok = TRUE /\ d \in States /\ SameMachine(d, s) /\ SameSequence(d, s) /\ SameLegs(d, s)
  BY CycleCommitIs
<1>2. HomeNext(s, apart, o) = IF ~x.ok THEN d ELSE IF next = 0 THEN SequenceEnd(d)
                              ELSE CycleStart(d, next, o).s
  BY DEF HomeNext
<1>3. s.c.run.cycle \in Nat
  BY DEF States, Cores, Runs
<1> HIDE DEF x
<1>4. CASE x.ok = FALSE
  BY <1>1, <1>2, <1>4 DEF HomeGoes
<1>5. CASE x.ok = TRUE
  <2>1. d \in States /\ SameMachine(d, s) /\ SameSequence(d, s) /\ SameLegs(d, s)
    BY <1>1, <1>5
  <2>2. Held(d) /\ d.c.run = s.c.run /\ d.c.seq = "home"
    BY <2>1 DEF Held, Claimed, SameLegs, SameSequence
  <2>3. CASE next = 0
    <3> DEFINE t == SequenceEnd(d)
    <3>1. /\ t \in States /\ SameMachine(t, d) /\ SameLegs(t, d) /\ t.r = d.r
          /\ t.c.seq = "none" /\ t.c.ringStep = FALSE
      BY <2>1, SequenceEndIs
    <3> HIDE DEF t
    <3>2. Held(t)
      BY <2>2, <3>1 DEF Held, Claimed, SameLegs
    <3>3. Stays(t, s)
      BY <2>1, <3>1, <3>2 DEF Stays, SameMachine, SameLegs, SameSequence
    <3> QED BY <1>2, <1>5, <2>3, <3>1, <3>3 DEF HomeGoes, t
  <2>4. CASE next # 0
    <3>1. next \in Nat /\ CycleNodes(s, next) # {}
      BY <1>3, <2>4, CycleAfterIs
    <3> HIDE DEF next
    <3>2. CycleNodes(d, next) = CycleNodes(s, next)
      BY <2>2 DEF CycleNodes
    <3> DEFINE r == CycleStart(d, next, o)
    <3>3. (\A n \in Nodes : Chain(d.c.run, n)) /\ d.c.run.started
      BY <2>2 DEF Chains
    <3>4. \/ Fails(r.s) /\ r.bad = None
          \/ r.bad # None /\ ~d.c.run.started /\ Stays(r.s, d) /\ r.s.c.seq = "home"
          \/ r.bad = None /\ Stays(r.s, d) /\ r.s.c.seq = "home" /\ Chains(r.s.c.run)
      BY <2>1, <2>2, <3>1, <3>2, <3>3, CycleStartIs
    <3> HIDE DEF r
    <3>5. Stays(r.s, d) => Stays(r.s, s)
      BY <2>1 DEF Stays, SameMachine, SameLegs, SameSequence
    <3> QED BY <1>2, <1>5, <2>4, <3>3, <3>4, <3>5 DEF HomeGoes, r
  <2> QED BY <2>3, <2>4
<1> QED BY <1>1, <1>4, <1>5

LEMMA StaysHere ==
  ASSUME NEW s \in States, Held(s)
  PROVE  Stays(s, s)
<1>1. s.c.ringStep \in BOOLEAN
  BY DEF States, Cores
<1> QED BY <1>1 DEF Stays, SameMachine

LEMMA HomeLegEndedIs ==
  ASSUME NEW s \in States, Held(s), s.c.seq = "home", Chains(s.c.run), NEW n \in Nodes, NEW o
  PROVE  HomeGoes(HomeLegEnded(s, n, o), s)
<1> DEFINE ph == [s.c.run.phase EXCEPT ![n] = @ + 1]
           run == [s.c.run EXCEPT !.phase = ph]
           x == [s EXCEPT !.c.run = run]
           r == HomeArm(x, {n}, o)
<1>1. s.c.run \in Runs /\ s.c.run.phase[n] \in Nat
  BY DEF States, Cores, Runs
<1>2. \/ n \in s.c.run.done /\ HomeLegEnded(s, n, o) = s
      \/ HomeLegEnded(s, n, o) = HomingAbandon(s, n, o)
      \/ n \notin s.c.run.done /\ HomeLegEnded(s, n, o) = r.s
  BY DEF HomeLegEnded
<1>3. CASE n \notin s.c.run.done /\ HomeLegEnded(s, n, o) = r.s
  <2>1. ph \in [Nodes -> Nat] /\ ph[n] = s.c.run.phase[n] + 1
        /\ \A m \in Nodes \ {n} : ph[m] = s.c.run.phase[m]
    BY <1>1 DEF Runs
  <2> HIDE DEF ph
  <2>2. run \in Runs
    BY <1>1, <2>1 DEF Runs
  <2>3. /\ run.started = s.c.run.started /\ run.job = s.c.run.job /\ run.done = s.c.run.done
        /\ run.phase = ph /\ run.onSwitch = s.c.run.onSwitch /\ run.onSwitch \in SUBSET Nodes
    BY <1>1 DEF Runs
  <2> HIDE DEF run
  <2>4. /\ x \in States /\ SameMachine(x, s) /\ SameLegs(x, s) /\ x.r = s.r
        /\ x.c.seq = s.c.seq /\ x.c.ringStep = s.c.ringStep /\ x.c.run = run
    BY <2>2, RunSetIs
  <2> HIDE DEF x
  <2>5. Held(x)
    BY <2>4 DEF Held, Claimed, SameLegs
  <2>6. run.job[n] \notin {"park", "rotary"} => run.phase[n] + OnSwitchSkip(run, n) <= 3
    <3>1. Chain(s.c.run, n)
      BY DEF Chains
    <3> QED BY <1>1, <1>3, <2>1, <2>3, <3>1 DEF Chain, OnSwitchSkip
  <2>7. ASSUME NEW m \in Nodes \ {n} PROVE Chain(run, m)
    <3>1. Chain(s.c.run, m)
      BY DEF Chains
    <3> QED BY <2>1, <2>3, <3>1 DEF Chain, OnSwitchSkip
  <2>8. \/ Fails(r.s) /\ r.bad = None
        \/ r.bad # None /\ ~x.c.run.started /\ Stays(r.s, x) /\ r.s.c.seq = "home"
        \/ r.bad = None /\ Stays(r.s, x) /\ r.s.c.seq = "home" /\ Chains(r.s.c.run)
    BY <1>3, <2>3, <2>4, <2>5, <2>6, <2>7, HomeArmIs
  <2> HIDE DEF r
  <2>9. Stays(r.s, x) => Stays(r.s, s)
    BY <2>4 DEF Stays, SameMachine, SameLegs
  <2>10. x.c.run.started
    BY <2>3, <2>4 DEF Chains
  <2> QED BY <1>3, <2>8, <2>9, <2>10 DEF HomeGoes
<1> HIDE DEF r
<1> QED BY <1>2, <1>3, StaysHere, HomingAbandonIs DEF HomeGoes, Fails

(* A command begins a sequence, or its refusal leaves none.                *)
Begins(t, s, id) ==
  \/ Fails(t)
  \/ /\ t \in States /\ SameMachine(t, s) /\ Held(t) /\ t.c.box = s.c.box
     /\ t.c.seq \in {s.c.seq, id, "none"} /\ (t.c.seq = "home" => s.c.seq = "home" \/ Chains(t.c.run))

LEMMA HomeStartIs ==
  ASSUME NEW s \in States, Held(s), NEW named \in SUBSET Nodes, named # {}, NEW only, NEW o
  PROVE  Begins(HomeStart(s, named, only, o), s, "home")
<1> DEFINE top   == CHOOSE k \in {Cycle[n] : n \in named} : \A n \in named : Cycle[n] <= k
           early == IF only THEN {}
                    ELSE {n \in Nodes \ named : Cycle[n] < top /\ ~(n \in Rotary /\ n \in s.c.origin)}
           park  == early \cap s.c.origin
           mine  == (named \cup early) \ park
           job   == [n \in Nodes |-> CASE n \in park            -> "park"
                                      [] n \in mine \cap Rotary -> "rotary"
                                      [] n \in mine \ Rotary    -> "linear"
                                      [] OTHER                  -> "none"]
           woken == Enable(s, named \cup early, o)
           st    == SequenceStart(woken, "home")
           run   == [NoRun EXCEPT !.job = job]
           open  == [st EXCEPT !.c.run = run]
           k     == CycleAfter(open, 0)
           r     == CycleStart(open, k, o)
<1>1. HomeStart(s, named, only, o) =
        IF Deaf(named \cup early, o) # {} THEN woken
        ELSE IF r.bad # None THEN SequenceEnd(r.s) ELSE r.s
  BY DEF HomeStart
<1>2. early \in SUBSET Nodes
  OBVIOUS
<1> HIDE DEF early
<1>3. job \in [Nodes -> HomeJobs] /\ \A n \in named : job[n] # "none"
  BY <1>2 DEF HomeJobs
<1> HIDE DEF job
<1>4. woken \in States /\ SameMachine(woken, s) /\ SameSequence(woken, s) /\ SameLegs(woken, s)
  BY <1>2, EnableIs
<1> HIDE DEF woken
<1>5. /\ st \in States /\ SameMachine(st, woken) /\ SameLegs(st, woken) /\ st.r = woken.r
      /\ st.c.seq = "home" /\ st.c.ringStep = FALSE
  BY <1>4, SequenceStartIs DEF SeqIds
<1> HIDE DEF st
<1>6. run \in Runs /\ run.job = job /\ run.started = FALSE /\ run.onSwitch = {}
      /\ \A n \in Nodes : run.phase[n] = 0
  BY <1>3 DEF NoRun, Runs
<1> HIDE DEF run
<1>7. /\ open \in States /\ SameMachine(open, st) /\ SameLegs(open, st) /\ open.r = st.r
      /\ open.c.seq = st.c.seq /\ open.c.ringStep = st.c.ringStep /\ open.c.run = run
  BY <1>5, <1>6, RunSetIs
<1> HIDE DEF open
<1>8. Held(open)
  BY <1>4, <1>5, <1>7 DEF Held, Claimed, SameLegs
<1>9. \A n \in Nodes : Chain(open.c.run, n)
  BY <1>6, <1>7 DEF Chain, OnSwitchSkip
<1>10. k # 0
  <2>1. PICK n \in named : TRUE
    OBVIOUS
  <2>2. n \in {m \in Nodes : open.c.run.job[m] # "none" /\ Cycle[m] > 0}
    BY <1>3, <1>6, <1>7, LegsAssumption
  <2> DEFINE ks == {Cycle[m] : m \in {m \in Nodes : open.c.run.job[m] # "none" /\ Cycle[m] > 0}}
  <2>3. ks \in SUBSET Nat /\ ks # {} /\ 0 \notin ks
    BY <2>2, LegsAssumption
  <2>4. k = CHOOSE j \in ks : \A i \in ks : j <= i
    BY <2>3 DEF CycleAfter
  <2> HIDE DEF ks, k
  <2>5. \E j \in ks : \A i \in ks : j <= i
    BY <2>3, LeastExists
  <2> QED BY <2>3, <2>4, <2>5
<1>11. k \in Nat /\ CycleNodes(open, k) # {}
  BY <1>10, CycleAfterIs
<1> HIDE DEF k
<1>12. \/ Fails(r.s) /\ r.bad = None
       \/ r.bad # None /\ Stays(r.s, open) /\ r.s.c.seq = "home"
       \/ r.bad = None /\ Stays(r.s, open) /\ r.s.c.seq = "home" /\ Chains(r.s.c.run)
  BY <1>5, <1>7, <1>8, <1>9, <1>11, CycleStartIs
<1> HIDE DEF r
<1>13. SameMachine(open, s) /\ open.c.box = s.c.box
  BY <1>4, <1>5, <1>7 DEF SameMachine, SameLegs
<1>14. CASE HomeStart(s, named, only, o) = woken
  BY <1>4, <1>14 DEF Begins, SameSequence, SameLegs, Held, Claimed
<1>15. CASE HomeStart(s, named, only, o) = r.s /\ r.bad = None
  BY <1>12, <1>13, <1>15 DEF Begins, Stays, SameMachine
<1>16. CASE HomeStart(s, named, only, o) = SequenceEnd(r.s) /\ r.bad # None
  <2> DEFINE t == SequenceEnd(r.s)
  <2>1. Stays(r.s, open)
    BY <1>12, <1>16
  <2>2. /\ t \in States /\ SameMachine(t, r.s) /\ SameLegs(t, r.s)
        /\ t.c.seq = "none" /\ t.c.ringStep = FALSE
    BY <2>1, SequenceEndIs DEF Stays
  <2> HIDE DEF t
  <2>3. Held(t)
    BY <2>1, <2>2 DEF Held, Claimed, SameLegs, Stays
  <2> QED BY <1>13, <1>16, <2>1, <2>2, <2>3 DEF Begins, Stays, SameMachine, SameLegs, t
<1> QED BY <1>1, <1>14, <1>15, <1>16

----------------------------------------------------------------------------
(* Recovery                                                                *)

LEMMA ParkingIs ==
  ASSUME NEW s \in States
  PROVE  LET t == [s EXCEPT !.c.parking = TRUE]
         IN /\ t \in States /\ SameMachine(t, s) /\ SameLegs(t, s) /\ t.r = s.r
            /\ t.c.seq = s.c.seq /\ t.c.ringStep = s.c.ringStep
<1> DEFINE t == [s EXCEPT !.c.parking = TRUE]
<1>1. t \in States
  BY DEF States, Cores
<1>2. /\ SameMachine(t, s) /\ SameLegs(t, s) /\ t.r = s.r
      /\ t.c.seq = s.c.seq /\ t.c.ringStep = s.c.ringStep
  BY DEF States, Cores, SameMachine, SameLegs
<1> QED BY <1>1, <1>2

LEMMA RecIs ==
  ASSUME NEW s \in States, NEW rec \in SUBSET Nodes
  PROVE  LET t == [s EXCEPT !.c.rec = rec]
         IN /\ t \in States /\ SameMachine(t, s) /\ SameLegs(t, s) /\ t.r = s.r
            /\ t.c.seq = s.c.seq /\ t.c.ringStep = s.c.ringStep
<1> DEFINE t == [s EXCEPT !.c.rec = rec]
<1>1. t \in States
  BY DEF States, Cores
<1>2. /\ SameMachine(t, s) /\ SameLegs(t, s) /\ t.r = s.r
      /\ t.c.seq = s.c.seq /\ t.c.ringStep = s.c.ringStep
  BY DEF States, Cores, SameMachine, SameLegs
<1> QED BY <1>1, <1>2

LEMMA EndStays ==
  ASSUME NEW s \in States, NEW t \in States, Stays(t, s)
  PROVE  Stays(SequenceEnd(t), s) /\ SequenceEnd(t).c.seq = "none" /\ Claimed(SequenceEnd(t)) = Claimed(t)
<1> DEFINE e == SequenceEnd(t)
<1>1. /\ e \in States /\ SameMachine(e, t) /\ SameLegs(e, t) /\ e.r = t.r
      /\ e.c.seq = "none" /\ e.c.ringStep = FALSE
  BY SequenceEndIs
<1> HIDE DEF e
<1>2. Held(e) /\ Claimed(e) = Claimed(t)
  BY <1>1 DEF Stays, Held, Claimed, SameLegs
<1> QED BY <1>1, <1>2 DEF Stays, SameMachine, SameLegs, e

LEMMA RecoveryParkIs ==
  ASSUME NEW s \in States, Held(s), NEW o
  PROVE  LET t == RecoveryPark(s, o)
         IN Fails(t) \/ Stays(t, s)
<1> DEFINE x == [s EXCEPT !.c.parking = TRUE]
           D == s.c.rec \cap s.c.origin
           plan == [n \in D |-> Park]
           armed == Arm(x, plan, o)
           a == armed.s
<1>1. /\ x \in States /\ SameMachine(x, s) /\ SameLegs(x, s) /\ x.r = s.r
      /\ x.c.seq = s.c.seq /\ x.c.ringStep = s.c.ringStep
  BY ParkingIs
<1>2. D \in SUBSET Nodes
  BY DEF States, Cores
<1>3. plan \in [D -> Plans]
  BY DEF Park, Leg, Plans, Intents, Places
<1>4. RecoveryPark(s, o) \in {HomingAbandon(a, armed.bad, o), SequenceEnd(a), a}
  BY DEF RecoveryPark
<1> HIDE DEF x, D, plan
<1>5. Held(x)
  BY <1>1 DEF Held, Claimed, SameLegs
<1>6. a \in States /\ SameMachine(a, x) /\ SameSequence(a, x) /\ a.c.box = x.c.box /\ Held(a)
  BY <1>1, <1>2, <1>3, <1>5, ArmIs
<1> HIDE DEF armed
<1>7. Stays(a, s)
  BY <1>1, <1>6 DEF Stays, SameMachine, SameLegs, SameSequence
<1> QED BY <1>4, <1>6, <1>7, EndStays, HomingAbandonIs DEF Fails

LEMMA RecoveryStartIs ==
  ASSUME NEW s \in States, Held(s), NEW o
  PROVE  Begins(RecoveryStart(s, o), s, "recovery")
<1> DEFINE rec   == s.c.latch
           woken == Enable(s, rec, o)
           plan  == [n \in rec |-> Leg(IF n \in s.c.origin THEN "unlatch" ELSE "retract", "between", TRUE)]
           st == SequenceStart(woken, "recovery")
           x == [st EXCEPT !.c.rec = rec]
           armed == Arm(x, plan, o)
           a == armed.s
<1>1. rec \in SUBSET Nodes
  BY DEF States, Cores
<1>2. plan \in [rec -> Plans]
  BY DEF Leg, Plans, Intents, Places
<1>3. RecoveryStart(s, o) \in {woken, a, HomingAbandon(a, armed.bad, o), SequenceEnd(a)}
  BY DEF RecoveryStart
<1> HIDE DEF rec, plan
<1>4. woken \in States /\ SameMachine(woken, s) /\ SameSequence(woken, s) /\ SameLegs(woken, s)
  BY <1>1, EnableIs
<1> HIDE DEF woken
<1>5. /\ st \in States /\ SameMachine(st, woken) /\ SameLegs(st, woken) /\ st.r = woken.r
      /\ st.c.seq = "recovery" /\ st.c.ringStep = FALSE
  BY <1>4, SequenceStartIs DEF SeqIds
<1> HIDE DEF st
<1>6. /\ x \in States /\ SameMachine(x, st) /\ SameLegs(x, st) /\ x.c.seq = st.c.seq
  BY <1>1, <1>5, RecIs
<1> HIDE DEF x
<1>7. Held(x)
  BY <1>4, <1>5, <1>6 DEF Held, Claimed, SameLegs
<1>8. a \in States /\ SameMachine(a, x) /\ SameSequence(a, x) /\ a.c.box = x.c.box /\ Held(a)
  BY <1>1, <1>2, <1>6, <1>7, ArmIs
<1> HIDE DEF armed
<1>9. a.c.seq = "recovery" /\ SameMachine(a, s) /\ a.c.box = s.c.box
  BY <1>4, <1>5, <1>6, <1>8 DEF SameMachine, SameLegs, SameSequence
<1>10. Begins(woken, s, "recovery")
  BY <1>4 DEF Begins, SameSequence, SameLegs, Held, Claimed
<1>11. Begins(a, s, "recovery")
  BY <1>8, <1>9 DEF Begins
<1>12. Begins(SequenceEnd(a), s, "recovery")
  <2>1. Stays(a, a)
    BY <1>8, StaysHere
  <2> QED BY <1>8, <1>9, <2>1, EndStays DEF Begins, Stays, SameMachine
<1>13. Begins(HomingAbandon(a, armed.bad, o), s, "recovery")
  BY <1>8, HomingAbandonIs DEF Begins, Fails
<1> QED BY <1>3, <1>10, <1>11, <1>12, <1>13

----------------------------------------------------------------------------
(* The goto, tool change and placement recipes                             *)

(* A step of a recipe arms legs or takes the ring, and never both.         *)
Steps(t, s) ==
  /\ t \in States /\ SameMachine(t, s) /\ t.c.box = s.c.box /\ Held(t) /\ t.c.seq = s.c.seq
  /\ t.c.ringStep = s.c.ringStep \/ Claimed(t) = Claimed(s)

StepDone(x, s) ==
  \/ x.bad = TRUE /\ x.out = FALSE /\ Fails(x.s)
  \/ x.bad = TRUE /\ x.out = FALSE /\ Steps(x.s, s) /\ Claimed(x.s) = Claimed(s)
  \/ x.bad = FALSE /\ x.out = FALSE /\ Steps(x.s, s) /\ Claimed(x.s) = Claimed(s)
  \/ x.bad = FALSE /\ x.out = TRUE /\ Steps(x.s, s)

LEMMA RestIs ==
  ASSUME NEW s \in States, NEW ks \in Seq(StepKinds)
  PROVE  LET t == [s EXCEPT !.c.steps = ks]
         IN /\ t \in States /\ SameMachine(t, s) /\ SameLegs(t, s) /\ t.r = s.r
            /\ t.c.seq = s.c.seq /\ t.c.ringStep = s.c.ringStep
<1> DEFINE t == [s EXCEPT !.c.steps = ks]
<1>1. t \in States
  BY DEF States, Cores
<1>2. /\ SameMachine(t, s) /\ SameLegs(t, s) /\ t.r = s.r
      /\ t.c.seq = s.c.seq /\ t.c.ringStep = s.c.ringStep
  BY DEF States, Cores, SameMachine, SameLegs
<1> QED BY <1>1, <1>2

LEMMA QueueIs ==
  ASSUME NEW s \in States, NEW moves \in SUBSET Nodes
  PROVE  LET t == [s EXCEPT !.r.state = "queued", !.r.moves = moves, !.c.ringStep = TRUE]
         IN t \in States /\ SameMachine(t, s) /\ SameLegs(t, s) /\ t.c.seq = s.c.seq
<1> DEFINE t == [s EXCEPT !.r.state = "queued", !.r.moves = moves, !.c.ringStep = TRUE]
<1>1. t \in States
  <2> DEFINE c == [s.c EXCEPT !.ringStep = TRUE]
             r == [s.r EXCEPT !.state = "queued", !.moves = moves]
  <2>1. s.c \in Cores /\ s.r \in Rings
    BY DEF States
  <2>2. c \in Cores
    BY <2>1 DEF Cores
  <2>3. r \in Rings
    BY <2>1 DEF Rings
  <2>4. t = [s EXCEPT !.c = c, !.r = r]
    BY DEF States
  <2> HIDE DEF c, r, t
  <2> QED BY <2>2, <2>3, <2>4 DEF States
<1>2. SameMachine(t, s) /\ SameLegs(t, s) /\ t.c.seq = s.c.seq
  BY DEF States, Cores, Rings, SameMachine, SameLegs
<1> QED BY <1>1, <1>2

LEMMA StepPlanType ==
  ASSUME NEW k
  PROVE  LET D == IF k = "zs" THEN Zs ELSE Rotary
         IN D \in SUBSET Nodes /\ StepPlan(k) \in [D -> Plans]
<1>1. Park \in Plans
  BY DEF Park, Leg, Plans, Intents, Places
<1>2. Zs \in SUBSET Nodes /\ Rotary \in SUBSET Nodes
  BY LegsAssumption
<1> QED BY <1>1, <1>2 DEF StepPlan

LEMMA NextStepIs ==
  ASSUME NEW s \in States, Held(s), NEW line, NEW o
  PROVE  StepDone(NextStep(s, line, o), s)
<1> DEFINE steps   == s.c.steps
           Skip(k) == (k = "line" /\ line = "near") \/ (k # "line" /\ DOMAIN StepPlan(k) = {})
                      \/ (k = "a" /\ \A n \in Rotary : n \in s.c.origin /\ s.c.seen[n] = "park")
           idx     == {i \in 1 .. Len(steps) : ~Skip(steps[i])}
           i       == CHOOSE j \in idx : \A k \in idx : j <= k
           ks      == IF idx = {} THEN <<>> ELSE SubSeq(steps, i + 1, Len(steps))
           rest    == [s EXCEPT !.c.steps = ks]
           queued  == [rest EXCEPT !.r.state = "queued", !.r.moves = XY, !.c.ringStep = TRUE]
           plan    == StepPlan(steps[i])
           armed   == Arm(rest, plan, o)
           a       == armed.s
           D       == IF steps[i] = "zs" THEN Zs ELSE Rotary
<1>1. NextStep(s, line, o) \in
        { [s |-> rest, out |-> FALSE, bad |-> FALSE], [s |-> rest, out |-> FALSE, bad |-> TRUE],
          [s |-> queued, out |-> TRUE, bad |-> FALSE] }
      \/ /\ armed.bad = None
         /\ NextStep(s, line, o) = [s |-> a, out |-> TRUE, bad |-> FALSE]
      \/ /\ armed.bad # None
         /\ NextStep(s, line, o) = [s |-> IF armed.any THEN HomingAbandon(a, armed.bad, o) ELSE a,
                                    out |-> FALSE, bad |-> TRUE]
  <2> DEFINE sent == [s EXCEPT !.c.steps = IF idx = {} THEN <<>> ELSE SubSeq(@, i + 1, Len(@))]
             queues == line = "far" /\ RingIdle(s) /\ ~s.r.abort
             StepReply(r) == IF r.bad = None THEN [s |-> r.s, out |-> TRUE, bad |-> FALSE]
                            ELSE [s |-> IF r.any THEN HomingAbandon(r.s, r.bad, o) ELSE r.s,
                                  out |-> FALSE, bad |-> TRUE]
             Sends(q) == CASE idx = {} -> [s |-> q, out |-> FALSE, bad |-> FALSE]
                           [] idx # {} /\ steps[i] = "line" ->
                                IF ~queues THEN [s |-> q, out |-> FALSE, bad |-> TRUE]
                                ELSE [s |-> [q EXCEPT !.r.state = "queued", !.r.moves = XY, !.c.ringStep = TRUE],
                                      out |-> TRUE, bad |-> FALSE]
                           [] OTHER -> StepReply(Arm(q, StepPlan(steps[i]), o))
  <2>1. rest = sent
    BY DEF States, Cores
  <2>2. NextStep(s, line, o) = Sends(sent)
    BY DEF NextStep
  <2> HIDE DEF sent, idx, i, rest, queues, steps
  <2>3. NextStep(s, line, o) = Sends(rest)
    BY <2>1, <2>2
  <2>4. CASE idx = {}
    BY <2>3, <2>4
  <2>5. CASE idx # {} /\ steps[i] = "line"
    BY <2>3, <2>5
  <2>6. CASE idx # {} /\ steps[i] # "line"
    <3>1. NextStep(s, line, o) = StepReply(armed)
      BY <2>3, <2>6
    <3> HIDE DEF armed
    <3> QED BY <2>6, <3>1
  <2> QED BY <2>4, <2>5, <2>6
<1>2. steps \in Seq(StepKinds)
  BY DEF States, Cores
<1>3. idx # {} => i \in 1 .. Len(steps)
  <2>1. idx \in SUBSET Nat
    BY <1>2
  <2>2. idx # {} => \E j \in idx : \A k \in idx : j <= k
    <3> HIDE DEF idx
    <3> QED BY <2>1, LeastExists
  <2> QED BY <2>2
<1> HIDE DEF i
<1>4. idx # {} => SubSeq(steps, i + 1, Len(steps)) \in Seq(StepKinds)
  <2> SUFFICES ASSUME idx # {} PROVE SubSeq(steps, i + 1, Len(steps)) \in Seq(StepKinds)
    OBVIOUS
  <2>1. i + 1 \in Int /\ Len(steps) \in Int /\ \A j \in i + 1 .. Len(steps) : steps[j] \in StepKinds
    BY <1>2, <1>3
  <2> HIDE DEF idx, steps
  <2> QED BY <2>1, SubSeqProperties
<1>5. ks \in Seq(StepKinds)
  BY <1>4
<1> HIDE DEF ks, idx
<1>6. /\ rest \in States /\ SameMachine(rest, s) /\ SameLegs(rest, s) /\ rest.r = s.r
      /\ rest.c.seq = s.c.seq /\ rest.c.ringStep = s.c.ringStep
  BY <1>5, RestIs
<1> HIDE DEF rest
<1>7. Held(rest) /\ Claimed(rest) = Claimed(s)
  BY <1>6 DEF Held, Claimed, SameLegs
<1>8. D \in SUBSET Nodes /\ plan \in [D -> Plans]
  BY StepPlanType
<1> HIDE DEF D, plan
<1>9. /\ a \in States /\ SameMachine(a, rest) /\ SameSequence(a, rest) /\ a.c.box = rest.c.box
      /\ Held(a) /\ (~armed.any => Claimed(a) = Claimed(rest)) /\ armed.any \in BOOLEAN
  BY <1>6, <1>7, <1>8, ArmIs
<1> HIDE DEF armed
<1>10. queued \in States /\ SameMachine(queued, rest) /\ SameLegs(queued, rest) /\ queued.c.seq = rest.c.seq
  BY <1>6, QueueIs, LegsAssumption
<1> HIDE DEF queued
<1>11. Held(queued) /\ Claimed(queued) = Claimed(rest)
  BY <1>7, <1>10 DEF Held, Claimed, SameLegs
<1>12. Steps(rest, s)
  BY <1>6, <1>7 DEF Steps, SameLegs
<1>13. Steps(queued, s) /\ Claimed(queued) = Claimed(s)
  BY <1>6, <1>7, <1>10, <1>11 DEF Steps, SameLegs, SameMachine
<1>14. Steps(a, s)
  BY <1>6, <1>9 DEF Steps, SameLegs, SameSequence, SameMachine
<1>15. Fails(HomingAbandon(a, armed.bad, o))
  BY <1>9, HomingAbandonIs DEF Fails
<1> QED BY <1>1, <1>7, <1>9, <1>12, <1>13, <1>14, <1>15 DEF StepDone

(* A command's recipe is under way, or has ended with no leg left.         *)
Sets(t, s, id) ==
  /\ t \in States /\ SameMachine(t, s) /\ t.c.box = s.c.box /\ Held(t) /\ t.c.seq \in {id, "none"}
  /\ t.c.seq = "none" \/ t.c.ringStep => Claimed(t) = {}

Recipe(s, id, ks) == [SequenceStart(s, id) EXCEPT !.c.steps = ks]
Started(t, s, id) ==
  /\ t \in States /\ SameMachine(t, s) /\ SameLegs(t, s) /\ t.r = s.r
  /\ t.c.seq = id /\ t.c.ringStep = FALSE

LEMMA RecipeStarts ==
  ASSUME NEW s \in States, NEW id \in SeqIds, NEW ks \in Seq(StepKinds)
  PROVE  Started(Recipe(s, id, ks), s, id)
<1> DEFINE st == SequenceStart(s, id)
           t == [st EXCEPT !.c.steps = ks]
<1>1. /\ st \in States /\ SameMachine(st, s) /\ SameLegs(st, s) /\ st.r = s.r
      /\ st.c.seq = id /\ st.c.ringStep = FALSE
  BY SequenceStartIs
<1>3. Recipe(s, id, ks) = t
  BY DEF Recipe
<1> HIDE DEF st
<1>2. /\ t \in States /\ SameMachine(t, st) /\ SameLegs(t, st) /\ t.r = st.r
      /\ t.c.seq = st.c.seq /\ t.c.ringStep = st.c.ringStep
  BY <1>1, RestIs
<1> HIDE DEF t
<1> QED BY <1>1, <1>2, <1>3 DEF SameMachine, SameLegs, Started

LEMMA BeginIs ==
  ASSUME NEW s \in States, Held(s), Claimed(s) = {}, NEW id \in SeqIds \ {"none"},
         NEW ks \in Seq(StepKinds), NEW line, NEW o
  PROVE  LET t == Begin(s, id, ks, line, o)
         IN Fails(t) \/ Sets(t, s, id)
<1> DEFINE st == [SequenceStart(s, id) EXCEPT !.c.steps = ks]
           x == NextStep(st, line, o)
<1>1. /\ st \in States /\ SameMachine(st, s) /\ SameLegs(st, s) /\ st.c.seq = id /\ st.c.ringStep = FALSE
  <2>1. st = Recipe(s, id, ks) /\ id \in SeqIds
    BY DEF Recipe
  <2> HIDE DEF st
  <2>2. Started(Recipe(s, id, ks), s, id)
    BY <2>1, RecipeStarts
  <2> QED BY <2>1, <2>2 DEF Started
<1>2. Begin(s, id, ks, line, o) = IF x.out \/ x.s.c.seq = "none" THEN x.s ELSE SequenceEnd(x.s)
  BY DEF Begin
<1> HIDE DEF st
<1>3. Held(st) /\ Claimed(st) = {} /\ st.c.box = s.c.box
  BY <1>1 DEF Held, Claimed, SameLegs
<1>4. StepDone(x, st)
  BY <1>1, <1>3, NextStepIs
<1> HIDE DEF x
<1>5. CASE Fails(x.s)
  BY <1>2, <1>5 DEF Fails, Torn
<1>6. CASE ~Fails(x.s)
  <2>1. Steps(x.s, st) /\ (x.out \in BOOLEAN) /\ (x.out = FALSE => Claimed(x.s) = {})
    BY <1>3, <1>4, <1>6 DEF StepDone
  <2>2. x.s \in States /\ SameMachine(x.s, s) /\ x.s.c.box = s.c.box /\ Held(x.s) /\ x.s.c.seq = id
        /\ (x.s.c.ringStep => Claimed(x.s) = {})
    BY <1>1, <1>3, <2>1 DEF Steps, SameMachine
  <2>3. CASE x.out = TRUE
    BY <1>2, <2>2, <2>3 DEF Sets
  <2>4. CASE x.out = FALSE
    <3>1. Claimed(x.s) = {}
      BY <2>1, <2>4
    <3>2. CASE x.s.c.seq = "none"
      BY <1>2, <2>2, <3>1, <3>2 DEF Sets
    <3>3. CASE x.s.c.seq # "none"
      <4> DEFINE t == SequenceEnd(x.s)
      <4>1. /\ t \in States /\ SameMachine(t, x.s) /\ SameLegs(t, x.s) /\ t.c.seq = "none"
        BY <2>2, SequenceEndIs
      <4> HIDE DEF t
      <4>2. Claimed(t) = {} /\ Held(t)
        BY <3>1, <4>1 DEF Claimed, Held, SameLegs
      <4> QED BY <1>2, <2>2, <2>4, <3>3, <4>1, <4>2 DEF Sets, SameMachine, SameLegs, t
    <3> QED BY <3>2, <3>3
  <2> QED BY <2>1, <2>3, <2>4
<1> QED BY <1>5, <1>6

(* A recipe's step ends: the next is under way, or the sequence is over.   *)
Ended(t, s) ==
  /\ t \in States /\ Held(t) /\ t.c.seq = "none" /\ t.c.box = s.c.box
  /\ t.c.ctx = s.c.ctx /\ t.c.aborted = s.c.aborted /\ t.c.events = s.c.events
  /\ Claimed(t) = Claimed(s)

Continues(t, s) ==
  \/ Torn(t) /\ (t.c.box = s.c.box \/ t.c.box = <<>>)
  \/ Steps(t, s)
  \/ Ended(t, s)

LEMMA WhyIs ==
  ASSUME NEW s \in States, NEW w \in {"none", "PLACE", "BUFFERING", "TOOL_CHANGE", "TOOL_WAIT"},
         NEW t, t = [s EXCEPT !.c.why = w]
  PROVE  /\ t \in States /\ SameLegs(t, s) /\ SameSequence(t, s) /\ t.n = s.n
         /\ t.c.ctx = s.c.ctx /\ t.c.events = s.c.events /\ t.c.why = w /\ t.c.aborted = s.c.aborted
         /\ t.c.begun = s.c.begun /\ t.c.estop = s.c.estop
<1> DEFINE c == [s.c EXCEPT !.why = w]
<1>1. s.c \in Cores
  BY DEF States
<1>2. t = [s EXCEPT !.c = c]
  BY DEF States
<1>3. t.c = c /\ t.r = s.r /\ t.n = s.n
  BY <1>2 DEF States
<1>4. c \in Cores
  BY <1>1 DEF Cores
<1>5. /\ c.leg = s.c.leg /\ c.live = s.c.live /\ c.box = s.c.box
      /\ c.seq = s.c.seq /\ c.ringStep = s.c.ringStep /\ c.steps = s.c.steps
      /\ c.run = s.c.run /\ c.rec = s.c.rec /\ c.parking = s.c.parking
  BY <1>1 DEF Cores
<1>6. /\ c.ctx = s.c.ctx /\ c.events = s.c.events /\ c.why = w /\ c.aborted = s.c.aborted
      /\ c.begun = s.c.begun /\ c.estop = s.c.estop
  BY <1>1 DEF Cores
<1> HIDE DEF c
<1>7. t \in States
  BY <1>2, <1>4, CoreSet
<1>8. SameLegs(t, s) /\ SameSequence(t, s)
  BY <1>3, <1>5 DEF SameLegs, SameSequence
<1> QED BY <1>3, <1>6, <1>7, <1>8

LEMMA ContinueIs ==
  ASSUME NEW s \in States, Held(s), NEW line, NEW o
  PROVE  Continues(Continue(s, line, o), s)
<1> DEFINE x == NextStep(s, line, o)
           w == IF s.c.seq = "toolchange" THEN "TOOL_WAIT" ELSE x.s.c.why
           y == [x.s EXCEPT !.c.why = w]
<1>1. Continue(s, line, o) \in {SequenceFail(x.s, o), x.s, SequenceEnd(y)}
      /\ (Continue(s, line, o) = SequenceFail(x.s, o)
          \/ (x.bad # TRUE /\ x.out = TRUE /\ Continue(s, line, o) = x.s)
          \/ (x.bad # TRUE /\ x.out # TRUE /\ Continue(s, line, o) = SequenceEnd(y)))
  <2>1. x.bad \in BOOLEAN /\ x.out \in BOOLEAN
    BY NextStepIs DEF StepDone
  <2>2. y = [x.s EXCEPT !.c.why = IF s.c.seq = "toolchange" THEN "TOOL_WAIT" ELSE @]
    OBVIOUS
  <2> HIDE DEF x, y
  <2> QED BY <2>1, <2>2 DEF Continue, x
<1>2. StepDone(x, s)
  BY NextStepIs
<1> HIDE DEF x
<1>3. x.s \in States /\ Held(x.s) /\ (x.s.c.box = s.c.box \/ x.s.c.box = <<>>)
  BY <1>2 DEF StepDone, Fails, Torn, Steps, Held
<1>4. CASE Continue(s, line, o) = SequenceFail(x.s, o)
  BY <1>3, <1>4, SequenceFailIs DEF Continues
<1>5. CASE x.bad # TRUE /\ x.out = TRUE /\ Continue(s, line, o) = x.s
  BY <1>2, <1>5 DEF StepDone, Continues
<1>6. CASE x.bad # TRUE /\ x.out # TRUE /\ Continue(s, line, o) = SequenceEnd(y)
  <2>1. Steps(x.s, s) /\ Claimed(x.s) = Claimed(s)
    BY <1>2, <1>6 DEF StepDone
  <2>2. w \in {"none", "PLACE", "BUFFERING", "TOOL_CHANGE", "TOOL_WAIT"}
    BY <1>3 DEF States, Cores
  <2> DEFINE z == x.s
  <2> HIDE DEF w, z
  <2>8. z \in States
    BY <1>3 DEF z
  <2>9. y = [z EXCEPT !.c.why = w]
    BY DEF z
  <2> HIDE DEF y
  <2>3. /\ y \in States /\ SameLegs(y, x.s) /\ y.c.ctx = x.s.c.ctx /\ y.c.events = x.s.c.events
        /\ y.c.aborted = x.s.c.aborted
    <3>1. /\ y \in States /\ SameLegs(y, z) /\ y.c.ctx = z.c.ctx /\ y.c.events = z.c.events
          /\ y.c.aborted = z.c.aborted
      BY <2>2, <2>8, <2>9, WhyIs
    <3> QED BY <3>1 DEF z
  <2> DEFINE t == SequenceEnd(y)
  <2>4. t \in States /\ SameMachine(t, y) /\ SameLegs(t, y) /\ t.c.seq = "none"
    BY <2>3, SequenceEndIs
  <2> HIDE DEF t
  <2>5. Claimed(t) = Claimed(s) /\ Held(t)
    BY <1>3, <2>1, <2>3, <2>4 DEF Claimed, Held, SameLegs
  <2>6. Ended(t, s)
    BY <2>1, <2>3, <2>4, <2>5 DEF Ended, Steps, SameMachine, SameLegs
  <2> QED BY <1>6, <2>6 DEF Continues, t
<1> QED BY <1>1, <1>4, <1>5, <1>6

(* A start from the loop.                                                  *)
LEMMA BeginInJobIs ==
  ASSUME NEW s \in States, Held(s), NEW id \in SeqIds, NEW ks \in Seq(StepKinds), NEW line, NEW o
  PROVE  LET t == BeginInJob(s, id, ks, line, o)
         IN \/ Torn(t) /\ (t.c.box = s.c.box \/ t.c.box = <<>>)
            \/ /\ t \in States /\ SameMachine(t, s) /\ t.c.box = s.c.box /\ Held(t) /\ t.c.seq = id
               /\ t.c.ringStep => Claimed(t) = Claimed(s)
            \/ Ended(t, s)
<1> DEFINE st == [SequenceStart(s, id) EXCEPT !.c.steps = ks]
           t == BeginInJob(s, id, ks, line, o)
<1>1. /\ st \in States /\ SameMachine(st, s) /\ SameLegs(st, s) /\ st.c.seq = id /\ st.c.ringStep = FALSE
  <2>1. st = Recipe(s, id, ks) /\ id \in SeqIds
    BY DEF Recipe
  <2> HIDE DEF st
  <2>2. Started(Recipe(s, id, ks), s, id)
    BY <2>1, RecipeStarts
  <2> QED BY <2>1, <2>2 DEF Started
<1>2. t = Continue(st, line, o)
  BY DEF BeginInJob
<1> HIDE DEF st
<1>3. Held(st) /\ Claimed(st) = Claimed(s) /\ st.c.box = s.c.box
  BY <1>1 DEF Held, Claimed, SameLegs
<1>4. Continues(t, st)
  BY <1>1, <1>2, <1>3, ContinueIs
<1> HIDE DEF t
<1>5. CASE Torn(t) /\ (t.c.box = st.c.box \/ t.c.box = <<>>)
  BY <1>3, <1>5 DEF t
<1>6. CASE Steps(t, st)
  BY <1>1, <1>3, <1>6 DEF Steps, SameMachine, t
<1>7. CASE Ended(t, st)
  <2>1. Ended(t, s)
    BY <1>1, <1>3, <1>7 DEF Ended, SameMachine
  <2> QED BY <2>1 DEF t
<1> QED BY <1>4, <1>5, <1>6, <1>7 DEF Continues

----------------------------------------------------------------------------
(* The invariant                                                           *)

JobSeqs == {"none", "goto", "toolchange", "place"}

(* A job that may start a recipe from the loop has none.                   *)
Owned(s) ==
  s.c.ctx = "JOB" /\ \/ s.c.why = "BUFFERING"
                     \/ s.c.why = "TOOL_CHANGE" /\ ~s.c.begun
                     \/ s.c.why = "PLACE" /\ ~s.c.begun /\ ~s.c.aborted
  => s.c.seq = "none"

(* A step's end in the mailbox is the last event, and of a step that is over. *)
OwnEnd(s) ==
  \A i \in 1 .. Len(s.c.box) : s.c.box[i].kind = "step" =>
    i = Len(s.c.box) /\ Claimed(s) = {} /\ ~s.c.ringStep

(* What an event fault leaves, and what can be started while it stands.    *)
Calm(s) ==
  s.c.events # {} =>
    /\ s.c.ctx # "HOMING" /\ s.c.seq \in JobSeqs
    /\ s.c.seq = "none" => Claimed(s) = {}
    /\ s.c.ringStep => Claimed(s) = {}
    /\ s.c.seq # "none" => OwnEnd(s)

(* A homing run's chains are as long as its recipe.                        *)
HomeRun(s) == s.c.seq = "home" => Chains(s.c.run)

Good(s) == s \in States /\ Held(s) /\ Owned(s) /\ Calm(s) /\ HomeRun(s)

(* The mailbox is emptied before the tools and before the observer.        *)
Emptying ==
  /\ core.pc \in {"observe", "tools"} => core.box = <<>>
  /\ core.events # {} /\ core.pc = "serve" => core.box = <<>>

LegsInv == Good(S) /\ Emptying

(* The handler leaves t, and the loop goes on at p.                        *)
Leads(t, p) == core' = [t.c EXCEPT !.pc = p] /\ node' = t.n /\ ring' = t.r

LEMMA LeadsGood ==
  ASSUME NEW t, Good(t), NEW p \in {"observe", "serve", "sequence", "tools"}, Leads(t, p),
         p \in {"observe", "tools"} => t.c.box = <<>>,
         p = "serve" /\ t.c.events # {} => t.c.box = <<>>
  PROVE  LegsInv'
<1>1. t \in States
  BY DEF Good
<1>2. S' \in States
  BY <1>1 DEF States, Cores, Leads, S
<1>3. /\ S'.c.ctx = t.c.ctx /\ S'.c.why = t.c.why /\ S'.c.begun = t.c.begun /\ S'.c.aborted = t.c.aborted
      /\ S'.c.events = t.c.events /\ S'.c.seq = t.c.seq /\ S'.c.ringStep = t.c.ringStep
      /\ S'.c.box = t.c.box /\ S'.c.leg = t.c.leg /\ S'.c.live = t.c.live /\ S'.c.run = t.c.run
      /\ core' = S'.c /\ core'.pc = p
  BY <1>1 DEF States, Cores, Leads, S
<1>4. Claimed(S') = Claimed(t)
  BY <1>3 DEF Claimed
<1> DEFINE u == S'
<1> HIDE DEF u
<1>5. Good(u)
  BY <1>2, <1>3, <1>4 DEF Good, Held, Owned, Calm, OwnEnd, HomeRun, u
<1>6. Good(S)' /\ Emptying'
  BY <1>3, <1>5 DEF Emptying, u
<1> QED BY <1>6 DEF LegsInv

LEMMA TornGood ==
  ASSUME NEW t, Torn(t)
  PROVE  Good(t)
BY DEF Torn, Good, Held, Owned, Calm, JobSeqs, HomeRun

(* A handler that touches neither the machine, the sequence nor its legs.  *)
LEMMA SameGood ==
  ASSUME NEW s, Good(s), NEW t \in States, SameMachine(t, s), SameSequence(t, s), SameLegs(t, s)
  PROVE  Good(t) /\ t.c.box = s.c.box /\ t.c.events = s.c.events
<1>1. Claimed(t) = Claimed(s)
  BY DEF Claimed, SameLegs
<1> QED BY <1>1 DEF Good, Held, Owned, Calm, OwnEnd, HomeRun, SameMachine, SameSequence, SameLegs

(* A sequence whose step ended goes on, ends or fails.                     *)
LEMMA AdvanceGood ==
  ASSUME NEW s, Good(s), s.c.seq # "none", NEW line, NEW apart, NEW o,
         s.c.events # {} => s.c.box = <<>> /\ Claimed(s) = {} /\ ~s.c.ringStep
  PROVE  LET t == Advance(s, line, apart, o)
         IN Good(t) /\ (t.c.box = s.c.box \/ t.c.box = <<>>)
<1> DEFINE t == Advance(s, line, apart, o)
<1>1. s \in States /\ Held(s)
  BY DEF Good
<1>2. ASSUME NEW u, Stays(u, s), s.c.seq \notin JobSeqs, u.c.seq = "home" => Chains(u.c.run)
      PROVE  Good(u) /\ u.c.box = s.c.box
  <2>1. s.c.events = {}
    BY <1>2 DEF Good, Calm
  <2>2. s.c.seq # "none"
    OBVIOUS
  <2> QED BY <1>2, <2>1, <2>2 DEF Stays, SameMachine, Good, Owned, Calm, HomeRun
<1>3. CASE s.c.seq = "home"
  <2>1. HomeGoes(t, s)
    BY <1>1, <1>3, HomeNextIs DEF Advance, Good, HomeRun
  <2> QED BY <1>2, <1>3, <2>1, TornGood DEF HomeGoes, Fails, JobSeqs
<1>4. CASE s.c.seq \in {"recovery", "leg", "traverse"}
  <2>1. t = RecoveryPark(s, o) \/ t = SequenceEnd(s)
    BY <1>4 DEF Advance
  <2>2. Stays(SequenceEnd(s), s)
    BY <1>1, StaysHere, EndStays
  <2>3. Fails(t) \/ Stays(t, s)
    BY <1>1, <2>1, <2>2, RecoveryParkIs
  <2> HIDE DEF t
  <2>4. Stays(t, s) => t.c.seq # "home"
    BY <1>4 DEF Stays
  <2> QED BY <1>2, <1>4, <2>3, <2>4, TornGood DEF Fails, JobSeqs, t
<1>5. CASE s.c.seq \notin {"home", "recovery", "leg", "traverse"}
  <2>1. t = Continue(s, line, o)
    BY <1>5 DEF Advance
  <2>2. Continues(t, s)
    BY <1>1, <2>1, ContinueIs
  <2> HIDE DEF t
  <2>3. CASE Torn(t) /\ (t.c.box = s.c.box \/ t.c.box = <<>>)
    BY <2>3, TornGood DEF t
  <2>4. CASE Steps(t, s)
    <3>1. Owned(t)
      BY <2>4 DEF Good, Owned, Steps, SameMachine
    <3>2. Calm(t)
      BY <2>4 DEF Good, Calm, OwnEnd, Steps, SameMachine
    <3> QED BY <1>5, <2>4, <3>1, <3>2 DEF Good, Steps, HomeRun, t
  <2>5. CASE Ended(t, s)
    BY <2>5 DEF Good, Owned, Calm, Ended, HomeRun, JobSeqs, t
  <2> QED BY <2>2, <2>3, <2>4, <2>5 DEF Continues
<1> QED BY <1>3, <1>4, <1>5

LEMMA AbortSettleGood ==
  ASSUME NEW s, Good(s)
  PROVE  LET t == AbortSettle(s)
         IN Good(t) /\ t.c.box = s.c.box /\ t.c.events = s.c.events
<1>1. s \in States /\ s.c.ctx \in {"IDLE", "HOMING", "JOB"}
  BY DEF Good, States, Cores
<1> DEFINE t == JobCloses(s)
<1>2. /\ t \in States /\ t.c.ctx = "IDLE" /\ t.c.events = s.c.events /\ SameSequence(t, s)
      /\ SameLegs(t, s) /\ Claimed(t) = Claimed(s) /\ (Held(s) => Held(t))
  BY <1>1, JobClosesIs
<1> HIDE DEF t
<1>3. Good(t) /\ t.c.box = s.c.box
  BY <1>2 DEF Good, Owned, Calm, OwnEnd, HomeRun, SameSequence, SameLegs
<1> QED BY <1>2, <1>3 DEF AbortSettle, t

(* A start of the loop's from a job that waits for one, with no sequence.  *)
LEMMA StartGood ==
  ASSUME NEW s, Good(s), s.c.seq = "none", s.c.box = <<>>, s.c.ctx = "JOB",
         s.c.why \in {"TOOL_CHANGE", "PLACE"} /\ s.c.begun,
         NEW id \in {"toolchange", "place"}, NEW ks \in Seq(StepKinds), NEW line, NEW o
  PROVE  LET t == BeginInJob(s, id, ks, line, o)
         IN Good(t) /\ t.c.box = <<>>
<1> DEFINE t == BeginInJob(s, id, ks, line, o)
<1>1. \/ Torn(t) /\ (t.c.box = s.c.box \/ t.c.box = <<>>)
      \/ /\ t \in States /\ SameMachine(t, s) /\ t.c.box = s.c.box /\ Held(t) /\ t.c.seq = id
         /\ t.c.ringStep => Claimed(t) = Claimed(s)
      \/ Ended(t, s)
  BY BeginInJobIs DEF Good, SeqIds
<1> HIDE DEF t
<1>2. CASE Torn(t) /\ (t.c.box = s.c.box \/ t.c.box = <<>>)
  BY <1>2, TornGood DEF t
<1>3. CASE /\ t \in States /\ SameMachine(t, s) /\ t.c.box = s.c.box /\ Held(t) /\ t.c.seq = id
           /\ t.c.ringStep => Claimed(t) = Claimed(s)
  BY <1>3 DEF Good, Owned, Calm, OwnEnd, HomeRun, JobSeqs, SameMachine, t
<1>4. CASE Ended(t, s)
  BY <1>4 DEF Good, Owned, Calm, Ended, HomeRun, JobSeqs, t
<1> QED BY <1>1, <1>2, <1>3, <1>4

(* The loop marks the change or the placement as begun.                    *)
LEMMA BegunGood ==
  ASSUME NEW s, Good(s), s.c.seq = "none", NEW t \in States, SameLegs(t, s), t.c.seq = "none",
         t.c.ctx = s.c.ctx, t.c.events = s.c.events, t.c.ringStep = s.c.ringStep
  PROVE  Good(t)
<1>1. Claimed(t) = Claimed(s)
  BY DEF Claimed, SameLegs
<1> QED BY <1>1 DEF Good, Held, Owned, Calm, HomeRun, SameLegs

LEMMA ReadiedGood ==
  ASSUME NEW s, Good(s), NEW A \in SUBSET Nodes, NEW o
  PROVE  LET t == Readied(s, A, o)
         IN /\ Good(t) /\ SameMachine(t, s) /\ SameSequence(t, s) /\ SameLegs(t, s)
            /\ t.c.box = s.c.box /\ t.c.events = s.c.events /\ Claimed(t) = Claimed(s)
<1> DEFINE t == Readied(s, A, o)
<1>1. t \in States /\ SameMachine(t, s) /\ SameSequence(t, s) /\ SameLegs(t, s)
  BY ReadiedIs DEF Good
<1> HIDE DEF t
<1>2. Good(t) /\ t.c.box = s.c.box /\ t.c.events = s.c.events
  BY <1>1, SameGood
<1>3. Claimed(t) = Claimed(s)
  BY <1>1 DEF Claimed, SameLegs
<1> QED BY <1>1, <1>2, <1>3 DEF t

LEMMA FailGood ==
  ASSUME NEW s, Good(s), s.c.box = <<>>, NEW o
  PROVE  Good(SequenceFail(s, o)) /\ SequenceFail(s, o).c.box = <<>>
BY SequenceFailIs, TornGood DEF Good

LEMMA ToolChangeTickGood ==
  ASSUME NEW s, Good(s), s.c.box = <<>>, NEW mounted \in BOOLEAN, NEW line, NEW o
  PROVE  LET t == ToolChangeTick(s, mounted, line, o)
         IN Good(t) /\ t.c.box = <<>>
<1> DEFINE on == [s EXCEPT !.c.begun = TRUE]
           swapped == [on EXCEPT !.c.why = "BUFFERING"]
           up == Readied(on, Zs, o)
           upA == Readied(up, Rotary, o)
           ks == <<"zs", "a", "line">>
           t == ToolChangeTick(s, mounted, line, o)
<1>1. CASE s.c.ctx # "JOB" \/ s.c.why # "TOOL_CHANGE" \/ s.c.begun
  BY <1>1 DEF ToolChangeTick
<1>2. CASE s.c.ctx = "JOB" /\ s.c.why = "TOOL_CHANGE" /\ ~s.c.begun
  <2>1. t \in {swapped, SequenceFail(on, o), SequenceFail(up, o), SequenceFail(upA, o),
               BeginInJob(upA, "toolchange", ks, line, o)}
    BY <1>2 DEF ToolChangeTick
  <2> HIDE DEF t
  <2>2. s.c.seq = "none" /\ s \in States
    BY <1>2 DEF Good, Owned
  <2>3. /\ on \in States /\ SameLegs(on, s) /\ on.c.seq = s.c.seq /\ on.c.ctx = s.c.ctx
        /\ on.c.events = s.c.events /\ on.c.ringStep = s.c.ringStep
        /\ on.c.why = s.c.why /\ on.c.begun = TRUE
    BY <2>2 DEF States, Cores, SameLegs
  <2>4. /\ swapped \in States /\ SameLegs(swapped, s) /\ swapped.c.seq = s.c.seq
        /\ swapped.c.ctx = s.c.ctx /\ swapped.c.events = s.c.events
        /\ swapped.c.ringStep = s.c.ringStep
    BY <2>2 DEF States, Cores, SameLegs
  <2> HIDE DEF on, swapped
  <2>5. Good(on) /\ on.c.box = <<>> /\ Good(swapped) /\ swapped.c.box = <<>>
    BY <2>2, <2>3, <2>4, BegunGood DEF SameLegs
  <2>6. Zs \in SUBSET Nodes /\ Rotary \in SUBSET Nodes /\ ks \in Seq(StepKinds)
    BY LegsAssumption DEF StepKinds
  <2> HIDE DEF up, ks
  <2>7. Good(up) /\ SameMachine(up, on) /\ SameSequence(up, on) /\ up.c.box = <<>>
    BY <2>5, <2>6, ReadiedGood DEF up
  <2> HIDE DEF upA
  <2>8. Good(upA) /\ SameMachine(upA, up) /\ SameSequence(upA, up) /\ upA.c.box = <<>>
    BY <2>6, <2>7, ReadiedGood DEF upA
  <2>9. upA.c.seq = "none" /\ upA.c.ctx = "JOB" /\ upA.c.why = "TOOL_CHANGE" /\ upA.c.begun = TRUE
    BY <1>2, <2>2, <2>3, <2>7, <2>8 DEF SameMachine, SameSequence
  <2>10. /\ Good(BeginInJob(upA, "toolchange", ks, line, o))
         /\ BeginInJob(upA, "toolchange", ks, line, o).c.box = <<>>
    BY <2>6, <2>8, <2>9, StartGood
  <2>11. Good(t) /\ t.c.box = <<>>
    BY <2>1, <2>5, <2>7, <2>8, <2>10, FailGood
  <2> QED BY <2>11 DEF t
<1> QED BY <1>1, <1>2

LEMMA PlaceTickGood ==
  ASSUME NEW s, Good(s), s.c.box = <<>>, NEW line, NEW o
  PROVE  LET t == PlaceTick(s, line, o)
         IN Good(t) /\ t.c.box = <<>>
<1> DEFINE on == [s EXCEPT !.c.begun = TRUE, !.c.isSet = FALSE]
           up == Readied(on, Zs, o)
           ks == <<"zs", "line">>
           off == [s EXCEPT !.c.begun = FALSE]
           t == PlaceTick(s, line, o)
<1>1. s \in States
  BY DEF Good
<1>2. CASE s.c.ctx # "JOB" \/ s.c.why # "PLACE" \/ (s.c.begun /\ ~s.c.aborted)
  BY <1>2 DEF PlaceTick
<1>3. CASE s.c.ctx = "JOB" /\ s.c.why = "PLACE" /\ s.c.aborted
  <2>1. t = off
    BY <1>3 DEF PlaceTick
  <2>2. off \in States
    BY <1>1 DEF States, Cores
  <2>3. /\ off.c.seq = s.c.seq /\ off.c.box = s.c.box /\ off.c.ctx = s.c.ctx /\ off.c.why = s.c.why
        /\ off.c.aborted = s.c.aborted /\ off.c.events = s.c.events /\ off.c.leg = s.c.leg
        /\ off.c.ringStep = s.c.ringStep /\ off.c.live = s.c.live /\ off.c.run = s.c.run
    BY <1>1 DEF States, Cores
  <2> HIDE DEF off, t
  <2>4. Claimed(off) = Claimed(s)
    BY <2>3 DEF Claimed
  <2>5. Good(off)
    BY <1>3, <2>2, <2>3, <2>4 DEF Good, Held, Owned, Calm, OwnEnd, HomeRun
  <2> QED BY <2>1, <2>3, <2>5 DEF t
<1>4. CASE s.c.ctx = "JOB" /\ s.c.why = "PLACE" /\ ~s.c.aborted /\ ~s.c.begun
  <2>1. t \in {SequenceFail(up, o), BeginInJob(up, "place", ks, line, o)}
    BY <1>4 DEF PlaceTick
  <2> HIDE DEF t
  <2>2. s.c.seq = "none"
    BY <1>4 DEF Good, Owned
  <2>3. /\ on \in States /\ SameLegs(on, s) /\ on.c.seq = s.c.seq /\ on.c.ctx = s.c.ctx
        /\ on.c.events = s.c.events /\ on.c.ringStep = s.c.ringStep
        /\ on.c.why = s.c.why /\ on.c.begun = TRUE
    BY <1>1 DEF States, Cores, SameLegs
  <2> HIDE DEF on
  <2>4. Good(on) /\ on.c.box = <<>>
    BY <2>2, <2>3, BegunGood DEF SameLegs
  <2>5. Zs \in SUBSET Nodes /\ ks \in Seq(StepKinds)
    BY LegsAssumption DEF StepKinds
  <2> HIDE DEF up, ks
  <2>6. Good(up) /\ SameMachine(up, on) /\ SameSequence(up, on) /\ up.c.box = <<>>
    BY <2>4, <2>5, ReadiedGood DEF up
  <2>7. up.c.seq = "none" /\ up.c.ctx = "JOB" /\ up.c.why = "PLACE" /\ up.c.begun = TRUE
    BY <1>4, <2>2, <2>3, <2>6 DEF SameMachine, SameSequence
  <2>8. /\ Good(BeginInJob(up, "place", ks, line, o))
        /\ BeginInJob(up, "place", ks, line, o).c.box = <<>>
    BY <2>5, <2>6, <2>7, StartGood
  <2>9. Good(t) /\ t.c.box = <<>>
    BY <2>1, <2>6, <2>8, FailGood
  <2> QED BY <2>9 DEF t
<1> QED BY <1>1, <1>2, <1>3, <1>4 DEF States, Cores

----------------------------------------------------------------------------
(* Each action keeps the invariant: Core 0's loop                          *)

LEMMA InitInv == Init => LegsInv
<1> SUFFICES ASSUME Init PROVE LegsInv
  OBVIOUS
<1> DEFINE none == [n \in Nodes |-> "none"]
<1>1. none \in [Nodes -> Places] /\ <<>> \in Seq(Boxed) /\ <<>> \in Seq(StepKinds)
  BY DEF Places
<1>2. core \in Cores
  <2>1. NoLegs = [n \in Nodes |-> NoLeg]
    BY DEF NoLegs
  <2> HIDE DEF none
  <2> QED BY <1>1, <2>1, NoLegType, NoRunType DEF Init, Cores, SeqIds, none
<1>3. node \in [Nodes -> NodeStates]
  BY DEF Init, NodeStates, Places
<1>4. ring \in Rings
  BY DEF Init, Rings
<1>5. S \in States /\ S.c = core
  BY <1>2, <1>3, <1>4 DEF S, States
<1>6. /\ core.leg = [n \in Nodes |-> NoLeg] /\ core.events = {} /\ core.ctx = "IDLE"
      /\ core.seq = "none" /\ core.box = <<>>
  BY DEF Init
<1>7. Claimed(S) = {}
  BY <1>5, <1>6 DEF Claimed
<1> QED BY <1>5, <1>6, <1>7 DEF LegsInv, Good, Held, Owned, Calm, HomeRun, Emptying

(* What the handler finds: the machine that the invariant speaks of.       *)
LEMMA SIs ==
  ASSUME LegsInv
  PROVE  S \in States /\ Good(S) /\ Held(S) /\ S.c = core /\ S.n = node /\ S.r = ring
BY DEF LegsInv, Good, S

LEMMA BoxFree ==
  ASSUME LegsInv, Served
  PROVE  core.events # {} => core.box = <<>>
BY DEF LegsInv, Emptying, Served

LEMMA AfterRunnerGood ==
  ASSUME NEW t, Good(t), Leads(t, AfterRunner(t))
  PROVE  LegsInv'
<1>1. /\ AfterRunner(t) \in {"observe", "sequence", "tools"}
      /\ AfterRunner(t) \in {"observe", "tools"} => t.c.box = <<>>
  BY DEF AfterRunner
<1> QED BY <1>1, LeadsGood

LEMMA ServeEndsKeeps ==
  ASSUME LegsInv, ServeEnds
  PROVE  LegsInv'
<1>1. Leads(S, AfterRunner(S))
  BY DEF ServeEnds, Core0Step, Leads
<1> QED BY <1>1, SIs, AfterRunnerGood

LEMMA TicksGood ==
  ASSUME LegsInv, Served, Claimed(S) # {}, NEW t, Ticks(t, S)
  PROVE  Good(t)
<1>1. S.c.box \in Seq(Boxed) /\ \A e \in LegEvents : e.kind = "leg"
  BY SIs DEF States, Cores, LegEvents
<1>2. ASSUME t.c.events # {} PROVE OwnEnd(t)
  <2>1. S.c.box = <<>> /\ S.c.seq # "none" /\ ~S.c.ringStep
    BY <1>2, SIs, BoxFree DEF Ticks, SameMachine, Good, Calm
  <2>2. t.c.ringStep = S.c.ringStep
    BY DEF Ticks, SameSequence
  <2>3. CASE t.c.box = S.c.box
    BY <2>1, <2>3 DEF OwnEnd
  <2>4. ASSUME NEW e \in LegEvents, t.c.box = Append(S.c.box, e) PROVE OwnEnd(t)
    BY <1>1, <2>1, <2>4 DEF OwnEnd
  <2>5. ASSUME NEW e \in LegEvents, Claimed(t) = {},
               t.c.box = Append(Append(S.c.box, e), [kind |-> "step"])
        PROVE  OwnEnd(t)
    <3> DEFINE x == [kind |-> "step"]
    <3> HIDE DEF x
    <3> DEFINE b == Append(S.c.box, e)
    <3>1. b \in Seq(Boxed) /\ Len(b) = 1 /\ b[1] = e
      BY <1>1, <2>1, AppendProperties DEF Boxed
    <3>2. x \in Boxed
      BY DEF Boxed, x
    <3> HIDE DEF b
    <3>3. Len(t.c.box) = 2 /\ t.c.box[1] = e
      BY <2>5, <3>1, <3>2, AppendProperties DEF b, x
    <3> QED BY <1>1, <2>1, <2>2, <2>5, <3>3 DEF OwnEnd
  <2> QED BY <2>3, <2>4, <2>5 DEF Ticks
<1>3. Calm(t)
  BY <1>2, SIs DEF Ticks, SameMachine, SameSequence, Good, Calm
<1> QED BY <1>3, SIs DEF Ticks, SameMachine, SameSequence, Good, Owned, HomeRun

LEMMA RunnerTickKeeps ==
  ASSUME LegsInv, NEW n \in Nodes, RunnerTick(n)
  PROVE  LegsInv'
<1>1. PICK o \in Outs : Leads(PollOne(S, n, o), AfterRunner(PollOne(S, n, o)))
  BY DEF RunnerTick, Core0Step, Leads
<1>2. n \in Claimed(S) /\ Served
  BY DEF RunnerTick, Core0Step
<1>3. Good(PollOne(S, n, o))
  BY <1>2, SIs, PollOneTicks, TicksGood
<1> QED BY <1>1, <1>3, AfterRunnerGood

LEMMA RunnerDeadlineKeeps ==
  ASSUME LegsInv, NEW n \in Nodes, RunnerDeadline(n)
  PROVE  LegsInv'
<1> DEFINE t == LegEnds(S, n, "failed", FALSE)
<1>1. n \in Claimed(S) /\ Served
  BY DEF RunnerDeadline
<1>2. Ticks(t, S)
  BY SIs, LegEndsTicks
<1>3. Good(t)
  BY <1>1, <1>2, TicksGood
<1>4. Leads(t, AfterRunner(t))
  <2>1. core' = [t.c EXCEPT !.pc = AfterRunner(t)] /\ node' = t.n /\ ring' = ring
    BY DEF RunnerDeadline
  <2>2. t.r = ring
    BY <1>2, SIs DEF Ticks, SameSequence
  <2> QED BY <2>1, <2>2 DEF Leads
<1> QED BY <1>3, <1>4, AfterRunnerGood

(* The fact is taken; a line's drain is the end of its step.               *)
LEMMA ObserveKeeps ==
  ASSUME LegsInv, Observe
  PROVE  LegsInv'
<1> DEFINE s == [S EXCEPT !.r.facts = @ - 1]
           u == [s EXCEPT !.c.ringStep = FALSE]
           drained == RingIdle(s) /\ s.c.seq # "none" /\ s.c.ringStep
<1>1. PICK line \in Lines, o \in Outs :
        Leads(IF drained THEN Advance(u, line, FALSE, o) ELSE s, "observe")
  BY DEF Observe, Core0Step, Observing, Leads
<1>2. core.pc = "observe" /\ ring.facts > 0
  BY DEF Observe, Core0Step
<1>3. S.c.box = <<>> /\ S \in States /\ Good(S) /\ S.r.facts - 1 \in Nat
  <2>1. S.r.facts \in Nat /\ S.r.facts > 0
    BY <1>2, SIs DEF States, Rings
  <2> QED BY <1>2, <2>1, SIs DEF LegsInv, Emptying
<1>4. s \in States /\ s.c = S.c
  BY <1>3 DEF States, Rings
<1>5. Claimed(s) = Claimed(S)
  BY <1>4 DEF Claimed
<1>6. Good(s)
  BY <1>3, <1>4, <1>5 DEF Good, Held, Owned, Calm, OwnEnd, HomeRun
<1> HIDE DEF s
<1>7. /\ u \in States /\ u.c.ringStep = FALSE /\ SameMachine(u, s) /\ SameLegs(u, s)
      /\ u.c.seq = s.c.seq /\ u.c.run = s.c.run
  BY <1>4 DEF States, Cores, SameMachine, SameLegs
<1> HIDE DEF u
<1>8. Claimed(u) = Claimed(s)
  BY <1>7 DEF Claimed, SameLegs
<1>9. Good(u)
  BY <1>3, <1>4, <1>6, <1>7, <1>8 DEF Good, Held, Owned, Calm, OwnEnd, HomeRun, SameMachine, SameLegs
<1>10. CASE drained
  <2> DEFINE t == Advance(u, line, FALSE, o)
  <2>1. u.c.events # {} => u.c.box = <<>> /\ Claimed(u) = {} /\ ~u.c.ringStep
    BY <1>3, <1>4, <1>6, <1>7, <1>8, <1>10 DEF Good, Calm, SameMachine, SameLegs
  <2>2. Good(t) /\ (t.c.box = u.c.box \/ t.c.box = <<>>)
    BY <1>7, <1>9, <1>10, <2>1, AdvanceGood
  <2> HIDE DEF t
  <2>3. t.c.box = <<>>
    BY <1>3, <1>4, <1>7, <2>2 DEF SameLegs
  <2>4. Leads(t, "observe")
    BY <1>1, <1>10 DEF t
  <2> QED BY <2>2, <2>3, <2>4, LeadsGood
<1>11. CASE ~drained
  <2>1. Leads(s, "observe") /\ s.c.box = <<>>
    BY <1>1, <1>3, <1>4, <1>11
  <2> QED BY <1>6, <2>1, LeadsGood
<1> QED BY <1>10, <1>11

LEMMA ObserveFaultKeeps ==
  ASSUME LegsInv, ObserveFault
  PROVE  LegsInv'
<1> DEFINE t == FaultSet(S, "F_TOOL", Fine)
<1>1. core' = t.c /\ node' = t.n /\ ring' = t.r /\ core.pc = "observe"
  BY DEF ObserveFault
<1>2. Torn(t) /\ (t.c.box = S.c.box \/ t.c.box = <<>>)
  BY SIs, FaultSetIs DEF Faults
<1> HIDE DEF t
<1>3. t.c.box = <<>>
  BY <1>1, <1>2, SIs DEF LegsInv, Emptying
<1>4. Good(t) /\ t.c.pc \in {"observe", "serve", "sequence", "tools"}
  BY <1>2, TornGood DEF Torn, States, Cores
<1>5. Leads(t, t.c.pc)
  <2>1. [t.c EXCEPT !.pc = t.c.pc] = t.c
    BY <1>4 DEF Good, States, Cores
  <2> QED BY <1>1, <2>1 DEF Leads
<1> QED BY <1>3, <1>4, <1>5, LeadsGood

(* What the sequence driver makes of the event ev.                         *)
Handled(s, ev, line, apart, o) ==
  CASE s.c.seq = "none" -> s
    [] s.c.seq # "none" /\ ev.kind = "step" -> Advance(s, line, apart, o)
    [] s.c.seq # "none" /\ ev.kind = "leg" /\ ev.failed -> HomingFail(s, o)
    [] OTHER -> IF s.c.seq = "home" THEN HomeLegEnded(s, ev.node, o) ELSE s

LEMMA SequenceTickKeeps ==
  ASSUME LegsInv, SequenceTick
  PROVE  LegsInv'
<1> DEFINE ev == Head(core.box)
           s == [S EXCEPT !.c.box = Tail(@)]
           F(line, apart, o) == Handled(s, ev, line, apart, o)
<1>0. \E line \in Lines, apart \in BOOLEAN, o \in Outs : \E x \in {F(line, apart, o)} :
        core' = [x.c EXCEPT !.pc = AfterRunner(x)] /\ node' = x.n /\ ring' = x.r
  BY ZenonT(60) DEF SequenceTick, Core0Step, Handled
<1>1. PICK line \in Lines, apart \in BOOLEAN, o \in Outs :
        Leads(F(line, apart, o), AfterRunner(F(line, apart, o)))
  <2> HIDE DEF F
  <2> QED BY <1>0 DEF Leads
<1> DEFINE t == F(line, apart, o)
<1> HIDE DEF F
<1> SUFFICES Good(t)
  BY <1>1, AfterRunnerGood
<1>2. core.box # <<>> /\ core.box \in Seq(Boxed) /\ S.c.box = core.box
  BY SIs DEF SequenceTick, States, Cores
<1> DEFINE b == Tail(core.box)
<1>3. /\ ev \in Boxed /\ ev = core.box[1] /\ b \in Seq(Boxed) /\ Len(b) = Len(core.box) - 1
      /\ \A i \in 1 .. Len(b) : b[i] = core.box[i + 1]
  BY <1>2, HeadTailProperties
<1>4. s = [S EXCEPT !.c.box = b]
  BY <1>2, SIs DEF States, Cores
<1> HIDE DEF b, ev, s
<1>5. /\ s \in States /\ SameMachine(s, S) /\ SameSequence(s, S)
      /\ s.c.leg = S.c.leg /\ s.c.live = S.c.live /\ s.c.box = b
  BY <1>3, <1>4, SIs DEF States, Cores, SameMachine, SameSequence
<1>6. Claimed(s) = Claimed(S)
  BY <1>5 DEF Claimed
<1>7. ASSUME s.c.events # {}, s.c.seq # "none"
      PROVE  OwnEnd(s) /\ (ev.kind = "step" => b = <<>> /\ Claimed(s) = {} /\ ~s.c.ringStep)
  <2>1. OwnEnd(S)
    BY <1>5, <1>7, SIs DEF Good, Calm, SameMachine, SameSequence
  <2>2. S.c.ringStep = s.c.ringStep
    BY <1>5 DEF SameSequence
  <2>3. Len(core.box) \in Nat /\ Len(core.box) >= 1
    BY <1>2
  <2>4. OwnEnd(s)
    <3>1. \A i \in 1 .. Len(b) : i + 1 \in 1 .. Len(core.box)
      BY <1>3, <2>3
    <3> QED BY <1>2, <1>3, <1>5, <1>6, <2>1, <2>2, <2>3, <3>1 DEF OwnEnd
  <2>5. ASSUME ev.kind = "step" PROVE b = <<>> /\ Claimed(s) = {} /\ ~s.c.ringStep
    <3>1. 1 = Len(core.box) /\ Claimed(S) = {} /\ ~S.c.ringStep
      <4>1. 1 \in 1 .. Len(S.c.box) /\ S.c.box[1].kind = "step"
        BY <1>2, <1>3, <2>3, <2>5
      <4> QED BY <1>2, <2>1, <4>1 DEF OwnEnd
    <3> QED BY <1>3, <1>6, <2>2, <3>1, EmptySeq
  <2> QED BY <2>4, <2>5
<1>8. Good(s)
  <2>1. Calm(s)
    BY <1>5, <1>6, <1>7, SIs DEF Good, Calm, SameMachine, SameSequence
  <2> QED BY <1>5, <1>6, <2>1, SIs DEF Good, Held, Owned, HomeRun, SameMachine, SameSequence
<1>9. CASE s.c.seq # "none" /\ ev.kind = "step"
  <2>1. t = Advance(s, line, apart, o)
    BY <1>9 DEF F, Handled
  <2> QED BY <1>5, <1>7, <1>8, <1>9, <2>1, AdvanceGood
<1>10. CASE s.c.seq # "none" /\ ev.kind = "leg" /\ ev.failed
  <2>1. t = HomingFail(s, o)
    BY <1>10 DEF F, Handled
  <2> QED BY <1>5, <2>1, HomingFailIs, TornGood
<1>11. CASE s.c.seq = "home" /\ ev.kind # "step" /\ t = HomeLegEnded(s, ev.node, o)
  <2>1. ev.node \in Nodes
    BY <1>3, <1>11 DEF Boxed, LegEvents
  <2>2. HomeGoes(t, s)
    BY <1>8, <1>11, <2>1, HomeLegEndedIs DEF Good, HomeRun
  <2>3. s.c.events = {}
    BY <1>8, <1>11 DEF Good, Calm, JobSeqs
  <2> HIDE DEF t
  <2>4. CASE Fails(t)
    BY <2>4, TornGood DEF Fails
  <2>5. CASE Stays(t, s) /\ (t.c.seq = "home" => Chains(t.c.run))
    BY <1>8, <1>11, <2>3, <2>5 DEF Stays, SameMachine, Good, Owned, Calm, HomeRun
  <2> QED BY <2>2, <2>4, <2>5 DEF HomeGoes
<1>12. \/ t = s
       \/ s.c.seq # "none" /\ ev.kind = "step"
       \/ s.c.seq # "none" /\ ev.kind = "leg" /\ ev.failed
       \/ s.c.seq = "home" /\ ev.kind # "step" /\ t = HomeLegEnded(s, ev.node, o)
  BY DEF F, Handled
<1> QED BY <1>8, <1>9, <1>10, <1>11, <1>12

LEMMA ToolsTickKeeps ==
  ASSUME LegsInv, ToolsTick
  PROVE  LegsInv'
<1>1. PICK line \in Lines, mounted \in BOOLEAN, o \in Outs :
        Leads(AbortSettle(PlaceTick(ToolChangeTick(S, mounted, line, o), line, o)), "observe")
  BY DEF ToolsTick, Core0Step, Observing, Leads
<1>2. core.pc = "tools"
  BY DEF ToolsTick, Core0Step
<1> DEFINE x == ToolChangeTick(S, mounted, line, o)
           y == PlaceTick(x, line, o)
           t == AbortSettle(y)
<1>3. Good(x) /\ x.c.box = <<>>
  BY <1>2, SIs, ToolChangeTickGood DEF LegsInv, Emptying
<1> HIDE DEF x
<1>4. Good(y) /\ y.c.box = <<>>
  BY <1>3, PlaceTickGood
<1> HIDE DEF y
<1>5. Good(t) /\ t.c.box = <<>>
  BY <1>4, AbortSettleGood
<1>6. Leads(t, "observe")
  BY <1>1 DEF x, y
<1> HIDE DEF t
<1> QED BY <1>5, <1>6, LeadsGood

----------------------------------------------------------------------------
(* Each action keeps the invariant: the host's commands                    *)

(* What a command leaves, before the machine is published.                 *)
Serves(t) == Good(t) /\ (t.c.events # {} => t.c.box = <<>>)

LEMMA ServesKeeps ==
  ASSUME NEW t, Serves(t), Leads(AbortSettle(t), "serve")
  PROVE  LegsInv'
<1> DEFINE u == AbortSettle(t)
<1>1. Good(u) /\ u.c.box = t.c.box /\ u.c.events = t.c.events
  BY AbortSettleGood DEF Serves
<1> HIDE DEF u
<1>2. u.c.events # {} => u.c.box = <<>>
  BY <1>1 DEF Serves
<1>3. Leads(u, "serve")
  BY DEF u
<1> QED BY <1>1, <1>2, <1>3, LeadsGood

LEMMA ServedIs ==
  ASSUME LegsInv, Served
  PROVE  Serves(S)
BY SIs, BoxFree DEF Serves

LEMMA FailsServes ==
  ASSUME NEW t, Fails(t)
  PROVE  Serves(t)
BY TornGood DEF Fails, Serves

(* A machine that is not busy has no sequence and no leg.                  *)
LEMMA NotBusy ==
  ASSUME LegsInv, ~Busy(S)
  PROVE  S.c.seq = "none" /\ Claimed(S) = {}
BY SIs DEF Busy, Held

LEMMA RestsIs ==
  ASSUME LegsInv, Rests(S)
  PROVE  S.c.seq = "none" /\ Claimed(S) = {} /\ S.c.ctx = "IDLE"
BY NotBusy DEF Rests

LEMMA CmdHomeKeeps ==
  ASSUME LegsInv, CmdHome
  PROVE  LegsInv'
<1>1. PICK x \in {<<Nodes, FALSE>>, <<Nodes \ core.origin, FALSE>>, <<XY, FALSE>>}
                  \cup {<<{n}, TRUE>> : n \in Nodes} :
        Serve("home", Rests(S) /\ core.events = {} /\ x[1] # {},
              LAMBDA o : HomeStart(S, x[1], x[2], o))
  BY DEF CmdHome
<1>2. PICK o \in Outs : Leads(AbortSettle(HomeStart(S, x[1], x[2], o)), "serve")
  BY <1>1 DEF Serve, Core0Step, Leads
<1>3. Rests(S) /\ S.c.events = {} /\ x[1] # {} /\ x[1] \in SUBSET Nodes
  <2>1. Rests(S) /\ core.events = {} /\ x[1] # {}
    BY <1>1 DEF Serve, Core0Step
  <2>2. \E A \in SUBSET Nodes, b \in BOOLEAN : x = <<A, b>>
    BY LegsAssumption
  <2>3. x[1] \in SUBSET Nodes
    BY <2>2
  <2> QED BY <2>1, <2>3, SIs
<1> DEFINE t == HomeStart(S, x[1], x[2], o)
<1>4. Begins(t, S, "home")
  BY <1>3, SIs, HomeStartIs
<1> HIDE DEF t
<1>5. CASE Fails(t)
  BY <1>2, <1>5, FailsServes, ServesKeeps DEF t
<1>6. CASE ~Fails(t)
  <2>1. Serves(t)
    BY <1>3, <1>4, <1>6, RestsIs DEF Begins, Serves, Good, Owned, Calm, HomeRun, SameMachine
  <2> QED BY <1>2, <2>1, ServesKeeps DEF t
<1> QED BY <1>5, <1>6

(* A command's recipe, from a machine that rests or waits for one.         *)
MayBegin(s) ==
  /\ s.c.ctx # "HOMING"
  /\ s.c.ctx = "JOB" => s.c.why = "TOOL_WAIT" \/ (s.c.why = "PLACE" /\ s.c.begun)

LEMMA BeginServes ==
  ASSUME NEW s, Serves(s), s.c.seq = "none", Claimed(s) = {},
         NEW id \in {"goto", "place"}, NEW ks \in Seq(StepKinds), NEW line, NEW o,
         MayBegin(s)
  PROVE  LET t == Begin(s, id, ks, line, o)
         IN Serves(t) /\ (Fails(t) \/ Sets(t, s, id))
<1> DEFINE t == Begin(s, id, ks, line, o)
<1>1. Fails(t) \/ Sets(t, s, id)
  BY BeginIs DEF Serves, Good, SeqIds
<1> HIDE DEF t
<1>2. CASE Fails(t)
  BY <1>2, FailsServes DEF t
<1>3. CASE Sets(t, s, id)
  <2>1. Owned(t)
    BY <1>3 DEF Sets, Owned, SameMachine, MayBegin
  <2>2. Calm(t) /\ HomeRun(t) /\ (t.c.events # {} => t.c.box = <<>>)
    BY <1>3 DEF Sets, Calm, HomeRun, OwnEnd, JobSeqs, SameMachine, Serves, MayBegin
  <2> QED BY <1>3, <2>1, <2>2 DEF Serves, Good, Sets, t
<1> QED BY <1>1, <1>2, <1>3

LEMMA ReadiedServes ==
  ASSUME NEW s, Serves(s), NEW A \in SUBSET Nodes, NEW o
  PROVE  LET t == Readied(s, A, o)
         IN /\ Serves(t) /\ SameMachine(t, s) /\ t.c.seq = s.c.seq /\ Claimed(t) = Claimed(s)
<1> DEFINE t == Readied(s, A, o)
<1>1. /\ Good(t) /\ SameMachine(t, s) /\ SameSequence(t, s)
      /\ t.c.box = s.c.box /\ t.c.events = s.c.events /\ Claimed(t) = Claimed(s)
  BY ReadiedGood DEF Serves
<1> HIDE DEF t
<1> QED BY <1>1 DEF Serves, SameSequence, t

LEMMA GotoServes ==
  ASSUME LegsInv, Served, NEW A \in SUBSET Nodes, NEW ks \in Seq(StepKinds), NEW line, NEW o,
         Rests(S) \/ Waits(S)
  PROVE  /\ Serves(Readied(S, A, o))
         /\ Serves(Begin(Readied(S, A, o), "goto", ks, line, o))
<1> DEFINE u == Readied(S, A, o)
<1>1. S.c.seq = "none" /\ Claimed(S) = {} /\ S.c.ctx # "HOMING"
      /\ (S.c.ctx = "JOB" => S.c.why = "TOOL_WAIT")
  BY RestsIs, NotBusy DEF Waits
<1>2. Serves(u) /\ SameMachine(u, S) /\ u.c.seq = S.c.seq /\ Claimed(u) = Claimed(S)
  BY ServedIs, ReadiedServes
<1> HIDE DEF u
<1>3. u.c.seq = "none" /\ Claimed(u) = {} /\ MayBegin(u)
  BY <1>1, <1>2 DEF SameMachine, MayBegin
<1>4. Serves(Begin(u, "goto", ks, line, o))
  BY <1>2, <1>3, BeginServes
<1> QED BY <1>2, <1>4 DEF u

LEMMA CmdGotoXYKeeps ==
  ASSUME LegsInv, CmdGotoXY
  PROVE  LegsInv'
<1> DEFINE ks == <<"zs", "line">>
           u(o) == Readied(S, Zs, o)
           t(line, o) == IF Ready(S, Zs, o) THEN Begin(u(o), "goto", ks, line, o) ELSE u(o)
<1>1. PICK line \in Lines, o \in Outs : Leads(AbortSettle(t(line, o)), "serve")
  BY DEF CmdGotoXY, Serve, Core0Step, Leads
<1>2. Served /\ (Rests(S) \/ Waits(S))
  BY DEF CmdGotoXY, Serve, Core0Step
<1>3. Zs \in SUBSET Nodes /\ ks \in Seq(StepKinds)
  BY LegsAssumption DEF StepKinds
<1> HIDE DEF ks
<1>4. Serves(t(line, o))
  BY <1>2, <1>3, GotoServes
<1> HIDE DEF t
<1> QED BY <1>1, <1>4, ServesKeeps

LEMMA CmdGotoLegsKeeps ==
  ASSUME LegsInv, CmdGotoLegs
  PROVE  LegsInv'
<1>1. PICK x \in {<<Zs, "zs">>, <<Rotary, "as">>} :
        Serve("goto", Rests(S) /\ core.events = {} /\ x[1] \subseteq core.origin /\ x[1] # {},
              LAMBDA o : IF Ready(S, x[1], o)
                         THEN Begin(Readied(S, x[1], o), "goto", <<x[2]>>, "far", o)
                         ELSE Readied(S, x[1], o))
  BY DEF CmdGotoLegs
<1> DEFINE u(o) == Readied(S, x[1], o)
           t(o) == IF Ready(S, x[1], o) THEN Begin(u(o), "goto", <<x[2]>>, "far", o) ELSE u(o)
<1>2. PICK o \in Outs : Leads(AbortSettle(t(o)), "serve")
  BY <1>1 DEF Serve, Core0Step, Leads
<1>3. Served /\ Rests(S)
  BY <1>1 DEF Serve, Core0Step
<1>4. x[1] \in SUBSET Nodes /\ x[2] \in StepKinds
  BY <1>1, LegsAssumption DEF StepKinds
<1>5. <<x[2]>> \in Seq(StepKinds)
  BY <1>4
<1>6. Serves(t(o))
  BY <1>3, <1>4, <1>5, GotoServes
<1> HIDE DEF t
<1> QED BY <1>2, <1>6, ServesKeeps

(* Only the machine's context and its events change, with no sequence.     *)
LEMMA MachineServes ==
  ASSUME NEW s, Serves(s), s.c.seq = "none", NEW t \in States, SameLegs(t, s), t.c.seq = "none",
         t.c.events # {} => t.c.events = s.c.events /\ t.c.ctx # "HOMING"
  PROVE  Serves(t)
<1>1. Claimed(t) = Claimed(s)
  BY DEF Claimed, SameLegs
<1> QED BY <1>1 DEF Serves, Good, Held, Owned, Calm, HomeRun, JobSeqs, SameLegs

LEMMA CmdGotoAxisKeeps ==
  ASSUME LegsInv, CmdGotoAxis
  PROVE  LegsInv'
<1> DEFINE t(n) == [SequenceStart(S, "gotoaxis") EXCEPT !.c.ringStep = TRUE,
                                                        !.r.state = "queued", !.r.moves = {n}]
<1>1. PICK n \in Zs, o \in Outs : Leads(AbortSettle(t(n)), "serve")
  BY DEF CmdGotoAxis, Serve, Core0Step, Leads
<1>2. Served /\ Rests(S) /\ core.events = {}
  BY DEF CmdGotoAxis, Serve, Core0Step
<1> DEFINE x == SequenceStart(S, "gotoaxis")
<1>3. x \in States /\ SameMachine(x, S) /\ SameLegs(x, S) /\ x.c.seq = "gotoaxis"
  BY SIs, SequenceStartIs DEF SeqIds
<1> HIDE DEF x
<1>4. n \in Nodes
  BY LegsAssumption
<1>5. /\ t(n) \in States /\ SameMachine(t(n), S) /\ SameLegs(t(n), S) /\ t(n).c.seq = "gotoaxis"
  <2> DEFINE u == [x EXCEPT !.c.ringStep = TRUE, !.r.state = "queued", !.r.moves = {n}]
  <2>1. u \in States
    BY ZenonT(60), <1>3, <1>4 DEF States, Cores, Rings
  <2>2. SameMachine(u, x) /\ SameLegs(u, x) /\ u.c.seq = x.c.seq
    BY <1>3 DEF States, Cores, Rings, SameMachine, SameLegs
  <2>3. u = t(n)
    BY DEF x
  <2> HIDE DEF u, t
  <2> QED BY <1>3, <2>1, <2>2, <2>3 DEF SameMachine, SameLegs
<1> HIDE DEF t
<1>6. Claimed(t(n)) = Claimed(S)
  BY <1>5 DEF Claimed, SameLegs
<1>7. Serves(t(n))
  BY <1>2, <1>5, <1>6, SIs, RestsIs
     DEF Serves, Good, Held, Owned, Calm, HomeRun, SameMachine, SameLegs
<1> QED BY <1>1, <1>7, ServesKeeps

LEMMA CmdEnableKeeps ==
  ASSUME LegsInv, NEW n \in Nodes, CmdEnable(n)
  PROVE  LegsInv'
<1>1. PICK o \in Outs : Leads(AbortSettle(Enable(S, {n}, o)), "serve")
  BY DEF CmdEnable, Serve, Core0Step, Leads
<1>2. Served
  BY DEF CmdEnable, Serve, Core0Step
<1> DEFINE t == Enable(S, {n}, o)
<1>3. t \in States /\ SameMachine(t, S) /\ SameSequence(t, S) /\ SameLegs(t, S)
  BY SIs, EnableIs
<1> HIDE DEF t
<1>4. Serves(t)
  BY <1>2, <1>3, SIs, ServedIs, SameGood DEF Serves
<1> QED BY <1>1, <1>4, ServesKeeps DEF t

(* A leg starts only while no fault stands.                                *)
LEMMA CmdLegKeeps ==
  ASSUME LegsInv, NEW n \in Nodes, CmdLeg(n)
  PROVE  LegsInv'
<1> DEFINE plan(intent) == [m \in {n} |-> IF intent = "park" THEN Park ELSE Leg(intent, "between", TRUE)]
           homes(intent) == intent \in {"seek", "retract", "sweep"} \/ (intent = "park" /\ core.ctx = "HOMING")
           armed(intent, o) == Arm(S, plan(intent), o)
           t(intent, o) ==
             IF armed(intent, o).bad # None THEN armed(intent, o).s
             ELSE IF homes(intent) THEN [SequenceStart(armed(intent, o).s, "leg") EXCEPT !.c.ctx = "HOMING"]
             ELSE SequenceStart(armed(intent, o).s, "traverse")
<1>0. PICK intent \in {"seek", "retract", "sweep", "park", "span", "unlatch"} :
        Serve("leg", /\ LegAdmits(intent) /\ n \in core.enabled
                     /\ (intent = "park" => n \in core.origin) /\ (intent = "unlatch" => n \in core.latch),
              LAMBDA o : t(intent, o))
  BY DEF CmdLeg
<1>1. PICK o \in Outs : Leads(AbortSettle(t(intent, o)), "serve") /\ LegAdmits(intent) /\ Served
  <2> HIDE DEF t
  <2> QED BY <1>0 DEF Serve, Core0Step, Leads
<1>2. S.c.events = {} /\ S.c.seq = "none" /\ S.c.ctx # "JOB"
  <2>1. Idle(S) \/ Latched(S) \/ (core.ctx = "HOMING" /\ ~Busy(S))
    BY <1>1 DEF LegAdmits
  <2> QED BY <2>1, SIs, NotBusy, RestsIs DEF Idle, Latched, Good, Calm
<1>3. plan(intent) \in [{n} -> Plans]
  BY DEF Park, Leg, Plans, Intents, Places
<1> HIDE DEF plan
<1> DEFINE a == armed(intent, o).s
<1>4. a \in States /\ SameMachine(a, S) /\ SameSequence(a, S) /\ Held(a)
  BY <1>3, SIs, ArmIs
<1> HIDE DEF armed
<1>5. ASSUME NEW u \in States, SameMachine(u, a) \/ (u.c.ctx = "HOMING" /\ u.c.events = a.c.events),
             Held(u), u.c.seq \in {"none", "leg", "traverse"}
      PROVE  Serves(u)
  BY <1>2, <1>4, <1>5 DEF Serves, Good, Owned, Calm, HomeRun, SameMachine
<1>6. ASSUME NEW id \in {"leg", "traverse"}
      PROVE  Serves(SequenceStart(a, id)) /\ Serves([SequenceStart(a, id) EXCEPT !.c.ctx = "HOMING"])
  <2> DEFINE x == SequenceStart(a, id)
             y == [x EXCEPT !.c.ctx = "HOMING"]
  <2> HIDE DEF a
  <2>1. x \in States /\ SameMachine(x, a) /\ SameLegs(x, a) /\ x.c.seq = id
    <3>1. id \in SeqIds /\ a \in States
      BY <1>4 DEF SeqIds
    <3> QED BY <3>1, SequenceStartIs
  <2> HIDE DEF x
  <2>2. Held(x)
    BY <1>4, <2>1 DEF Held, Claimed, SameLegs
  <2>3. y \in States
    BY <2>1 DEF States, Cores
  <2>4. y.c.ctx = "HOMING" /\ y.c.events = x.c.events /\ y.c.seq = x.c.seq /\ SameLegs(y, x)
    BY <2>1 DEF States, Cores, SameLegs
  <2> HIDE DEF y
  <2>5. Held(y)
    BY <2>2, <2>4 DEF Held, Claimed, SameLegs
  <2>6. Serves(x)
    BY <1>5, <2>1, <2>2
  <2>7. y.c.events = a.c.events /\ y.c.seq \in {"none", "leg", "traverse"}
    BY <2>1, <2>4 DEF SameMachine
  <2>8. Serves(y)
    BY <1>5, <2>3, <2>4, <2>5, <2>7
  <2> QED BY <2>6, <2>8 DEF x, y
<1>7. Serves(a)
  <2>1. SameMachine(a, a) /\ a.c.seq = "none"
    BY <1>2, <1>4 DEF SameMachine, SameSequence
  <2> HIDE DEF a
  <2> QED BY <1>4, <1>5, <2>1
<1>8. Serves(t(intent, o))
  BY <1>6, <1>7
<1> HIDE DEF t
<1> QED BY <1>1, <1>8, ServesKeeps

(* A fault is no traverse's: an aborted leg outside a job fails its sequence. *)
LEMMA CmdLegAbortKeeps ==
  ASSUME LegsInv, NEW n \in Nodes, CmdLegAbort(n)
  PROVE  LegsInv'
<1> DEFINE halted(o) == [S EXCEPT !.n[n] = IF Out(o, n) = "unheard" THEN @ ELSE AbortLeg(@, o, n)]
           freed(o)  == StepCheck(OriginInvalidate([halted(o) EXCEPT !.c.leg[n] = NoLeg,
                                                                     !.c.open = @ \ {n}], {n}))
           t(o) == IF Out(o, n) # "ok" THEN halted(o)
                   ELSE IF freed(o).c.seq \in {"none", "traverse"} THEN freed(o) ELSE HomingFail(freed(o), o)
<1>0. Serve("legabort", core.ctx # "JOB" /\ (core.live \/ ring.state = "idle") /\ n \in Claimed(S),
            LAMBDA o : t(o))
  BY DEF CmdLegAbort
<1>1. PICK o \in Outs : Leads(AbortSettle(t(o)), "serve") /\ Served /\ core.ctx # "JOB" /\ n \in Claimed(S)
  <2> HIDE DEF t
  <2> QED BY <1>0 DEF Serve, Core0Step, Leads
<1> DEFINE d == IF Out(o, n) = "unheard" THEN S.n[n] ELSE AbortLeg(S.n[n], o, n)
           m == [S.n EXCEPT ![n] = d]
           h == [S EXCEPT !.n = m]
           g == [S.c.leg EXCEPT ![n] = NoLeg]
           q == S.c.open \ {n}
           x == [h EXCEPT !.c.leg = g, !.c.open = q]
           y == OriginInvalidate(x, {n})
           f == StepCheck(y)
<1>2. S.n[n] \in NodeStates
  BY SIs DEF States
<1>3. d \in NodeStates
  BY <1>2, AbortLegType
<1>4. halted(o) = h
  BY SIs DEF States
<1> HIDE DEF d
<1>5. m \in [Nodes -> NodeStates]
  BY <1>3, SIs DEF States
<1> HIDE DEF m
<1>6. h \in States /\ h.c = S.c /\ h.r = S.r
  BY <1>5, SIs DEF States
<1>7. [h EXCEPT !.c.leg[n] = NoLeg, !.c.open = @ \ {n}] = x
  BY SIs DEF States, Cores
<1> HIDE DEF h, halted
<1>8. g \in [Nodes -> LegStates] /\ q \in SUBSET Nodes
      /\ \A k \in Nodes : g[k] # NoLeg => S.c.leg[k] # NoLeg
  BY SIs, NoLegType DEF States, Cores
<1> HIDE DEF g, q
<1>9. /\ x \in States /\ SameMachine(x, S) /\ SameSequence(x, S) /\ x.c.leg = g /\ x.c.live = S.c.live
      /\ x.c.box = S.c.box
  BY <1>6, <1>8 DEF States, Cores, SameMachine, SameSequence
<1> HIDE DEF x
<1>10. Claimed(x) \subseteq Claimed(S)
  BY <1>8, <1>9 DEF Claimed
<1>11. y \in States /\ SameMachine(y, x) /\ SameSequence(y, x) /\ SameLegs(y, x)
  BY <1>9, OriginInvalidateIs
<1> HIDE DEF y
<1>12. Held(y)
  BY <1>9, <1>10, <1>11, SIs DEF Held, Claimed, SameLegs
<1>13. f \in States /\ SameMachine(f, y) /\ SameSequence(f, y) /\ Held(f)
  BY <1>11, <1>12, StepCheckIs
<1>14. freed(o) = f
  BY <1>4, <1>7 DEF y
<1> HIDE DEF f, freed
<1>15. SameMachine(f, S) /\ SameSequence(f, S)
  BY <1>9, <1>11, <1>13 DEF SameMachine, SameSequence
<1>16. Serves(h)
  <2>1. Claimed(h) = Claimed(S)
    BY <1>6 DEF Claimed
  <2> QED BY <1>1, <1>6, <2>1, ServedIs DEF Serves, Good, Held, Owned, Calm, OwnEnd, HomeRun
<1>17. Serves(HomingFail(f, o))
  BY <1>13, HomingFailIs, FailsServes DEF Fails
<1>18. f.c.seq \in {"none", "traverse"} => Serves(f)
  <2> SUFFICES ASSUME f.c.seq \in {"none", "traverse"} PROVE Serves(f)
    OBVIOUS
  <2>1. S.c.events = {}
    BY <1>1, <1>15, SIs DEF Good, Calm, SameSequence, JobSeqs
  <2> QED BY <1>1, <1>13, <1>15, <2>1, SIs DEF Serves, Good, Owned, Calm, HomeRun, SameMachine
<1>19. Serves(t(o))
  BY <1>4, <1>14, <1>16, <1>17, <1>18
<1> HIDE DEF t
<1> QED BY <1>1, <1>19, ServesKeeps

LEMMA CmdSetOriginKeeps ==
  ASSUME LegsInv, NEW n \in Nodes, CmdSetOrigin(n)
  PROVE  LegsInv'
<1> DEFINE where == [m \in Nodes |-> node[m].at]
           s(o) == OriginDatum(S, {n}, where, o)
           t(o) == IF Deaf({n}, o) = {} THEN [s(o) EXCEPT !.c.ctx = "IDLE"] ELSE s(o)
<1>1. PICK o \in Outs : Leads(AbortSettle(t(o)), "serve")
  BY DEF CmdSetOrigin, Serve, Core0Step, Leads
<1>2. Served /\ ~Busy(S)
  BY DEF CmdSetOrigin, Serve, Core0Step
<1> DEFINE x == s(o)
           y == [x EXCEPT !.c.ctx = "IDLE"]
<1>3. where \in [Nodes -> Places]
  BY SIs DEF States, NodeStates, Places
<1> HIDE DEF where
<1>4. x \in States /\ SameMachine(x, S) /\ SameSequence(x, S) /\ SameLegs(x, S)
  BY <1>3, SIs, OriginDatumIs
<1> HIDE DEF s
<1>5. Serves(x) /\ x.c.seq = "none"
  BY <1>2, <1>4, SIs, ServedIs, SameGood, NotBusy DEF Serves, SameSequence
<1>6. y \in States /\ SameLegs(y, x) /\ y.c.seq = x.c.seq /\ y.c.events = x.c.events /\ y.c.ctx = "IDLE"
  BY <1>4 DEF States, Cores, SameLegs
<1>7. Serves(y)
  BY <1>5, <1>6, MachineServes
<1>8. Serves(t(o))
  BY <1>5, <1>7
<1> HIDE DEF t
<1> QED BY <1>1, <1>8, ServesKeeps

LEMMA CmdHomeEndKeeps ==
  ASSUME LegsInv, CmdHomeEnd
  PROVE  LegsInv'
<1> DEFINE t == [S EXCEPT !.c.ctx = "IDLE"]
<1>1. Leads(AbortSettle(t), "serve") /\ Served /\ core.seq = "none"
  BY DEF CmdHomeEnd, Serve, Core0Step, Leads
<1>2. t \in States /\ SameLegs(t, S) /\ t.c.seq = S.c.seq /\ t.c.events = S.c.events /\ t.c.ctx = "IDLE"
  BY SIs DEF States, Cores, SameLegs
<1> HIDE DEF t
<1>3. Serves(t)
  BY <1>1, <1>2, SIs, ServedIs, MachineServes
<1> QED BY <1>1, <1>3, ServesKeeps

LEMMA CmdUnalarmKeeps ==
  ASSUME LegsInv, CmdUnalarm
  PROVE  LegsInv'
<1> DEFINE s == [S EXCEPT !.c.events = {}]
           t(o) == RecoveryStart(s, o)
<1>1. PICK o \in Outs : Leads(AbortSettle(t(o)), "serve") /\ Rests(S)
  BY DEF CmdUnalarm, Serve, Core0Step, Leads
<1>2. /\ s \in States /\ SameLegs(s, S) /\ s.c.seq = S.c.seq /\ s.c.ctx = S.c.ctx /\ s.c.events = {}
  BY SIs DEF States, Cores, SameLegs
<1> HIDE DEF s
<1>3. Held(s)
  BY <1>2, SIs DEF Held, Claimed, SameLegs
<1>4. Begins(t(o), s, "recovery")
  BY <1>2, <1>3, RecoveryStartIs
<1> HIDE DEF t
<1>5. CASE Fails(t(o))
  BY <1>1, <1>5, FailsServes, ServesKeeps
<1>6. CASE ~Fails(t(o))
  <2>1. Serves(t(o))
    BY <1>1, <1>2, <1>4, <1>6, RestsIs DEF Begins, Serves, Good, Owned, Calm, HomeRun, SameMachine
  <2> QED BY <1>1, <2>1, ServesKeeps
<1> QED BY <1>5, <1>6

LEMMA CmdStopKeeps ==
  ASSUME LegsInv, CmdStop
  PROVE  LegsInv'
<1> DEFINE s == [S EXCEPT !.c.estop = "asked"]
           u == TearDownEstop(s)
           t == OriginInvalidate(u, Nodes)
<1>1. Leads(AbortSettle(t), "serve") /\ Served
  BY DEF CmdStop, Serve, Core0Step, Leads
<1>2. s \in States /\ SameLegs(s, S) /\ s.c.events = S.c.events
  BY SIs DEF States, Cores, SameLegs
<1> HIDE DEF s
<1>3. Held(s)
  BY <1>2, SIs DEF Held, Claimed, SameLegs
<1>4. Torn(u) /\ u.c.events = s.c.events /\ (u.c.box = s.c.box \/ u.c.box = <<>>)
  BY <1>2, <1>3, TearDownEstopIs
<1> HIDE DEF u
<1>5. Good(u) /\ u \in States
  BY <1>4, TornGood DEF Torn
<1>6. t \in States /\ SameMachine(t, u) /\ SameSequence(t, u) /\ SameLegs(t, u)
  BY <1>5, OriginInvalidateIs
<1> HIDE DEF t
<1>7. Good(t) /\ t.c.box = u.c.box /\ t.c.events = u.c.events
  BY <1>5, <1>6, SameGood
<1>8. Serves(t)
  BY <1>1, <1>2, <1>4, <1>7, SIs, BoxFree DEF Serves, SameLegs
<1> QED BY <1>1, <1>8, ServesKeeps

LEMMA CmdUnstopKeeps ==
  ASSUME LegsInv, CmdUnstop
  PROVE  LegsInv'
<1> DEFINE t == [S EXCEPT !.c.estop = "clear"]
<1>1. Leads(AbortSettle(t), "serve") /\ Served /\ ~Busy(S) /\ S.c.ctx = "IDLE"
  BY SIs DEF CmdUnstop, Serve, Core0Step, Leads
<1>2. t \in States /\ SameLegs(t, S) /\ t.c.seq = S.c.seq /\ t.c.events = S.c.events /\ t.c.ctx = S.c.ctx
  BY SIs DEF States, Cores, SameLegs
<1> HIDE DEF t
<1>3. Serves(t)
  BY <1>1, <1>2, ServedIs, NotBusy, MachineServes
<1> QED BY <1>1, <1>3, ServesKeeps

LEMMA JobHdrKeeps ==
  ASSUME LegsInv, JobHdr
  PROVE  LegsInv'
<1> DEFINE t == [S EXCEPT !.c.ctx = "JOB", !.c.why = "PLACE", !.c.begun = FALSE, !.c.isSet = FALSE]
<1>1. Leads(AbortSettle(t), "serve") /\ Served /\ Idle(S)
  BY DEF JobHdr, Serve, Core0Step, Leads
<1>2. t \in States /\ SameLegs(t, S) /\ t.c.seq = S.c.seq /\ t.c.events = S.c.events
  <2> DEFINE c == [S.c EXCEPT !.ctx = "JOB", !.why = "PLACE", !.begun = FALSE, !.isSet = FALSE]
             u == S
  <2>1. u \in States
    BY SIs
  <2>2. t = [u EXCEPT !.c = c] /\ c = [u.c EXCEPT !.ctx = "JOB", !.why = "PLACE", !.begun = FALSE, !.isSet = FALSE]
    BY SIs DEF States
  <2> HIDE DEF t, c, u
  <2>3. u.c \in Cores
    BY <2>1 DEF States
  <2>4. c \in Cores
    <3> DEFINE a == [u.c EXCEPT !.ctx = "JOB", !.why = "PLACE"]
    <3>1. a \in Cores
      BY <2>3 DEF Cores
    <3>2. c = [a EXCEPT !.begun = FALSE, !.isSet = FALSE]
      BY <2>2, <2>3
    <3> HIDE DEF a
    <3> QED BY ZenonT(30), <3>1, <3>2 DEF Cores
  <2>5. c.leg = u.c.leg /\ c.live = u.c.live /\ c.box = u.c.box /\ c.seq = u.c.seq /\ c.events = u.c.events
    BY <2>2, <2>3 DEF Cores
  <2>6. t \in States /\ t.c = c
    BY <2>1, <2>2, <2>4, CoreSet DEF States
  <2> QED BY <2>5, <2>6 DEF SameLegs, u
<1> HIDE DEF t
<1>3. S.c.seq = "none" /\ S.c.events = {}
  BY <1>1, RestsIs DEF Idle
<1>4. Serves(t)
  BY <1>1, <1>2, <1>3, ServedIs, MachineServes
<1> QED BY <1>1, <1>4, ServesKeeps

LEMMA ToolHdrKeeps ==
  ASSUME LegsInv, ToolHdr
  PROVE  LegsInv'
<1> DEFINE t == [S EXCEPT !.c.why = "TOOL_CHANGE", !.c.begun = FALSE]
<1>1. Leads(AbortSettle(t), "serve") /\ Served /\ S.c.ctx = "JOB" /\ S.c.why = "BUFFERING"
  BY SIs DEF ToolHdr, Serve, Core0Step, Leads
<1>2. t \in States /\ SameLegs(t, S) /\ t.c.seq = S.c.seq /\ t.c.events = S.c.events /\ t.c.ctx = S.c.ctx
  BY SIs DEF States, Cores, SameLegs
<1> HIDE DEF t
<1>3. S.c.seq = "none"
  BY <1>1, SIs DEF Good, Owned
<1>4. Serves(t)
  BY <1>1, <1>2, <1>3, ServedIs, MachineServes
<1> QED BY <1>1, <1>4, ServesKeeps

LEMMA ToolChangeLeaveKeeps ==
  ASSUME LegsInv, ToolChangeLeave
  PROVE  LegsInv'
<1> DEFINE t == [S EXCEPT !.c.why = "BUFFERING"]
<1>1. Leads(AbortSettle(t), "serve") /\ Served /\ Waits(S)
  BY DEF ToolChangeLeave, Serve, Core0Step, Leads
<1>2. t \in States /\ SameLegs(t, S) /\ t.c.seq = S.c.seq /\ t.c.events = S.c.events /\ t.c.ctx = S.c.ctx
  BY SIs DEF States, Cores, SameLegs
<1> HIDE DEF t
<1>3. S.c.seq = "none" /\ S.c.ctx = "JOB"
  BY <1>1, NotBusy DEF Waits
<1>4. Serves(t)
  BY <1>1, <1>2, <1>3, ServedIs, MachineServes
<1> QED BY <1>1, <1>4, ServesKeeps

LEMMA PlaceAdmitsIs ==
  ASSUME LegsInv, NEW b, PlaceAdmits(b)
  PROVE  /\ S.c.seq = "none" /\ Claimed(S) = {} /\ S.c.ctx = "JOB" /\ S.c.why = "PLACE"
         /\ MayBegin(S)
BY SIs, NotBusy DEF PlaceAdmits, MayBegin

LEMMA PlaceSetKeeps ==
  ASSUME LegsInv, PlaceSet
  PROVE  LegsInv'
<1> DEFINE t == [S EXCEPT !.c.isSet = TRUE]
<1>1. Leads(AbortSettle(t), "serve") /\ Served /\ PlaceAdmits(FALSE)
  BY DEF PlaceSet, Serve, Core0Step, Leads
<1>2. t \in States /\ SameLegs(t, S) /\ t.c.seq = S.c.seq /\ t.c.events = S.c.events /\ t.c.ctx = S.c.ctx
  BY SIs DEF States, Cores, SameLegs
<1> HIDE DEF t
<1>3. Serves(t)
  BY <1>1, <1>2, ServedIs, PlaceAdmitsIs, MachineServes
<1> QED BY <1>1, <1>3, ServesKeeps

LEMMA PlaceGoKeeps ==
  ASSUME LegsInv, PlaceGo
  PROVE  LegsInv'
<1>1. PICK line \in Lines, route \in {<<"line">>, <<"line", "line">>}, o \in Outs :
        Leads(AbortSettle(Begin(S, "place", route, line, o)), "serve") /\ Served /\ PlaceAdmits(TRUE)
  BY DEF PlaceGo, Serve, Core0Step, Leads
<1>2. route \in Seq(StepKinds)
  <2>1. <<"line">> \in Seq(StepKinds) /\ <<"line", "line">> \in Seq(StepKinds)
    BY DEF StepKinds
  <2> QED BY <2>1
<1>3. Serves(Begin(S, "place", route, line, o))
  BY <1>1, <1>2, ServedIs, PlaceAdmitsIs, BeginServes
<1> QED BY <1>1, <1>3, ServesKeeps

(* The place that resets: its answer is the loop's next state.             *)
LEMMA PlaceResetServes ==
  ASSUME PlaceReset
  PROVE  \E line \in Lines, o \in Outs :
           LET s == Begin(S, "place", <<"line">>, line, o)
               t == IF line = "refused" \/ ring.abort THEN s ELSE [s EXCEPT !.c.isSet = FALSE]
           IN Leads(AbortSettle(t), "serve") /\ Served /\ PlaceAdmits(TRUE)
<1> DEFINE s(line, o) == Begin(S, "place", <<"line">>, line, o)
           t(line, o) == IF line = "refused" \/ ring.abort THEN s(line, o)
                         ELSE [s(line, o) EXCEPT !.c.isSet = FALSE]
<1>1. PICK line \in Lines : Serve("job", PlaceAdmits(TRUE), LAMBDA o : t(line, o))
  BY DEF PlaceReset
<1> HIDE DEF t
<1>2. \E o \in Outs : Leads(AbortSettle(t(line, o)), "serve") /\ Served /\ PlaceAdmits(TRUE)
  BY <1>1 DEF Serve, Core0Step, Leads
<1> QED BY <1>2 DEF t

LEMMA PlaceResetKeeps ==
  ASSUME LegsInv, PlaceReset
  PROVE  LegsInv'
<1> DEFINE ks == <<"line">>
           s(line, o) == Begin(S, "place", ks, line, o)
           t(line, o) == IF line = "refused" \/ ring.abort THEN s(line, o)
                         ELSE [s(line, o) EXCEPT !.c.isSet = FALSE]
<1>1. PICK line \in Lines, o \in Outs :
        Leads(AbortSettle(t(line, o)), "serve") /\ Served /\ PlaceAdmits(TRUE)
  BY PlaceResetServes
<1>2. ks \in Seq(StepKinds)
  BY DEF StepKinds
<1> HIDE DEF ks
<1> DEFINE x == s(line, o)
           y == [x EXCEPT !.c.isSet = FALSE]
<1>3. Serves(x)
  BY <1>1, <1>2, ServedIs, PlaceAdmitsIs, BeginServes
<1> HIDE DEF s
<1>4. y \in States
  BY <1>3 DEF Serves, Good, States, Cores
<1>5. /\ y.c.seq = x.c.seq /\ y.c.ctx = x.c.ctx /\ y.c.why = x.c.why /\ y.c.begun = x.c.begun
      /\ y.c.aborted = x.c.aborted /\ y.c.events = x.c.events /\ y.c.ringStep = x.c.ringStep
      /\ y.c.leg = x.c.leg /\ y.c.live = x.c.live /\ y.c.box = x.c.box /\ y.c.run = x.c.run
  BY <1>3 DEF Serves, Good, States, Cores
<1> HIDE DEF x, y
<1>6. Claimed(y) = Claimed(x)
  BY <1>5 DEF Claimed
<1>7. Serves(y)
  BY <1>3, <1>4, <1>5, <1>6 DEF Serves, Good, Held, Owned, Calm, OwnEnd, HomeRun
<1>8. Serves(t(line, o))
  BY <1>3, <1>7 DEF x, y
<1> HIDE DEF t
<1> QED BY <1>1, <1>8, ServesKeeps

LEMMA PlaceOkKeeps ==
  ASSUME LegsInv, PlaceOk
  PROVE  LegsInv'
<1> DEFINE t == [S EXCEPT !.c.why = "BUFFERING", !.c.begun = FALSE, !.c.isSet = FALSE]
<1>1. Leads(AbortSettle(t), "serve") /\ Served /\ PlaceAdmits(TRUE)
  BY DEF PlaceOk, Serve, Core0Step, Leads
<1>2. t \in States /\ SameLegs(t, S) /\ t.c.seq = S.c.seq /\ t.c.events = S.c.events /\ t.c.ctx = S.c.ctx
  BY SIs DEF States, Cores, SameLegs
<1> HIDE DEF t
<1>3. Serves(t)
  BY <1>1, <1>2, ServedIs, PlaceAdmitsIs, MachineServes
<1> QED BY <1>1, <1>3, ServesKeeps

LEMMA CmdCancelKeeps ==
  ASSUME LegsInv, CmdCancel
  PROVE  LegsInv'
<1> DEFINE t == [S EXCEPT !.c.ctx = "IDLE", !.c.why = "none", !.c.begun = FALSE, !.c.isSet = FALSE,
                          !.r.state = "idle"]
<1>1. Leads(AbortSettle(t), "serve") /\ Served
  BY DEF CmdCancel, Serve, Core0Step, Leads
<1>2. t \in States
  BY ZenonT(60), SIs DEF States, Cores, Rings
<1>3. /\ t.c.seq = S.c.seq /\ t.c.ctx = "IDLE" /\ t.c.events = S.c.events
      /\ t.c.ringStep = S.c.ringStep /\ t.c.leg = S.c.leg /\ t.c.live = S.c.live
      /\ t.c.box = S.c.box /\ t.c.run = S.c.run
  BY SIs DEF States, Cores, Rings
<1> HIDE DEF t
<1>4. Claimed(t) = Claimed(S)
  BY <1>3 DEF Claimed
<1>5. Serves(t)
  BY <1>1, <1>2, <1>3, <1>4, ServedIs DEF Serves, Good, Held, Owned, Calm, OwnEnd, HomeRun
<1> QED BY <1>1, <1>5, ServesKeeps

(* An aborted job keeps no leg.                                            *)
LEMMA AbortClears ==
  ASSUME NEW s \in States, Held(s), s.c.ctx = "JOB", s.c.seq # "none", NEW o
  PROVE  Claimed(JobAbort(s, o)) = {}
<1> DEFINE a == AbortAll(s, o)
           x == IF s.c.live THEN a ELSE s
           y == SequenceEnd(x)
           t == [y EXCEPT !.c.aborted = TRUE, !.r.abort = TRUE]
<1>1. a \in States /\ Cut(a)
  BY AbortAllIs
<1>2. Claimed(a) = {}
  BY <1>1, CutHolds DEF Cut
<1>3. JobAbort(s, o) = t
  BY DEF JobAbort, SequenceAbort
<1> HIDE DEF a
<1>4. x \in States /\ Claimed(x) = {}
  BY <1>1, <1>2 DEF Held
<1> HIDE DEF x
<1>5. y \in States /\ SameLegs(y, x)
  BY <1>4, SequenceEndIs
<1> HIDE DEF y
<1>6. t.c.leg = x.c.leg
  BY <1>5 DEF States, Cores, Rings, SameLegs
<1> HIDE DEF t
<1>7. Claimed(t) = {}
  BY <1>4, <1>6 DEF Claimed
<1> QED BY <1>3, <1>7

LEMMA HostAbortKeeps ==
  ASSUME LegsInv, HostAbort
  PROVE  LegsInv'
<1>1. PICK o \in Outs : Leads(JobAbort(S, o), "serve") /\ Served
  BY DEF HostAbort, Core0Step, Leads
<1> DEFINE t == JobAbort(S, o)
<1>2. /\ t \in States /\ Emptied(t, S)
      /\ t.c.ctx = S.c.ctx /\ t.c.why = S.c.why /\ t.c.begun = S.c.begun /\ t.c.events = S.c.events
      /\ \/ S.c.ctx = "JOB" /\ t.c.seq = "none"
         \/ /\ S.c.ctx # "JOB" /\ t.c.seq = S.c.seq /\ t.c.ringStep = S.c.ringStep
            /\ t.c.leg = S.c.leg /\ t.c.box = S.c.box
  BY SIs, JobAbortIs
<1>3. S.c.ctx = "JOB" /\ S.c.seq # "none" => Claimed(t) = {}
  BY SIs, AbortClears
<1>4. ASSUME S.c.ctx # "JOB" PROVE t = [S EXCEPT !.r.abort = TRUE]
  BY <1>4 DEF JobAbort
<1>5. ASSUME S.c.ctx # "JOB" PROVE t.c = S.c
  BY <1>4, <1>5, SIs DEF States
<1> HIDE DEF t
<1>6. t.c.events # {} => t.c.box = <<>>
  BY <1>1, <1>2, SIs, BoxFree DEF Emptied
<1>7. CASE S.c.ctx = "JOB"
  <2>1. t.c.events # {} => Claimed(t) = {}
    <3>1. S.c.events # {} /\ S.c.seq = "none" => Claimed(S) = {}
      BY SIs DEF Good, Calm
    <3>2. Claimed(t) \subseteq Claimed(S) /\ t.c.events = S.c.events
      BY <1>2 DEF Emptied
    <3> QED BY <1>3, <1>7, <3>1, <3>2
  <2>2. Good(t)
    BY <1>2, <1>7, <2>1, SIs DEF Good, Owned, Calm, HomeRun, JobSeqs, Emptied
  <2> QED BY <1>1, <1>6, <2>2, LeadsGood DEF t
<1>8. CASE S.c.ctx # "JOB"
  <2>1. Claimed(t) = Claimed(S)
    BY <1>2, <1>8 DEF Claimed
  <2>2. Good(t)
    BY <1>2, <1>5, <1>8, <2>1, SIs DEF Good, Held, Owned, Calm, OwnEnd, HomeRun
  <2> QED BY <1>1, <1>6, <2>2, LeadsGood DEF t
<1> QED BY <1>7, <1>8

----------------------------------------------------------------------------
(* Each action keeps the invariant: the nodes and Core 1                   *)

(* What neither the nodes nor Core 1 touch of Core 0.                      *)
Unmoved ==
  /\ core'.pc = core.pc /\ core'.ctx = core.ctx /\ core'.why = core.why /\ core'.begun = core.begun
  /\ core'.aborted = core.aborted /\ core'.events = core.events /\ core'.seq = core.seq
  /\ core'.ringStep = core.ringStep /\ core'.leg = core.leg /\ core'.live = core.live
  /\ core'.box = core.box /\ core'.run = core.run

LEMMA UnmovedKeeps ==
  ASSUME LegsInv, Unmoved, core' \in Cores, node' \in [Nodes -> NodeStates], ring' \in Rings
  PROVE  LegsInv'
<1>1. S' \in States /\ S'.c = core'
  BY DEF S, States
<1>2. Claimed(S') = Claimed(S)
  BY <1>1, SIs DEF Claimed, Unmoved
<1> DEFINE u == S'
<1> HIDE DEF u
<1>3. Good(u)
  BY <1>1, <1>2, SIs DEF Good, Held, Owned, Calm, OwnEnd, HomeRun, Unmoved, u
<1>4. Good(S)' /\ Emptying'
  BY <1>3 DEF Unmoved, LegsInv, Emptying, u
<1> QED BY <1>4 DEF LegsInv

LEMMA Typed ==
  ASSUME LegsInv
  PROVE  core \in Cores /\ node \in [Nodes -> NodeStates] /\ ring \in Rings
BY SIs DEF States

LEMMA SameCore ==
  ASSUME UNCHANGED core
  PROVE  Unmoved
BY DEF Unmoved

LEMMA NodeStepKeeps ==
  ASSUME LegsInv, NodeStep
  PROVE  LegsInv'
<1>1. PICK n \in Nodes : PulserStops(n) \/ PulserEscapes(n) \/ NodeLoop(n) \/ NodeResets(n)
  BY DEF NodeStep
<1> SUFFICES node' \in [Nodes -> NodeStates] /\ UNCHANGED core /\ ring' \in Rings
  BY Typed, SameCore, UnmovedKeeps
<1>2. UNCHANGED core /\ ring' \in Rings
  BY <1>1, Typed DEF PulserStops, PulserEscapes, NodeLoop, NodeResets
<1> SUFFICES \E e \in NodeStates : node' = [node EXCEPT ![n] = e]
  BY <1>2, Typed
<1>3. node[n] \in NodeStates
  BY Typed
<1>4. CASE PulserStops(n)
  <2> DEFINE d == LegHalt(node[n])
             E == CASE d.mode = "seek" /\ d.on -> {[d EXCEPT !.hit = TRUE, !.at = "switch"], d}
                    [] d.mode = "park" /\ d.on    -> {[d EXCEPT !.at = d.goal]}
                                                     \cup IF n \in Rotary THEN {}
                                                          ELSE {[d EXCEPT !.hit = TRUE, !.at = "switch"]}
                    [] d.mode = "retract" /\ d.on -> {IF Pin(d) THEN d ELSE [d EXCEPT !.at = d.goal]}
                    [] d.mode = "sweep" /\ d.on   -> {[d EXCEPT !.index = i] : i \in BOOLEAN}
                    [] OTHER                      -> {d}
  <2>1. PICK e \in E : node' = [node EXCEPT ![n] = e]
    BY <1>4 DEF PulserStops
  <2>2. d \in NodeStates
    <3> DEFINE f == node[n]
    <3>1. f \in NodeStates
      BY <1>3
    <3> HIDE DEF f
    <3>2. [f EXCEPT !.active = FALSE, !.finished = TRUE] \in NodeStates
      BY <3>1 DEF NodeStates
    <3>3. d \in {f, [f EXCEPT !.active = FALSE, !.finished = TRUE]}
      BY DEF LegHalt, f
    <3> QED BY <3>1, <3>2, <3>3
  <2> HIDE DEF d
  <2>3. /\ [d EXCEPT !.hit = TRUE, !.at = "switch"] \in NodeStates
        /\ [d EXCEPT !.at = d.goal] \in NodeStates
        /\ \A i \in BOOLEAN : [d EXCEPT !.index = i] \in NodeStates
    <3>1. [d EXCEPT !.hit = TRUE, !.at = "switch"] \in NodeStates
      BY <2>2 DEF NodeStates, Places
    <3>2. [d EXCEPT !.at = d.goal] \in NodeStates
      BY <2>2 DEF NodeStates, Places
    <3>3. \A i \in BOOLEAN : [d EXCEPT !.index = i] \in NodeStates
      BY <2>2 DEF NodeStates, Places
    <3> QED BY <3>1, <3>2, <3>3
  <2>4. e \in NodeStates
    BY <2>1, <2>2, <2>3
  <2> QED BY <2>1, <2>4
<1>5. CASE PulserEscapes(n)
  <2> DEFINE e == [node[n] EXCEPT !.at = "between"]
  <2>1. e \in NodeStates
    BY <1>3 DEF NodeStates, Places
  <2>2. node' = [node EXCEPT ![n] = e]
    BY <1>5 DEF PulserEscapes
  <2> QED BY <2>1, <2>2
<1>6. CASE NodeLoop(n)
  <2> DEFINE d == node[n]
             clears == d.mode = "retract" /\ ~Pin(d)
             latches == d.mode \in {"seek", "park"} /\ d.hit
             l == IF ~d.finished THEN d.latched ELSE (d.latched /\ ~clears) \/ latches
             e == [d EXCEPT !.finished = FALSE, !.lit = d.active, !.hit = @ /\ d.active, !.latched = l]
  <2>1. l \in BOOLEAN
    BY <1>3 DEF NodeStates
  <2>2. node' = [node EXCEPT ![n] = e]
    BY <1>6 DEF NodeLoop
  <2> HIDE DEF l
  <2>3. e \in NodeStates
    <3> DEFINE h == [d EXCEPT !.finished = FALSE, !.lit = d.active]
               k == h.hit /\ d.active
    <3>1. h \in NodeStates /\ h.active = d.active /\ h.hit = d.hit
      BY <1>3 DEF NodeStates
    <3>2. k \in BOOLEAN
      OBVIOUS
    <3>3. e = [h EXCEPT !.hit = k, !.latched = l]
      BY <1>3 DEF NodeStates
    <3> HIDE DEF e, h, k
    <3>4. e \in NodeStates
      BY <2>1, <3>1, <3>2, <3>3 DEF NodeStates
    <3> QED BY <3>4
  <2> QED BY <2>2, <2>3
<1>7. CASE NodeResets(n)
  <2> DEFINE f == node[n]
             g == [f EXCEPT !.active = FALSE, !.finished = FALSE, !.lit = FALSE, !.hit = FALSE]
             e == [node[n] EXCEPT !.active = FALSE, !.finished = FALSE, !.lit = FALSE,
                                  !.hit = FALSE, !.latched = FALSE, !.on = FALSE,
                                  !.datum = FALSE, !.reset = TRUE]
  <2>1. e \in NodeStates
    <3>1. f \in NodeStates /\ e = [g EXCEPT !.latched = FALSE, !.on = FALSE, !.datum = FALSE, !.reset = TRUE]
      BY <1>3
    <3> HIDE DEF f, e
    <3>2. g \in NodeStates
      BY <3>1 DEF NodeStates
    <3> HIDE DEF g
    <3> QED BY ZenonT(30), <3>1, <3>2 DEF NodeStates
  <2>2. node' = [node EXCEPT ![n] = e]
    BY <1>7 DEF NodeResets
  <2> QED BY <2>1, <2>2
<1> QED BY <1>1, <1>4, <1>5, <1>6, <1>7

LEMMA Core1StepKeeps ==
  ASSUME LegsInv, Core1Step
  PROVE  LegsInv'
<1>1. CASE RingTakes
  <2> DEFINE seen == [n \in Nodes |-> IF n \in ring.moves \cap core.origin THEN "between" ELSE core.seen[n]]
             m == [n \in Nodes |-> IF n \in ring.moves /\ node[n].on THEN [node[n] EXCEPT !.at = "between"]
                                   ELSE node[n]]
  <2>1. core' = [core EXCEPT !.seen = seen] /\ node' = m /\ ring' = [ring EXCEPT !.state = "moving"]
    BY <1>1, Typed DEF RingTakes, Cores
  <2>2. \A n \in Nodes : node[n] \in NodeStates /\ [node[n] EXCEPT !.at = "between"] \in NodeStates
    <3>1. \A d \in NodeStates : [d EXCEPT !.at = "between"] \in NodeStates
      BY DEF NodeStates, Places
    <3> QED BY <3>1, Typed
  <2>3. seen \in [Nodes -> Places] /\ m \in [Nodes -> NodeStates]
    BY <2>2, Typed DEF Cores, Places
  <2> HIDE DEF seen, m
  <2>4. core' \in Cores /\ Unmoved
    BY <2>1, <2>3, Typed DEF Cores, Unmoved
  <2>5. ring' \in Rings
    BY <2>1, Typed DEF Rings
  <2> QED BY <2>1, <2>3, <2>4, <2>5, UnmovedKeeps
<1>2. CASE RingStops
  <2>1. ring' \in Rings /\ UNCHANGED <<core, node>>
    BY <1>2, Typed DEF RingStops, Rings
  <2> QED BY <2>1, Typed, SameCore, UnmovedKeeps
<1>3. CASE RingTells
  <2> DEFINE a == IF ring.leaving = "aborted" THEN FALSE ELSE ring.abort
  <2>1. a \in BOOLEAN /\ ring.facts + 1 \in Nat
    <3>1. ring.abort \in BOOLEAN /\ ring.facts \in Nat
      BY Typed DEF Rings
    <3>2. a \in BOOLEAN
      BY Zenon, <3>1
    <3> HIDE DEF a
    <3> QED BY <3>1, <3>2
  <2>2. ring' = [ring EXCEPT !.leaving = "no", !.facts = @ + 1, !.abort = a] /\ UNCHANGED <<core, node>>
    BY <1>3 DEF RingTells
  <2> HIDE DEF a
  <2>3. ring' \in Rings /\ UNCHANGED <<core, node>>
    BY <2>1, <2>2, Typed DEF Rings
  <2> QED BY <2>3, Typed, SameCore, UnmovedKeeps
<1>4. CASE RingAbortAtRest
  <2>1. ring' \in Rings /\ UNCHANGED <<core, node>>
    BY <1>4, Typed DEF RingAbortAtRest, Rings
  <2> QED BY <2>1, Typed, SameCore, UnmovedKeeps
<1>5. CASE Sweep
  <2>1. core' = [core EXCEPT !.estop = "swept", !.enabled = {}]
    BY <1>5 DEF Sweep
  <2>2. core' \in Cores /\ Unmoved
    BY <2>1, Typed DEF Cores, Unmoved
  <2>3. \A n \in Nodes : MakeSafe(node[n]) \in NodeStates
    BY ZenonT(30), Typed DEF MakeSafe, NodeStates
  <2>4. node' \in [Nodes -> NodeStates]
    BY <1>5, <2>3 DEF Sweep
  <2>5. ring' \in Rings
    BY <1>5, Typed DEF Sweep, Rings
  <2> QED BY <2>2, <2>4, <2>5, UnmovedKeeps
<1> QED BY <1>1, <1>2, <1>3, <1>4, <1>5 DEF Core1Step

LEMMA CommandKeeps ==
  ASSUME LegsInv, Command
  PROVE  LegsInv'
BY CmdHomeKeeps, CmdGotoXYKeeps, CmdGotoLegsKeeps, CmdGotoAxisKeeps, CmdHomeEndKeeps,
   CmdUnalarmKeeps, CmdStopKeeps, CmdUnstopKeeps, JobHdrKeeps, ToolHdrKeeps, ToolChangeLeaveKeeps,
   PlaceSetKeeps, PlaceGoKeeps, PlaceResetKeeps, PlaceOkKeeps, CmdCancelKeeps, HostAbortKeeps,
   CmdEnableKeeps, CmdLegKeeps, CmdLegAbortKeeps, CmdSetOriginKeeps
   DEF Command

----------------------------------------------------------------------------
(* The theorems                                                            *)

(* Each handler of Core 0, each command, each node's step and each of Core *)
(* 1's keeps the invariant: a claimed leg is a live step's, a job that may *)
(* start a recipe has none, and what runs while a fault stands was started *)
(* after it and cannot take an earlier step's end for its own.             *)
THEOREM LegsInvariant == Spec => []LegsInv
<1>1. LegsInv /\ [Next]_vars => LegsInv'
  <2> SUFFICES ASSUME LegsInv, [Next]_vars PROVE LegsInv'
    OBVIOUS
  <2>1. CASE Core0Loop
    BY <2>1, ObserveKeeps, ServeEndsKeeps, SequenceTickKeeps, ToolsTickKeeps, RunnerTickKeeps
       DEF Core0Loop
  <2>2. CASE ObserveFault
    BY <2>2, ObserveFaultKeeps
  <2>3. CASE \E n \in Nodes : RunnerDeadline(n)
    BY <2>3, RunnerDeadlineKeeps
  <2>4. CASE Command
    BY <2>4, CommandKeeps
  <2>5. CASE NodeStep
    BY <2>5, NodeStepKeeps
  <2>6. CASE Core1Step
    BY <2>6, Core1StepKeeps
  <2>7. CASE UNCHANGED vars
    <3>1. core' = core /\ node' = node /\ ring' = ring
      BY <2>7 DEF vars
    <3> QED BY <3>1, Typed, SameCore, UnmovedKeeps
  <2> QED BY <2>1, <2>2, <2>3, <2>4, <2>5, <2>6, <2>7 DEF Next
<1> QED BY <1>1, InitInv, PTL DEF Spec

(* While an event fault stands no homing, recovery, leg or traverse runs,  *)
(* and no leg is claimed outside a job's sequences and the gotos.          *)
THEOREM AlarmStops == Spec => []AlarmRunsNothing
<1>1. LegsInv => AlarmRunsNothing
  BY SIs DEF Good, Calm, JobSeqs, AlarmRunsNothing
<1> QED BY <1>1, LegsInvariant, PTL

----------------------------------------------------------------------------
(* A sequence goes on: the legs and threads of a step, and what waits in   *)
(* the mailbox.                                                            *)

StepEnd == [kind |-> "step"]

(* No step is live.                                                        *)
Rest(s) == s.c.live = FALSE /\ s.c.open = {} /\ s.c.leg = NoLegs
Gone(s) == Rest(s) /\ s.c.seq = "none"

(* Every leg is for something, its polls counted within the limits.        *)
Polled(s) ==
  \A n \in Nodes : /\ s.c.leg[n].misses \in 0 .. LegMisses - 1 /\ s.c.leg[n].settle \in 0 .. SettlePolls
                   /\ s.c.leg[n] # NoLeg => s.c.leg[n].intent # "none"

(* A thread's leg is its last, but in a homing run, where the run knows.   *)
LastLeg(s, n) == n \in s.c.last <=> (s.c.seq = "home" => n \in s.c.run.done)

(* A step is live and every open thread has its leg.                       *)
Armed(s) ==
  /\ s.c.live = TRUE /\ s.c.seq # "none" /\ s.c.ringStep = FALSE /\ s.c.open # {}
  /\ Claimed(s) = s.c.open /\ Polled(s) /\ \A n \in s.c.open : LastLeg(s, n)

(* A line is out, and its drain is still to be observed.                   *)
Coming(s)  == s.r.state # "idle" \/ s.r.leaving # "no" \/ s.r.facts > 0
Rolling(s) == Rest(s) /\ s.c.seq # "none" /\ s.c.ringStep = TRUE /\ Coming(s)

(* What a handler that starts, advances or ends a sequence leaves.         *)
Outcome(t) == Gone(t) \/ Armed(t) \/ Rolling(t)

SameThreads(t, s) == t.c.open = s.c.open /\ t.c.last = s.c.last

LEMMA RestPolled ==
  ASSUME NEW s, Rest(s)
  PROVE  Polled(s) /\ Claimed(s) = {}
BY LegsAssumption DEF Rest, Polled, NoLegs, NoLeg, Claimed

LEMMA SameRest ==
  ASSUME NEW s, Rest(s), NEW t, SameLegs(t, s), SameThreads(t, s)
  PROVE  Rest(t)
BY DEF Rest, SameLegs, SameThreads

LEMMA SameArmed ==
  ASSUME NEW s, Armed(s), NEW t, SameLegs(t, s), SameThreads(t, s), t.c.seq = s.c.seq,
         t.c.ringStep = s.c.ringStep, t.c.run.done = s.c.run.done
  PROVE  Armed(t)
BY DEF Armed, SameLegs, SameThreads, Claimed, Polled, LastLeg

(* The threads an operator leaves alone.                                   *)
LEMMA OriginThreads ==
  ASSUME NEW s \in States, NEW A
  PROVE  SameThreads(OriginInvalidate(s, A), s) /\ SameThreads(OriginAdopt(s, A), s)
BY DEF OriginInvalidate, OriginAdopt, States, Cores, SameThreads

LEMMA DatumThreads ==
  ASSUME NEW s \in States, NEW A, NEW where, NEW o
  PROVE  SameThreads(OriginDatum(s, A, where, o), s)
BY DEF OriginDatum, States, Cores, SameThreads

LEMMA EnableThreads ==
  ASSUME NEW s \in States, NEW A, NEW o
  PROVE  SameThreads(Enable(s, A, o), s) /\ SameThreads(Readied(s, A, o), s)
BY DEF Enable, Readied, States, Cores, SameThreads

LEMMA EndThreads ==
  ASSUME NEW s \in States, NEW id
  PROVE  SameThreads(SequenceEnd(s), s) /\ SameThreads(SequenceStart(s, id), s)
BY DEF SequenceEnd, SequenceStart, States, Cores, SameThreads

LEMMA EndRests ==
  ASSUME NEW s \in States, Rest(s)
  PROVE  Gone(SequenceEnd(s)) /\ SequenceEnd(s).c.box = s.c.box
BY SequenceEndIs, EndThreads, SameRest DEF Gone, SameLegs

----------------------------------------------------------------------------
(* The teardown leaves no step.                                            *)

LEMMA CutRests ==
  ASSUME NEW s \in States
  PROVE  Rest(StepCut(s))
<1>1. StepCut(s).c.open = {}
  BY DEF StepCut, States, Cores
<1> QED BY <1>1, StepCutIs DEF Rest, Cut

LEMMA AbortRests ==
  ASSUME NEW s \in States, NEW o
  PROVE  Rest(AbortAll(s, o)) /\ Rest(DropAll(s))
<1>1. Cut(AbortAll(s, o)) /\ Cut(DropAll(s))
  BY AbortAllIs, DropAllIs
<1>2. AbortAll(s, o).c.open = {}
  <2> DEFINE kept == {n \in Claimed(s) : Out(o, n) = "ok" /\ s.c.leg[n].intent = "park" /\ s.n[n].datum}
             m == [n \in Nodes |-> IF n \in Claimed(s) THEN AbortLeg(s.n[n], o, n) ELSE s.n[n]]
             h == [s EXCEPT !.n = m]
             i == OriginInvalidate(OriginAdopt(h, kept), Claimed(s) \ kept)
  <2>1. AbortAll(s, o) = StepCut(i)
    BY DEF AbortAll, States
  <2>2. \A n \in Nodes : s.n[n] \in NodeStates
    BY DEF States
  <2>3. m \in [Nodes -> NodeStates]
    BY <2>2, AbortLegType
  <2> HIDE DEF m
  <2>4. h \in States
    BY <2>3 DEF States
  <2> HIDE DEF h, kept
  <2>5. i \in States
    BY <2>4, OriginAdoptIs, OriginInvalidateIs
  <2> HIDE DEF i
  <2> QED BY <2>1, <2>5, CutRests DEF Rest
<1>3. DropAll(s).c.open = {}
  <2>1. OriginInvalidate(s, Claimed(s)) \in States
    BY OriginInvalidateIs
  <2> QED BY <2>1, CutRests DEF DropAll, Rest
<1> QED BY <1>1, <1>2, <1>3 DEF Rest, Cut

(* A step is live as long as it has a thread, and every leg is a thread's. *)
Even(s) == /\ s.c.live = FALSE => Rest(s)
           /\ s.c.live \in BOOLEAN

LEMMA OutcomeEven ==
  ASSUME NEW s, Outcome(s)
  PROVE  Even(s)
BY DEF Outcome, Gone, Armed, Rolling, Rest, Even

LEMMA EvenHolds ==
  ASSUME NEW s \in States, Even(s)
  PROVE  Held(s)
BY RestPolled DEF Even, Held

LEMMA LegsCut ==
  ASSUME NEW s \in States, Even(s), NEW o
  PROVE  LET a == IF s.c.live THEN AbortAll(s, o) ELSE s
         IN a \in States /\ Rest(a) /\ SameMachine(a, s) /\ a.c.seq = s.c.seq
            /\ (a.c.box = s.c.box \/ a.c.box = <<>>)
<1>1. CASE s.c.live
  BY <1>1, AbortAllIs, AbortRests DEF Cut, SameSequence
<1>2. CASE ~s.c.live
  BY <1>2 DEF Even, SameMachine
<1> QED BY <1>1, <1>2

LEMMA AbortedRests ==
  ASSUME NEW s \in States, Even(s), s.c.seq = "none" => Rest(s), NEW o
  PROVE  Gone(SequenceAbort(s, o))
<1> DEFINE a == IF s.c.live THEN AbortAll(s, o) ELSE s
<1>1. a \in States /\ Rest(a)
  BY LegsCut
<1>2. SequenceAbort(s, o) = IF s.c.seq = "none" THEN s ELSE SequenceEnd(a)
  BY DEF SequenceAbort
<1> HIDE DEF a
<1> QED BY <1>1, <1>2, EndRests DEF Gone

LEMMA JobAbortRests ==
  ASSUME NEW s \in States, Even(s), s.c.seq = "none" => Rest(s), NEW o, s.c.ctx = "JOB"
  PROVE  Gone(JobAbort(s, o))
<1> DEFINE a == SequenceAbort(s, o)
<1>1. a \in States /\ Gone(a)
  BY AbortedRests, SequenceAbortIs
<1>2. JobAbort(s, o) = [a EXCEPT !.c.aborted = TRUE, !.r.abort = TRUE]
  BY DEF JobAbort
<1> HIDE DEF a
<1> DEFINE t == [a EXCEPT !.c.aborted = TRUE, !.r.abort = TRUE]
<1>3. t.c.live = a.c.live /\ t.c.open = a.c.open /\ t.c.leg = a.c.leg /\ t.c.seq = a.c.seq
  BY <1>1 DEF States, Cores
<1> HIDE DEF t
<1>4. JobAbort(s, o) = t
  BY <1>2 DEF t
<1> QED BY <1>1, <1>3, <1>4 DEF Gone, Rest

(* What every handler but the stop leaves alone.                           *)
Quiet(t, s) == t.c.estop = s.c.estop /\ t.r.facts = s.r.facts

LEMMA JobAbortQuiet ==
  ASSUME NEW s \in States, NEW o
  PROVE  Quiet(JobAbort(s, o), s)
<1> DEFINE a == SequenceAbort(s, o)
<1>1. a \in States /\ a.c.estop = s.c.estop /\ a.r = s.r
  BY SequenceAbortIs DEF SameMachine
<1>2. JobAbort(s, o) = IF s.c.ctx # "JOB" THEN [s EXCEPT !.r.abort = TRUE]
                       ELSE [a EXCEPT !.c.aborted = TRUE, !.r.abort = TRUE]
  BY DEF JobAbort
<1> HIDE DEF a
<1>3. CASE s.c.ctx # "JOB"
  BY <1>2, <1>3 DEF Quiet, States, Rings
<1>4. CASE s.c.ctx = "JOB"
  <2> DEFINE t == [a EXCEPT !.c.aborted = TRUE, !.r.abort = TRUE]
  <2>1. t.c.estop = a.c.estop /\ t.r.facts = a.r.facts
    BY <1>1 DEF States, Cores, Rings
  <2> HIDE DEF t
  <2>2. JobAbort(s, o) = t
    BY <1>2, <1>4 DEF t
  <2> QED BY <1>1, <2>1, <2>2 DEF Quiet
<1> QED BY <1>3, <1>4

LEMMA ContextQuiet ==
  ASSUME NEW s \in States, NEW o
  PROVE  Quiet(ContextEnds(s, o), s)
<1>1. CASE s.c.ctx = "HOMING"
  <2>1. ContextEnds(s, o) = [s EXCEPT !.c.ctx = "IDLE"]
    BY <1>1 DEF ContextEnds
  <2> QED BY <2>1 DEF Quiet, States, Cores
<1>2. CASE s.c.ctx = "JOB"
  <2>1. ContextEnds(s, o) = JobAbort(s, o)
    BY <1>2 DEF ContextEnds
  <2> QED BY <2>1, JobAbortQuiet
<1>3. CASE s.c.ctx \notin {"HOMING", "JOB"}
  <2>1. ContextEnds(s, o) = StopJog(s)
    BY <1>3 DEF ContextEnds
  <2>2. StopJog(s).r.facts = s.r.facts /\ StopJog(s).c = s.c
    BY DEF StopJog, States, Rings
  <2> QED BY <2>1, <2>2 DEF Quiet
<1> QED BY <1>1, <1>2, <1>3

(* A fault, or a stop, leaves nothing.                                     *)
Off(t, s) == t \in States /\ Gone(t) /\ Quiet(t, s)

LEMMA TearDownRests ==
  ASSUME NEW s \in States, Even(s), NEW o
  PROVE  Off(TearDown(s, o), s)
<1> DEFINE a == IF s.c.live THEN AbortAll(s, o) ELSE s
           b == SequenceAbort(a, o)
<1>0. TearDown(s, o) \in States
  BY EvenHolds, TearDownIs DEF Torn
<1>1. a \in States /\ Rest(a) /\ a.c.estop = s.c.estop
  BY LegsCut DEF SameMachine
<1>2. a.r = s.r
  BY AbortAllIs DEF SameSequence
<1>3. TearDown(s, o) = ContextEnds(b, o)
  BY DEF TearDown
<1>4. Even(a)
  BY <1>1 DEF Even, Rest
<1> HIDE DEF a
<1>5. b \in States /\ Gone(b) /\ b.c.estop = a.c.estop /\ b.r = a.r
  BY <1>1, <1>4, AbortedRests, SequenceAbortIs DEF SameMachine
<1> HIDE DEF b
<1>6. Quiet(TearDown(s, o), s)
  BY <1>1, <1>2, <1>3, <1>5, ContextQuiet DEF Quiet
<1>7. CASE b.c.ctx = "HOMING"
  <2>1. ContextEnds(b, o) = [b EXCEPT !.c.ctx = "IDLE"]
    BY <1>7 DEF ContextEnds
  <2> DEFINE t == [b EXCEPT !.c.ctx = "IDLE"]
  <2>3. t.c.live = b.c.live /\ t.c.open = b.c.open /\ t.c.leg = b.c.leg /\ t.c.seq = b.c.seq
    BY <1>5 DEF States, Cores
  <2>4. TearDown(s, o) = t
    BY <1>3, <2>1
  <2> HIDE DEF t
  <2>2. Gone(TearDown(s, o))
    BY <1>5, <2>3, <2>4 DEF Gone, Rest
  <2> QED BY <1>0, <1>6, <2>2 DEF Off
<1>8. CASE b.c.ctx = "JOB"
  <2>1. Even(b)
    BY <1>5 DEF Even, Gone, Rest
  <2>2. Gone(JobAbort(b, o))
    BY <1>5, <1>8, <2>1, JobAbortRests DEF Gone
  <2> QED BY <1>0, <1>3, <1>6, <1>8, <2>2 DEF ContextEnds, Off
<1>9. CASE b.c.ctx \notin {"HOMING", "JOB"}
  <2>1. Gone(TearDown(s, o))
    BY <1>3, <1>5, <1>9, StopJogIs DEF ContextEnds, Gone, Rest
  <2> QED BY <1>0, <1>6, <2>1 DEF Off
<1> QED BY <1>7, <1>8, <1>9

LEMMA FaultRests ==
  ASSUME NEW s \in States, Even(s), NEW f \in Faults, NEW o
  PROVE  Off(FaultSet(s, f, o), s)
<1> DEFINE e == s.c.events \cup {f}
           x == [s EXCEPT !.c.events = e]
<1>1. FaultSet(s, f, o) = TearDown(x, o)
  BY DEF FaultSet, States, Cores
<1>2. e \in SUBSET Faults
  BY DEF States, Cores, Faults
<1> HIDE DEF e
<1>3. x \in States
  BY <1>2 DEF States, Cores, Faults
<1>4. /\ x.c.live = s.c.live /\ x.c.open = s.c.open /\ x.c.leg = s.c.leg
      /\ x.c.estop = s.c.estop /\ x.r = s.r
  BY DEF States, Cores
<1> HIDE DEF x
<1>5. Off(TearDown(x, o), x)
  BY <1>3, <1>4, TearDownRests DEF Even, Rest
<1> QED BY <1>1, <1>4, <1>5 DEF Off, Quiet

LEMMA SequenceFailRests ==
  ASSUME NEW s \in States, Even(s), NEW o
  PROVE  Off(SequenceFail(s, o), s)
BY FaultRests DEF SequenceFail, Faults

LEMMA HomingFailRests ==
  ASSUME NEW s \in States, NEW o
  PROVE  Off(HomingFail(s, o), s)
<1> DEFINE a == AbortAll(s, o)
<1>1. a \in States /\ Rest(a) /\ a.c.estop = s.c.estop /\ a.r = s.r
  BY AbortAllIs, AbortRests DEF SameMachine, SameSequence
<1>2. HomingFail(s, o) = FaultSet(a, "F_HOMING", o)
  BY DEF HomingFail
<1> HIDE DEF a
<1>3. Off(FaultSet(a, "F_HOMING", o), a)
  BY <1>1, FaultRests DEF Even, Rest, Faults
<1> QED BY <1>1, <1>2, <1>3 DEF Off, Quiet

LEMMA AbandonRests ==
  ASSUME NEW s \in States, NEW n, NEW o
  PROVE  Off(HomingAbandon(s, n, o), s)
<1> DEFINE a == OriginInvalidate(s, {n})
<1>1. a \in States /\ a.c.estop = s.c.estop /\ a.r = s.r
  BY OriginInvalidateIs DEF SameMachine, SameSequence
<1>2. HomingAbandon(s, n, o) = HomingFail(a, o)
  BY DEF HomingAbandon
<1> HIDE DEF a
<1>3. Off(HomingFail(a, o), a)
  BY <1>1, HomingFailRests
<1> QED BY <1>1, <1>2, <1>3 DEF Off, Quiet

(* The stop leaves the machine idle.                                       *)
LEMMA EstopRests ==
  ASSUME NEW s \in States, Even(s)
  PROVE  LET t == TearDownEstop(s)
         IN t \in States /\ Gone(t) /\ t.r = s.r /\ t.c.ctx = "IDLE"
            /\ (t.c.box = s.c.box \/ t.c.box = <<>>)
<1> DEFINE a == IF s.c.live THEN DropAll(s) ELSE s
           b == SequenceEnd(a)
<1>1. a \in States /\ Rest(a) /\ a.r = s.r /\ (a.c.box = s.c.box \/ a.c.box = <<>>)
  BY DropAllIs, AbortRests DEF Even, SameSequence, Cut
<1> HIDE DEF a
<1>2. b \in States /\ Gone(b) /\ b.r = a.r /\ b.c.box = a.c.box
  BY <1>1, EndRests, SequenceEndIs
<1>3. TearDownEstop(s) = JobCloses(b)
  BY DEF TearDownEstop, a, b
<1> HIDE DEF b
<1>4. JobCloses(b).c.open = b.c.open
  BY <1>2 DEF JobCloses, States, Cores
<1>5. LET t == JobCloses(b)
      IN t \in States /\ t.c.ctx = "IDLE" /\ SameSequence(t, b) /\ SameLegs(t, b)
  BY <1>2, JobClosesIs
<1> QED BY <1>1, <1>2, <1>3, <1>4, <1>5 DEF Gone, Rest, SameLegs, SameSequence

----------------------------------------------------------------------------
(* The arms of a step: the nodes of A join it.                             *)
Fresh(g, p) == /\ g # NoLeg /\ g.intent # "none" /\ g.intent = p.intent /\ g.goal = p.goal
               /\ g.misses = 0 /\ g.settle \in 0 .. SettlePolls

Joined(t, s, A, plan) ==
  /\ t.c.open = s.c.open \cup A /\ t.c.live = (s.c.live \/ A # {})
  /\ t.c.last = (s.c.last \ A) \cup {n \in A : plan[n].last}
  /\ \A n \in Nodes \ A : t.c.leg[n] = s.c.leg[n]
  /\ \A n \in A : Fresh(t.c.leg[n], plan[n])

LEMMA JoinJoins ==
  ASSUME NEW s \in States, NEW D \in SUBSET Nodes, NEW plan \in [D -> Plans], NEW A \in SUBSET D
  PROVE  Joined(Join(s, A, plan), s, A, plan) /\ Join(s, A, plan).n = s.n
<1> DEFINE t == Join(s, A, plan)
           New(n) == [intent |-> plan[n].intent, goal |-> plan[n].goal, misses |-> 0,
                      settle |-> IF plan[n].intent \in {"park", "sweep"} THEN 0 ELSE SettlePolls]
           m == [n \in Nodes |-> IF n \notin A THEN s.c.leg[n] ELSE New(n)]
           q == s.c.open \cup A
           l == (s.c.last \ A) \cup {n \in A : plan[n].last}
           v == s.c.live \/ A # {}
<1>1. \A n \in A : Fresh(New(n), plan[n])
  BY LegsAssumption DEF Plans, NoLeg, Intents, Fresh
<1> HIDE DEF New
<1>2. t = [s EXCEPT !.c.leg = m, !.c.open = q, !.c.last = l, !.c.live = v]
  BY DEF Join, States, Cores, New
<1>3. \A n \in Nodes : m[n] = IF n \in A THEN New(n) ELSE s.c.leg[n]
  OBVIOUS
<1> HIDE DEF m, q, l, v, t
<1>4. t.c.leg = m /\ t.c.open = q /\ t.c.last = l /\ t.c.live = v /\ t.n = s.n
  BY <1>2 DEF States, Cores
<1>5. A \in SUBSET Nodes
  OBVIOUS
<1> QED BY <1>1, <1>3, <1>4, <1>5 DEF Joined, q, l, v, t

LEMMA JoinedNone ==
  ASSUME NEW s \in States, NEW t \in States, NEW plan, Joined(t, s, {}, plan)
  PROVE  SameThreads(t, s) /\ t.c.leg = s.c.leg /\ t.c.live = s.c.live
<1>1. t.c.open = s.c.open /\ t.c.last = s.c.last /\ \A n \in Nodes : t.c.leg[n] = s.c.leg[n]
  BY DEF Joined
<1>2. t.c.leg \in [Nodes -> LegStates] /\ s.c.leg \in [Nodes -> LegStates] /\ s.c.live \in BOOLEAN
  BY DEF States, Cores
<1>3. t.c.leg = s.c.leg
  BY <1>1, <1>2
<1>4. t.c.live = s.c.live
  BY <1>2 DEF Joined
<1> QED BY <1>1, <1>3, <1>4 DEF SameThreads

LEMMA JoinedRest ==
  ASSUME NEW s \in States, Rest(s), NEW t \in States, NEW A \in SUBSET Nodes, A # {}, NEW plan,
         Joined(t, s, A, plan)
  PROVE  t.c.live = TRUE /\ t.c.open = A /\ Claimed(t) = A /\ Polled(t)
<1>1. t.c.live = TRUE /\ t.c.open = A
  BY DEF Joined, Rest
<1>2. \A n \in Nodes : IF n \in A THEN Fresh(t.c.leg[n], plan[n]) ELSE t.c.leg[n] = NoLeg
  BY DEF Joined, Rest, NoLegs
<1>3. Claimed(t) = A
  BY <1>2 DEF Claimed, Fresh
<1>4. Polled(t)
  BY <1>2, LegsAssumption DEF Polled, Fresh, NoLeg
<1> QED BY <1>1, <1>3, <1>4

LEMMA ArmJoins ==
  ASSUME NEW s \in States, NEW D \in SUBSET Nodes, NEW plan \in [D -> Plans], NEW o
  PROVE  LET r == Arm(s, plan, o)
         IN \E A \in SUBSET D :
              /\ Joined(r.s, s, A, plan) /\ r.any = (A # {})
              /\ r.bad = None => /\ A = D
                                 /\ \A n \in Nodes : r.s.n[n] = IF n \in D THEN NodeArm(s, n, plan[n], o)
                                                                ELSE s.n[n]
              /\ r.bad # None => r.bad \in Nodes
<1> DEFINE refused == {n \in DOMAIN plan : ArmWhy(s, n, plan[n], o) # "ok"}
           bad     == IF refused = {} THEN None ELSE FirstOf(refused)
           tried   == {n \in DOMAIN plan : bad = None \/ Rank(n) <= Rank(bad)}
           m       == [n \in Nodes |-> IF n \in tried THEN NodeArm(s, n, plan[n], o) ELSE s.n[n]]
           asked   == [s EXCEPT !.n = m]
           A       == tried \ {bad}
<1>1. Arm(s, plan, o) = [s |-> Join(asked, A, plan), bad |-> bad, any |-> A # {}]
  BY DEF Arm, States
<1>2. tried \in SUBSET D /\ A \in SUBSET D
  OBVIOUS
<1>3. bad = None => A = D /\ tried = D
  BY LegsAssumption
<1>4. bad # None => bad \in Nodes
  <2>1. refused \in SUBSET Nodes
    OBVIOUS
  <2> HIDE DEF refused
  <2> QED BY <2>1, FirstOfIs
<1> HIDE DEF tried, bad, refused
<1>5. \A n \in Nodes : s.n[n] \in NodeStates
  BY DEF States
<1>6. m \in [Nodes -> NodeStates] /\ \A n \in Nodes : m[n] = IF n \in tried THEN NodeArm(s, n, plan[n], o) ELSE s.n[n]
  BY <1>2, <1>5, NodeArmType
<1> HIDE DEF m
<1>7. asked \in States /\ asked.c = s.c /\ asked.n = m
  BY <1>6 DEF States
<1> HIDE DEF asked, A
<1>8. Joined(Join(asked, A, plan), asked, A, plan) /\ Join(asked, A, plan).n = asked.n
  BY <1>2, <1>7, JoinJoins
<1>9. Joined(Join(asked, A, plan), s, A, plan)
  BY <1>7, <1>8 DEF Joined
<1> QED BY <1>1, <1>2, <1>3, <1>4, <1>6, <1>7, <1>8, <1>9

(* The arms of a recipe's step, each node's only leg.                      *)
LEMMA ArmOutcome ==
  ASSUME NEW s \in States, Rest(s), s.c.seq # "none", s.c.seq # "home", s.c.ringStep = FALSE,
         NEW D \in SUBSET Nodes, NEW plan \in [D -> Plans], \A n \in D : plan[n].last, NEW o
  PROVE  LET r == Arm(s, plan, o)
         IN /\ r.s \in States /\ r.s.c.seq = s.c.seq /\ r.s.c.ringStep = FALSE
            /\ IF r.any THEN Armed(r.s) ELSE Rest(r.s)
            /\ r.bad = None => r.any = (D # {})
            /\ r.any \in BOOLEAN
<1> DEFINE r == Arm(s, plan, o)
           t == r.s
<1>1. t \in States /\ SameSequence(t, s) /\ r.any \in BOOLEAN
  BY ArmIs
<1>0. \E A \in SUBSET D : Joined(t, s, A, plan) /\ r.any = (A # {}) /\ (r.bad = None => A = D)
  <2>1. \E A \in SUBSET D :
          /\ Joined(r.s, s, A, plan) /\ r.any = (A # {})
          /\ r.bad = None => /\ A = D
                             /\ \A n \in Nodes : r.s.n[n] = IF n \in D THEN NodeArm(s, n, plan[n], o)
                                                            ELSE s.n[n]
          /\ r.bad # None => r.bad \in Nodes
    BY ArmJoins
  <2> HIDE DEF r
  <2> QED BY <2>1
<1> HIDE DEF r
<1>2. PICK A \in SUBSET D : Joined(t, s, A, plan) /\ r.any = (A # {}) /\ (r.bad = None => A = D)
  BY <1>0
<1>3. t.c.seq = s.c.seq /\ t.c.ringStep = FALSE
  BY <1>1 DEF SameSequence
<1>4. CASE A = {}
  <2>1. SameThreads(t, s) /\ t.c.leg = s.c.leg /\ t.c.live = s.c.live
    BY <1>1, <1>2, <1>4, JoinedNone
  <2> QED BY <1>1, <1>2, <1>3, <1>4, <2>1 DEF Rest, SameThreads, r
<1>5. CASE A # {}
  <2>1. t.c.live = TRUE /\ t.c.open = A /\ Claimed(t) = A /\ Polled(t)
    BY <1>1, <1>2, <1>5, JoinedRest
  <2>2. \A n \in A : n \in t.c.last
    BY <1>2 DEF Joined
  <2>3. Armed(t)
    BY <1>3, <1>5, <2>1, <2>2 DEF Armed, LastLeg
  <2> QED BY <1>1, <1>2, <1>3, <1>5, <2>3 DEF r
<1> QED BY <1>4, <1>5

----------------------------------------------------------------------------
(* The legs of a homing run                                                *)

HomeJoined(t, s, A) ==
  \E plan : /\ Joined(t, s, A, plan)
            /\ t.c.run.done = s.c.run.done \cup {n \in A : plan[n].last}

(* The arms of a cycle, or of a node's next leg.                           *)
LEMMA HomeArmJoins ==
  ASSUME NEW s \in States, Held(s), s.c.seq = "home", NEW A \in SUBSET Nodes, A # {}, NEW o,
         \A n \in A : s.c.run.job[n] \notin {"park", "rotary"} =>
                        s.c.run.phase[n] + OnSwitchSkip(s.c.run, n) <= 3
  PROVE  LET r == HomeArm(s, A, o)
         IN \/ Off(r.s, s) /\ s.c.run.started \in BOOLEAN
            \/ /\ r.bad # None /\ ~s.c.run.started /\ r.s \in States /\ Quiet(r.s, s)
               /\ SameThreads(r.s, s) /\ r.s.c.leg = s.c.leg /\ r.s.c.live = s.c.live
            \/ /\ r.bad = None /\ r.s \in States /\ Quiet(r.s, s)
               /\ r.s.c.seq = "home" /\ r.s.c.ringStep = s.c.ringStep /\ HomeJoined(r.s, s, A)
<1> DEFINE run   == s.c.run
           Idx(n, on) == run.phase[n] + IF n \in on THEN 1 ELSE 0
           stood == {n \in A : /\ run.job[n] = "linear" /\ Idx(n, run.onSwitch) = 0
                               /\ ArmWhy(s, n, HomeLeg("linear", 0), o) = "mismatch"}
           on    == run.onSwitch \cup stood
           plan  == [n \in A |-> HomeLeg(run.job[n], Idx(n, on))]
           armed == Arm(s, plan, o)
           lastOf == {n \in A : plan[n].last}
           t == HomeMoved(armed, on, lastOf)
<1>1. HomeArm(s, A, o) = HomeArmed(t, armed.bad, o)
  BY DEF HomeArm
<1>2. run \in Runs
  BY DEF States, Cores
<1>3. on \in SUBSET Nodes
  BY <1>2 DEF Runs
<1>4. \A n \in A : /\ run.job[n] \in HomeJobs /\ run.phase[n] \in Nat /\ Idx(n, on) \in Nat
                   /\ run.job[n] \notin {"park", "rotary"} => Idx(n, on) <= 3
  BY <1>2, <1>3 DEF Runs, OnSwitchSkip
<1>5. \A n \in A : HomeLeg(run.job[n], Idx(n, on)) \in Plans
  <2> HIDE DEF Idx, on, run
  <2> QED BY <1>4, HomeLegType
<1>6. plan \in [A -> Plans] /\ lastOf \in SUBSET Nodes
  BY <1>5
<1>7. lastOf = {n \in A : plan[n].last}
  OBVIOUS
<1> HIDE DEF Idx, stood, on, plan, lastOf
<1> DEFINE a == armed.s
<1>8. /\ a \in States /\ SameSequence(a, s) /\ Held(a) /\ armed.any \in BOOLEAN
      /\ a.c.estop = s.c.estop
  BY <1>6, ArmIs DEF SameMachine
<1>9. \E J \in SUBSET A :
         Joined(a, s, J, plan) /\ armed.any = (J # {}) /\ (armed.bad = None => J = A)
  <2>1. \E J \in SUBSET A :
          /\ Joined(armed.s, s, J, plan) /\ armed.any = (J # {})
          /\ armed.bad = None => /\ J = A
                                 /\ \A n \in Nodes : armed.s.n[n] = IF n \in A THEN NodeArm(s, n, plan[n], o)
                                                                  ELSE s.n[n]
          /\ armed.bad # None => armed.bad \in Nodes
    BY <1>6, ArmJoins
  <2> HIDE DEF armed
  <2> QED BY <2>1
<1> HIDE DEF armed
<1>10. PICK J \in SUBSET A :
         Joined(a, s, J, plan) /\ armed.any = (J # {}) /\ (armed.bad = None => J = A)
  BY <1>9
<1>11. /\ t \in States /\ SameLegs(t, a) /\ t.r = a.r /\ t.c.estop = a.c.estop
       /\ t.c.seq = a.c.seq /\ t.c.ringStep = a.c.ringStep
       /\ (t.c.run.started <=> a.c.run.started \/ armed.any)
       /\ t.c.run.done = a.c.run.done \cup {n \in lastOf : a.c.leg[n] # NoLeg}
  <2>1. /\ t \in States /\ SameMachine(t, a) /\ SameLegs(t, a) /\ t.r = a.r
        /\ t.c.seq = a.c.seq /\ t.c.ringStep = a.c.ringStep
        /\ t.c.run.onSwitch = on /\ (t.c.run.started <=> a.c.run.started \/ armed.any)
        /\ t.c.run.done = a.c.run.done \cup {n \in lastOf : a.c.leg[n] # NoLeg}
        /\ t.c.run.job = a.c.run.job /\ t.c.run.phase = a.c.run.phase
        /\ t.c.run.cycle = a.c.run.cycle
    BY <1>3, <1>6, <1>8, HomeMovedIs
  <2> HIDE DEF t
  <2> QED BY <2>1 DEF SameMachine
<1>12. SameThreads(t, a)
  BY <1>8 DEF HomeMoved, States, Cores, SameThreads
<1> HIDE DEF t
<1>13. a.c.run = run /\ a.c.seq = "home" /\ a.c.ringStep = s.c.ringStep /\ a.r = s.r
  BY <1>8 DEF SameSequence
<1>14. Quiet(t, s)
  BY <1>8, <1>11, <1>13 DEF Quiet
<1> HIDE DEF a
<1>15. CASE armed.bad # None /\ t.c.run.started
  <2>1. HomeArm(s, A, o).s = HomingAbandon(t, armed.bad, o)
    BY <1>1, <1>15 DEF HomeArmed
  <2>2. Off(HomingAbandon(t, armed.bad, o), t)
    BY <1>11, AbandonRests
  <2> QED BY <1>2, <1>14, <2>1, <2>2 DEF Off, Quiet, Runs
<1>16. CASE armed.bad # None /\ ~t.c.run.started
  <2>1. HomeArm(s, A, o) = [s |-> t, bad |-> armed.bad]
    BY <1>1, <1>16 DEF HomeArmed
  <2>2. ~run.started /\ J = {}
    BY <1>2, <1>8, <1>10, <1>11, <1>13, <1>16 DEF Runs
  <2>3. SameThreads(a, s) /\ a.c.leg = s.c.leg /\ a.c.live = s.c.live
    BY <1>8, <1>10, <2>2, JoinedNone
  <2> QED BY <1>11, <1>12, <1>14, <1>16, <2>1, <2>2, <2>3 DEF SameThreads, SameLegs
<1>17. CASE armed.bad = None
  <2>1. HomeArm(s, A, o) = [s |-> t, bad |-> None]
    BY <1>1, <1>17 DEF HomeArmed
  <2>2. Joined(t, s, A, plan)
    BY <1>10, <1>11, <1>12, <1>17 DEF Joined, SameThreads, SameLegs
  <2>3. t.c.run.done = run.done \cup {n \in A : plan[n].last}
    <3>1. \A n \in A : a.c.leg[n] # NoLeg
      BY <1>10, <1>17 DEF Joined, Fresh
    <3> QED BY <1>7, <1>11, <1>13, <3>1
  <2>4. HomeJoined(t, s, A)
    BY <2>2, <2>3 DEF HomeJoined
  <2> QED BY <1>11, <1>13, <1>14, <2>1, <2>4
<1> QED BY <1>15, <1>16, <1>17

(* A handler starts, advances or ends the sequence id.                     *)
Onward(t, s, id) ==
  /\ t \in States /\ Outcome(t) /\ Quiet(t, s) /\ t.c.seq \in {id, "none"}
  /\ t.c.box = s.c.box \/ t.c.box = <<>>

LEMMA OffOnward ==
  ASSUME NEW s, NEW t, Off(t, s), t.c.box = s.c.box \/ t.c.box = <<>>, NEW id
  PROVE  Onward(t, s, id)
BY DEF Off, Onward, Outcome, Gone

LEMMA AbandonOnward ==
  ASSUME NEW s \in States, NEW t \in States, Quiet(t, s), NEW n, NEW o, NEW id
  PROVE  Onward(HomingAbandon(t, n, o), s, id) /\ Onward(HomingFail(t, o), s, id)
<1>1. HomingAbandon(t, n, o).c.box = <<>> /\ HomingFail(t, o).c.box = <<>>
  BY HomingAbandonIs, HomingFailIs
<1>2. Off(HomingAbandon(t, n, o), t) /\ Off(HomingFail(t, o), t)
  BY AbandonRests, HomingFailRests
<1> QED BY <1>1, <1>2 DEF Off, Quiet, Onward, Outcome, Gone

LEMMA EndOnward ==
  ASSUME NEW s \in States, NEW t \in States, Rest(t), Quiet(t, s), t.c.box = s.c.box, NEW id
  PROVE  Onward(SequenceEnd(t), s, id)
<1> DEFINE e == SequenceEnd(t)
<1>1. e \in States /\ SameMachine(e, t) /\ e.r = t.r /\ e.c.seq = "none"
  BY SequenceEndIs
<1>2. Gone(e) /\ e.c.box = t.c.box
  BY EndRests
<1> HIDE DEF e
<1>3. Onward(e, s, id)
  BY <1>1, <1>2 DEF Onward, Outcome, Quiet, SameMachine
<1> QED BY <1>3 DEF e

(* A homing run's legs have joined.                                        *)
LEMMA JoinedArmed ==
  ASSUME NEW s \in States, Rest(s), NEW A \in SUBSET Nodes, A # {}, NEW plan,
         NEW t \in States, Joined(t, s, A, plan), t.c.seq = "home", t.c.ringStep = FALSE,
         \A n \in A : n \notin s.c.run.done,
         t.c.run.done = s.c.run.done \cup {n \in A : plan[n].last}
  PROVE  Armed(t)
<1>1. t.c.live = TRUE /\ t.c.open = A /\ Claimed(t) = A /\ Polled(t)
  BY JoinedRest
<1>2. \A n \in A : n \in t.c.last <=> n \in t.c.run.done
  BY DEF Joined
<1> QED BY <1>1, <1>2 DEF Armed, LastLeg

LEMMA CycleStartOutcome ==
  ASSUME NEW s \in States, Rest(s), s.c.seq = "home", s.c.ringStep = FALSE,
         NEW k \in Nat, CycleNodes(s, k) # {}, NEW o
  PROVE  LET r == CycleStart(s, k, o)
         IN \/ Off(r.s, s)
            \/ r.bad # None /\ ~s.c.run.started /\ r.s \in States /\ Rest(r.s) /\ Quiet(r.s, s)
            \/ r.bad = None /\ r.s \in States /\ Armed(r.s) /\ Quiet(r.s, s)
<1> DEFINE A == CycleNodes(s, k)
           dn == s.c.run.done \ A
           ph == [n \in Nodes |-> IF n \in A THEN 0 ELSE s.c.run.phase[n]]
           run == [s.c.run EXCEPT !.cycle = k, !.done = dn, !.phase = ph]
           x == [s EXCEPT !.c.run = run]
<1>1. s.c.run \in Runs /\ A \in SUBSET Nodes /\ dn \in SUBSET Nodes
  BY DEF States, Cores, Runs, CycleNodes
<1>2. ph \in [Nodes -> Nat]
  BY <1>1 DEF Runs
<1>3. CycleStart(s, k, o) = HomeArm(x, A, o)
  <2> DEFINE r == [s.c.run EXCEPT !.cycle = k, !.done = @ \ A,
                                  !.phase = [n \in Nodes |-> IF n \in A THEN 0 ELSE @[n]]]
  <2>1. CycleStart(s, k, o) = HomeArm([s EXCEPT !.c.run = r], A, o)
    BY DEF CycleStart
  <2> HIDE DEF A
  <2>2. r = run
    BY <1>1 DEF Runs
  <2> QED BY <2>1, <2>2
<1>4. A # {}
  OBVIOUS
<1> HIDE DEF A, dn, ph
<1>5. run \in Runs
  BY <1>1, <1>2 DEF Runs
<1>6. run.started = s.c.run.started /\ run.done = dn /\ run.phase = ph
  BY <1>1 DEF Runs
<1> HIDE DEF run
<1>7. /\ x \in States /\ SameMachine(x, s) /\ SameLegs(x, s) /\ x.r = s.r
      /\ x.c.seq = s.c.seq /\ x.c.ringStep = s.c.ringStep /\ x.c.run = run
  BY <1>5, RunSetIs
<1>8. x.c.open = s.c.open
  BY DEF States, Cores
<1> HIDE DEF x
<1>9. Rest(x) /\ Held(x) /\ Quiet(x, s)
  BY <1>7, <1>8, RestPolled DEF Rest, SameLegs, Held, Quiet, SameMachine
<1>10. \A n \in A : n \notin run.done /\ run.phase[n] + OnSwitchSkip(run, n) <= 3
  BY <1>1, <1>6 DEF dn, ph, OnSwitchSkip
<1> DEFINE r == HomeArm(x, A, o)
<1>11. \/ Off(r.s, x) /\ x.c.run.started \in BOOLEAN
       \/ /\ r.bad # None /\ ~x.c.run.started /\ r.s \in States /\ Quiet(r.s, x)
          /\ SameThreads(r.s, x) /\ r.s.c.leg = x.c.leg /\ r.s.c.live = x.c.live
       \/ /\ r.bad = None /\ r.s \in States /\ Quiet(r.s, x)
          /\ r.s.c.seq = "home" /\ r.s.c.ringStep = x.c.ringStep /\ HomeJoined(r.s, x, A)
  <2>1. \A n \in A : x.c.run.job[n] \notin {"park", "rotary"} =>
                       x.c.run.phase[n] + OnSwitchSkip(x.c.run, n) <= 3
    BY <1>7, <1>10
  <2>2. x.c.seq = "home"
    BY <1>7
  <2> HIDE DEF x
  <2>3. x \in States
    BY <1>7
  <2>4. Held(x)
    BY <1>9
  <2>5. A \in SUBSET Nodes
    BY <1>1
  <2> QED BY <1>4, <2>1, <2>2, <2>3, <2>4, <2>5, HomeArmJoins
<1> HIDE DEF r
<1>12. Quiet(r.s, x) => Quiet(r.s, s)
  BY <1>9 DEF Quiet
<1>13. CASE Off(r.s, x)
  BY <1>3, <1>12, <1>13 DEF Off, r
<1>14. CASE /\ r.bad # None /\ ~x.c.run.started /\ r.s \in States /\ Quiet(r.s, x)
            /\ SameThreads(r.s, x) /\ r.s.c.leg = x.c.leg /\ r.s.c.live = x.c.live
  <2>1. Rest(r.s)
    BY <1>9, <1>14 DEF Rest, SameThreads
  <2> QED BY <1>3, <1>6, <1>7, <1>12, <1>14, <2>1 DEF r
<1>15. CASE /\ r.bad = None /\ r.s \in States /\ Quiet(r.s, x)
            /\ r.s.c.seq = "home" /\ r.s.c.ringStep = x.c.ringStep /\ HomeJoined(r.s, x, A)
  <2>1. PICK plan : /\ Joined(r.s, x, A, plan)
                    /\ r.s.c.run.done = x.c.run.done \cup {n \in A : plan[n].last}
    BY <1>15 DEF HomeJoined
  <2>2. Armed(r.s)
    BY <1>1, <1>4, <1>7, <1>9, <1>10, <1>15, <2>1, JoinedArmed
  <2> QED BY <1>3, <1>12, <1>15, <2>2 DEF r
<1> QED BY <1>11, <1>13, <1>14, <1>15

LEMMA CommitRests ==
  ASSUME NEW s \in States, Rest(s), NEW apart, NEW o
  PROVE  LET x == CycleCommit(s, apart, o)
         IN \/ x.ok = FALSE /\ Off(x.s, s)
            \/ x.ok = TRUE /\ x.s \in States /\ Rest(x.s) /\ SameMachine(x.s, s) /\ SameSequence(x.s, s)
<1> DEFINE homed  == {n \in CycleNodes(s, s.c.run.cycle) : s.c.run.job[n] # "park"}
           dated  == OriginDatum(s, homed, PulledOff(s), o)
<1>1. homed \in SUBSET Nodes
  BY DEF CycleNodes
<1>2. PulledOff(s) \in [Nodes -> Places]
  BY DEF PulledOff, States, NodeStates, Places
<1> HIDE DEF homed
<1>3. dated \in States /\ SameMachine(dated, s) /\ SameSequence(dated, s) /\ SameLegs(dated, s)
  BY <1>1, <1>2, OriginDatumIs
<1>4. SameThreads(dated, s)
  BY DatumThreads
<1>5. \/ \E n : CycleCommit(s, apart, o) = [s |-> HomingAbandon(s, n, o), ok |-> FALSE]
      \/ \E n : CycleCommit(s, apart, o) = [s |-> HomingAbandon(dated, n, o), ok |-> FALSE]
      \/ CycleCommit(s, apart, o) = [s |-> dated, ok |-> TRUE]
  BY DEF CycleCommit, homed
<1> HIDE DEF dated
<1>6. \A n : Off(HomingAbandon(s, n, o), s) /\ Off(HomingAbandon(dated, n, o), dated)
  BY <1>3, AbandonRests
<1>8. Rest(dated) /\ Quiet(dated, s)
  BY <1>3, <1>4, SameRest DEF Quiet, SameMachine, SameSequence, SameLegs
<1>9. \A n : Off(HomingAbandon(dated, n, o), s)
  BY <1>6, <1>8 DEF Off, Quiet
<1> QED BY <1>3, <1>5, <1>6, <1>8, <1>9

LEMMA HomeNextOutcome ==
  ASSUME NEW s \in States, Rest(s), s.c.seq = "home", s.c.ringStep = FALSE, Chains(s.c.run),
         NEW apart, NEW o
  PROVE  Onward(HomeNext(s, apart, o), s, "home")
<1> DEFINE x == CycleCommit(s, apart, o)
           d == x.s
           next == CycleAfter(s, s.c.run.cycle)
           t == HomeNext(s, apart, o)
<1>0. t.c.box = s.c.box \/ t.c.box = <<>>
  <2>1. HomeGoes(t, s)
    BY RestPolled, HomeNextIs DEF Held
  <2> QED BY <2>1 DEF HomeGoes, Fails, Stays
<1>1. \/ x.ok = FALSE /\ Off(d, s)
      \/ x.ok = TRUE /\ d \in States /\ Rest(d) /\ SameMachine(d, s) /\ SameSequence(d, s)
  BY CommitRests
<1>7. x.ok = TRUE => d.c.box = s.c.box
  <2>1. x.ok = TRUE => SameLegs(d, s)
    BY CycleCommitIs
  <2> HIDE DEF x
  <2> QED BY <2>1 DEF SameLegs
<1>2. t = IF ~x.ok THEN d ELSE IF next = 0 THEN SequenceEnd(d) ELSE CycleStart(d, next, o).s
  BY DEF HomeNext
<1>3. s.c.run.cycle \in Nat
  BY DEF States, Cores, Runs
<1> HIDE DEF x
<1>4. CASE x.ok = FALSE
  BY <1>0, <1>1, <1>2, <1>4, OffOnward
<1>5. CASE x.ok = TRUE
  <2>1. d \in States /\ Rest(d) /\ SameMachine(d, s) /\ SameSequence(d, s) /\ d.c.box = s.c.box
    BY <1>1, <1>5, <1>7
  <2>2. d.c.run = s.c.run /\ d.c.seq = "home" /\ d.c.ringStep = FALSE /\ Quiet(d, s)
    BY <2>1 DEF SameSequence, SameMachine, Quiet
  <2> HIDE DEF d, next
  <2>3. CASE next = 0
    BY <1>2, <1>5, <2>1, <2>2, <2>3, EndOnward
  <2>4. CASE next # 0
    <3>1. next \in Nat /\ CycleNodes(s, next) # {}
      BY <1>3, <2>4, CycleAfterIs DEF next
    <3>2. CycleNodes(d, next) = CycleNodes(s, next)
      BY <2>2 DEF CycleNodes
    <3> DEFINE r == CycleStart(d, next, o)
    <3>3. d.c.run.started
      BY <2>2 DEF Chains
    <3>4. \/ Off(r.s, d)
          \/ r.bad # None /\ ~d.c.run.started /\ r.s \in States /\ Rest(r.s) /\ Quiet(r.s, d)
          \/ r.bad = None /\ r.s \in States /\ Armed(r.s) /\ Quiet(r.s, d)
      BY <2>1, <2>2, <3>1, <3>2, CycleStartOutcome
    <3>5. t = r.s
      BY <1>2, <1>5, <2>4
    <3> HIDE DEF r
    <3>6. r.s \in States /\ Quiet(r.s, s) /\ Outcome(r.s)
      BY <2>2, <3>3, <3>4 DEF Off, Quiet, Outcome
    <3>7. t.c.seq \in {"home", "none"}
      <4>1. HomeGoes(t, s)
        BY RestPolled, HomeNextIs DEF Held
      <4> QED BY <4>1 DEF HomeGoes, Fails, Torn, Stays
    <3> HIDE DEF t
    <3>8. Onward(t, s, "home")
      BY <1>0, <3>5, <3>6, <3>7 DEF Onward
    <3> QED BY <3>8 DEF t
  <2> QED BY <2>3, <2>4
<1> QED BY <1>1, <1>4, <1>5

(* A leg has ended and the sequence has not heard: its thread is open only *)
(* when a homing run is to arm its next.                                   *)
Almost(s, n) ==
  /\ s.c.live = TRUE /\ s.c.seq # "none" /\ s.c.ringStep = FALSE /\ s.c.open # {}
  /\ Claimed(s) = s.c.open \ {n} /\ Polled(s) /\ \A m \in s.c.open \ {n} : LastLeg(s, m)
  /\ n \in s.c.open <=> s.c.seq = "home" /\ n \notin s.c.run.done

LEMMA AlmostArmed ==
  ASSUME NEW s \in States, NEW n, Almost(s, n), s.c.seq # "home" \/ n \in s.c.run.done
  PROVE  Armed(s)
BY DEF Almost, Armed

LEMMA RejoinedArmed ==
  ASSUME NEW s \in States, NEW n \in Nodes, Almost(s, n), s.c.seq = "home", n \notin s.c.run.done,
         NEW t \in States, HomeJoined(t, s, {n}), t.c.seq = "home", t.c.ringStep = FALSE
  PROVE  Armed(t)
<1>1. PICK plan : /\ Joined(t, s, {n}, plan)
                  /\ t.c.run.done = s.c.run.done \cup {m \in {n} : plan[m].last}
  BY DEF HomeJoined
<1>2. s.c.open \in SUBSET Nodes /\ n \in s.c.open
  BY DEF States, Cores, Almost
<1>3. t.c.open = s.c.open /\ t.c.live = TRUE
  BY <1>1, <1>2 DEF Joined
<1>4. \A m \in Nodes : IF m = n THEN Fresh(t.c.leg[m], plan[m]) ELSE t.c.leg[m] = s.c.leg[m]
  BY <1>1 DEF Joined
<1>5. Claimed(t) = t.c.open
  <2>1. \A m \in Nodes : t.c.leg[m] # NoLeg <=> m = n \/ m \in Claimed(s)
    BY <1>4 DEF Claimed, Fresh
  <2> QED BY <1>2, <1>3, <2>1 DEF Claimed, Almost
<1>6. Polled(t)
  BY <1>4, LegsAssumption DEF Polled, Fresh, Almost
<1>7. ASSUME NEW m \in t.c.open PROVE LastLeg(t, m)
  <2>1. CASE m = n
    BY <1>1, <2>1 DEF Joined, LastLeg
  <2>2. CASE m # n
    <3>1. LastLeg(s, m)
      BY <1>3, <2>2 DEF Almost
    <3>2. (m \in t.c.last <=> m \in s.c.last) /\ (m \in t.c.run.done <=> m \in s.c.run.done)
      BY <1>1, <2>2 DEF Joined
    <3> QED BY <3>1, <3>2 DEF LastLeg
  <2> QED BY <2>1, <2>2
<1> QED BY <1>2, <1>3, <1>5, <1>6, <1>7 DEF Armed

LEMMA HomeLegEndedOutcome ==
  ASSUME NEW s \in States, NEW n \in Nodes, Almost(s, n), s.c.seq = "home", Chains(s.c.run), NEW o
  PROVE  Onward(HomeLegEnded(s, n, o), s, "home")
<1> DEFINE ph == [s.c.run.phase EXCEPT ![n] = @ + 1]
           run == [s.c.run EXCEPT !.phase = ph]
           x == [s EXCEPT !.c.run = run]
           r == HomeArm(x, {n}, o)
           t == HomeLegEnded(s, n, o)
<1>0. Held(s)
  BY DEF Almost, Held
<1>1. s.c.run \in Runs /\ s.c.run.phase[n] \in Nat
  BY DEF States, Cores, Runs
<1>2. \/ n \in s.c.run.done /\ t = s
      \/ t = HomingAbandon(s, n, o)
      \/ n \notin s.c.run.done /\ t = r.s
  BY DEF HomeLegEnded
<1>3. t \in States /\ t.c.seq \in {"home", "none"} /\ (t.c.box = s.c.box \/ t.c.box = <<>>)
  BY <1>0, HomeLegEndedIs DEF HomeGoes, Fails, Torn, Stays
<1>4. CASE n \in s.c.run.done /\ t = s
  BY <1>4, AlmostArmed DEF Onward, Outcome, Quiet
<1>5. CASE t = HomingAbandon(s, n, o)
  BY <1>5, AbandonOnward DEF Quiet
<1>6. CASE n \notin s.c.run.done /\ t = r.s
  <2>1. ph \in [Nodes -> Nat] /\ ph[n] = s.c.run.phase[n] + 1
    BY <1>1 DEF Runs
  <2> HIDE DEF ph
  <2>2. run \in Runs
    BY <1>1, <2>1 DEF Runs
  <2>3. /\ run.started = s.c.run.started /\ run.job = s.c.run.job /\ run.done = s.c.run.done
        /\ run.phase = ph /\ run.onSwitch = s.c.run.onSwitch /\ run.onSwitch \in SUBSET Nodes
    BY <1>1 DEF Runs
  <2> HIDE DEF run
  <2>4. /\ x \in States /\ SameMachine(x, s) /\ SameLegs(x, s) /\ x.r = s.r
        /\ x.c.seq = s.c.seq /\ x.c.ringStep = s.c.ringStep /\ x.c.run = run
    BY <2>2, RunSetIs
  <2>5. SameThreads(x, s)
    BY DEF States, Cores, SameThreads
  <2> HIDE DEF x
  <2>6. x.c.run.job[n] \notin {"park", "rotary"} => x.c.run.phase[n] + OnSwitchSkip(x.c.run, n) <= 3
    <3>1. Chain(s.c.run, n)
      BY DEF Chains
    <3>2. run.job[n] \notin {"park", "rotary"} => run.phase[n] + OnSwitchSkip(run, n) <= 3
      BY <1>1, <1>6, <2>1, <2>3, <3>1 DEF Chain, OnSwitchSkip
    <3> QED BY <2>4, <3>2
  <2>7. Almost(x, n)
    BY <2>3, <2>4, <2>5 DEF Almost, SameLegs, SameThreads, Claimed, Polled, LastLeg
  <2>8. Held(x) /\ x.c.seq = "home" /\ Quiet(x, s) /\ x \in States
    BY <2>4, <2>7 DEF Almost, Held, Quiet, SameMachine
  <2>9. x.c.run.started /\ n \notin x.c.run.done
    BY <1>6, <2>3, <2>4 DEF Chains
  <2>10. \/ Off(r.s, x) /\ x.c.run.started \in BOOLEAN
         \/ /\ r.bad # None /\ ~x.c.run.started /\ r.s \in States /\ Quiet(r.s, x)
            /\ SameThreads(r.s, x) /\ r.s.c.leg = x.c.leg /\ r.s.c.live = x.c.live
         \/ /\ r.bad = None /\ r.s \in States /\ Quiet(r.s, x)
            /\ r.s.c.seq = "home" /\ r.s.c.ringStep = x.c.ringStep /\ HomeJoined(r.s, x, {n})
    BY <2>6, <2>8, HomeArmJoins
  <2>11. x.c.ringStep = FALSE
    BY <2>7 DEF Almost
  <2> HIDE DEF r
  <2>12. Outcome(r.s) /\ Quiet(r.s, s)
    <3>1. CASE Off(r.s, x)
      BY <2>8, <3>1 DEF Off, Outcome, Quiet
    <3>2. CASE /\ r.bad = None /\ r.s \in States /\ Quiet(r.s, x)
               /\ r.s.c.seq = "home" /\ r.s.c.ringStep = x.c.ringStep /\ HomeJoined(r.s, x, {n})
      <4>1. Armed(r.s)
        BY <2>7, <2>8, <2>9, <2>11, <3>2, RejoinedArmed
      <4> QED BY <2>8, <3>2, <4>1 DEF Outcome, Quiet
    <3> QED BY <2>9, <2>10, <3>1, <3>2
  <2> HIDE DEF t
  <2>13. Onward(t, s, "home")
    BY <1>3, <1>6, <2>12 DEF Onward
  <2> QED BY <2>13 DEF t
<1> HIDE DEF r
<1> QED BY <1>2, <1>4, <1>5, <1>6

LEMMA HomeStartOutcome ==
  ASSUME NEW s \in States, Gone(s), NEW named \in SUBSET Nodes, named # {}, NEW only, NEW o
  PROVE  Onward(HomeStart(s, named, only, o), s, "home")
<1> DEFINE top   == CHOOSE k \in {Cycle[n] : n \in named} : \A n \in named : Cycle[n] <= k
           early == IF only THEN {}
                    ELSE {n \in Nodes \ named : Cycle[n] < top /\ ~(n \in Rotary /\ n \in s.c.origin)}
           park  == early \cap s.c.origin
           mine  == (named \cup early) \ park
           job   == [n \in Nodes |-> CASE n \in park            -> "park"
                                      [] n \in mine \cap Rotary -> "rotary"
                                      [] n \in mine \ Rotary    -> "linear"
                                      [] OTHER                  -> "none"]
           woken == Enable(s, named \cup early, o)
           st    == SequenceStart(woken, "home")
           run   == [NoRun EXCEPT !.job = job]
           open  == [st EXCEPT !.c.run = run]
           k     == CycleAfter(open, 0)
           r     == CycleStart(open, k, o)
           t     == HomeStart(s, named, only, o)
<1>0. t \in States /\ t.c.seq \in {"home", "none"} /\ (t.c.box = s.c.box \/ t.c.box = <<>>)
  <2>1. Held(s) /\ s.c.seq = "none"
    BY RestPolled DEF Held, Gone
  <2>2. Begins(t, s, "home")
    BY <2>1, HomeStartIs
  <2> HIDE DEF t
  <2> QED BY <2>1, <2>2 DEF Begins, Fails, Torn
<1>1. t = IF Deaf(named \cup early, o) # {} THEN woken
          ELSE IF r.bad # None THEN SequenceEnd(r.s) ELSE r.s
  BY DEF HomeStart
<1>2. early \in SUBSET Nodes
  OBVIOUS
<1> HIDE DEF early
<1>3. job \in [Nodes -> HomeJobs] /\ \A n \in named : job[n] # "none"
  BY <1>2 DEF HomeJobs
<1> HIDE DEF job
<1>4. /\ woken \in States /\ SameMachine(woken, s) /\ SameSequence(woken, s) /\ SameLegs(woken, s)
      /\ SameThreads(woken, s)
  BY <1>2, EnableIs, EnableThreads
<1> HIDE DEF woken
<1>5. /\ st \in States /\ SameMachine(st, woken) /\ SameLegs(st, woken) /\ st.r = woken.r
      /\ st.c.seq = "home" /\ st.c.ringStep = FALSE /\ SameThreads(st, woken)
  BY <1>4, SequenceStartIs, EndThreads DEF SeqIds
<1> HIDE DEF st
<1>6. run \in Runs /\ run.job = job
  BY <1>3 DEF NoRun, Runs
<1> HIDE DEF run
<1>7. /\ open \in States /\ SameMachine(open, st) /\ SameLegs(open, st) /\ open.r = st.r
      /\ open.c.seq = st.c.seq /\ open.c.ringStep = st.c.ringStep /\ open.c.run = run
  BY <1>5, <1>6, RunSetIs
<1>8. SameThreads(open, st)
  BY <1>5 DEF States, Cores, SameThreads
<1> HIDE DEF open
<1>9. /\ Rest(woken) /\ Rest(open) /\ Quiet(woken, s) /\ Quiet(open, s)
      /\ open.c.seq = "home" /\ open.c.ringStep = FALSE /\ woken.c.seq = "none"
  BY <1>4, <1>5, <1>7, <1>8 DEF Gone, Rest, SameThreads, SameLegs, SameMachine, SameSequence, Quiet
<1>10. k # 0
  <2>1. PICK n \in named : TRUE
    OBVIOUS
  <2>2. n \in {m \in Nodes : open.c.run.job[m] # "none" /\ Cycle[m] > 0}
    BY <1>3, <1>6, <1>7, LegsAssumption
  <2> DEFINE ks == {Cycle[m] : m \in {m \in Nodes : open.c.run.job[m] # "none" /\ Cycle[m] > 0}}
  <2>3. ks \in SUBSET Nat /\ ks # {} /\ 0 \notin ks
    BY <2>2, LegsAssumption
  <2>4. k = CHOOSE j \in ks : \A i \in ks : j <= i
    BY <2>3 DEF CycleAfter
  <2> HIDE DEF ks, k
  <2>5. \E j \in ks : \A i \in ks : j <= i
    BY <2>3, LeastExists
  <2> QED BY <2>3, <2>4, <2>5
<1>11. k \in Nat /\ CycleNodes(open, k) # {}
  BY <1>10, CycleAfterIs
<1> HIDE DEF k
<1>12. \/ Off(r.s, open)
       \/ r.bad # None /\ ~open.c.run.started /\ r.s \in States /\ Rest(r.s) /\ Quiet(r.s, open)
       \/ r.bad = None /\ r.s \in States /\ Armed(r.s) /\ Quiet(r.s, open)
  BY <1>7, <1>9, <1>11, CycleStartOutcome
<1> HIDE DEF r, t
<1>13. Outcome(t) /\ Quiet(t, s)
  <2>1. CASE t = woken
    BY <1>9, <2>1 DEF Outcome, Gone
  <2>2. r.s \in States /\ Quiet(r.s, s)
    BY <1>9, <1>12 DEF Off, Quiet
  <2>3. CASE t = SequenceEnd(r.s) /\ r.bad # None
    <3>1. Rest(r.s)
      BY <1>12, <2>3 DEF Off, Gone
    <3>2. Gone(t)
      BY <2>2, <2>3, <3>1, EndRests
    <3>3. Quiet(t, s)
      BY <2>2, <2>3, SequenceEndIs DEF Quiet, SameMachine
    <3> QED BY <3>2, <3>3 DEF Outcome
  <2>4. CASE t = r.s /\ r.bad = None
    BY <1>12, <2>2, <2>4 DEF Off, Outcome
  <2> QED BY <1>1, <2>1, <2>3, <2>4
<1> QED BY <1>0, <1>13 DEF Onward, t

----------------------------------------------------------------------------
(* Recovery's outcomes                                                     *)

(* Threads, kept by an assignment to what is no leg's.                     *)
LEMMA FieldThreads ==
  ASSUME NEW s \in States, NEW v
  PROVE  /\ SameThreads([s EXCEPT !.c.parking = v], s)
         /\ SameThreads([s EXCEPT !.c.rec = v], s)
         /\ SameThreads([s EXCEPT !.c.steps = v], s)
         /\ SameThreads([s EXCEPT !.c.why = v], s)
BY DEF States, Cores, SameThreads

LEMMA RecoveryParkOutcome ==
  ASSUME NEW s \in States, Rest(s), s.c.seq = "recovery", s.c.ringStep = FALSE, NEW o
  PROVE  Onward(RecoveryPark(s, o), s, "recovery")
<1> DEFINE x == [s EXCEPT !.c.parking = TRUE]
           D == s.c.rec \cap s.c.origin
           plan == [n \in D |-> Park]
           armed == Arm(x, plan, o)
           a == armed.s
           t == RecoveryPark(s, o)
<1>1. /\ x \in States /\ SameMachine(x, s) /\ SameLegs(x, s) /\ x.r = s.r
      /\ x.c.seq = s.c.seq /\ x.c.ringStep = s.c.ringStep
  BY ParkingIs
<1>2. SameThreads(x, s)
  BY FieldThreads
<1>3. D \in SUBSET Nodes /\ plan \in [D -> Plans] /\ \A n \in D : plan[n].last
  BY DEF Park, Leg, Plans, Intents, Places, States, Cores
<1>4. \/ t = HomingAbandon(a, armed.bad, o)
      \/ armed.bad = None /\ ~armed.any /\ t = SequenceEnd(a)
      \/ armed.bad = None /\ armed.any /\ t = a
  BY DEF RecoveryPark
<1> HIDE DEF x, D, plan, t
<1>5. Rest(x) /\ Held(x) /\ x.c.box = s.c.box /\ Quiet(x, s)
  BY <1>1, <1>2, RestPolled, SameRest DEF SameLegs, Held, Quiet, SameMachine
<1>6. /\ a \in States /\ a.c.seq = "recovery" /\ (IF armed.any THEN Armed(a) ELSE Rest(a))
  <2>1. x.c.seq # "none" /\ x.c.seq # "home" /\ x.c.ringStep = FALSE /\ x.c.seq = "recovery"
    BY <1>1
  <2>2. /\ armed.s \in States /\ armed.s.c.seq = x.c.seq /\ armed.s.c.ringStep = FALSE
        /\ IF armed.any THEN Armed(armed.s) ELSE Rest(armed.s)
        /\ armed.bad = None => armed.any = (D # {})
        /\ armed.any \in BOOLEAN
    BY <1>1, <1>3, <1>5, <2>1, ArmOutcome
  <2> QED BY <2>1, <2>2
<1>7. SameMachine(a, x) /\ SameSequence(a, x) /\ a.c.box = x.c.box
  BY <1>1, <1>3, ArmIs
<1> HIDE DEF armed
<1>8. a.c.box = s.c.box /\ Quiet(a, s)
  BY <1>5, <1>7 DEF Quiet, SameMachine, SameSequence
<1> HIDE DEF a
<1>9. CASE t = HomingAbandon(a, armed.bad, o)
  BY <1>6, <1>8, <1>9, AbandonOnward DEF t
<1>10. CASE armed.bad = None /\ ~armed.any /\ t = SequenceEnd(a)
  BY <1>6, <1>8, <1>10, EndOnward DEF t
<1>11. CASE armed.bad = None /\ armed.any /\ t = a
  <2>1. Onward(a, s, "recovery")
    BY <1>6, <1>8, <1>11 DEF Onward, Outcome
  <2> QED BY <1>11, <2>1 DEF t
<1> QED BY <1>4, <1>9, <1>10, <1>11

LEMMA RecoveryStartOutcome ==
  ASSUME NEW s \in States, Gone(s), NEW o
  PROVE  Onward(RecoveryStart(s, o), s, "recovery")
<1> DEFINE rec   == s.c.latch
           woken == Enable(s, rec, o)
           plan  == [n \in rec |-> Leg(IF n \in s.c.origin THEN "unlatch" ELSE "retract", "between", TRUE)]
           st == SequenceStart(woken, "recovery")
           x == [st EXCEPT !.c.rec = rec]
           armed == Arm(x, plan, o)
           a == armed.s
           t == RecoveryStart(s, o)
<1>1. rec \in SUBSET Nodes
  BY DEF States, Cores
<1>2. plan \in [rec -> Plans] /\ \A n \in rec : plan[n].last
  BY DEF Leg, Plans, Intents, Places
<1>3. \/ t = woken
      \/ rec # {} /\ armed.bad = None /\ t = a
      \/ t = HomingAbandon(a, armed.bad, o)
      \/ armed.bad # None /\ ~armed.any /\ t = SequenceEnd(a)
  BY DEF RecoveryStart
<1> HIDE DEF rec, plan, t
<1>4. /\ woken \in States /\ SameMachine(woken, s) /\ SameSequence(woken, s) /\ SameLegs(woken, s)
      /\ SameThreads(woken, s)
  BY <1>1, EnableIs, EnableThreads
<1> HIDE DEF woken
<1>5. /\ st \in States /\ SameMachine(st, woken) /\ SameLegs(st, woken) /\ st.r = woken.r
      /\ st.c.seq = "recovery" /\ st.c.ringStep = FALSE /\ SameThreads(st, woken)
  BY <1>4, SequenceStartIs, EndThreads DEF SeqIds
<1> HIDE DEF st
<1>6. /\ x \in States /\ SameMachine(x, st) /\ SameLegs(x, st) /\ x.r = st.r
      /\ x.c.seq = st.c.seq /\ x.c.ringStep = st.c.ringStep
  BY <1>1, <1>5, RecIs
<1>7. SameThreads(x, st)
  BY <1>5, FieldThreads
<1> HIDE DEF x
<1>8. /\ Rest(woken) /\ Rest(x) /\ Quiet(woken, s) /\ Quiet(x, s) /\ woken.c.seq = "none"
      /\ x.c.box = s.c.box /\ woken.c.box = s.c.box
  BY <1>4, <1>5, <1>6, <1>7 DEF Gone, Rest, SameThreads, SameLegs, SameMachine, SameSequence, Quiet
<1>9. /\ a \in States /\ a.c.seq = x.c.seq /\ (IF armed.any THEN Armed(a) ELSE Rest(a))
      /\ (armed.bad = None => armed.any = (rec # {}))
  <2>1. x.c.seq # "none" /\ x.c.seq # "home" /\ x.c.ringStep = FALSE
    BY <1>5, <1>6
  <2>2. /\ armed.s \in States /\ armed.s.c.seq = x.c.seq /\ armed.s.c.ringStep = FALSE
        /\ IF armed.any THEN Armed(armed.s) ELSE Rest(armed.s)
        /\ armed.bad = None => armed.any = (rec # {})
        /\ armed.any \in BOOLEAN
    BY <1>1, <1>2, <1>6, <1>8, <2>1, ArmOutcome
  <2> QED BY <2>2
<1>10. SameMachine(a, x) /\ SameSequence(a, x) /\ a.c.box = x.c.box
  BY <1>1, <1>2, <1>6, ArmIs
<1> HIDE DEF armed
<1>11. a.c.box = s.c.box /\ Quiet(a, s)
  BY <1>8, <1>10 DEF Quiet, SameMachine, SameSequence
<1> HIDE DEF a
<1>12. CASE t = woken
  <2>1. Onward(woken, s, "recovery")
    BY <1>4, <1>8 DEF Onward, Outcome, Gone
  <2> QED BY <1>12, <2>1 DEF t
<1>13. CASE rec # {} /\ armed.bad = None /\ t = a
  <2>1. Onward(a, s, "recovery")
    BY <1>5, <1>6, <1>9, <1>11, <1>13 DEF Onward, Outcome
  <2> QED BY <1>13, <2>1 DEF t
<1>14. CASE t = HomingAbandon(a, armed.bad, o)
  BY <1>9, <1>11, <1>14, AbandonOnward DEF t
<1>15. CASE armed.bad # None /\ ~armed.any /\ t = SequenceEnd(a)
  BY <1>9, <1>11, <1>15, EndOnward DEF t
<1> QED BY <1>3, <1>12, <1>13, <1>14, <1>15

----------------------------------------------------------------------------
(* The outcomes of a recipe's steps                                        *)

LEMMA QueueRolls ==
  ASSUME NEW s \in States, Rest(s), s.c.seq # "none", NEW moves \in SUBSET Nodes
  PROVE  LET t == [s EXCEPT !.r.state = "queued", !.r.moves = moves, !.c.ringStep = TRUE]
         IN Rolling(t) /\ Quiet(t, s)
<1> DEFINE t == [s EXCEPT !.r.state = "queued", !.r.moves = moves, !.c.ringStep = TRUE]
<1>1. /\ t.c.live = s.c.live /\ t.c.open = s.c.open /\ t.c.leg = s.c.leg /\ t.c.seq = s.c.seq
      /\ t.c.ringStep = TRUE /\ t.c.estop = s.c.estop /\ t.r.state = "queued" /\ t.r.facts = s.r.facts
  BY DEF States, Cores, Rings
<1> HIDE DEF t
<1>2. Rolling(t) /\ Quiet(t, s)
  BY <1>1 DEF Rolling, Coming, Rest, Quiet
<1> QED BY <1>2 DEF t

(* A step of the recipe is under way, is refused, or is not there.         *)
Stepped(x, s) ==
  \/ x.out = FALSE /\ x.bad = TRUE /\ Off(x.s, s)
  \/ /\ x.out = FALSE /\ x.bad \in BOOLEAN /\ x.s \in States /\ Rest(x.s) /\ Quiet(x.s, s)
     /\ x.s.c.seq = s.c.seq
  \/ /\ x.out = TRUE /\ x.bad = FALSE /\ x.s \in States /\ (Armed(x.s) \/ Rolling(x.s)) /\ Quiet(x.s, s)
     /\ x.s.c.seq = s.c.seq

LEMMA NextStepOutcome ==
  ASSUME NEW s \in States, Rest(s), s.c.seq # "none", s.c.seq # "home", s.c.ringStep = FALSE,
         NEW line, NEW o
  PROVE  Stepped(NextStep(s, line, o), s)
<1> DEFINE steps   == s.c.steps
           Skip(k) == (k = "line" /\ line = "near") \/ (k # "line" /\ DOMAIN StepPlan(k) = {})
                      \/ (k = "a" /\ \A n \in Rotary : n \in s.c.origin /\ s.c.seen[n] = "park")
           idx     == {i \in 1 .. Len(steps) : ~Skip(steps[i])}
           i       == CHOOSE j \in idx : \A k \in idx : j <= k
           ks      == IF idx = {} THEN <<>> ELSE SubSeq(steps, i + 1, Len(steps))
           rest    == [s EXCEPT !.c.steps = ks]
           queued  == [rest EXCEPT !.r.state = "queued", !.r.moves = XY, !.c.ringStep = TRUE]
           plan    == StepPlan(steps[i])
           armed   == Arm(rest, plan, o)
           a       == armed.s
           D       == IF steps[i] = "zs" THEN Zs ELSE Rotary
           x       == NextStep(s, line, o)
<1>2. steps \in Seq(StepKinds)
  BY DEF States, Cores
<1>3. idx # {} => i \in 1 .. Len(steps) /\ i \in idx
  <2>1. idx \in SUBSET Nat
    BY <1>2
  <2>2. idx # {} => \E j \in idx : \A k \in idx : j <= k
    <3> HIDE DEF idx
    <3> QED BY <2>1, LeastExists
  <2> QED BY <2>2
<1>1. \/ x \in { [s |-> rest, out |-> FALSE, bad |-> FALSE], [s |-> rest, out |-> FALSE, bad |-> TRUE],
                 [s |-> queued, out |-> TRUE, bad |-> FALSE] }
      \/ /\ armed.bad = None /\ idx # {} /\ steps[i] # "line"
         /\ x = [s |-> a, out |-> TRUE, bad |-> FALSE]
      \/ /\ armed.bad # None
         /\ x = [s |-> IF armed.any THEN HomingAbandon(a, armed.bad, o) ELSE a, out |-> FALSE, bad |-> TRUE]
  <2> DEFINE sent == [s EXCEPT !.c.steps = IF idx = {} THEN <<>> ELSE SubSeq(@, i + 1, Len(@))]
             queues == line = "far" /\ RingIdle(s) /\ ~s.r.abort
             StepReply(r) == IF r.bad = None THEN [s |-> r.s, out |-> TRUE, bad |-> FALSE]
                            ELSE [s |-> IF r.any THEN HomingAbandon(r.s, r.bad, o) ELSE r.s,
                                  out |-> FALSE, bad |-> TRUE]
             Sends(q) == CASE idx = {} -> [s |-> q, out |-> FALSE, bad |-> FALSE]
                           [] idx # {} /\ steps[i] = "line" ->
                                IF ~queues THEN [s |-> q, out |-> FALSE, bad |-> TRUE]
                                ELSE [s |-> [q EXCEPT !.r.state = "queued", !.r.moves = XY, !.c.ringStep = TRUE],
                                      out |-> TRUE, bad |-> FALSE]
                           [] OTHER -> StepReply(Arm(q, StepPlan(steps[i]), o))
  <2>1. rest = sent
    BY DEF States, Cores
  <2>2. NextStep(s, line, o) = Sends(sent)
    BY DEF NextStep
  <2> HIDE DEF sent, idx, i, rest, queues, steps
  <2>3. NextStep(s, line, o) = Sends(rest)
    BY <2>1, <2>2
  <2>4. CASE idx = {}
    BY <2>3, <2>4
  <2>5. CASE idx # {} /\ steps[i] = "line"
    BY <2>3, <2>5
  <2>6. CASE idx # {} /\ steps[i] # "line"
    <3>1. NextStep(s, line, o) = StepReply(armed)
      BY <2>3, <2>6
    <3> HIDE DEF armed
    <3> QED BY <2>6, <3>1
  <2> QED BY <2>4, <2>5, <2>6
<1>4. idx # {} /\ steps[i] # "line" => D # {}
  <2> HIDE DEF i, steps
  <2>1. idx # {} => ~Skip(steps[i])
    <3>1. i \in idx => ~Skip(steps[i])
      <4> HIDE DEF Skip
      <4> QED OBVIOUS
    <3> HIDE DEF idx, Skip
    <3> QED BY <1>3, <3>1
  <2> HIDE DEF idx
  <2> DEFINE k == steps[i]
  <2>2. idx # {} /\ k # "line" => DOMAIN StepPlan(k) # {}
    BY <2>1
  <2>3. DOMAIN StepPlan(k) = IF k = "zs" THEN Zs ELSE Rotary
    BY DEF StepPlan
  <2> HIDE DEF k
  <2>4. idx # {} /\ k # "line" => (IF k = "zs" THEN Zs ELSE Rotary) # {}
    BY <2>2, <2>3
  <2> QED BY <2>4 DEF k
<1> HIDE DEF i
<1>5. ks \in Seq(StepKinds)
  <2> SUFFICES ASSUME idx # {} PROVE SubSeq(steps, i + 1, Len(steps)) \in Seq(StepKinds)
    OBVIOUS
  <2>1. i + 1 \in Int /\ Len(steps) \in Int /\ \A j \in i + 1 .. Len(steps) : steps[j] \in StepKinds
    BY <1>2, <1>3
  <2> HIDE DEF idx, steps
  <2> QED BY <2>1, SubSeqProperties
<1> HIDE DEF ks, idx, x
<1>6. /\ rest \in States /\ SameMachine(rest, s) /\ SameLegs(rest, s) /\ rest.r = s.r
      /\ rest.c.seq = s.c.seq /\ rest.c.ringStep = s.c.ringStep
  BY <1>5, RestIs
<1>7. SameThreads(rest, s)
  BY FieldThreads
<1> HIDE DEF rest
<1>8. Rest(rest) /\ Quiet(rest, s)
  BY <1>6, <1>7, SameRest DEF Quiet, SameMachine
<1>9. D \in SUBSET Nodes /\ plan \in [D -> Plans] /\ \A n \in D : plan[n].last
  <2>1. plan = [n \in D |-> Park]
    BY DEF StepPlan
  <2>2. D \in SUBSET Nodes /\ plan \in [D -> Plans]
    BY StepPlanType
  <2> HIDE DEF D, plan
  <2> QED BY <2>1, <2>2 DEF Park, Leg
<1> HIDE DEF D, plan
<1>10. /\ a \in States /\ a.c.seq = s.c.seq /\ (IF armed.any THEN Armed(a) ELSE Rest(a))
       /\ (armed.bad = None => armed.any = (D # {})) /\ armed.any \in BOOLEAN
  <2>1. rest.c.seq # "none" /\ rest.c.seq # "home" /\ rest.c.ringStep = FALSE
    BY <1>6
  <2>2. /\ armed.s \in States /\ armed.s.c.seq = rest.c.seq /\ armed.s.c.ringStep = FALSE
        /\ IF armed.any THEN Armed(armed.s) ELSE Rest(armed.s)
        /\ armed.bad = None => armed.any = (D # {})
        /\ armed.any \in BOOLEAN
    BY <1>6, <1>8, <1>9, <2>1, ArmOutcome
  <2> QED BY <1>6, <2>2
<1>11. SameMachine(a, rest) /\ SameSequence(a, rest)
  BY <1>6, <1>9, ArmIs
<1> HIDE DEF armed
<1>12. Quiet(a, s)
  BY <1>8, <1>11 DEF Quiet, SameMachine, SameSequence
<1> HIDE DEF a
<1>13. queued \in States /\ queued.c.seq = rest.c.seq
  BY <1>6, QueueIs, LegsAssumption
<1>14. Rolling(queued) /\ Quiet(queued, rest)
  <2>1. XY \in SUBSET Nodes /\ rest.c.seq # "none"
    BY <1>6, LegsAssumption
  <2> QED BY <1>6, <1>8, <2>1, QueueRolls
<1> HIDE DEF queued
<1>15. CASE x \in {[s |-> rest, out |-> FALSE, bad |-> FALSE], [s |-> rest, out |-> FALSE, bad |-> TRUE]}
  <2>1. x.s = rest /\ x.out = FALSE /\ x.bad \in BOOLEAN
    <3>1. CASE x = [s |-> rest, out |-> FALSE, bad |-> FALSE]
      BY <3>1
    <3>2. CASE x = [s |-> rest, out |-> FALSE, bad |-> TRUE]
      BY <3>2
    <3> QED BY <1>15, <3>1, <3>2
  <2>2. Stepped(x, s)
    BY <1>6, <1>8, <2>1 DEF Stepped
  <2> QED BY <2>2 DEF x
<1>16. CASE x = [s |-> queued, out |-> TRUE, bad |-> FALSE]
  <2>1. Stepped(x, s)
    BY <1>6, <1>8, <1>13, <1>14, <1>16 DEF Stepped, Quiet
  <2> QED BY <2>1 DEF x
<1>17. CASE armed.bad = None /\ idx # {} /\ steps[i] # "line" /\ x = [s |-> a, out |-> TRUE, bad |-> FALSE]
  <2>1. Stepped(x, s)
    BY <1>4, <1>10, <1>12, <1>17 DEF Stepped
  <2> QED BY <2>1 DEF x
<1>18. CASE /\ armed.bad # None
            /\ x = [s |-> IF armed.any THEN HomingAbandon(a, armed.bad, o) ELSE a, out |-> FALSE, bad |-> TRUE]
  <2>1. CASE armed.any = TRUE
    <3>1. Off(HomingAbandon(a, armed.bad, o), a)
      BY <1>10, AbandonRests
    <3>2. Off(HomingAbandon(a, armed.bad, o), s)
      BY <1>12, <3>1 DEF Off, Quiet
    <3>3. Stepped(x, s)
      BY <1>18, <2>1, <3>2 DEF Stepped
    <3> QED BY <3>3 DEF x
  <2>2. CASE armed.any = FALSE
    <3>1. Stepped(x, s)
      BY <1>10, <1>12, <1>18, <2>2 DEF Stepped
    <3> QED BY <3>1 DEF x
  <2> QED BY <1>10, <2>1, <2>2
<1> QED BY <1>1, <1>15, <1>16, <1>17, <1>18

LEMMA ContinueOutcome ==
  ASSUME NEW s \in States, Rest(s), s.c.seq # "none", s.c.seq # "home", s.c.ringStep = FALSE,
         NEW line, NEW o
  PROVE  Onward(Continue(s, line, o), s, s.c.seq)
<1> DEFINE x == NextStep(s, line, o)
           w == IF s.c.seq = "toolchange" THEN "TOOL_WAIT" ELSE x.s.c.why
           y == [x.s EXCEPT !.c.why = w]
           t == Continue(s, line, o)
<1>0. t.c.box = s.c.box \/ t.c.box = <<>>
  <2>1. Continues(t, s)
    BY RestPolled, ContinueIs DEF Held
  <2> QED BY <2>1 DEF Continues, Steps, Ended
<1>1. Stepped(x, s)
  BY NextStepOutcome
<1>10. x.out = FALSE => x.s.c.box = s.c.box \/ x.s.c.box = <<>>
  <2>1. StepDone(x, s)
    BY RestPolled, NextStepIs DEF Held
  <2> QED BY <2>1 DEF StepDone, Fails, Steps
<1>2. \/ t = SequenceFail(x.s, o)
      \/ x.out = TRUE /\ t = x.s
      \/ x.out = FALSE /\ t = SequenceEnd(y)
  <2>1. x.bad \in BOOLEAN /\ x.out \in BOOLEAN
    BY <1>1 DEF Stepped
  <2>2. y = [x.s EXCEPT !.c.why = IF s.c.seq = "toolchange" THEN "TOOL_WAIT" ELSE @]
    OBVIOUS
  <2> HIDE DEF x, y
  <2> QED BY <2>1, <2>2 DEF Continue, x
<1> HIDE DEF t, x
<1>3. x.s \in States /\ Even(x.s) /\ Quiet(x.s, s)
  BY <1>1 DEF Stepped, Off, Gone, Even, Rest, Armed, Rolling
<1>4. CASE t = SequenceFail(x.s, o)
  <2>1. Off(SequenceFail(x.s, o), x.s)
    BY <1>3, SequenceFailRests
  <2>2. Off(t, s)
    BY <1>3, <1>4, <2>1 DEF Off, Quiet
  <2> QED BY <1>0, <2>2, OffOnward DEF t
<1>5. CASE x.out = TRUE /\ t = x.s
  <2>1. Onward(t, s, s.c.seq)
    BY <1>0, <1>1, <1>5 DEF Stepped, Onward, Outcome
  <2> QED BY <2>1 DEF t
<1>6. CASE x.out = FALSE /\ t = SequenceEnd(y)
  <2>1. Rest(x.s)
    BY <1>1, <1>6 DEF Stepped, Off, Gone
  <2>2. w \in {"none", "PLACE", "BUFFERING", "TOOL_CHANGE", "TOOL_WAIT"}
    BY <1>3 DEF States, Cores
  <2> DEFINE z == x.s
  <2> HIDE DEF w, z
  <2>8. z \in States
    BY <1>3 DEF z
  <2>6. y = [z EXCEPT !.c.why = w]
    BY DEF z
  <2>4. SameThreads([z EXCEPT !.c.why = w], z)
    BY <2>8, FieldThreads
  <2> HIDE DEF y
  <2>3. y \in States /\ SameLegs(y, z) /\ SameSequence(y, z) /\ y.c.estop = z.c.estop
    BY <2>2, <2>6, <2>8, WhyIs
  <2>7. y \in States /\ SameLegs(y, z) /\ SameSequence(y, z) /\ SameThreads(y, z) /\ y.c.estop = z.c.estop
    BY <2>3, <2>4, <2>6
  <2>9. Rest(y) /\ Quiet(y, s)
    BY <1>3, <2>1, <2>7, SameRest DEF z, Quiet, SameSequence
  <2>10. Gone(SequenceEnd(y)) /\ SequenceEnd(y) \in States /\ Quiet(SequenceEnd(y), y)
    BY <2>7, <2>9, EndRests, SequenceEndIs DEF Quiet, SameMachine
  <2>11. Off(t, s)
    BY <1>6, <2>9, <2>10 DEF Off, Quiet
  <2> QED BY <1>0, <2>11, OffOnward DEF t
<1> QED BY <1>2, <1>4, <1>5, <1>6

(* The sequence id is begun, and has no step yet.                          *)
Begun(t, s, id) ==
  t \in States /\ Rest(t) /\ Quiet(t, s) /\ t.c.seq = id /\ t.c.ringStep = FALSE /\ t.c.box = s.c.box

LEMMA SetRests ==
  ASSUME NEW s \in States, Rest(s), NEW id \in SeqIds, NEW ks \in Seq(StepKinds)
  PROVE  Begun([SequenceStart(s, id) EXCEPT !.c.steps = ks], s, id)
<1> DEFINE st == SequenceStart(s, id)
           t == [st EXCEPT !.c.steps = ks]
<1>1. /\ t \in States /\ SameMachine(t, s) /\ SameLegs(t, s) /\ t.r = s.r
      /\ t.c.seq = id /\ t.c.ringStep = FALSE
  <2>1. t = Recipe(s, id, ks) /\ id \in SeqIds
    BY DEF Recipe
  <2> HIDE DEF t
  <2>2. Started(Recipe(s, id, ks), s, id)
    BY <2>1, RecipeStarts
  <2> QED BY <2>1, <2>2 DEF Started
<1>2. st \in States /\ SameThreads(st, s)
  BY SequenceStartIs, EndThreads
<1> HIDE DEF st
<1>3. SameThreads(t, st)
  BY <1>2, FieldThreads
<1> HIDE DEF t
<1>4. Begun(t, s, id)
  BY <1>1, <1>2, <1>3 DEF Begun, Rest, SameLegs, SameThreads, Quiet, SameMachine
<1> QED BY <1>4 DEF t, st

LEMMA OnwardFrom ==
  ASSUME NEW t, NEW x, NEW s, NEW id, Onward(t, x, id), Quiet(x, s), x.c.box = s.c.box
  PROVE  Onward(t, s, id)
BY DEF Onward, Quiet

LEMMA BeginInJobOutcome ==
  ASSUME NEW s \in States, Rest(s), NEW id \in SeqIds \ {"none", "home"}, NEW ks \in Seq(StepKinds),
         NEW line, NEW o
  PROVE  Onward(BeginInJob(s, id, ks, line, o), s, id)
<1> DEFINE st == [SequenceStart(s, id) EXCEPT !.c.steps = ks]
<1>1. st \in States /\ Rest(st) /\ Quiet(st, s) /\ st.c.seq = id /\ st.c.ringStep = FALSE /\ st.c.box = s.c.box
  <2>1. Begun(st, s, id)
    BY SetRests
  <2> QED BY <2>1 DEF Begun
<1>2. BeginInJob(s, id, ks, line, o) = Continue(st, line, o)
  BY DEF BeginInJob
<1> HIDE DEF st
<1>3. Onward(Continue(st, line, o), st, id)
  BY <1>1, ContinueOutcome
<1>4. Onward(Continue(st, line, o), s, id)
  BY <1>1, <1>3, OnwardFrom
<1> QED BY <1>2, <1>4

LEMMA BeginOutcome ==
  ASSUME NEW s \in States, Rest(s), NEW id \in SeqIds \ {"none", "home"}, NEW ks \in Seq(StepKinds),
         NEW line, NEW o
  PROVE  Onward(Begin(s, id, ks, line, o), s, id)
<1> DEFINE st == [SequenceStart(s, id) EXCEPT !.c.steps = ks]
           x == NextStep(st, line, o)
           t == Begin(s, id, ks, line, o)
<1>1. st \in States /\ Rest(st) /\ Quiet(st, s) /\ st.c.seq = id /\ st.c.ringStep = FALSE /\ st.c.box = s.c.box
  <2>1. Begun(st, s, id)
    BY SetRests
  <2> QED BY <2>1 DEF Begun
<1>2. t = IF x.out \/ x.s.c.seq = "none" THEN x.s ELSE SequenceEnd(x.s)
  BY DEF Begin
<1> HIDE DEF st
<1>3. Stepped(x, st)
  BY <1>1, NextStepOutcome
<1>4. x.s.c.box = s.c.box \/ x.s.c.box = <<>>
  <2>1. StepDone(x, st)
    BY <1>1, RestPolled, NextStepIs DEF Held
  <2> HIDE DEF x
  <2> QED BY <1>1, <2>1 DEF StepDone, Fails, Steps
<1> HIDE DEF x
<1>5. x.s \in States /\ Quiet(x.s, s) /\ x.s.c.seq \in {id, "none"}
  BY <1>1, <1>3 DEF Stepped, Off, Quiet, Gone
<1>6. CASE x.out = TRUE
  <2>1. Onward(x.s, s, id)
    BY <1>3, <1>4, <1>5, <1>6 DEF Stepped, Onward, Outcome
  <2> QED BY <1>2, <1>6, <2>1
<1>7. CASE x.out = FALSE
  <2>1. Rest(x.s)
    BY <1>3, <1>7 DEF Stepped, Off, Gone
  <2>2. CASE x.s.c.seq = "none"
    <3>1. Onward(x.s, s, id)
      BY <1>4, <1>5, <2>1, <2>2 DEF Onward, Outcome, Gone
    <3> QED BY <1>2, <1>7, <2>2, <3>1
  <2>3. CASE x.s.c.seq # "none"
    <3> DEFINE e == SequenceEnd(x.s)
    <3>1. Gone(e) /\ e.c.box = x.s.c.box
      BY <1>5, <2>1, EndRests
    <3>2. e \in States /\ SameMachine(e, x.s) /\ e.r = x.s.r
      BY <1>5, SequenceEndIs
    <3> HIDE DEF e
    <3>3. Onward(e, s, id)
      BY <1>4, <1>5, <3>1, <3>2 DEF Onward, Outcome, Gone, Quiet, SameMachine
    <3> QED BY <1>2, <1>7, <2>3, <3>3 DEF e
  <2> QED BY <2>2, <2>3
<1>8. x.out \in BOOLEAN
  BY <1>3 DEF Stepped
<1> QED BY <1>6, <1>7, <1>8

(* The step is over: the sequence goes on, or ends.                        *)
LEMMA AdvanceOutcome ==
  ASSUME NEW s \in States, Rest(s), s.c.seq # "none", s.c.ringStep = FALSE, HomeRun(s),
         NEW line, NEW apart, NEW o
  PROVE  Onward(Advance(s, line, apart, o), s, s.c.seq)
<1> DEFINE t == Advance(s, line, apart, o)
<1>0. Onward(SequenceEnd(s), s, s.c.seq)
  BY EndOnward DEF Quiet
<1>1. CASE s.c.seq = "home"
  <2>1. t = HomeNext(s, apart, o)
    BY <1>1 DEF Advance
  <2> HIDE DEF t
  <2>2. Onward(HomeNext(s, apart, o), s, "home")
    BY <1>1, HomeNextOutcome DEF HomeRun
  <2> QED BY <1>1, <2>1, <2>2 DEF t
<1>2. CASE s.c.seq = "recovery"
  <2>1. t = IF s.c.parking THEN SequenceEnd(s) ELSE RecoveryPark(s, o)
    BY <1>2 DEF Advance
  <2> HIDE DEF t
  <2>2. Onward(RecoveryPark(s, o), s, "recovery")
    BY <1>2, RecoveryParkOutcome
  <2>3. Onward(t, s, s.c.seq)
    BY <1>0, <1>2, <2>1, <2>2
  <2> QED BY <2>3 DEF t
<1>3. CASE s.c.seq \in {"leg", "traverse"}
  <2>1. t = SequenceEnd(s)
    BY <1>3 DEF Advance
  <2> QED BY <1>0, <2>1
<1>4. CASE s.c.seq \notin {"home", "recovery", "leg", "traverse"}
  <2>1. t = Continue(s, line, o)
    BY <1>4 DEF Advance
  <2> HIDE DEF t
  <2>2. Onward(Continue(s, line, o), s, s.c.seq)
    BY <1>4, ContinueOutcome
  <2> QED BY <2>1, <2>2 DEF t
<1> QED BY <1>1, <1>2, <1>3, <1>4

----------------------------------------------------------------------------
(* What the loop's tools leave                                             *)

(* Nothing of a sequence or of its legs has changed.                       *)
Steady(t, s) ==
  /\ t \in States /\ SameLegs(t, s) /\ SameThreads(t, s) /\ SameSequence(t, s)
  /\ t.c.estop = s.c.estop /\ t.c.ctx \in {s.c.ctx, "IDLE"}

LEMMA GoneMachine ==
  ASSUME NEW s \in States, Gone(s), NEW t \in States, SameLegs(t, s), SameThreads(t, s),
         t.c.seq = s.c.seq, Quiet(t, s), NEW id
  PROVE  Gone(t) /\ Onward(t, s, id)
BY SameRest DEF Gone, Onward, Outcome, SameLegs

LEMMA ReadiedGone ==
  ASSUME NEW s \in States, Gone(s), NEW A \in SUBSET Nodes, NEW o
  PROVE  LET t == Readied(s, A, o)
         IN t \in States /\ Gone(t) /\ Quiet(t, s) /\ t.c.box = s.c.box
<1> DEFINE t == Readied(s, A, o)
<1>1. t \in States /\ SameMachine(t, s) /\ SameSequence(t, s) /\ SameLegs(t, s)
  BY ReadiedIs
<1>2. SameThreads(t, s)
  BY EnableThreads
<1> HIDE DEF t
<1>3. t \in States /\ Gone(t) /\ Quiet(t, s) /\ t.c.box = s.c.box
  BY <1>1, <1>2, SameRest DEF Gone, Quiet, SameMachine, SameSequence, SameLegs
<1> QED BY <1>3 DEF t

LEMMA FailOnward ==
  ASSUME NEW s \in States, NEW t \in States, Even(t), Quiet(t, s), t.c.box = s.c.box, NEW o, NEW id
  PROVE  Onward(SequenceFail(t, o), s, id)
<1> DEFINE f == SequenceFail(t, o)
<1>1. Off(f, t)
  BY SequenceFailRests
<1>2. f.c.box = t.c.box \/ f.c.box = <<>>
  BY EvenHolds, SequenceFailIs
<1> HIDE DEF f
<1>3. Onward(f, s, id)
  BY <1>1, <1>2 DEF Off, Onward, Outcome, Quiet, Gone
<1> QED BY <1>3 DEF f

LEMMA GoneEven ==
  ASSUME NEW s, Gone(s)
  PROVE  Even(s) /\ Rest(s)
BY DEF Gone, Even, Rest

LEMMA OwnedGone ==
  ASSUME NEW s, Outcome(s), s.c.seq = "none"
  PROVE  Gone(s)
BY DEF Outcome, Armed, Rolling

LEMMA ToolChangeTickOutcome ==
  ASSUME NEW s, Good(s), Outcome(s), NEW mounted \in BOOLEAN, NEW line, NEW o
  PROVE  ToolChangeTick(s, mounted, line, o) = s \/ Onward(ToolChangeTick(s, mounted, line, o), s, "toolchange")
<1> DEFINE on == [s EXCEPT !.c.begun = TRUE]
           swapped == [on EXCEPT !.c.why = "BUFFERING"]
           up == Readied(on, Zs, o)
           upA == Readied(up, Rotary, o)
           ks == <<"zs", "a", "line">>
           t == ToolChangeTick(s, mounted, line, o)
<1>1. CASE s.c.ctx # "JOB" \/ s.c.why # "TOOL_CHANGE" \/ s.c.begun
  BY <1>1 DEF ToolChangeTick
<1>2. CASE s.c.ctx = "JOB" /\ s.c.why = "TOOL_CHANGE" /\ ~s.c.begun
  <2>1. t \in {swapped, SequenceFail(on, o), SequenceFail(up, o), SequenceFail(upA, o),
               BeginInJob(upA, "toolchange", ks, line, o)}
    BY <1>2 DEF ToolChangeTick
  <2> HIDE DEF t
  <2>2. s \in States /\ Gone(s)
    BY <1>2, OwnedGone DEF Good, Owned
  <2>3. /\ on \in States /\ SameLegs(on, s) /\ on.c.seq = s.c.seq /\ SameThreads(on, s) /\ Quiet(on, s)
    BY <2>2 DEF States, Cores, SameLegs, SameThreads, Quiet
  <2>4. /\ swapped \in States /\ SameLegs(swapped, s) /\ swapped.c.seq = s.c.seq
        /\ SameThreads(swapped, s) /\ Quiet(swapped, s)
    BY <2>2 DEF States, Cores, SameLegs, SameThreads, Quiet
  <2> HIDE DEF on, swapped
  <2>5. Gone(on) /\ on.c.box = s.c.box /\ Onward(swapped, s, "toolchange")
    BY <2>2, <2>3, <2>4, GoneMachine DEF SameLegs
  <2>6. Zs \in SUBSET Nodes /\ Rotary \in SUBSET Nodes /\ ks \in Seq(StepKinds)
    BY LegsAssumption DEF StepKinds
  <2> HIDE DEF up, ks
  <2>7. up \in States /\ Gone(up) /\ Quiet(up, on) /\ up.c.box = on.c.box
    BY <2>3, <2>5, <2>6, ReadiedGone DEF up
  <2> HIDE DEF upA
  <2>8. upA \in States /\ Gone(upA) /\ Quiet(upA, up) /\ upA.c.box = up.c.box
    BY <2>6, <2>7, ReadiedGone DEF upA
  <2>9. /\ Quiet(up, s) /\ up.c.box = s.c.box /\ Quiet(upA, s) /\ upA.c.box = s.c.box
        /\ Even(on) /\ Even(up) /\ Even(upA) /\ Rest(upA)
    BY <2>3, <2>5, <2>7, <2>8, GoneEven DEF Quiet
  <2>10. Onward(BeginInJob(upA, "toolchange", ks, line, o), upA, "toolchange")
    <3>1. "toolchange" \in SeqIds \ {"none", "home"}
      BY DEF SeqIds
    <3> QED BY <2>6, <2>8, <2>9, <3>1, BeginInJobOutcome
  <2>11. Onward(BeginInJob(upA, "toolchange", ks, line, o), s, "toolchange")
    BY <2>9, <2>10, OnwardFrom
  <2>12. /\ Onward(SequenceFail(on, o), s, "toolchange") /\ Onward(SequenceFail(up, o), s, "toolchange")
         /\ Onward(SequenceFail(upA, o), s, "toolchange")
    BY <2>2, <2>3, <2>5, <2>7, <2>8, <2>9, FailOnward
  <2>13. Onward(t, s, "toolchange")
    BY <2>1, <2>5, <2>11, <2>12
  <2> QED BY <2>13 DEF t
<1> QED BY <1>1, <1>2

LEMMA PlaceTickOutcome ==
  ASSUME NEW s, Good(s), Outcome(s), NEW line, NEW o
  PROVE  Steady(PlaceTick(s, line, o), s) \/ Onward(PlaceTick(s, line, o), s, "place")
<1> DEFINE on == [s EXCEPT !.c.begun = TRUE, !.c.isSet = FALSE]
           up == Readied(on, Zs, o)
           ks == <<"zs", "line">>
           off == [s EXCEPT !.c.begun = FALSE]
           t == PlaceTick(s, line, o)
<1>1. s \in States
  BY DEF Good
<1>2. CASE s.c.ctx # "JOB" \/ s.c.why # "PLACE" \/ (s.c.begun /\ ~s.c.aborted)
  <2>1. t = s
    BY <1>2 DEF PlaceTick
  <2>2. Steady(s, s)
    BY <1>1 DEF Steady, SameLegs, SameThreads, SameSequence
  <2> QED BY <2>1, <2>2
<1>3. CASE s.c.ctx = "JOB" /\ s.c.why = "PLACE" /\ s.c.aborted
  <2>1. t = off
    BY <1>3 DEF PlaceTick
  <2>2. off \in States
    BY <1>1 DEF States, Cores
  <2>3. SameLegs(off, s) /\ SameThreads(off, s) /\ SameSequence(off, s) /\ off.c.estop = s.c.estop
        /\ off.c.ctx = s.c.ctx
    BY <1>1 DEF States, Cores, SameLegs, SameThreads, SameSequence
  <2> HIDE DEF off, t
  <2>4. Steady(off, s)
    BY <2>2, <2>3 DEF Steady
  <2> QED BY <2>1, <2>4 DEF t
<1>4. CASE s.c.ctx = "JOB" /\ s.c.why = "PLACE" /\ ~s.c.aborted /\ ~s.c.begun
  <2>1. t \in {SequenceFail(up, o), BeginInJob(up, "place", ks, line, o)}
    BY <1>4 DEF PlaceTick
  <2> HIDE DEF t
  <2>2. Gone(s)
    BY <1>4, OwnedGone DEF Good, Owned
  <2>3. /\ on \in States /\ SameLegs(on, s) /\ on.c.seq = s.c.seq /\ SameThreads(on, s) /\ Quiet(on, s)
    BY <1>1 DEF States, Cores, SameLegs, SameThreads, Quiet
  <2> HIDE DEF on
  <2>4. Gone(on) /\ on.c.box = s.c.box
    BY <1>1, <2>2, <2>3, GoneMachine DEF SameLegs
  <2>5. Zs \in SUBSET Nodes /\ ks \in Seq(StepKinds)
    BY LegsAssumption DEF StepKinds
  <2> HIDE DEF up, ks
  <2>6. up \in States /\ Gone(up) /\ Quiet(up, on) /\ up.c.box = on.c.box
    BY <2>3, <2>4, <2>5, ReadiedGone DEF up
  <2>7. Quiet(up, s) /\ up.c.box = s.c.box /\ Even(up) /\ Rest(up)
    BY <2>3, <2>4, <2>6, GoneEven DEF Quiet
  <2>8. Onward(BeginInJob(up, "place", ks, line, o), up, "place")
    <3>1. "place" \in SeqIds \ {"none", "home"}
      BY DEF SeqIds
    <3> QED BY <2>5, <2>6, <2>7, <3>1, BeginInJobOutcome
  <2>9. Onward(BeginInJob(up, "place", ks, line, o), s, "place")
    BY <2>7, <2>8, OnwardFrom
  <2>10. Onward(SequenceFail(up, o), s, "place")
    BY <1>1, <2>6, <2>7, FailOnward
  <2>11. Onward(t, s, "place")
    BY <2>1, <2>9, <2>10
  <2> QED BY <2>11 DEF t
<1> QED BY <1>1, <1>2, <1>3, <1>4 DEF States, Cores

LEMMA AbortSettleSteady ==
  ASSUME NEW s \in States
  PROVE  Steady(AbortSettle(s), s)
<1> DEFINE t == JobCloses(s)
<1>1. t \in States /\ t.c.ctx = "IDLE" /\ SameSequence(t, s) /\ SameLegs(t, s)
  BY JobClosesIs
<1>2. SameThreads(t, s) /\ t.c.estop = s.c.estop
  BY DEF JobCloses, States, Cores, SameThreads
<1>3. AbortSettle(s) = t \/ AbortSettle(s) = s
  BY DEF AbortSettle
<1> HIDE DEF t
<1>4. Steady(t, s) /\ Steady(s, s)
  BY <1>1, <1>2 DEF Steady, SameLegs, SameThreads, SameSequence
<1> QED BY <1>3, <1>4

LEMMA SteadyOutcome ==
  ASSUME NEW s, NEW t, Steady(t, s)
  PROVE  /\ Rest(s) => Rest(t)
         /\ Gone(s) => Gone(t)
         /\ Armed(s) => Armed(t)
         /\ Rolling(s) => Rolling(t)
         /\ Outcome(s) => Outcome(t)
         /\ t.c.box = s.c.box /\ Quiet(t, s)
<1>1. /\ SameLegs(t, s) /\ SameThreads(t, s) /\ t.c.seq = s.c.seq /\ t.c.ringStep = s.c.ringStep
      /\ t.c.run = s.c.run /\ t.r = s.r
  BY DEF Steady, SameSequence
<1>2. Rest(s) => Rest(t)
  BY <1>1, SameRest
<1>3. Armed(s) => Armed(t)
  BY <1>1, SameArmed
<1>4. Quiet(t, s)
  BY <1>1 DEF Steady, Quiet
<1>5. Gone(s) => Gone(t)
  BY <1>1, <1>2 DEF Gone
<1>6. Rolling(s) => Rolling(t)
  BY <1>1, <1>2 DEF Rolling, Coming
<1> QED BY <1>1, <1>2, <1>3, <1>4, <1>5, <1>6 DEF Outcome, SameLegs

----------------------------------------------------------------------------
(* The supervisor's tick, and the mailbox.                                 *)

(* The step is over, and the sequence has not heard of its end.            *)
Over(s) == Rest(s) /\ s.c.seq # "none" /\ s.c.ringStep = FALSE

(* A leg has ended and the sequence has not heard: of it, nor of the       *)
(* step's end if it was the last.                                          *)
Posted(s, n) ==
  \/ Len(s.c.box) = 1 /\ s.c.box[1].kind = "leg" /\ s.c.box[1].node = n /\ Almost(s, n)
  \/ /\ Over(s) /\ Len(s.c.box) = 2 /\ s.c.box[1].kind = "leg" /\ s.c.box[1].node = n
     /\ s.c.box[2] = StepEnd /\ (s.c.seq = "home" => n \in s.c.run.done)

Live(s) ==
  \/ Outcome(s) /\ s.c.box = <<>>
  \/ Over(s) /\ s.c.box = <<StepEnd>>
  \/ \E n \in Nodes : Posted(s, n)

LEMMA EffectEndThreads ==
  ASSUME NEW s \in States, NEW n \in Nodes, NEW intent, NEW why, NEW datum
  PROVE  SameThreads(EffectEnd(s, n, intent, why, datum), s)
<1> DEFINE switched == why = "none" /\ Mode(intent) \in {"seek", "retract"}
           l == IF ~switched THEN s.c.latch
                ELSE IF Mode(intent) = "seek" THEN s.c.latch \cup {n} ELSE s.c.latch \ {n}
           latched == [s EXCEPT !.c.latch = l]
           t == EffectEnd(s, n, intent, why, datum)
<1>1. l \in SUBSET Nodes
  BY DEF States, Cores
<1>2. t = OriginAdopt(latched, {n}) \/ t = OriginInvalidate(latched, {n})
  BY DEF EffectEnd, States, Cores
<1> HIDE DEF l, t
<1>3. latched \in States
  BY <1>1 DEF States, Cores
<1>4. SameThreads(latched, s)
  BY DEF States, Cores, SameThreads
<1> HIDE DEF latched
<1>5. SameThreads(t, latched)
  BY <1>2, <1>3, OriginThreads
<1> QED BY <1>4, <1>5 DEF SameThreads, t

LEMMA StepCheckThreads ==
  ASSUME NEW s \in States
  PROVE  LET t == StepCheck(s)
         IN /\ t.c.open = s.c.open /\ t.c.last = s.c.last
            /\ IF s.c.live /\ Claimed(s) = {} /\ s.c.open = {}
               THEN t.c.live = FALSE /\ t.c.box = Append(s.c.box, StepEnd)
               ELSE t = s
BY DEF StepCheck, StepEnd, States, Cores

(* What is posted last comes after all that is in the box.                 *)
LEMMA Appended ==
  ASSUME NEW T, NEW b \in Seq(T), NEW x \in T, NEW q, q = Append(b, x)
  PROVE  Len(q) = Len(b) + 1 /\ (\A i \in 1 .. Len(b) : q[i] = b[i]) /\ q[Len(b) + 1] = x
  OBVIOUS

LEMMA SecondPosted ==
  ASSUME NEW T, NEW b \in Seq(T), Len(b) = 1, NEW x \in T, NEW q, q = Append(b, x)
  PROVE  Len(q) = 2 /\ q[1] = b[1] /\ q[2] = x
<1>1. Len(q) = Len(b) + 1 /\ (\A i \in 1 .. Len(b) : q[i] = b[i]) /\ q[Len(b) + 1] = x
  BY Appended
<1>2. Len(q) = 2
  BY <1>1
<1>3. q[1] = b[1]
  BY <1>1
<1>4. q[2] = x
  BY <1>1
<1> QED BY <1>2, <1>3, <1>4

(* What the end of n's leg leaves of the step: all but n's leg, and n's    *)
(* thread unless a homing run has another leg for it.                      *)
Ending(t, s, n) ==
  /\ t.c.leg[n] = NoLeg /\ \A k \in Nodes \ {n} : t.c.leg[k] = s.c.leg[k]
  /\ t.c.open = IF n \in s.c.last THEN s.c.open \ {n} ELSE s.c.open
  /\ t.c.last = s.c.last \ {n}

EndPosts(t, s, n) ==
  /\ Ending(t, s, n)
  /\ t.c.box[1].kind = "leg" /\ t.c.box[1].node = n
  /\ IF s.c.live /\ Claimed(s) \ {n} = {} /\ t.c.open = {}
     THEN t.c.live = FALSE /\ Len(t.c.box) = 2 /\ t.c.box[2] = StepEnd
     ELSE t.c.live = s.c.live /\ Len(t.c.box) = 1

LEMMA LegEndsEnds ==
  ASSUME NEW s \in States, NEW n \in Nodes, NEW why, NEW datum, s.c.box = <<>>
  PROVE  EndPosts(LegEnds(s, n, why, datum), s, n)
<1> DEFINE intent == s.c.leg[n].intent
           x == EffectEnd(s, n, intent, why, datum)
           y == ThreadClose(x, n)
           e == [kind |-> "leg", node |-> n, failed |-> EndFailed(intent, why)]
           d == [y.n[n] EXCEPT !.blind = @ \/ s.n[n].active]
           m == [y.n EXCEPT ![n] = d]
           g == [y.c.leg EXCEPT ![n] = NoLeg]
           b == Append(y.c.box, e)
           freed == [y EXCEPT !.n = m, !.c.leg = g, !.c.box = b]
           t == StepCheck(freed)
<1>1. x \in States /\ SameMachine(x, s) /\ SameSequence(x, s) /\ SameLegs(x, s) /\ SameThreads(x, s)
  BY EffectEndIs, EffectEndThreads
<1> HIDE DEF x
<1>2. y \in States /\ SameMachine(y, x) /\ SameSequence(y, x) /\ SameLegs(y, x)
  BY <1>1, ThreadCloseIs
<1>20. y.c.open = (IF n \in x.c.last THEN x.c.open \ {n} ELSE x.c.open) /\ y.c.last = x.c.last \ {n}
  BY <1>1 DEF ThreadClose, States, Cores
<1>3. LegEnds(s, n, why, datum) = t
  <2>1. LegEnds(s, n, why, datum) =
          StepCheck([y EXCEPT !.n[n].blind = @ \/ s.n[n].active, !.c.leg[n] = NoLeg,
                              !.c.box = Append(@, e)])
    BY DEF LegEnds, x
  <2>2. [y EXCEPT !.n[n].blind = @ \/ s.n[n].active, !.c.leg[n] = NoLeg, !.c.box = Append(@, e)]
          = freed
    BY <1>2 DEF States, Cores
  <2> QED BY <2>1, <2>2
<1> HIDE DEF y
<1>4. e \in Boxed /\ e.kind = "leg" /\ e.node = n
  BY DEF EndFailed, LegEvents, Boxed
<1>5. d \in NodeStates
  BY <1>2 DEF States, NodeStates
<1>6. /\ m \in [Nodes -> NodeStates] /\ g \in [Nodes -> LegStates]
      /\ g[n] = NoLeg /\ \A k \in Nodes \ {n} : g[k] = y.c.leg[k]
  <2> HIDE DEF d
  <2> QED BY <1>2, <1>5, NoLegType DEF States, Cores
<1>7. y.c.box = <<>> /\ y.c.box \in Seq(Boxed)
  BY <1>1, <1>2 DEF States, Cores, SameLegs
<1> HIDE DEF e
<1>8. b \in Seq(Boxed) /\ Len(b) = 1 /\ b[1] = e
  BY <1>4, <1>7
<1> HIDE DEF m, g, b
<1>9. freed \in States
  BY <1>2, <1>6, <1>8 DEF States, Cores
<1>10. /\ freed.c.leg = g /\ freed.c.box = b /\ freed.c.live = y.c.live
       /\ freed.c.open = y.c.open /\ freed.c.last = y.c.last
  BY <1>2 DEF States, Cores
<1> HIDE DEF freed
<1>11. Claimed(freed) = Claimed(s) \ {n}
  BY <1>1, <1>2, <1>6, <1>10 DEF Claimed, SameLegs
<1>12. t.c.leg = freed.c.leg
  BY <1>9, StepCheckIs
<1>13. /\ t.c.open = freed.c.open /\ t.c.last = freed.c.last
       /\ IF freed.c.live /\ Claimed(freed) = {} /\ freed.c.open = {}
          THEN t.c.live = FALSE /\ t.c.box = Append(freed.c.box, StepEnd)
          ELSE t = freed
  BY <1>9, StepCheckThreads
<1> HIDE DEF t
<1>14. freed.c.live = s.c.live
  BY <1>1, <1>2, <1>10 DEF SameLegs
<1>15. Ending(t, s, n)
  BY <1>1, <1>2, <1>20, <1>6, <1>10, <1>12, <1>13 DEF Ending, SameLegs, SameThreads
<1>16. CASE freed.c.live /\ Claimed(freed) = {} /\ freed.c.open = {}
  <2>1. StepEnd \in Boxed
    BY DEF StepEnd, Boxed
  <2>2. t.c.box = Append(b, StepEnd)
    BY <1>10, <1>13, <1>16
  <2> DEFINE q == Append(b, StepEnd)
  <2>6. q = Append(b, StepEnd)
    OBVIOUS
  <2> HIDE DEF q
  <2>5. Len(q) = 2 /\ q[1] = b[1] /\ q[2] = StepEnd
    BY <1>8, <2>1, <2>6, SecondPosted
  <2>3. Len(t.c.box) = 2 /\ t.c.box[1] = e /\ t.c.box[2] = StepEnd
    BY <1>8, <2>2, <2>5, <2>6
  <2>4. EndPosts(t, s, n)
    BY <1>4, <1>11, <1>13, <1>14, <1>15, <1>16, <2>3 DEF EndPosts
  <2> QED BY <1>3, <2>4 DEF t
<1>17. CASE ~(freed.c.live /\ Claimed(freed) = {} /\ freed.c.open = {})
  <2>1. t = freed
    BY <1>13, <1>17
  <2>2. EndPosts(t, s, n)
    BY <1>4, <1>8, <1>10, <1>11, <1>13, <1>14, <1>15, <1>17, <2>1 DEF EndPosts
  <2> QED BY <1>3, <2>2 DEF t
<1> QED BY <1>16, <1>17

LEMMA LegEndsPosted ==
  ASSUME NEW s \in States, Armed(s), NEW n \in Claimed(s), NEW why, NEW datum, s.c.box = <<>>
  PROVE  Posted(LegEnds(s, n, why, datum), n)
<1> DEFINE t == LegEnds(s, n, why, datum)
<1>1. n \in Nodes
  BY DEF Claimed
<1>2. t \in States /\ SameSequence(t, s) /\ Claimed(t) = Claimed(s) \ {n}
  BY <1>1, LegEndsIs
<1>3. /\ Ending(t, s, n)
      /\ t.c.box[1].kind = "leg" /\ t.c.box[1].node = n
      /\ IF s.c.live /\ Claimed(s) \ {n} = {} /\ t.c.open = {}
         THEN t.c.live = FALSE /\ Len(t.c.box) = 2 /\ t.c.box[2] = StepEnd
         ELSE t.c.live = s.c.live /\ Len(t.c.box) = 1
  <2>1. EndPosts(t, s, n)
    BY <1>1, LegEndsEnds
  <2> HIDE DEF t
  <2> QED BY <2>1 DEF EndPosts
<1> HIDE DEF t
<1>4. t.c.seq = s.c.seq /\ t.c.ringStep = s.c.ringStep /\ t.c.run = s.c.run
  BY <1>2 DEF SameSequence
<1>5. s.c.live = TRUE /\ s.c.seq # "none" /\ s.c.ringStep = FALSE /\ Claimed(s) = s.c.open
      /\ Polled(s) /\ \A k \in s.c.open : LastLeg(s, k)
  BY DEF Armed
<1>6. n \in s.c.open /\ LastLeg(s, n)
  BY <1>5
<1>7. CASE Claimed(s) \ {n} = {} /\ t.c.open = {}
  <2>1. t.c.live = FALSE /\ Len(t.c.box) = 2 /\ t.c.box[2] = StepEnd
    BY <1>3, <1>5, <1>7
  <2>2. \A k \in Nodes : t.c.leg[k] = NoLeg
    BY <1>2, <1>7 DEF Claimed
  <2>3. t.c.leg \in [Nodes -> LegStates]
    BY <1>2 DEF States, Cores
  <2>4. t.c.leg = NoLegs
    BY <2>2, <2>3 DEF NoLegs
  <2>5. Over(t)
    BY <1>4, <1>5, <1>7, <2>1, <2>4 DEF Over, Rest
  <2>6. s.c.seq = "home" => n \in s.c.run.done
    BY <1>3, <1>6, <1>7 DEF Ending, LastLeg
  <2>7. Posted(t, n)
    BY <1>3, <1>4, <2>1, <2>5, <2>6 DEF Posted
  <2> QED BY <2>7 DEF t
<1>8. CASE ~(Claimed(s) \ {n} = {} /\ t.c.open = {})
  <2>1. t.c.live = TRUE /\ Len(t.c.box) = 1
    BY <1>3, <1>5, <1>8
  <2>2. t.c.open # {}
    BY <1>3, <1>5, <1>8 DEF Ending
  <2>3. Claimed(t) = t.c.open \ {n}
    BY <1>2, <1>3, <1>5 DEF Ending
  <2>4. Polled(t)
    <3>1. NoLeg.misses \in 0 .. LegMisses - 1 /\ NoLeg.settle \in 0 .. SettlePolls
      BY LegsAssumption DEF NoLeg
    <3> QED BY <1>3, <1>5, <3>1 DEF Polled, Ending
  <2>5. \A k \in t.c.open \ {n} : LastLeg(t, k)
    BY <1>3, <1>4, <1>5 DEF Ending, LastLeg
  <2>6. n \in t.c.open <=> t.c.seq = "home" /\ n \notin t.c.run.done
    BY <1>3, <1>4, <1>6 DEF Ending, LastLeg
  <2>7. Almost(t, n)
    BY <1>4, <1>5, <2>1, <2>2, <2>3, <2>4, <2>5, <2>6 DEF Almost
  <2>8. Posted(t, n)
    BY <1>3, <2>1, <2>7 DEF Posted
  <2> QED BY <2>8 DEF t
<1> QED BY <1>7, <1>8

(* A poll that ends no leg.                                                *)
LEMMA PollArmed ==
  ASSUME NEW s \in States, Armed(s), NEW n \in Claimed(s), NEW g \in LegStates, g # NoLeg, g.intent # "none",
         g.misses \in 0 .. LegMisses - 1, g.settle \in 0 .. SettlePolls
  PROVE  Armed([s EXCEPT !.c.leg[n] = g]) /\ Quiet([s EXCEPT !.c.leg[n] = g], s)
<1> DEFINE t == [s EXCEPT !.c.leg[n] = g]
           m == [s.c.leg EXCEPT ![n] = g]
<1>1. n \in Nodes
  BY DEF Claimed
<1>2. \A k \in Nodes : m[k] = IF k = n THEN g ELSE s.c.leg[k]
  BY <1>1 DEF States, Cores
<1>3. t = [s EXCEPT !.c.leg = m]
  BY DEF States, Cores
<1> HIDE DEF m, t
<1>4. /\ t.c.leg = m /\ t.c.live = s.c.live /\ t.c.open = s.c.open /\ t.c.last = s.c.last
      /\ t.c.seq = s.c.seq /\ t.c.ringStep = s.c.ringStep /\ t.c.run = s.c.run
      /\ t.c.estop = s.c.estop /\ t.r = s.r
  BY <1>3 DEF States, Cores
<1>5. Claimed(t) = Claimed(s)
  BY <1>2, <1>4 DEF Claimed
<1>6. Polled(t)
  BY <1>2, <1>4 DEF Polled, Armed
<1>7. Armed(t)
  BY <1>4, <1>5, <1>6 DEF Armed, LastLeg
<1> QED BY <1>4, <1>7 DEF Quiet, t

(* The settling count, in place.                                           *)
LEMMA SettleIs ==
  ASSUME NEW s \in States, NEW n \in Nodes
  PROVE  LET heard == [s.c.leg[n] EXCEPT !.misses = 0]
         IN [[s EXCEPT !.c.leg[n].misses = 0] EXCEPT !.c.leg[n].settle = @ - 1]
              = [s EXCEPT !.c.leg[n] = [heard EXCEPT !.settle = @ - 1]]
<1> DEFINE heard == [s.c.leg[n] EXCEPT !.misses = 0]
           settled == [heard EXCEPT !.settle = @ - 1]
<1>1. [s EXCEPT !.c.leg[n].misses = 0] = [s EXCEPT !.c.leg[n] = heard]
  BY DEF States, Cores
<1> HIDE DEF heard
<1>2. [[s EXCEPT !.c.leg[n] = heard] EXCEPT !.c.leg[n].settle = @ - 1]
        = [s EXCEPT !.c.leg[n] = settled]
  <2> DEFINE m == [s.c.leg EXCEPT ![n] = heard]
             k == [s.c EXCEPT !.leg = m]
             u == [s EXCEPT !.c = k]
  <2>1. u = [s EXCEPT !.c.leg[n] = heard]
    BY DEF States, Cores
  <2>2. /\ u.c = k /\ k.leg = m /\ m[n] = heard /\ u \in [c : {k}, n : {s.n}, r : {s.r}]
        /\ s.c.leg \in [Nodes -> LegStates]
    BY DEF States, Cores
  <2>3. [u EXCEPT !.c.leg[n].settle = @ - 1]
          = [u EXCEPT !.c = [k EXCEPT !.leg = [m EXCEPT ![n] = settled]]]
    BY <2>2
  <2>4. [m EXCEPT ![n] = settled] = [s.c.leg EXCEPT ![n] = settled]
    BY <2>2
  <2>5. [k EXCEPT !.leg = [m EXCEPT ![n] = settled]]
          = [s.c EXCEPT !.leg = [s.c.leg EXCEPT ![n] = settled]]
    BY <2>4 DEF States, Cores
  <2>6. \A d : [u EXCEPT !.c = d] = [s EXCEPT !.c = d]
    BY DEF States
  <2> QED BY <2>1, <2>3, <2>5, <2>6
<1>3. [[s EXCEPT !.c.leg[n].misses = 0] EXCEPT !.c.leg[n].settle = @ - 1]
        = [s EXCEPT !.c.leg[n] = settled]
  BY <1>1, <1>2
<1> QED BY <1>3 DEF heard

LEMMA PollOneLive ==
  ASSUME NEW s \in States, Armed(s), NEW n \in Claimed(s), NEW o, s.c.box = <<>>
  PROVE  Live(PollOne(s, n, o))
<1> DEFINE g == s.c.leg[n]
           heard == [g EXCEPT !.misses = 0]
           missed == [g EXCEPT !.misses = @ + 1]
           settled == [heard EXCEPT !.settle = @ - 1]
           t == PollOne(s, n, o)
<1>1. n \in Nodes /\ g \in LegStates /\ g # NoLeg
  BY DEF Claimed, States, Cores
<1>2. g.misses \in 0 .. LegMisses - 1 /\ g.settle \in 0 .. SettlePolls
  BY <1>1 DEF Armed, Polled
<1>20. g.intent # "none"
  BY <1>1 DEF Armed, Polled
<1>3. heard \in LegStates /\ heard # NoLeg /\ heard.misses = 0 /\ heard.settle = g.settle
  BY <1>1, <1>20 DEF LegStates, NoLeg
<1>4. ~GivesUp(g.misses) =>
        missed \in LegStates /\ missed # NoLeg /\ missed.misses \in 0 .. LegMisses - 1 /\ missed.settle = g.settle
  <2>1. /\ missed.misses = g.misses + 1 /\ missed.settle = g.settle
        /\ missed.intent = g.intent
    BY <1>1 DEF LegStates
  <2>2. g.misses + 1 \in Nat /\ (~GivesUp(g.misses) => g.misses + 1 \in 0 .. LegMisses - 1)
    BY <1>2, LegsAssumption DEF GivesUp
  <2>3. missed \in LegStates
    BY <1>1, <2>2 DEF LegStates
  <2> HIDE DEF missed
  <2>4. missed # NoLeg
    BY <1>20, <2>1 DEF NoLeg
  <2> QED BY <2>1, <2>2, <2>3, <2>4
<1>5. g.settle > 0 =>
        settled \in LegStates /\ settled # NoLeg /\ settled.misses = 0 /\ settled.settle \in 0 .. SettlePolls
  <2>1. heard.intent = g.intent
    BY <1>1 DEF LegStates
  <2> DEFINE k == heard.settle
  <2>5. k = g.settle
    BY <1>3
  <2>2. g.settle > 0 => k - 1 \in 0 .. SettlePolls
    <3> HIDE DEF k
    <3> QED BY <1>2, <2>5, LegsAssumption
  <2> HIDE DEF heard
  <2>3. settled.settle = heard.settle - 1 /\ settled.misses = heard.misses /\ settled.intent = heard.intent
    BY <1>3 DEF LegStates
  <2>4. g.settle > 0 => settled \in LegStates
    BY <1>3, <2>2, LegsAssumption DEF LegStates
  <2> HIDE DEF settled
  <2> QED BY <1>3, <1>20, <2>1, <2>2, <2>3, <2>4 DEF NoLeg
<1>6. \/ ~GivesUp(g.misses) /\ t = [s EXCEPT !.c.leg[n] = missed]
      \/ t = [s EXCEPT !.c.leg[n] = heard]
      \/ g.settle > 0 /\ t = [s EXCEPT !.c.leg[n] = settled]
      \/ \E why \in {"failed", "none", "budget"}, datum \in BOOLEAN :
           t = LegEnds(s, n, why, datum)
  <2>1. [s EXCEPT !.c.leg[n].misses = 0] = [s EXCEPT !.c.leg[n] = heard]
    BY <1>1 DEF States, Cores
  <2>2. [s EXCEPT !.c.leg[n].misses = @ + 1] = [s EXCEPT !.c.leg[n] = missed]
    BY <1>1 DEF States, Cores
  <2>3. [[s EXCEPT !.c.leg[n].misses = 0] EXCEPT !.c.leg[n].settle = @ - 1]
          = [s EXCEPT !.c.leg[n] = settled]
    BY <1>1, SettleIs
  <2>4. s.n[n].datum \in BOOLEAN /\ [s EXCEPT !.c.leg[n].misses = 0].c.leg[n].settle = g.settle
    BY <1>1 DEF States, Cores, NodeStates, LegStates
  <2> HIDE DEF heard, missed, settled
  <2> QED BY <2>1, <2>2, <2>3, <2>4 DEF PollOne
<1> HIDE DEF heard, missed, settled
<1>7. ASSUME NEW x \in LegStates, x # NoLeg, x.misses \in 0 .. LegMisses - 1, x.settle \in 0 .. SettlePolls,
             x.intent # "none", t = [s EXCEPT !.c.leg[n] = x]
      PROVE  Live(t)
  <2>1. Armed([s EXCEPT !.c.leg[n] = x])
    BY <1>7, PollArmed
  <2>2. [s EXCEPT !.c.leg[n] = x].c.box = s.c.box
    BY DEF States, Cores
  <2> HIDE DEF t
  <2> QED BY <1>7, <2>1, <2>2 DEF Live, Outcome
<1>8. ASSUME NEW why, NEW datum, t = LegEnds(s, n, why, datum) PROVE Live(t)
  <2>1. Posted(LegEnds(s, n, why, datum), n)
    BY LegEndsPosted
  <2> HIDE DEF t
  <2> QED BY <1>1, <1>8, <2>1 DEF Live
<1>9. /\ heard.intent # "none" /\ missed.intent # "none" /\ settled.intent # "none"
      /\ 0 \in 0 .. LegMisses - 1
  BY <1>1, <1>20, LegsAssumption DEF heard, missed, settled, LegStates
<1> HIDE DEF t, g
<1>10. Live(t)
  BY <1>2, <1>3, <1>4, <1>5, <1>6, <1>7, <1>8, <1>9
<1> QED BY <1>10 DEF t

----------------------------------------------------------------------------
(* What stands between two steps of the loop                               *)

(* The end an aborted traverse leaves for the next pass.                   *)
Loose(s) ==
  s.c.box = <<StepEnd>> /\ s.c.seq = "traverse" /\ {"leg", "legabort"} \subseteq Commands

(* Nothing runs under the estop, and a traverse leaves the machine idle.   *)
Fit(s) ==
  /\ s.c.estop # "clear" => s.c.seq = "none" /\ s.c.ctx = "IDLE"
  /\ s.r.facts <= MaxFacts
  /\ s.c.seq = "traverse" => s.c.ctx = "IDLE" /\ "leg" \in Commands

Kept(s) == Live(s) /\ Fit(s)

Alive == Kept(S) /\ (core.pc = "serve" /\ core.box # <<>> => Loose(S))

LiveInv == LegsInv /\ Alive

LEMMA LiveSame ==
  ASSUME NEW s, Live(s), NEW t, SameLegs(t, s), SameThreads(t, s), t.c.seq = s.c.seq,
         t.c.ringStep = s.c.ringStep, t.c.run = s.c.run, Coming(s) => Coming(t)
  PROVE  Live(t)
<1>1. /\ t.c.leg = s.c.leg /\ t.c.live = s.c.live /\ t.c.box = s.c.box
      /\ t.c.open = s.c.open /\ t.c.last = s.c.last
  BY DEF SameLegs, SameThreads
<1>2. Claimed(t) = Claimed(s) /\ (Polled(s) => Polled(t)) /\ \A n \in Nodes : LastLeg(t, n) <=> LastLeg(s, n)
  BY <1>1 DEF Claimed, Polled, LastLeg
<1>3. Rest(s) => Rest(t)
  BY <1>1 DEF Rest
<1>4. Claimed(s) \subseteq Nodes
  BY DEF Claimed
<1>5. Armed(s) => Armed(t)
  BY SameArmed, <1>1
<1>6. Outcome(s) => Outcome(t)
  BY <1>3, <1>5 DEF Outcome, Gone, Rolling
<1>7. Over(s) => Over(t)
  BY <1>3 DEF Over
<1>8. ASSUME NEW n \in Nodes, Almost(s, n) PROVE Almost(t, n)
  BY <1>1, <1>2, <1>8 DEF Almost, LastLeg
<1>9. ASSUME NEW n \in Nodes, Posted(s, n) PROVE Posted(t, n)
  BY <1>1, <1>7, <1>8, <1>9 DEF Posted
<1> QED BY <1>1, <1>6, <1>7, <1>9 DEF Live

LEMMA LeadsAlive ==
  ASSUME NEW t \in States, Kept(t), NEW p, Leads(t, p), p = "serve" => t.c.box = <<>> \/ Loose(t)
  PROVE  Alive'
<1>1. /\ S'.c.ctx = t.c.ctx /\ S'.c.seq = t.c.seq /\ S'.c.ringStep = t.c.ringStep /\ S'.c.estop = t.c.estop
      /\ S'.c.box = t.c.box /\ S'.c.leg = t.c.leg /\ S'.c.live = t.c.live /\ S'.c.run = t.c.run
      /\ S'.c.open = t.c.open /\ S'.c.last = t.c.last /\ S'.r = t.r
      /\ core' = S'.c /\ core'.pc = p
  BY DEF States, Cores, Leads, S
<1> DEFINE u == S'
<1> HIDE DEF u
<1>2. Live(u)
  BY <1>1, LiveSame DEF Kept, SameLegs, SameThreads, Coming, u
<1>3. Fit(u)
  BY <1>1 DEF Kept, Fit, u
<1>4. Kept(S)' /\ (core'.pc = "serve" /\ core'.box # <<>> => Loose(S)')
  BY <1>1, <1>2, <1>3 DEF Kept, Loose, u
<1> QED BY <1>4 DEF Alive

LEMMA LiveIs ==
  ASSUME LiveInv
  PROVE  S \in States /\ Good(S) /\ Held(S) /\ Live(S) /\ Fit(S) /\ S.c = core /\ S.n = node /\ S.r = ring
BY SIs DEF LiveInv, Alive, Kept

(* An empty mailbox is no posted event's.                                  *)
LEMMA LiveEmpty ==
  ASSUME NEW s, Live(s), s.c.box = <<>>
  PROVE  Outcome(s)
<1>1. <<>> # <<StepEnd>> /\ Len(<<>>) = 0
  OBVIOUS
<1> QED BY <1>1 DEF Live, Posted

LEMMA ServedBox ==
  ASSUME LiveInv, Served
  PROVE  S.c.box = <<>> \/ Loose(S)
BY LiveIs DEF LiveInv, LegsInv, Emptying, Alive, Served

LEMMA ServedOutcome ==
  ASSUME LiveInv, Served, S.c.seq # "traverse"
  PROVE  S.c.box = <<>> /\ Outcome(S)
BY ServedBox, LiveEmpty, LiveIs DEF Loose

LEMMA ServedGone ==
  ASSUME LiveInv, Served, S.c.seq = "none"
  PROVE  S.c.box = <<>> /\ Gone(S)
BY ServedOutcome, OwnedGone

LEMMA LooseOver ==
  ASSUME NEW s, Live(s), s.c.box = <<StepEnd>>
  PROVE  Over(s)
<1>1. <<StepEnd>> # <<>> /\ Len(<<StepEnd>>) = 1 /\ <<StepEnd>>[1].kind # "leg"
  BY DEF StepEnd
<1> QED BY <1>1 DEF Live, Posted

LEMMA ServedArmed ==
  ASSUME LiveInv, Served, Claimed(S) # {}
  PROVE  S.c.box = <<>> /\ Armed(S)
<1>1. Rest(S) => Claimed(S) = {}
  BY RestPolled
<1>2. S.c.box = <<>>
  BY <1>1, ServedBox, LiveIs, LooseOver DEF Loose, Over
<1> QED BY <1>1, <1>2, LiveIs, LiveEmpty DEF Outcome, Gone, Rolling

LEMMA NotBusyGone ==
  ASSUME LiveInv, Served, ~Busy(S)
  PROVE  S.c.seq = "none" /\ S.c.box = <<>> /\ Gone(S)
BY NotBusy, ServedGone DEF LiveInv

(* A handler that leaves an outcome: what Core 0's next step finds.        *)
LEMMA KeptOutcome ==
  ASSUME NEW t, Outcome(t), t.c.box = <<>>, Fit(t)
  PROVE  Kept(t)
BY DEF Kept, Live

LEMMA OnwardKept ==
  ASSUME NEW s, Fit(s), s.c.estop = "clear", s.c.box = <<>>, NEW t, NEW id, Onward(t, s, id),
         id = "traverse" => t.c.seq = "none"
  PROVE  Kept(t) /\ t.c.box = <<>>
<1>1. Fit(t)
  BY DEF Fit, Onward, Quiet
<1> QED BY <1>1, KeptOutcome DEF Onward

LEMMA SteadyKept ==
  ASSUME NEW s, Kept(s), s.c.box = <<>>, NEW t, Steady(t, s)
  PROVE  Kept(t) /\ t.c.box = <<>>
<1>1. Outcome(s)
  BY LiveEmpty DEF Kept
<1>2. t.c.seq = s.c.seq /\ t.r = s.r
  BY DEF Steady, SameSequence
<1>3. Fit(t)
  BY <1>2 DEF Kept, Fit, Steady
<1> QED BY <1>1, <1>3, SteadyOutcome, KeptOutcome

LEMMA ServesAlive ==
  ASSUME NEW t \in States, Kept(t), t.c.box = <<>>, Leads(AbortSettle(t), "serve")
  PROVE  Alive'
<1>1. AbortSettle(t) \in States /\ Kept(AbortSettle(t)) /\ AbortSettle(t).c.box = <<>>
  BY AbortSettleSteady, SteadyKept DEF Steady
<1> QED BY <1>1, LeadsAlive

(* A command that starts a recipe, or fails to.                            *)
LEMMA OnwardAlive ==
  ASSUME LiveInv, S.c.box = <<>>, S.c.estop = "clear", NEW t, NEW id, Onward(t, S, id), id # "traverse",
         Leads(AbortSettle(t), "serve")
  PROVE  Alive'
<1>1. Kept(t) /\ t.c.box = <<>> /\ t \in States
  BY LiveIs, OnwardKept DEF Onward
<1> QED BY <1>1, ServesAlive

(* One that only touches the machine.                                      *)
LEMMA GoneAlive ==
  ASSUME LiveInv, Served, S.c.seq = "none", NEW t \in States, SameLegs(t, S), SameThreads(t, S),
         t.c.seq = "none", t.r.facts = S.r.facts, t.c.estop = "clear" \/ t.c.ctx = "IDLE",
         Leads(AbortSettle(t), "serve")
  PROVE  Alive'
<1>1. S.c.box = <<>> /\ Gone(S) /\ Fit(S)
  BY ServedGone, LiveIs
<1>2. Gone(t) /\ t.c.box = <<>>
  BY <1>1, SameRest DEF Gone, SameLegs
<1>3. Fit(t)
  BY <1>1 DEF Fit
<1> QED BY <1>2, <1>3, KeptOutcome, ServesAlive DEF Outcome

----------------------------------------------------------------------------
(* What waits goes on waiting: Core 0's loop                               *)

LEMMA ServeEndsAlive ==
  ASSUME LiveInv, ServeEnds
  PROVE  Alive'
<1>1. Leads(S, AfterRunner(S))
  BY DEF ServeEnds, Core0Step, Leads
<1>2. AfterRunner(S) # "serve"
  BY DEF AfterRunner
<1> QED BY <1>1, <1>2, LiveIs, LeadsAlive DEF Kept

LEMMA TicksAlive ==
  ASSUME LiveInv, NEW t, Ticks(t, S), Live(t), Leads(t, AfterRunner(t))
  PROVE  Alive'
<1>1. t \in States /\ Fit(t)
  BY LiveIs DEF Ticks, SameMachine, SameSequence, Fit
<1>2. AfterRunner(t) # "serve"
  BY DEF AfterRunner
<1> QED BY <1>1, <1>2, LeadsAlive DEF Kept

LEMMA RunnerTickAlive ==
  ASSUME LiveInv, NEW n \in Nodes, RunnerTick(n)
  PROVE  Alive'
<1>1. PICK o \in Outs : Leads(PollOne(S, n, o), AfterRunner(PollOne(S, n, o)))
  BY DEF RunnerTick, Core0Step, Leads
<1>2. n \in Claimed(S) /\ Served
  BY DEF RunnerTick, Core0Step
<1>3. S.c.box = <<>> /\ Armed(S) /\ S \in States
  BY <1>2, ServedArmed, LiveIs
<1>4. Live(PollOne(S, n, o)) /\ Ticks(PollOne(S, n, o), S)
  BY <1>2, <1>3, PollOneLive, PollOneTicks
<1> QED BY <1>1, <1>4, TicksAlive

LEMMA RunnerDeadlineAlive ==
  ASSUME LiveInv, NEW n \in Nodes, RunnerDeadline(n)
  PROVE  Alive'
<1> DEFINE t == LegEnds(S, n, "failed", FALSE)
<1>1. n \in Claimed(S) /\ Served
  BY DEF RunnerDeadline
<1>2. S.c.box = <<>> /\ Armed(S) /\ S \in States
  BY <1>1, ServedArmed, LiveIs
<1>3. Ticks(t, S)
  BY <1>2, LegEndsTicks
<1>4. Posted(t, n)
  BY <1>1, <1>2, LegEndsPosted
<1>5. Leads(t, AfterRunner(t))
  <2>1. core' = [t.c EXCEPT !.pc = AfterRunner(t)] /\ node' = t.n /\ ring' = ring
    BY DEF RunnerDeadline
  <2>2. t.r = ring
    BY <1>3, LiveIs DEF Ticks, SameSequence
  <2> QED BY <2>1, <2>2 DEF Leads
<1> HIDE DEF t
<1>6. Live(t)
  BY <1>4 DEF Live
<1> QED BY <1>3, <1>5, <1>6, TicksAlive

LEMMA AdvanceKept ==
  ASSUME NEW s \in States, Rest(s), s.c.seq # "none", s.c.ringStep = FALSE, HomeRun(s), Fit(s),
         s.c.box = <<>>, NEW line, NEW apart, NEW o
  PROVE  LET t == Advance(s, line, apart, o)
         IN t \in States /\ Kept(t) /\ t.c.box = <<>>
<1> DEFINE t == Advance(s, line, apart, o)
<1>1. Onward(t, s, s.c.seq)
  BY AdvanceOutcome
<1>2. s.c.seq = "traverse" => t.c.seq = "none"
  BY SequenceEndIs DEF Advance
<1> HIDE DEF t
<1>3. s.c.estop = "clear"
  BY DEF Fit
<1>4. Kept(t) /\ t.c.box = <<>>
  BY <1>1, <1>2, <1>3, OnwardKept
<1>5. t \in States
  BY <1>1 DEF Onward
<1> QED BY <1>4, <1>5 DEF t

LEMMA ObserveAlive ==
  ASSUME LiveInv, Observe
  PROVE  Alive'
<1> DEFINE s == [S EXCEPT !.r.facts = @ - 1]
           u == [s EXCEPT !.c.ringStep = FALSE]
           drained == RingIdle(s) /\ s.c.seq # "none" /\ s.c.ringStep
<1>1. PICK line \in Lines, o \in Outs :
        Leads(IF drained THEN Advance(u, line, FALSE, o) ELSE s, "observe")
  BY DEF Observe, Core0Step, Observing, Leads
<1>2. core.pc = "observe" /\ ring.facts > 0
  BY DEF Observe, Core0Step
<1>3. S.c.box = <<>> /\ S \in States /\ Outcome(S) /\ Fit(S) /\ HomeRun(S)
  BY <1>2, LiveIs, LiveEmpty DEF LiveInv, LegsInv, Emptying, Good
<1>4. S.r.facts \in Nat /\ S.r.facts > 0 /\ MaxFacts \in Nat
  BY <1>2, LiveIs, LegsAssumption DEF States, Rings
<1>5. s \in States /\ s.c = S.c /\ s.r.facts = S.r.facts - 1 /\ s.r.state = S.r.state
  BY <1>3, <1>4 DEF States, Rings
<1> HIDE DEF s
<1>6. Fit(s)
  BY <1>3, <1>4, <1>5 DEF Fit
<1>7. u \in States /\ u.c.ringStep = FALSE /\ u.c.seq = s.c.seq /\ u.c.run = s.c.run /\ u.c.box = s.c.box
      /\ u.c.estop = s.c.estop /\ u.c.ctx = s.c.ctx /\ u.c.live = s.c.live /\ u.c.open = s.c.open
      /\ u.c.leg = s.c.leg /\ u.r = s.r
  BY <1>5 DEF States, Cores
<1> HIDE DEF u
<1>8. CASE drained
  <2> DEFINE t == Advance(u, line, FALSE, o)
  <2>1. Rest(S)
    BY <1>3, <1>5, <1>8 DEF Outcome, Gone, Armed, Rolling
  <2>2. Rest(u) /\ Fit(u) /\ HomeRun(u) /\ u.c.seq # "none" /\ u.c.box = <<>>
    BY <1>3, <1>5, <1>6, <1>7, <1>8, <2>1 DEF Rest, Fit, HomeRun
  <2>3. t \in States /\ Kept(t) /\ t.c.box = <<>>
    BY <1>7, <2>2, AdvanceKept
  <2> HIDE DEF t
  <2>4. Leads(t, "observe")
    BY <1>1, <1>8 DEF t
  <2> QED BY <2>3, <2>4, LeadsAlive
<1>9. CASE ~drained
  <2>1. Leads(s, "observe")
    BY <1>1, <1>9
  <2>2. Claimed(s) = Claimed(S) /\ (Rest(S) => Rest(s)) /\ (Armed(S) => Armed(s))
    BY <1>5 DEF Claimed, Rest, Armed, Polled, LastLeg
  <2>3. Outcome(s)
    BY <1>3, <1>5, <1>9, <2>2 DEF Outcome, Gone, Rolling, Coming, RingIdle
  <2>4. Kept(s)
    BY <1>3, <1>5, <1>6, <2>3, KeptOutcome
  <2> QED BY <1>5, <2>1, <2>4, LeadsAlive
<1> QED BY <1>8, <1>9

(* A fault on a machine that is idle leaves it so.                         *)
LEMMA IdleFault ==
  ASSUME NEW s \in States, Gone(s), s.c.ctx = "IDLE", NEW f \in Faults, NEW o
  PROVE  FaultSet(s, f, o).c.ctx = "IDLE"
<1> DEFINE e == s.c.events \cup {f}
           x == [s EXCEPT !.c.events = e]
<1>1. FaultSet(s, f, o) = TearDown(x, o)
  BY DEF FaultSet, States, Cores
<1>2. e \in SUBSET Faults
  BY DEF States, Cores, Faults
<1> HIDE DEF e
<1>3. x \in States
  BY <1>2 DEF States, Cores, Faults
<1>4. x.c.live = FALSE /\ x.c.seq = "none" /\ x.c.ctx = "IDLE"
  BY DEF States, Cores, Gone, Rest
<1> HIDE DEF x
<1>5. TearDown(x, o) = StopJog(x)
  BY <1>4 DEF TearDown, SequenceAbort, ContextEnds
<1> QED BY <1>1, <1>3, <1>4, <1>5, StopJogIs

LEMMA ObserveFaultAlive ==
  ASSUME LiveInv, ObserveFault
  PROVE  Alive'
<1> DEFINE t == FaultSet(S, "F_TOOL", Fine)
<1>1. core' = t.c /\ node' = t.n /\ ring' = t.r /\ core.pc = "observe"
  BY DEF ObserveFault
<1>2. S.c.box = <<>> /\ S \in States /\ Outcome(S) /\ Fit(S)
  BY <1>1, LiveIs, LiveEmpty DEF LiveInv, LegsInv, Emptying
<1>3. "F_TOOL" \in Faults
  BY DEF Faults
<1>4. Off(t, S)
  BY <1>2, <1>3, OutcomeEven, FaultRests
<1>5. t.c.box = <<>>
  BY <1>2, <1>3, LiveIs, FaultSetIs
<1>6. S.c.estop # "clear" => t.c.ctx = "IDLE"
  BY <1>2, <1>3, IdleFault, OwnedGone DEF Fit
<1> HIDE DEF t
<1>7. Fit(t)
  BY <1>2, <1>4, <1>6 DEF Fit, Off, Gone, Quiet
<1>8. Kept(t)
  BY <1>4, <1>5, <1>7, KeptOutcome DEF Off, Outcome
<1>9. t \in States /\ Leads(t, t.c.pc)
  <2>1. t \in States
    BY <1>4 DEF Off
  <2>2. [t.c EXCEPT !.pc = t.c.pc] = t.c
    BY <2>1 DEF States, Cores
  <2> QED BY <1>1, <2>1, <2>2 DEF Leads
<1> QED BY <1>5, <1>8, <1>9, LeadsAlive

LEMMA ToolsTickAlive ==
  ASSUME LiveInv, ToolsTick
  PROVE  Alive'
<1>1. PICK line \in Lines, mounted \in BOOLEAN, o \in Outs :
        Leads(AbortSettle(PlaceTick(ToolChangeTick(S, mounted, line, o), line, o)), "observe")
  BY DEF ToolsTick, Core0Step, Observing, Leads
<1>2. core.pc = "tools"
  BY DEF ToolsTick, Core0Step
<1> DEFINE x == ToolChangeTick(S, mounted, line, o)
           y == PlaceTick(x, line, o)
           t == AbortSettle(y)
<1>3. S.c.box = <<>> /\ Outcome(S) /\ Kept(S) /\ Fit(S) /\ Good(S)
  BY <1>2, LiveIs, LiveEmpty DEF LiveInv, LegsInv, Emptying, Kept
<1>4. Good(x) /\ x.c.box = <<>>
  BY <1>3, ToolChangeTickGood
<1>5. x = S \/ Onward(x, S, "toolchange")
  BY <1>3, ToolChangeTickOutcome
<1>6. S.c.ctx # "JOB" => x = S
  BY DEF ToolChangeTick
<1> HIDE DEF x
<1>7. Kept(x)
  BY <1>3, <1>5, <1>6, OnwardKept DEF Fit
<1>8. Outcome(x) /\ Fit(x)
  BY <1>4, <1>7, LiveEmpty DEF Kept
<1>9. Steady(y, x) \/ Onward(y, x, "place")
  BY <1>4, <1>8, PlaceTickOutcome
<1>10. x.c.ctx # "JOB" => y = x
  BY DEF PlaceTick
<1> HIDE DEF y
<1>11. Kept(y) /\ y.c.box = <<>>
  BY <1>4, <1>7, <1>8, <1>9, <1>10, OnwardKept, SteadyKept DEF Fit
<1>12. y \in States
  BY <1>9 DEF Steady, Onward
<1>13. t \in States /\ Kept(t)
  BY <1>11, <1>12, AbortSettleSteady, SteadyKept DEF Steady
<1>14. Leads(t, "observe")
  BY <1>1 DEF x, y
<1> HIDE DEF t
<1> QED BY <1>13, <1>14, LeadsAlive

(* The driver's handling of an event leaves what waits.                    *)
LEMMA HandledKept ==
  ASSUME NEW s \in States, Held(s), HomeRun(s), Fit(s), NEW ev, NEW line, NEW apart, NEW o,
         \/ ev.kind = "step" /\ Over(s) /\ s.c.box = <<>>
         \/ ev.kind = "leg" /\ ev.node \in Nodes /\ Almost(s, ev.node) /\ s.c.box = <<>>
         \/ /\ ev.kind = "leg" /\ ev.node \in Nodes /\ Over(s) /\ s.c.box = <<StepEnd>>
            /\ (s.c.seq = "home" => ev.node \in s.c.run.done)
  PROVE  LET t == Handled(s, ev, line, apart, o)
         IN t \in States /\ Kept(t)
<1> DEFINE t == Handled(s, ev, line, apart, o)
<1>1. s.c.seq # "none" /\ s.c.estop = "clear"
  BY DEF Over, Almost, Fit
<1>2. CASE ev.kind = "step"
  <2>1. t = Advance(s, line, apart, o)
    BY <1>1, <1>2 DEF Handled
  <2>2. Rest(s) /\ s.c.ringStep = FALSE /\ s.c.box = <<>>
    BY <1>2 DEF Over
  <2> QED BY <1>1, <2>1, <2>2, AdvanceKept
<1>3. CASE ev.kind = "leg" /\ ev.failed
  <2>1. t = HomingFail(s, o)
    BY <1>1, <1>3 DEF Handled
  <2>2. Off(t, s) /\ t.c.box = <<>>
    BY <2>1, HomingFailRests, HomingFailIs
  <2> HIDE DEF t
  <2>3. Fit(t)
    BY <1>1, <2>2 DEF Fit, Off, Gone, Quiet
  <2>4. t \in States /\ Kept(t)
    BY <2>2, <2>3, KeptOutcome DEF Off, Outcome
  <2> QED BY <2>4 DEF t
<1>4. CASE ev.kind = "leg" /\ ~ev.failed /\ Over(s)
  <2>1. s.c.box = <<StepEnd>> /\ (s.c.seq = "home" => ev.node \in s.c.run.done)
    <3>1. ~Almost(s, ev.node)
      BY <1>4 DEF Over, Rest, Almost
    <3> QED BY <1>4, <3>1
  <2>2. t = s
    BY <1>1, <1>4, <2>1 DEF Handled, HomeLegEnded
  <2>3. Kept(s)
    BY <1>4, <2>1 DEF Kept, Live
  <2> QED BY <2>2, <2>3
<1>5. CASE ev.kind = "leg" /\ ~ev.failed /\ ~Over(s)
  <2>1. Almost(s, ev.node) /\ s.c.box = <<>> /\ ev.node \in Nodes
    BY <1>5
  <2>2. CASE s.c.seq = "home"
    <3>1. t = HomeLegEnded(s, ev.node, o)
      BY <1>5, <2>2 DEF Handled
    <3>2. Onward(HomeLegEnded(s, ev.node, o), s, "home")
      BY <2>1, <2>2, HomeLegEndedOutcome DEF HomeRun
    <3>3. Onward(t, s, "home")
      BY <3>1, <3>2
    <3> HIDE DEF t
    <3>4. Kept(t) /\ t \in States
      BY <1>1, <2>1, <3>3, OnwardKept DEF Onward
    <3> QED BY <3>4 DEF t
  <2>3. CASE s.c.seq # "home"
    <3>1. t = s
      BY <1>5, <2>3 DEF Handled
    <3>2. Armed(s)
      BY <2>1, <2>3, AlmostArmed
    <3>3. Kept(s)
      BY <2>1, <3>2, KeptOutcome DEF Outcome
    <3> QED BY <3>1, <3>3
  <2> QED BY <2>2, <2>3
<1> QED BY <1>2, <1>3, <1>4, <1>5

LEMMA SequenceTickAlive ==
  ASSUME LiveInv, SequenceTick
  PROVE  Alive'
<1> DEFINE ev == Head(core.box)
           s == [S EXCEPT !.c.box = Tail(@)]
           F(line, apart, o) == Handled(s, ev, line, apart, o)
<1>0. \E line \in Lines, apart \in BOOLEAN, o \in Outs : \E x \in {F(line, apart, o)} :
        core' = [x.c EXCEPT !.pc = AfterRunner(x)] /\ node' = x.n /\ ring' = x.r
  BY ZenonT(60) DEF SequenceTick, Core0Step, Handled
<1>1. PICK line \in Lines, apart \in BOOLEAN, o \in Outs :
        Leads(F(line, apart, o), AfterRunner(F(line, apart, o)))
  <2> HIDE DEF F
  <2> QED BY <1>0 DEF Leads
<1> DEFINE t == F(line, apart, o)
<1> HIDE DEF F
<1>2. core.box # <<>> /\ core.box \in Seq(Boxed) /\ S.c.box = core.box
  BY LiveIs DEF SequenceTick, States, Cores
<1> DEFINE b == Tail(core.box)
<1>3. /\ ev \in Boxed /\ ev = core.box[1] /\ b \in Seq(Boxed) /\ Len(b) = Len(core.box) - 1
      /\ \A i \in 1 .. Len(b) : b[i] = core.box[i + 1]
  BY <1>2, HeadTailProperties
<1>4. s = [S EXCEPT !.c.box = b]
  BY <1>2, LiveIs DEF States, Cores
<1> HIDE DEF b, ev, s
<1>5. /\ s \in States /\ SameMachine(s, S) /\ SameSequence(s, S)
      /\ s.c.leg = S.c.leg /\ s.c.live = S.c.live /\ s.c.box = b /\ SameThreads(s, S)
  BY <1>3, <1>4, LiveIs DEF States, Cores, SameMachine, SameSequence, SameThreads
<1>6. Claimed(s) = Claimed(S) /\ (Polled(S) => Polled(s)) /\ (Rest(S) => Rest(s))
  BY <1>5 DEF Claimed, Polled, Rest, SameThreads
<1>7. Held(s) /\ HomeRun(s) /\ Fit(s)
  BY <1>5, <1>6, LiveIs DEF Held, Good, HomeRun, Fit, SameMachine, SameSequence
<1>8. Over(S) => Over(s)
  BY <1>5, <1>6 DEF Over, SameSequence
<1>9. ASSUME NEW n \in Nodes, Almost(S, n) PROVE Almost(s, n)
  BY <1>5, <1>6, <1>9 DEF Almost, LastLeg, SameSequence, SameThreads
<1>10. \/ ev.kind = "step" /\ Over(s) /\ s.c.box = <<>>
       \/ ev.kind = "leg" /\ ev.node \in Nodes /\ Almost(s, ev.node) /\ s.c.box = <<>>
       \/ /\ ev.kind = "leg" /\ ev.node \in Nodes /\ Over(s) /\ s.c.box = <<StepEnd>>
          /\ (s.c.seq = "home" => ev.node \in s.c.run.done)
  <2>1. CASE Over(S) /\ S.c.box = <<StepEnd>>
    <3>1. ev = StepEnd /\ Len(b) = 0
      BY <1>2, <1>3, <2>1
    <3>2. b = <<>>
      BY <1>3, <3>1, EmptySeq
    <3> QED BY <1>5, <1>8, <2>1, <3>1, <3>2 DEF StepEnd
  <2>2. ASSUME NEW n \in Nodes, Len(S.c.box) = 1, S.c.box[1].kind = "leg", S.c.box[1].node = n, Almost(S, n)
        PROVE  ev.kind = "leg" /\ ev.node = n /\ Almost(s, n) /\ s.c.box = <<>>
    <3>1. Len(b) = 0
      BY <1>2, <1>3, <2>2
    <3>2. b = <<>>
      BY <1>3, <3>1, EmptySeq
    <3> QED BY <1>2, <1>3, <1>5, <1>9, <2>2, <3>2
  <2>3. ASSUME NEW n \in Nodes, Over(S), Len(S.c.box) = 2, S.c.box[1].kind = "leg", S.c.box[1].node = n,
               S.c.box[2] = StepEnd, S.c.seq = "home" => n \in S.c.run.done
        PROVE  /\ ev.kind = "leg" /\ ev.node = n /\ Over(s) /\ s.c.box = <<StepEnd>>
               /\ s.c.seq = "home" => n \in s.c.run.done
    <3>1. Len(b) = 1 /\ b[1] = StepEnd
      BY <1>2, <1>3, <2>3
    <3>2. b = <<StepEnd>>
      BY <1>3, <3>1
    <3> QED BY <1>2, <1>3, <1>5, <1>8, <2>3, <3>2 DEF SameSequence
  <2> QED BY <1>2, <2>1, <2>2, <2>3, LiveIs DEF Live, Posted
<1>11. t \in States /\ Kept(t)
  BY <1>5, <1>7, <1>10, HandledKept DEF F
<1>12. Leads(t, AfterRunner(t)) /\ AfterRunner(t) # "serve"
  BY <1>1 DEF AfterRunner
<1> HIDE DEF t
<1> QED BY <1>11, <1>12, LeadsAlive

----------------------------------------------------------------------------
(* What waits goes on waiting: the host's commands                         *)

LEMMA RestsGone ==
  ASSUME LiveInv, Served, Rests(S) \/ Waits(S)
  PROVE  S \in States /\ S.c.seq = "none" /\ S.c.box = <<>> /\ Gone(S) /\ S.c.estop = "clear"
<1>1. ~Busy(S) /\ (S.c.estop = "clear" \/ S.c.ctx = "JOB")
  BY DEF Rests, Waits
<1> QED BY <1>1, LiveIs, NotBusyGone DEF Fit

LEMMA CmdHomeAlive ==
  ASSUME LiveInv, CmdHome
  PROVE  Alive'
<1>1. PICK x \in {<<Nodes, FALSE>>, <<Nodes \ core.origin, FALSE>>, <<XY, FALSE>>}
                  \cup {<<{n}, TRUE>> : n \in Nodes} :
        Serve("home", Rests(S) /\ core.events = {} /\ x[1] # {},
              LAMBDA o : HomeStart(S, x[1], x[2], o))
  BY DEF CmdHome
<1>2. PICK o \in Outs : Leads(AbortSettle(HomeStart(S, x[1], x[2], o)), "serve")
  BY <1>1 DEF Serve, Core0Step, Leads
<1>3. Served /\ Rests(S) /\ x[1] # {} /\ x[1] \in SUBSET Nodes
  <2>1. Served /\ Rests(S) /\ x[1] # {}
    BY <1>1 DEF Serve, Core0Step
  <2>2. \E A \in SUBSET Nodes, b \in BOOLEAN : x = <<A, b>>
    BY LegsAssumption
  <2> QED BY <2>1, <2>2
<1>4. Onward(HomeStart(S, x[1], x[2], o), S, "home")
  BY <1>3, RestsGone, HomeStartOutcome
<1> QED BY <1>2, <1>3, <1>4, RestsGone, OnwardAlive

LEMMA GotoOnward ==
  ASSUME LiveInv, Served, Rests(S) \/ Waits(S), NEW A \in SUBSET Nodes, NEW ks \in Seq(StepKinds),
         NEW line, NEW o
  PROVE  /\ Onward(Readied(S, A, o), S, "goto")
         /\ Onward(Begin(Readied(S, A, o), "goto", ks, line, o), S, "goto")
<1> DEFINE u == Readied(S, A, o)
<1>1. S \in States /\ Gone(S)
  BY RestsGone
<1>2. u \in States /\ Gone(u) /\ Quiet(u, S) /\ u.c.box = S.c.box
  BY <1>1, ReadiedGone
<1> HIDE DEF u
<1>3. Onward(u, S, "goto")
  BY <1>2 DEF Onward, Outcome, Gone
<1>4. "goto" \in SeqIds \ {"none", "home"}
  BY DEF SeqIds
<1>5. Onward(Begin(u, "goto", ks, line, o), u, "goto")
  BY <1>2, <1>4, BeginOutcome, GoneEven
<1>6. Onward(Begin(u, "goto", ks, line, o), S, "goto")
  BY <1>2, <1>5, OnwardFrom
<1> QED BY <1>3, <1>6 DEF u

LEMMA CmdGotoXYAlive ==
  ASSUME LiveInv, CmdGotoXY
  PROVE  Alive'
<1> DEFINE ks == <<"zs", "line">>
           u(o) == Readied(S, Zs, o)
           t(line, o) == IF Ready(S, Zs, o) THEN Begin(u(o), "goto", ks, line, o) ELSE u(o)
<1>1. PICK line \in Lines, o \in Outs : Leads(AbortSettle(t(line, o)), "serve")
  BY DEF CmdGotoXY, Serve, Core0Step, Leads
<1>2. Served /\ (Rests(S) \/ Waits(S))
  BY DEF CmdGotoXY, Serve, Core0Step
<1>3. Zs \in SUBSET Nodes /\ ks \in Seq(StepKinds)
  BY LegsAssumption DEF StepKinds
<1> HIDE DEF ks
<1>4. Onward(t(line, o), S, "goto")
  BY <1>2, <1>3, GotoOnward
<1> HIDE DEF t
<1> QED BY <1>1, <1>2, <1>4, RestsGone, OnwardAlive

LEMMA CmdGotoLegsAlive ==
  ASSUME LiveInv, CmdGotoLegs
  PROVE  Alive'
<1>1. PICK x \in {<<Zs, "zs">>, <<Rotary, "as">>} :
        Serve("goto", Rests(S) /\ core.events = {} /\ x[1] \subseteq core.origin /\ x[1] # {},
              LAMBDA o : IF Ready(S, x[1], o)
                         THEN Begin(Readied(S, x[1], o), "goto", <<x[2]>>, "far", o)
                         ELSE Readied(S, x[1], o))
  BY DEF CmdGotoLegs
<1> DEFINE u(o) == Readied(S, x[1], o)
           t(o) == IF Ready(S, x[1], o) THEN Begin(u(o), "goto", <<x[2]>>, "far", o) ELSE u(o)
<1>2. PICK o \in Outs : Leads(AbortSettle(t(o)), "serve")
  BY <1>1 DEF Serve, Core0Step, Leads
<1>3. Served /\ Rests(S)
  BY <1>1 DEF Serve, Core0Step
<1>4. x[1] \in SUBSET Nodes /\ x[2] \in StepKinds
  BY <1>1, LegsAssumption DEF StepKinds
<1>5. <<x[2]>> \in Seq(StepKinds)
  BY <1>4
<1>6. Onward(t(o), S, "goto")
  BY <1>3, <1>4, <1>5, GotoOnward
<1> HIDE DEF t
<1> QED BY <1>2, <1>3, <1>6, RestsGone, OnwardAlive

LEMMA CmdGotoAxisAlive ==
  ASSUME LiveInv, CmdGotoAxis
  PROVE  Alive'
<1> DEFINE t(n) == [SequenceStart(S, "gotoaxis") EXCEPT !.c.ringStep = TRUE,
                                                        !.r.state = "queued", !.r.moves = {n}]
<1>1. PICK n \in Zs, o \in Outs : Leads(AbortSettle(t(n)), "serve")
  BY DEF CmdGotoAxis, Serve, Core0Step, Leads
<1>2. Served /\ Rests(S)
  BY DEF CmdGotoAxis, Serve, Core0Step
<1> DEFINE x == SequenceStart(S, "gotoaxis")
<1>3. S \in States /\ Gone(S) /\ S.c.box = <<>> /\ "gotoaxis" \in SeqIds /\ S.c.estop = "clear"
  BY <1>2, RestsGone DEF SeqIds
<1>4. x \in States /\ SameMachine(x, S) /\ SameLegs(x, S) /\ x.c.seq = "gotoaxis" /\ x.r = S.r
      /\ SameThreads(x, S)
  BY <1>3, SequenceStartIs, EndThreads
<1> HIDE DEF x
<1>5. Rest(x)
  BY <1>3, <1>4, GoneEven, SameRest
<1>6. {n} \in SUBSET Nodes
  BY LegsAssumption
<1> DEFINE v == [x EXCEPT !.r.state = "queued", !.r.moves = {n}, !.c.ringStep = TRUE]
<1>7. v = t(n)
  BY <1>4 DEF x, States
<1>8. v \in States /\ SameLegs(v, x) /\ v.c.seq = x.c.seq /\ Rolling(v) /\ Quiet(v, x)
  BY <1>4, <1>5, <1>6, QueueIs, QueueRolls
<1> HIDE DEF v, t
<1>9. Onward(v, S, "gotoaxis")
  BY <1>3, <1>4, <1>8 DEF Onward, Outcome, Quiet, SameMachine, SameLegs
<1> QED BY <1>1, <1>3, <1>7, <1>9, OnwardAlive

LEMMA CmdEnableAlive ==
  ASSUME LiveInv, NEW n \in Nodes, CmdEnable(n)
  PROVE  Alive'
<1>1. PICK o \in Outs : Leads(AbortSettle(Enable(S, {n}, o)), "serve")
  BY DEF CmdEnable, Serve, Core0Step, Leads
<1>2. Served /\ Rests(S)
  BY DEF CmdEnable, Serve, Core0Step
<1> DEFINE t == Enable(S, {n}, o)
<1>3. t \in States /\ SameMachine(t, S) /\ SameSequence(t, S) /\ SameLegs(t, S) /\ SameThreads(t, S)
  BY LiveIs, EnableIs, EnableThreads
<1>4. S.c.seq = "none" /\ S.c.estop = "clear"
  BY <1>2, RestsGone
<1>5. Leads(AbortSettle(t), "serve")
  BY <1>1
<1> HIDE DEF t
<1>6. t.c.seq = "none" /\ t.r.facts = S.r.facts /\ t.c.estop = "clear"
  BY <1>3, <1>4 DEF SameMachine, SameSequence
<1> QED BY <1>2, <1>3, <1>4, <1>5, <1>6, GoneAlive

LEMMA CmdSetOriginAlive ==
  ASSUME LiveInv, NEW n \in Nodes, CmdSetOrigin(n)
  PROVE  Alive'
<1> DEFINE where == [m \in Nodes |-> node[m].at]
           s(o) == OriginDatum(S, {n}, where, o)
           t(o) == IF Deaf({n}, o) = {} THEN [s(o) EXCEPT !.c.ctx = "IDLE"] ELSE s(o)
<1>1. PICK o \in Outs : Leads(AbortSettle(t(o)), "serve")
  BY DEF CmdSetOrigin, Serve, Core0Step, Leads
<1>2. Served /\ ~Busy(S)
  BY DEF CmdSetOrigin, Serve, Core0Step
<1> DEFINE x == s(o)
           y == [x EXCEPT !.c.ctx = "IDLE"]
<1>3. where \in [Nodes -> Places]
  BY LiveIs DEF States, NodeStates, Places
<1> HIDE DEF where
<1>4. /\ x \in States /\ SameMachine(x, S) /\ SameSequence(x, S) /\ SameLegs(x, S) /\ SameThreads(x, S)
  BY <1>3, LiveIs, OriginDatumIs, DatumThreads
<1> HIDE DEF s, x
<1>5. /\ y \in States /\ SameLegs(y, x) /\ y.c.seq = x.c.seq /\ y.c.ctx = "IDLE" /\ y.r = x.r
      /\ SameThreads(y, x)
  BY <1>4 DEF States, Cores, SameLegs, SameThreads
<1> HIDE DEF y
<1>6. S.c.seq = "none" /\ Fit(S)
  BY <1>2, NotBusyGone, LiveIs
<1>7. ASSUME NEW z \in {x, y}
      PROVE  z \in States /\ SameLegs(z, S) /\ SameThreads(z, S) /\ z.c.seq = "none" /\ z.r.facts = S.r.facts
             /\ (z.c.estop = "clear" \/ z.c.ctx = "IDLE")
  BY <1>4, <1>5, <1>6, <1>7 DEF SameLegs, SameThreads, SameMachine, SameSequence, Fit
<1>8. t(o) \in {x, y}
  BY DEF x, y
<1> HIDE DEF t
<1> QED BY <1>1, <1>2, <1>6, <1>7, <1>8, GoneAlive

(* A command that only writes the machine's own fields.                    *)
Plain(t) ==
  /\ t \in States /\ SameLegs(t, S) /\ SameThreads(t, S) /\ t.c.seq = S.c.seq /\ t.r = S.r

LEMMA PlainAlive ==
  ASSUME LiveInv, Served, S.c.seq = "none", NEW t, Plain(t), t.c.estop = "clear" \/ t.c.ctx = "IDLE",
         Leads(AbortSettle(t), "serve")
  PROVE  Alive'
BY GoneAlive DEF Plain

LEMMA CmdHomeEndAlive ==
  ASSUME LiveInv, CmdHomeEnd
  PROVE  Alive'
<1> DEFINE t == [S EXCEPT !.c.ctx = "IDLE"]
<1>1. Leads(AbortSettle(t), "serve") /\ Served /\ S.c.seq = "none"
  BY LiveIs DEF CmdHomeEnd, Serve, Core0Step, Leads
<1>2. Plain(t) /\ t.c.ctx = "IDLE"
  BY LiveIs DEF States, Cores, SameLegs, SameThreads, Plain
<1> HIDE DEF t
<1> QED BY <1>1, <1>2, PlainAlive

LEMMA CmdUnstopAlive ==
  ASSUME LiveInv, CmdUnstop
  PROVE  Alive'
<1> DEFINE t == [S EXCEPT !.c.estop = "clear"]
<1>1. Leads(AbortSettle(t), "serve") /\ Served /\ ~Busy(S)
  BY DEF CmdUnstop, Serve, Core0Step, Leads
<1>2. Plain(t) /\ t.c.estop = "clear"
  BY LiveIs DEF States, Cores, SameLegs, SameThreads, Plain
<1> HIDE DEF t
<1> QED BY <1>1, <1>2, NotBusyGone, PlainAlive

LEMMA JobHdrAlive ==
  ASSUME LiveInv, JobHdr
  PROVE  Alive'
<1> DEFINE t == [S EXCEPT !.c.ctx = "JOB", !.c.why = "PLACE", !.c.begun = FALSE, !.c.isSet = FALSE]
<1>1. Leads(AbortSettle(t), "serve") /\ Served /\ Rests(S)
  BY DEF JobHdr, Serve, Core0Step, Leads, Idle
<1>2. Plain(t) /\ t.c.estop = S.c.estop
  BY ZenonT(30), LiveIs DEF States, Cores, SameLegs, SameThreads, Plain
<1> HIDE DEF t
<1> QED BY <1>1, <1>2, RestsGone, PlainAlive

LEMMA ToolHdrAlive ==
  ASSUME LiveInv, ToolHdr
  PROVE  Alive'
<1> DEFINE t == [S EXCEPT !.c.why = "TOOL_CHANGE", !.c.begun = FALSE]
<1>1. Leads(AbortSettle(t), "serve") /\ Served /\ S.c.ctx = "JOB" /\ S.c.why = "BUFFERING"
  BY LiveIs DEF ToolHdr, Serve, Core0Step, Leads
<1>2. Plain(t) /\ t.c.estop = S.c.estop
  BY LiveIs DEF States, Cores, SameLegs, SameThreads, Plain
<1> HIDE DEF t
<1>3. S.c.seq = "none" /\ S.c.estop = "clear"
  BY <1>1, LiveIs DEF Good, Owned, Fit
<1> QED BY <1>1, <1>2, <1>3, PlainAlive

LEMMA ToolChangeLeaveAlive ==
  ASSUME LiveInv, ToolChangeLeave
  PROVE  Alive'
<1> DEFINE t == [S EXCEPT !.c.why = "BUFFERING"]
<1>1. Leads(AbortSettle(t), "serve") /\ Served /\ Waits(S)
  BY DEF ToolChangeLeave, Serve, Core0Step, Leads
<1>2. Plain(t) /\ t.c.estop = S.c.estop
  BY LiveIs DEF States, Cores, SameLegs, SameThreads, Plain
<1> HIDE DEF t
<1> QED BY <1>1, <1>2, RestsGone, PlainAlive

LEMMA PlaceAdmitsGone ==
  ASSUME LiveInv, Served, NEW b, PlaceAdmits(b)
  PROVE  S \in States /\ S.c.seq = "none" /\ S.c.box = <<>> /\ Gone(S) /\ S.c.estop = "clear"
<1>1. ~Busy(S) /\ S.c.estop = "clear"
  BY LiveIs DEF PlaceAdmits
<1> QED BY <1>1, LiveIs, NotBusyGone

LEMMA PlaceSetAlive ==
  ASSUME LiveInv, PlaceSet
  PROVE  Alive'
<1> DEFINE t == [S EXCEPT !.c.isSet = TRUE]
<1>1. Leads(AbortSettle(t), "serve") /\ Served /\ PlaceAdmits(FALSE)
  BY DEF PlaceSet, Serve, Core0Step, Leads
<1>2. Plain(t) /\ t.c.estop = S.c.estop
  BY LiveIs DEF States, Cores, SameLegs, SameThreads, Plain
<1> HIDE DEF t
<1> QED BY <1>1, <1>2, PlaceAdmitsGone, PlainAlive

LEMMA PlaceOkAlive ==
  ASSUME LiveInv, PlaceOk
  PROVE  Alive'
<1> DEFINE t == [S EXCEPT !.c.why = "BUFFERING", !.c.begun = FALSE, !.c.isSet = FALSE]
<1>1. Leads(AbortSettle(t), "serve") /\ Served /\ PlaceAdmits(TRUE)
  BY DEF PlaceOk, Serve, Core0Step, Leads
<1>2. Plain(t) /\ t.c.estop = S.c.estop
  BY LiveIs DEF States, Cores, SameLegs, SameThreads, Plain
<1> HIDE DEF t
<1> QED BY <1>1, <1>2, PlaceAdmitsGone, PlainAlive

LEMMA PlaceOnward ==
  ASSUME LiveInv, Served, PlaceAdmits(TRUE), NEW ks \in Seq(StepKinds), NEW line, NEW o
  PROVE  Onward(Begin(S, "place", ks, line, o), S, "place")
<1>1. "place" \in SeqIds \ {"none", "home"}
  BY DEF SeqIds
<1> QED BY <1>1, PlaceAdmitsGone, GoneEven, BeginOutcome

LEMMA PlaceGoAlive ==
  ASSUME LiveInv, PlaceGo
  PROVE  Alive'
<1>1. PICK line \in Lines, route \in {<<"line">>, <<"line", "line">>}, o \in Outs :
        Leads(AbortSettle(Begin(S, "place", route, line, o)), "serve") /\ Served /\ PlaceAdmits(TRUE)
  BY DEF PlaceGo, Serve, Core0Step, Leads
<1>2. route \in Seq(StepKinds)
  <2>1. <<"line">> \in Seq(StepKinds) /\ <<"line", "line">> \in Seq(StepKinds)
    BY DEF StepKinds
  <2> QED BY <2>1
<1>3. Onward(Begin(S, "place", route, line, o), S, "place")
  BY <1>1, <1>2, PlaceOnward
<1> QED BY <1>1, <1>3, PlaceAdmitsGone, OnwardAlive

LEMMA PlaceResetAlive ==
  ASSUME LiveInv, PlaceReset
  PROVE  Alive'
<1> DEFINE ks == <<"line">>
           s(line, o) == Begin(S, "place", ks, line, o)
           t(line, o) == IF line = "refused" \/ ring.abort THEN s(line, o)
                         ELSE [s(line, o) EXCEPT !.c.isSet = FALSE]
<1>1. PICK line \in Lines, o \in Outs :
        Leads(AbortSettle(t(line, o)), "serve") /\ Served /\ PlaceAdmits(TRUE)
  BY PlaceResetServes
<1>2. ks \in Seq(StepKinds)
  BY DEF StepKinds
<1> HIDE DEF ks
<1> DEFINE x == s(line, o)
           y == [x EXCEPT !.c.isSet = FALSE]
<1>3. Onward(x, S, "place")
  BY <1>1, <1>2, PlaceOnward
<1> HIDE DEF s, x
<1>4. x \in States
  BY <1>3 DEF Onward
<1>5. /\ y \in States /\ y.c.seq = x.c.seq /\ SameLegs(y, x) /\ SameThreads(y, x) /\ y.r = x.r
      /\ y.c.ringStep = x.c.ringStep /\ y.c.run = x.c.run /\ y.c.estop = x.c.estop
  BY <1>4 DEF States, Cores, SameLegs, SameThreads
<1> HIDE DEF y
<1>6. Outcome(y)
  BY <1>3, <1>5, SameRest, SameArmed DEF Onward, Outcome, Gone, Rolling, Coming
<1>7. Onward(y, S, "place")
  BY <1>3, <1>5, <1>6 DEF Onward, Quiet, SameLegs
<1>8. Onward(t(line, o), S, "place")
  BY <1>3, <1>7 DEF x, y
<1> HIDE DEF t
<1> QED BY <1>1, <1>8, PlaceAdmitsGone, OnwardAlive

LEMMA CmdUnalarmAlive ==
  ASSUME LiveInv, CmdUnalarm
  PROVE  Alive'
<1> DEFINE s == [S EXCEPT !.c.events = {}]
           t(o) == RecoveryStart(s, o)
<1>1. PICK o \in Outs : Leads(AbortSettle(t(o)), "serve") /\ Served /\ Rests(S)
  BY DEF CmdUnalarm, Serve, Core0Step, Leads
<1>2. S \in States /\ Gone(S) /\ S.c.box = <<>> /\ S.c.estop = "clear"
  BY <1>1, RestsGone
<1>3. /\ s \in States /\ SameLegs(s, S) /\ s.c.seq = S.c.seq /\ s.c.estop = S.c.estop /\ s.r = S.r
      /\ SameThreads(s, S)
  BY <1>2 DEF States, Cores, SameLegs, SameThreads
<1> HIDE DEF s
<1>4. Gone(s) /\ Quiet(s, S) /\ s.c.box = S.c.box
  BY <1>2, <1>3, SameRest DEF Gone, Quiet, SameLegs
<1>5. Onward(t(o), s, "recovery")
  BY <1>3, <1>4, RecoveryStartOutcome
<1> HIDE DEF t
<1>6. Onward(t(o), S, "recovery")
  BY <1>4, <1>5, OnwardFrom
<1> QED BY <1>1, <1>2, <1>6, OnwardAlive

LEMMA CmdStopAlive ==
  ASSUME LiveInv, CmdStop, core.box = <<>>
  PROVE  Alive'
<1> DEFINE s == [S EXCEPT !.c.estop = "asked"]
           u == TearDownEstop(s)
           t == OriginInvalidate(u, Nodes)
<1>1. Leads(AbortSettle(t), "serve") /\ Served
  BY DEF CmdStop, Serve, Core0Step, Leads
<1>2. S.c.box = <<>> /\ S \in States /\ Fit(S)
  BY LiveIs
<1>3. Even(S)
  BY <1>2, LiveIs, LiveEmpty, OutcomeEven
<1>4. s \in States /\ SameLegs(s, S) /\ SameThreads(s, S) /\ s.r = S.r
  BY <1>2 DEF States, Cores, SameLegs, SameThreads
<1> HIDE DEF s
<1>5. Even(s)
  BY <1>3, <1>4, SameRest DEF Even, SameLegs
<1>6. u \in States /\ Gone(u) /\ u.r = s.r /\ u.c.ctx = "IDLE" /\ (u.c.box = s.c.box \/ u.c.box = <<>>)
  BY <1>4, <1>5, EstopRests
<1> HIDE DEF u
<1>7. t \in States /\ SameMachine(t, u) /\ SameSequence(t, u) /\ SameLegs(t, u) /\ SameThreads(t, u)
  BY <1>6, OriginInvalidateIs, OriginThreads
<1> HIDE DEF t
<1>8. Gone(t) /\ t.c.box = <<>>
  BY <1>2, <1>4, <1>6, <1>7, SameRest DEF Gone, SameLegs, SameSequence
<1>9. Fit(t)
  BY <1>2, <1>4, <1>6, <1>7, <1>8 DEF Fit, Gone, SameMachine, SameSequence
<1> QED BY <1>1, <1>7, <1>8, <1>9, KeptOutcome, ServesAlive DEF Outcome

LEMMA CmdCancelAlive ==
  ASSUME LiveInv, CmdCancel
  PROVE  Alive'
<1> DEFINE t == [S EXCEPT !.c.ctx = "IDLE", !.c.why = "none", !.c.begun = FALSE, !.c.isSet = FALSE,
                          !.r.state = "idle"]
<1>1. Leads(AbortSettle(t), "serve") /\ Served /\ S.c.ctx = "JOB"
      /\ (S.c.why = "BUFFERING" \/ ~Busy(S) \/ S.r.state = "idle")
  BY LiveIs DEF CmdCancel, Serve, Core0Step, Leads
<1>2. t \in States
  BY ZenonT(60), LiveIs DEF States, Cores, Rings
<1>3. /\ SameLegs(t, S) /\ SameThreads(t, S) /\ t.c.seq = S.c.seq /\ t.c.ringStep = S.c.ringStep
      /\ t.c.run = S.c.run /\ t.c.ctx = "IDLE" /\ t.r.facts = S.r.facts
      /\ t.r.state = "idle" /\ t.r.leaving = S.r.leaving /\ t.c.estop = S.c.estop
  BY LiveIs DEF States, Cores, Rings, SameLegs, SameThreads
<1> HIDE DEF t
<1>4. CASE S.c.seq = "none"
  BY <1>1, <1>2, <1>3, <1>4, GoneAlive
<1>5. CASE S.c.seq # "none"
  <2>1. S.r.state = "idle" /\ S.c.seq # "traverse"
    BY <1>1, <1>5, LiveIs, NotBusy DEF Good, Owned, Fit, LiveInv
  <2>2. S.c.box = <<>>
    BY <1>1, <2>1, ServedOutcome
  <2>3. Live(t)
    BY <1>3, <2>1, LiveIs, LiveSame DEF Coming
  <2>4. Fit(t) /\ t.c.box = <<>>
    BY <1>1, <1>3, <1>5, <2>1, <2>2, LiveIs DEF Fit, SameLegs
  <2>5. Kept(t)
    BY <2>3, <2>4 DEF Kept
  <2> QED BY <1>1, <1>2, <2>4, <2>5, ServesAlive
<1> QED BY <1>4, <1>5

LEMMA HostAbortAlive ==
  ASSUME LiveInv, HostAbort
  PROVE  Alive'
<1>1. PICK o \in Outs : Leads(JobAbort(S, o), "serve") /\ Served
  BY DEF HostAbort, Core0Step, Leads
<1> DEFINE t == JobAbort(S, o)
<1>2. S \in States /\ t \in States /\ Emptied(t, S) /\ t.c.ctx = S.c.ctx /\ Quiet(t, S)
  BY LiveIs, JobAbortIs, JobAbortQuiet
<1>3. CASE S.c.ctx = "JOB"
  <2>1. S.c.seq # "traverse" /\ S.c.estop = "clear"
    BY <1>3, LiveIs DEF Fit
  <2>2. S.c.box = <<>> /\ Outcome(S)
    BY <1>1, <2>1, ServedOutcome
  <2>3. Even(S) /\ (S.c.seq = "none" => Rest(S))
    BY <2>2, OutcomeEven, OwnedGone, GoneEven
  <2>4. Gone(t)
    BY <1>2, <1>3, <2>3, JobAbortRests
  <2> HIDE DEF t
  <2>5. t.c.box = <<>>
    BY <1>2, <2>2 DEF Emptied
  <2>6. Fit(t)
    BY <1>2, <2>1, <2>4, LiveIs DEF Fit, Gone, Quiet
  <2>7. Kept(t)
    BY <2>4, <2>5, <2>6, KeptOutcome DEF Outcome
  <2> QED BY <1>1, <1>2, <2>5, <2>7, LeadsAlive DEF t
<1>4. CASE S.c.ctx # "JOB"
  <2>1. t = [S EXCEPT !.r.abort = TRUE]
    BY <1>4 DEF JobAbort
  <2>2. t.c = S.c /\ t.r.state = S.r.state /\ t.r.leaving = S.r.leaving /\ t.r.facts = S.r.facts
    BY <1>2, <2>1 DEF States, Rings
  <2> HIDE DEF t
  <2>3. Live(t)
    BY <2>2, LiveIs, LiveSame DEF SameLegs, SameThreads, Coming
  <2>4. Kept(t)
    BY <2>2, <2>3, LiveIs DEF Kept, Fit
  <2>5. t.c.box = <<>> \/ Loose(t)
    BY <1>1, <2>2, ServedBox DEF Loose
  <2> QED BY <1>1, <1>2, <2>4, <2>5, LeadsAlive DEF t
<1> QED BY <1>3, <1>4

(* The arm of one node: it joins, or nothing is claimed.                   *)
ArmsOne(r, s, n) ==
  /\ r.s \in States /\ SameMachine(r.s, s) /\ SameSequence(r.s, s) /\ r.s.c.box = s.c.box
  /\ r.bad # None => SameThreads(r.s, s) /\ r.s.c.leg = s.c.leg /\ r.s.c.live = s.c.live
  /\ r.bad = None => /\ r.s.c.live = TRUE /\ r.s.c.open = {n} /\ Claimed(r.s) = {n}
                     /\ Polled(r.s) /\ n \in r.s.c.last

LEMMA SingleArm ==
  ASSUME NEW s \in States, Gone(s), NEW n \in Nodes, NEW plan \in [{n} -> Plans], plan[n].last, NEW o
  PROVE  ArmsOne(Arm(s, plan, o), s, n)
<1> DEFINE r == Arm(s, plan, o)
<1>1. plan \in [{n} -> Plans] /\ {n} \in SUBSET Nodes /\ plan[n].last /\ DOMAIN plan = {n}
  OBVIOUS
<1>2. r.s \in States /\ SameMachine(r.s, s) /\ SameSequence(r.s, s) /\ r.s.c.box = s.c.box
  BY <1>1, ArmIs
<1>3. \E A \in SUBSET {n} :
        /\ Joined(r.s, s, A, plan) /\ r.any = (A # {})
        /\ r.bad = None => /\ A = {n}
                           /\ \A k \in Nodes : r.s.n[k] = IF k \in {n} THEN NodeArm(s, k, plan[k], o)
                                                          ELSE s.n[k]
        /\ r.bad # None => r.bad \in Nodes
  BY <1>1, ArmJoins
<1>4. r.bad # None => r.any = FALSE
  <2> DEFINE refused == {k \in DOMAIN plan : ArmWhy(s, k, plan[k], o) # "ok"}
             bad == IF refused = {} THEN None ELSE FirstOf(refused)
             tried == {k \in DOMAIN plan : bad = None \/ Rank(k) <= Rank(bad)}
  <2>1. r.bad = bad /\ r.any = (tried \ {bad} # {})
    BY DEF Arm
  <2>2. refused \in SUBSET Nodes /\ refused \subseteq {n} /\ tried \subseteq {n}
    BY <1>1
  <2>3. bad # None => bad = n
    BY <2>2, FirstOfIs
  <2> HIDE DEF bad, tried
  <2> QED BY <2>1, <2>2, <2>3
<1> HIDE DEF r
<1>5. PICK A \in SUBSET {n} :
        Joined(r.s, s, A, plan) /\ r.any = (A # {}) /\ (r.bad = None => A = {n})
  BY <1>3
<1>6. ASSUME r.bad # None
      PROVE  SameThreads(r.s, s) /\ r.s.c.leg = s.c.leg /\ r.s.c.live = s.c.live
  <2>1. A = {}
    BY <1>4, <1>5, <1>6
  <2> QED BY <1>2, <1>5, <2>1, JoinedNone
<1>7. ASSUME r.bad = None
      PROVE  /\ r.s.c.live = TRUE /\ r.s.c.open = {n} /\ Claimed(r.s) = {n}
             /\ Polled(r.s) /\ n \in r.s.c.last
  <2>1. A = {n} /\ A \in SUBSET Nodes /\ A # {}
    BY <1>5, <1>7
  <2>2. r.s.c.live = TRUE /\ r.s.c.open = A /\ Claimed(r.s) = A /\ Polled(r.s)
    BY <1>2, <1>5, <2>1, GoneEven, JoinedRest
  <2>3. n \in r.s.c.last
    BY <1>1, <1>5, <2>1 DEF Joined
  <2> QED BY <2>1, <2>2, <2>3
<1> QED BY <1>2, <1>6, <1>7 DEF r, ArmsOne

(* A leg outside a sequence of its own runs as one.                        *)
LEMMA StartArmed ==
  ASSUME NEW a \in States, NEW n \in Nodes, a.c.live = TRUE, a.c.open = {n}, Claimed(a) = {n}, Polled(a),
         n \in a.c.last, NEW id \in {"leg", "traverse"}
  PROVE  LET t == SequenceStart(a, id)
         IN t \in States /\ Armed(t) /\ t.c.seq = id /\ t.c.box = a.c.box /\ SameMachine(t, a) /\ t.r = a.r
<1> DEFINE t == SequenceStart(a, id)
<1>1. id \in SeqIds
  BY DEF SeqIds
<1>2. /\ t \in States /\ SameMachine(t, a) /\ SameLegs(t, a) /\ t.r = a.r /\ t.c.seq = id /\ t.c.ringStep = FALSE
      /\ SameThreads(t, a)
  BY <1>1, SequenceStartIs, EndThreads
<1> HIDE DEF t
<1>3. Claimed(t) = Claimed(a) /\ Polled(t)
  BY <1>2 DEF SameLegs, Claimed, Polled
<1>4. Armed(t)
  BY <1>2, <1>3 DEF SameLegs, SameThreads, Armed, LastLeg
<1> QED BY <1>2, <1>4 DEF t, SameLegs

LEMMA CmdLegAlive ==
  ASSUME LiveInv, NEW n \in Nodes, CmdLeg(n)
  PROVE  Alive'
<1> DEFINE p(intent) == IF intent = "park" THEN Park ELSE Leg(intent, "between", TRUE)
           plan(intent) == [m \in {n} |-> p(intent)]
           homes(intent) == intent \in {"seek", "retract", "sweep"} \/ (intent = "park" /\ core.ctx = "HOMING")
           armed(intent, o) == Arm(S, plan(intent), o)
           t(intent, o) ==
             IF armed(intent, o).bad # None THEN armed(intent, o).s
             ELSE IF homes(intent) THEN [SequenceStart(armed(intent, o).s, "leg") EXCEPT !.c.ctx = "HOMING"]
             ELSE SequenceStart(armed(intent, o).s, "traverse")
<1>0. PICK intent \in {"seek", "retract", "sweep", "park", "span", "unlatch"} :
        Serve("leg", /\ LegAdmits(intent) /\ n \in core.enabled
                     /\ (intent = "park" => n \in core.origin) /\ (intent = "unlatch" => n \in core.latch),
              LAMBDA o : t(intent, o))
  BY DEF CmdLeg
<1>1. PICK o \in Outs : Leads(AbortSettle(t(intent, o)), "serve") /\ LegAdmits(intent) /\ Served
                        /\ "leg" \in Commands
  <2> HIDE DEF t
  <2> QED BY <1>0 DEF Serve, Core0Step, Leads
<1>2. ~Busy(S) /\ S.c.estop = "clear" /\ (~homes(intent) => S.c.ctx = "IDLE")
  BY <1>1, LiveIs DEF LegAdmits, Idle, Latched, Rests
<1>3. S \in States /\ Gone(S) /\ S.c.seq = "none" /\ S.c.box = <<>> /\ Fit(S)
  BY <1>1, <1>2, NotBusyGone, LiveIs
<1>4. p(intent) \in Plans /\ p(intent).last
  BY DEF Park, Leg, Plans, Intents, Places
<1> HIDE DEF p
<1> DEFINE a == armed(intent, o).s
           bad == armed(intent, o).bad
<1>5. /\ a \in States /\ SameMachine(a, S) /\ SameSequence(a, S) /\ a.c.box = S.c.box
      /\ bad # None => SameThreads(a, S) /\ a.c.leg = S.c.leg /\ a.c.live = S.c.live
      /\ bad = None => /\ a.c.live = TRUE /\ a.c.open = {n} /\ Claimed(a) = {n}
                       /\ Polled(a) /\ n \in a.c.last
  <2> DEFINE w == plan(intent)
  <2>1. w \in [{n} -> Plans] /\ w[n].last
    BY <1>4
  <2> HIDE DEF w
  <2>2. ArmsOne(Arm(S, w, o), S, n)
    BY <1>3, <2>1, SingleArm
  <2>3. ArmsOne(armed(intent, o), S, n)
    BY <2>2 DEF w
  <2> QED BY <2>3 DEF ArmsOne
<1>6. t(intent, o) = IF bad # None THEN a
                     ELSE IF homes(intent) THEN [SequenceStart(a, "leg") EXCEPT !.c.ctx = "HOMING"]
                     ELSE SequenceStart(a, "traverse")
  OBVIOUS
<1>7. a.c.estop = "clear" /\ a.r = S.r /\ a.c.ctx = S.c.ctx /\ a.c.seq = "none"
  BY <1>2, <1>3, <1>5 DEF SameMachine, SameSequence
<1>8. CASE bad # None
  <2>1. t(intent, o) = a
    BY <1>6, <1>8
  <2> HIDE DEF t, bad, a
  <2>2. SameLegs(a, S) /\ SameThreads(a, S)
    BY <1>5, <1>8 DEF SameLegs
  <2> QED BY <1>1, <1>3, <1>5, <1>7, <2>1, <2>2, GoneAlive
<1>9. CASE bad = None /\ homes(intent)
  <2> DEFINE x == SequenceStart(a, "leg")
             y == [x EXCEPT !.c.ctx = "HOMING"]
  <2>1. t(intent, o) = y
    BY <1>6, <1>9
  <2> HIDE DEF t, bad, a
  <2>2. x \in States /\ Armed(x) /\ x.c.seq = "leg" /\ x.c.box = a.c.box /\ SameMachine(x, a) /\ x.r = a.r
    BY <1>5, <1>9, StartArmed
  <2> HIDE DEF x
  <2>3. /\ y \in States /\ SameLegs(y, x) /\ SameThreads(y, x) /\ y.c.seq = x.c.seq
        /\ y.c.ringStep = x.c.ringStep /\ y.c.run = x.c.run /\ y.r = x.r /\ y.c.estop = x.c.estop
    BY <2>2 DEF States, Cores, SameLegs, SameThreads
  <2> HIDE DEF y
  <2>4. Armed(y) /\ y.c.box = <<>>
    BY <1>3, <1>5, <2>2, <2>3, SameArmed DEF SameLegs
  <2>5. Fit(y)
    BY <1>3, <1>7, <2>2, <2>3 DEF Fit, SameMachine
  <2>6. Kept(y)
    BY <2>4, <2>5, KeptOutcome DEF Outcome
  <2> QED BY <1>1, <2>1, <2>3, <2>4, <2>6, ServesAlive
<1>10. CASE bad = None /\ ~homes(intent)
  <2> DEFINE x == SequenceStart(a, "traverse")
  <2>1. t(intent, o) = x
    BY <1>6, <1>10
  <2>0. S.c.ctx = "IDLE"
    BY <1>2, <1>10
  <2> HIDE DEF t, bad, a
  <2>2. x \in States /\ Armed(x) /\ x.c.seq = "traverse" /\ x.c.box = a.c.box /\ SameMachine(x, a) /\ x.r = a.r
    BY <1>5, <1>10, StartArmed
  <2> HIDE DEF x
  <2>3. Fit(x)
    BY <1>1, <1>3, <1>7, <2>0, <2>2 DEF Fit, SameMachine
  <2>4. Kept(x) /\ x.c.box = <<>>
    BY <1>3, <1>5, <2>2, <2>3, KeptOutcome DEF Outcome
  <2> QED BY <1>1, <2>1, <2>2, <2>4, ServesAlive
<1> QED BY <1>8, <1>9, <1>10

LEMMA CmdLegAbortAlive ==
  ASSUME LiveInv, NEW n \in Nodes, CmdLegAbort(n)
  PROVE  Alive'
<1> DEFINE halted(o) == [S EXCEPT !.n[n] = IF Out(o, n) = "unheard" THEN @ ELSE AbortLeg(@, o, n)]
           freed(o)  == StepCheck(OriginInvalidate([halted(o) EXCEPT !.c.leg[n] = NoLeg,
                                                                     !.c.open = @ \ {n}], {n}))
           t(o) == IF Out(o, n) # "ok" THEN halted(o)
                   ELSE IF freed(o).c.seq \in {"none", "traverse"} THEN freed(o) ELSE HomingFail(freed(o), o)
<1>0. Serve("legabort", core.ctx # "JOB" /\ (core.live \/ ring.state = "idle") /\ n \in Claimed(S),
            LAMBDA o : t(o))
  BY DEF CmdLegAbort
<1>1. PICK o \in Outs : Leads(AbortSettle(t(o)), "serve") /\ Served /\ n \in Claimed(S) /\ "legabort" \in Commands
  <2> HIDE DEF t
  <2> QED BY <1>0 DEF Serve, Core0Step, Leads
<1>2. S \in States /\ S.c.box = <<>> /\ Armed(S) /\ Fit(S)
  BY <1>1, ServedArmed, LiveIs
<1>3. S.c.seq # "none" /\ S.c.estop = "clear"
  BY <1>2 DEF Armed, Fit
<1> DEFINE d == IF Out(o, n) = "unheard" THEN S.n[n] ELSE AbortLeg(S.n[n], o, n)
           m == [S.n EXCEPT ![n] = d]
           h == [S EXCEPT !.n = m]
           g == [S.c.leg EXCEPT ![n] = NoLeg]
           q == S.c.open \ {n}
           x == [h EXCEPT !.c.leg = g, !.c.open = q]
           y == OriginInvalidate(x, {n})
           f == StepCheck(y)
<1>4. S.n[n] \in NodeStates
  BY <1>2 DEF States
<1>5. d \in NodeStates
  BY <1>4, AbortLegType
<1>6. halted(o) = h
  BY <1>2 DEF States
<1> HIDE DEF d
<1>7. m \in [Nodes -> NodeStates]
  BY <1>5, <1>2 DEF States
<1> HIDE DEF m
<1>8. h \in States /\ h.c = S.c /\ h.r = S.r
  BY <1>7, <1>2 DEF States
<1>9. [h EXCEPT !.c.leg[n] = NoLeg, !.c.open = @ \ {n}] = x
  BY <1>2 DEF States, Cores
<1> HIDE DEF h, halted
<1>10. g \in [Nodes -> LegStates] /\ q \in SUBSET Nodes /\ g[n] = NoLeg
       /\ \A k \in Nodes \ {n} : g[k] = S.c.leg[k]
  BY <1>2, NoLegType DEF States, Cores
<1> HIDE DEF g, q
<1>11. /\ x \in States /\ SameSequence(x, S) /\ SameMachine(x, S) /\ x.c.leg = g /\ x.c.live = S.c.live
       /\ x.c.box = S.c.box /\ x.c.open = q /\ x.c.last = S.c.last
  BY <1>8, <1>10 DEF States, Cores, SameSequence, SameMachine
<1> HIDE DEF x
<1>12. y \in States /\ SameSequence(y, x) /\ SameMachine(y, x) /\ SameLegs(y, x) /\ SameThreads(y, x)
  BY <1>11, OriginInvalidateIs, OriginThreads
<1> HIDE DEF y
<1>13. /\ f \in States /\ SameSequence(f, y) /\ SameMachine(f, y) /\ f.c.leg = y.c.leg /\ Claimed(f) = Claimed(y)
  BY <1>12, StepCheckIs
<1>14. /\ f.c.open = y.c.open /\ f.c.last = y.c.last
       /\ IF y.c.live /\ Claimed(y) = {} /\ y.c.open = {}
          THEN f.c.live = FALSE /\ f.c.box = Append(y.c.box, StepEnd)
          ELSE f = y
  BY <1>12, StepCheckThreads
<1>15. freed(o) = f
  BY <1>6, <1>9 DEF y
<1>16. t(o) = IF Out(o, n) # "ok" THEN h ELSE IF f.c.seq \in {"none", "traverse"} THEN f ELSE HomingFail(f, o)
  BY <1>6, <1>15
<1> HIDE DEF f, freed, t
<1>17. f.c.seq = S.c.seq /\ f.c.ringStep = FALSE /\ f.c.run = S.c.run /\ f.r = S.r /\ f.c.ctx = S.c.ctx
       /\ f.c.estop = S.c.estop
  BY <1>2, <1>11, <1>12, <1>13 DEF SameSequence, SameMachine, Armed
<1>18. Fit(f)
  BY <1>2, <1>17 DEF Fit
<1>19. CASE Out(o, n) # "ok"
  <2>1. Outcome(h) /\ h.c.box = <<>> /\ Fit(h)
    BY <1>2, <1>8, SameArmed DEF Outcome, SameLegs, SameThreads, Fit
  <2> QED BY <1>1, <1>8, <1>16, <1>19, <2>1, KeptOutcome, ServesAlive
<1>20. CASE Out(o, n) = "ok" /\ f.c.seq = "traverse" /\ y.c.live /\ Claimed(y) = {} /\ y.c.open = {}
  <2>1. f.c.live = FALSE /\ f.c.open = {} /\ f.c.box = <<StepEnd>>
    BY <1>2, <1>11, <1>12, <1>14, <1>20 DEF SameLegs
  <2>2. f.c.leg = NoLegs
    <3>1. f.c.leg \in [Nodes -> LegStates] /\ \A k \in Nodes : f.c.leg[k] = NoLeg
      BY <1>13, <1>20 DEF States, Cores, Claimed
    <3> QED BY <3>1 DEF NoLegs
  <2>3. Over(f)
    BY <1>17, <1>20, <2>1, <2>2 DEF Over, Rest
  <2> DEFINE v == AbortSettle(f)
  <2>4. Steady(v, f)
    BY <1>13, AbortSettleSteady
  <2>5. Leads(v, "serve")
    BY <1>1, <1>16, <1>20
  <2> HIDE DEF v
  <2>6. v \in States /\ v.c.box = <<StepEnd>> /\ Rest(v) /\ v.c.seq = "traverse" /\ v.c.ringStep = FALSE
    BY <1>17, <1>20, <2>1, <2>3, <2>4, SteadyOutcome DEF Over, Steady, SameSequence
  <2>7. Fit(v)
    BY <1>18, <2>4 DEF Fit, Steady, SameSequence
  <2>8. Kept(v)
    BY <2>6, <2>7 DEF Kept, Live, Over
  <2>9. Loose(v)
    BY <1>1, <1>18, <1>20, <2>6 DEF Loose, Fit
  <2> QED BY <2>5, <2>6, <2>8, <2>9, LeadsAlive
<1>21. CASE Out(o, n) = "ok" /\ f.c.seq = "traverse" /\ ~(y.c.live /\ Claimed(y) = {} /\ y.c.open = {})
  <2>1. f = y
    BY <1>14, <1>21
  <2>2. /\ y.c.leg = g /\ y.c.live = TRUE /\ y.c.open = S.c.open \ {n} /\ y.c.last = S.c.last
        /\ y.c.box = <<>>
    BY <1>2, <1>11, <1>12 DEF SameLegs, SameThreads, Armed, q
  <2>3. Claimed(y) = Claimed(S) \ {n}
    BY <1>10, <2>2 DEF Claimed
  <2>4. Polled(y)
    BY <1>2, <1>10, <2>2, LegsAssumption DEF Armed, Polled, NoLeg
  <2>5. Armed(y)
    BY <1>2, <1>3, <1>17, <1>21, <2>1, <2>2, <2>3, <2>4 DEF Armed, LastLeg
  <2>6. Kept(f) /\ f.c.box = <<>>
    BY <1>18, <2>1, <2>2, <2>5, KeptOutcome DEF Outcome
  <2> QED BY <1>1, <1>13, <1>16, <1>21, <2>6, ServesAlive
<1>22. CASE Out(o, n) = "ok" /\ f.c.seq # "traverse"
  <2> DEFINE v == HomingFail(f, o)
  <2>1. Off(v, f) /\ v.c.box = <<>>
    BY <1>13, HomingFailRests, HomingFailIs
  <2>2. t(o) = v
    BY <1>3, <1>16, <1>17, <1>22
  <2> HIDE DEF v
  <2>3. Fit(v)
    BY <1>3, <1>17, <1>18, <2>1 DEF Fit, Off, Gone, Quiet
  <2>4. Kept(v) /\ v \in States
    BY <2>1, <2>3, KeptOutcome DEF Off, Outcome
  <2> QED BY <1>1, <2>1, <2>2, <2>4, ServesAlive
<1> QED BY <1>19, <1>20, <1>21, <1>22

----------------------------------------------------------------------------
(* What waits goes on waiting: the nodes and Core 1                        *)

LEMMA UnmovedAlive ==
  ASSUME LiveInv, Unmoved, core'.open = core.open, core'.last = core.last,
         core'.estop = core.estop \/ (core.estop # "clear" /\ core'.estop # "clear"),
         Coming(S) /\ core.seq # "none" => Coming(S'), ring'.facts <= MaxFacts
  PROVE  Alive'
<1>1. S'.c = core' /\ S'.r = ring'
  BY DEF S
<1> DEFINE u == S'
<1> HIDE DEF u
<1>2. /\ SameLegs(u, S) /\ SameThreads(u, S) /\ u.c.seq = S.c.seq /\ u.c.ringStep = S.c.ringStep
      /\ u.c.run = S.c.run /\ u.c.ctx = S.c.ctx
  BY <1>1, LiveIs DEF Unmoved, SameLegs, SameThreads, u
<1>3. Live(u)
  <2>1. CASE S.c.seq # "none"
    BY <1>2, <2>1, LiveIs, LiveSame DEF u
  <2>2. CASE S.c.seq = "none"
    <3>1. S.c.box = <<>> /\ Outcome(S)
      BY <2>2, LiveIs, LiveEmpty DEF Live, Over, Posted, Almost
    <3>2. Gone(u) /\ u.c.box = <<>>
      BY <1>2, <2>2, <3>1, OwnedGone, SameRest DEF Gone, SameLegs
    <3> QED BY <3>2 DEF Live, Outcome
  <2> QED BY <2>1, <2>2
<1>4. Fit(u)
  BY <1>1, <1>2, LiveIs DEF Fit, u
<1>5. Kept(S)' /\ (core'.pc = "serve" /\ core'.box # <<>> => Loose(S)')
  BY <1>1, <1>2, <1>3, <1>4, LiveIs DEF Kept, Loose, Unmoved, LiveInv, Alive, SameLegs, u
<1> QED BY <1>5 DEF Alive

LEMMA NodeStepAlive ==
  ASSUME LiveInv, NodeStep
  PROVE  Alive'
<1>1. UNCHANGED <<core, ring>>
  BY DEF NodeStep, PulserStops, PulserEscapes, NodeLoop, NodeResets
<1>2. S'.r = ring' /\ S.r = ring
  BY DEF S
<1>3. (Coming(S) => Coming(S')) /\ ring'.facts <= MaxFacts
  BY <1>1, <1>2, LiveIs DEF Coming, Fit
<1> QED BY <1>1, <1>3, SameCore, UnmovedAlive

LEMMA Core1StepAlive ==
  ASSUME LiveInv, Core1Step
  PROVE  Alive'
<1>1. core \in Cores /\ ring \in Rings /\ MaxFacts \in Nat /\ ring.facts <= MaxFacts /\ S.r = ring
  BY Typed, LiveIs, LegsAssumption DEF LiveInv, Fit
<1>2. S'.r = ring'
  BY DEF S
<1>3. CASE RingTakes
  <2>1. /\ Unmoved /\ core'.open = core.open /\ core'.last = core.last /\ core'.estop = core.estop
    BY <1>1, <1>3 DEF RingTakes, Unmoved, Cores
  <2>2. ring'.state = "moving" /\ ring'.facts = ring.facts
    BY <1>1, <1>3 DEF RingTakes, Rings
  <2> QED BY <1>1, <1>2, <2>1, <2>2, UnmovedAlive DEF Coming
<1>4. CASE RingStops
  <2>1. ring'.leaving # "no" /\ ring'.facts = ring.facts /\ UNCHANGED core
    BY <1>1, <1>4 DEF RingStops, Rings
  <2> QED BY <1>1, <1>2, <2>1, SameCore, UnmovedAlive DEF Coming
<1>5. CASE RingTells
  <2>1. ring.facts \in Nat /\ ring.facts < MaxFacts /\ ring'.facts = ring.facts + 1 /\ UNCHANGED core
    BY <1>1, <1>5 DEF RingTells, Rings
  <2>2. ring'.facts > 0 /\ ring'.facts <= MaxFacts
    BY <1>1, <2>1
  <2> QED BY <1>1, <1>2, <2>1, <2>2, SameCore, UnmovedAlive DEF Coming
<1>6. CASE RingAbortAtRest
  <2>1. /\ ring'.state = ring.state /\ ring'.leaving = ring.leaving /\ ring'.facts = ring.facts
        /\ UNCHANGED core
    BY <1>1, <1>6 DEF RingAbortAtRest, Rings
  <2> QED BY <1>1, <1>2, <2>1, SameCore, UnmovedAlive DEF Coming
<1>7. CASE Sweep
  <2>1. /\ Unmoved /\ core'.open = core.open /\ core'.last = core.last
        /\ core.estop = "asked" /\ core'.estop = "swept" /\ ring'.facts = ring.facts
    BY <1>1, <1>7 DEF Sweep, Unmoved, Cores, Rings
  <2>2. core.seq = "none"
    BY <2>1, LiveIs DEF Fit
  <2> QED BY <1>1, <2>1, <2>2, UnmovedAlive
<1> QED BY <1>3, <1>4, <1>5, <1>6, <1>7 DEF Core1Step

LEMMA CommandAlive ==
  ASSUME LiveInv, Command, CmdStop => core.box = <<>>
  PROVE  Alive'
BY CmdHomeAlive, CmdGotoXYAlive, CmdGotoLegsAlive, CmdGotoAxisAlive, CmdHomeEndAlive,
   CmdUnalarmAlive, CmdStopAlive, CmdUnstopAlive, JobHdrAlive, ToolHdrAlive, ToolChangeLeaveAlive,
   PlaceSetAlive, PlaceGoAlive, PlaceResetAlive, PlaceOkAlive, CmdCancelAlive, HostAbortAlive,
   CmdEnableAlive, CmdLegAlive, CmdLegAbortAlive, CmdSetOriginAlive
   DEF Command

LEMMA InitAlive == Init => Alive
<1> SUFFICES ASSUME Init PROVE Alive
  OBVIOUS
<1>1. S.c = core /\ S.r = ring
  BY DEF S
<1>2. /\ core.live = FALSE /\ core.open = {} /\ core.leg = [n \in Nodes |-> NoLeg] /\ core.seq = "none"
      /\ core.box = <<>> /\ core.estop = "clear" /\ ring.facts = 0 /\ core.pc = "observe"
  BY DEF Init
<1>3. Gone(S)
  BY <1>1, <1>2 DEF Gone, Rest, NoLegs
<1>4. Fit(S)
  BY <1>1, <1>2, LegsAssumption DEF Fit
<1> QED BY <1>1, <1>2, <1>3, <1>4, KeptOutcome DEF Alive, Outcome

(* A stop served in the pass that still holds the end of an aborted        *)
(* traverse's step: the one step after which that end outlives its         *)
(* sequence (the finding of run legs_stale).                               *)
StopIsLate == CmdStop /\ core.box # <<>>

LEMMA StepAlive ==
  ASSUME LiveInv, [Next]_vars, StopIsLate => UNCHANGED vars
  PROVE  LiveInv'
<1> SUFFICES LegsInv' /\ Alive'
  BY DEF LiveInv
<1>0. LegsInv
  BY DEF LiveInv
<1>1. CASE Core0Loop
  <2>1. LegsInv'
    BY <1>0, <1>1, ObserveKeeps, ServeEndsKeeps, SequenceTickKeeps, ToolsTickKeeps, RunnerTickKeeps
       DEF Core0Loop
  <2>2. Alive'
    BY <1>1, ObserveAlive, ServeEndsAlive, SequenceTickAlive, ToolsTickAlive, RunnerTickAlive
       DEF Core0Loop
  <2> QED BY <2>1, <2>2
<1>2. CASE ObserveFault
  BY <1>0, <1>2, ObserveFaultKeeps, ObserveFaultAlive
<1>3. CASE \E n \in Nodes : RunnerDeadline(n)
  BY <1>0, <1>3, RunnerDeadlineKeeps, RunnerDeadlineAlive
<1>4. CASE Command /\ ~StopIsLate
  BY <1>0, <1>4, CommandKeeps, CommandAlive DEF StopIsLate
<1>5. CASE NodeStep
  BY <1>0, <1>5, NodeStepKeeps, NodeStepAlive
<1>6. CASE Core1Step
  BY <1>0, <1>6, Core1StepKeeps, Core1StepAlive
<1>7. CASE UNCHANGED vars
  <2>1. core' = core /\ node' = node /\ ring' = ring
    BY <1>7 DEF vars
  <2>2. LegsInv'
    BY <1>0, <2>1, Typed, SameCore, UnmovedKeeps
  <2>3. S' = S
    BY <2>1 DEF S
  <2>4. Alive'
    BY <2>1, <2>3 DEF LiveInv, Alive
  <2> QED BY <2>2, <2>4
<1> QED BY <1>1, <1>2, <1>3, <1>4, <1>5, <1>6, <1>7 DEF Next

(* Each step but a late stop keeps what a sequence waits on: its legs with *)
(* their threads, the events of the step that ended, or its line.          *)
THEOREM LegsGoOn == Spec /\ [][~StopIsLate]_vars => []LiveInv
<1>1. LiveInv /\ [Next]_vars /\ [~StopIsLate]_vars => LiveInv'
  BY StepAlive
<1>2. Init => LiveInv
  BY InitInv, InitAlive DEF LiveInv
<1> QED BY <1>1, <1>2, PTL DEF Spec

(* An instance whose host lacks one of the three commands of a late stop   *)
(* has none.                                                               *)
NoLeftover == ~({"leg", "legabort", "stop"} \subseteq Commands)

LEMMA NoLateStop ==
  ASSUME NoLeftover, LiveInv
  PROVE  ~StopIsLate
<1> SUFFICES ASSUME CmdStop, core.box # <<>> PROVE FALSE
  BY DEF StopIsLate
<1>1. Served /\ "stop" \in Commands
  BY DEF CmdStop, Serve, Core0Step
<1>2. Loose(S)
  BY <1>1, ServedBox, LiveIs
<1> QED BY <1>1, <1>2 DEF Loose, NoLeftover

LEMMA LiveNeverStalls == LiveInv => NeverStalls
<1> SUFFICES ASSUME LiveInv, core.seq # "none"
             PROVE  \/ Claimed(S) # {} \/ core.box # <<>>
                    \/ core.ringStep /\ (ring.state # "idle" \/ ring.leaving # "no" \/ ring.facts > 0)
  BY DEF NeverStalls
<1>1. CASE core.box = <<>>
  <2>1. Armed(S) \/ Rolling(S)
    BY <1>1, LiveIs, LiveEmpty DEF Outcome, Gone
  <2> QED BY <2>1, LiveIs DEF Armed, Rolling, Coming
<1> QED BY <1>1

LEMMA LiveStepEndIsMine == LiveInv => StepEndIsMine
<1> SUFFICES ASSUME LiveInv, NEW i \in 1 .. Len(core.box), core.box[i].kind = "step"
             PROVE  Claimed(S) = {}
  BY DEF StepEndIsMine
<1>1. S.c.box = core.box /\ Len(<<>>) = 0
  BY LiveIs
<1>2. core.box # <<>>
  BY <1>1
<1>3. Over(S) => Claimed(S) = {}
  BY RestPolled DEF Over
<1>4. ASSUME NEW n \in Nodes, Posted(S, n) PROVE Claimed(S) = {}
  <2>1. Len(core.box) = 1 /\ core.box[1].kind = "leg" => i = 1
    OBVIOUS
  <2> QED BY <1>1, <1>3, <1>4, <2>1 DEF Posted
<1> QED BY <1>1, <1>2, <1>3, <1>4, LiveIs DEF Live

LEMMA LiveTypeOK == LiveInv => TypeOK
<1> SUFFICES ASSUME LiveInv PROVE TypeOK
  OBVIOUS
<1>1. core \in Cores /\ node \in [Nodes -> NodeStates] /\ ring \in Rings /\ S.c = core /\ S.r = ring
  BY Typed, LiveIs DEF LiveInv
<1>2. Polled(S)
  BY LiveIs, RestPolled DEF Live, Outcome, Gone, Armed, Rolling, Over, Posted, Almost
<1>3. Len(core.box) \in {0, 1, 2}
  <2>1. Len(<<>>) = 0 /\ Len(<<StepEnd>>) = 1
    OBVIOUS
  <2>2. ASSUME NEW n \in Nodes, Posted(S, n) PROVE Len(core.box) \in {1, 2}
    BY <1>1, <2>2 DEF Posted
  <2> QED BY <1>1, <2>1, <2>2, LiveIs DEF Live
<1>4. Len(core.box) <= LegMax + 1
  <2> DEFINE k == Len(core.box)
  <2>1. LegMax \in Nat \ {0} /\ k \in {0, 1, 2}
    BY <1>3, LegsAssumption
  <2> HIDE DEF k
  <2>2. k <= LegMax + 1
    BY <2>1
  <2> QED BY <2>2 DEF k
<1>5. \A n \in Nodes : core.leg[n] \in LegStates /\ node[n] \in NodeStates /\ core.seen[n] \in Places
  BY <1>1 DEF Cores
<1>6. \A n \in Nodes : /\ core.leg[n].intent \in Intents
                       /\ core.leg[n].misses \in 0 .. LegMisses - 1
                       /\ core.leg[n].settle \in 0 .. SettlePolls
                       /\ core.seen[n] \in Places /\ node[n].at \in Places \ {"none"}
  BY <1>1, <1>2, <1>5 DEF Polled, LegStates, NodeStates
<1>7. ring.facts \in 0 .. MaxFacts
  BY <1>1, LiveIs, LegsAssumption DEF Fit, Rings
<1>8. /\ core.pc \in {"observe", "serve", "sequence", "tools"}
      /\ core.ctx \in {"IDLE", "HOMING", "JOB"}
      /\ core.why \in {"none", "PLACE", "BUFFERING", "TOOL_CHANGE", "TOOL_WAIT"}
      /\ core.events \subseteq {"F_SEQUENCE", "F_HOMING", "F_TOOL"}
      /\ core.estop \in {"clear", "asked", "swept"}
      /\ core.open \subseteq Nodes /\ core.origin \subseteq Nodes /\ core.latch \subseteq Nodes
      /\ ring.state \in {"idle", "queued", "moving"}
  BY <1>1 DEF Cores, Rings
<1> QED BY <1>4, <1>6, <1>7, <1>8 DEF TypeOK

(* With every command of the host: as long as no stop is late, a sequence  *)
(* that has not ended waits, between two passes, on something that will    *)
(* come: a leg still polled, an event in the mailbox, or a line's drain.   *)
THEOREM NothingStalls == Spec /\ [][~StopIsLate]_vars => []NeverStalls
BY LiveNeverStalls, LegsGoOn, PTL

(* As long as no stop is late, a step's end in the mailbox is the end of a *)
(* step that is over: the finding of run legs_stale has no other cause.    *)
THEOREM StepEndIsOwn == Spec /\ [][~StopIsLate]_vars => []StepEndIsMine
BY LiveStepEndIsMine, LegsGoOn, PTL

(* The mailbox holds two events at most, a leg's polls stay within the     *)
(* limits, and every field keeps its type.                                 *)
THEOREM LegsTyped == Spec /\ [][~StopIsLate]_vars => []TypeOK
BY LiveTypeOK, LegsGoOn, PTL

(* In an instance without one of a late stop's three commands, as those of *)
(* the runs that pass, all three hold of every behaviour.                  *)
THEOREM LegsAlwaysGoOn ==
  ASSUME NoLeftover
  PROVE  Spec => [](NeverStalls /\ StepEndIsMine /\ TypeOK)
<1>1. LiveInv /\ [Next]_vars => LiveInv'
  BY NoLateStop, StepAlive
<1>2. Init => LiveInv
  BY InitInv, InitAlive DEF LiveInv
<1>3. LiveInv => NeverStalls /\ StepEndIsMine /\ TypeOK
  BY LiveNeverStalls, LiveStepEndIsMine, LiveTypeOK
<1> QED BY <1>1, <1>2, <1>3, PTL DEF Spec

----------------------------------------------------------------------------
(* The Zs are up where X and Y travel.                                     *)

(* The config's ids are distinct (config_decode.cpp's checkNodeIds), and   *)
(* the map it gives binds no head's Z to X or Y.                           *)
DistinctAxes == XY \cap Zs = {}

(* Whose line must find the Zs up: a goto, and whatever a job that nobody  *)
(* has aborted runs.                                                       *)
OnJob(s) == s.c.ctx = "JOB" /\ s.c.aborted = FALSE
Minds(s) == s.c.seq = "goto" \/ OnJob(s)

Up(s, n) == s.n[n].at = "park" /\ s.n[n].active = FALSE
AllUp(s) == \A n \in Zs : Up(s, n)

(* Every Z is up or has its leg there.                                     *)
Raising(s) == \A n \in Zs : Up(s, n) \/ (s.c.leg[n].intent = "park" /\ s.c.leg[n].goal = "park")

(* The oldest event is a failed leg's.                                     *)
Missed(s) == s.c.box # <<>> /\ s.c.box[1].kind = "leg" /\ s.c.box[1].failed = TRUE

(* A recipe's step list: no Zs to raise, raised first of all, and a line.  *)
NoZs(s)    == \A i \in 1 .. Len(s.c.steps) : s.c.steps[i] # "zs"
ZsFirst(s) == /\ Len(s.c.steps) >= 1 /\ s.c.steps[1] = "zs"
              /\ \A i \in 2 .. Len(s.c.steps) : s.c.steps[i] # "zs"
HasLine(s) == \E i \in 1 .. Len(s.c.steps) : s.c.steps[i] = "line"

(* A placement whose first step is behind it.                              *)
Placing(s) == OnJob(s) /\ s.c.why = "PLACE" /\ s.c.begun = TRUE

Cares(s) ==
  /\ s.c.seq = "none" => RingIdle(s)
  /\ s.c.seq # "none" => /\ NoZs(s)
                         /\ ~RingIdle(s) => s.c.ringStep = TRUE /\ AllUp(s) /\ s.r.moves \cap Zs = {}
  /\ (s.c.seq # "none" /\ HasLine(s)) \/ Placing(s) => Raising(s) \/ Missed(s)

Raised(s) ==
  /\ s.c.ctx = "JOB" => s.c.seq \in JobSeqs
  /\ Minds(s) => Cares(s)

LEMMA TornRaised ==
  ASSUME NEW t, Torn(t)
  PROVE  Raised(t)
BY DEF Torn, Raised, Minds, OnJob, JobSeqs

(* What no job and no goto has a part in.                                  *)
LEMMA AwayRaised ==
  ASSUME NEW t, t.c.ctx = "JOB" => t.c.seq \in JobSeqs /\ t.c.aborted = TRUE, t.c.seq # "goto"
  PROVE  Raised(t)
BY DEF Raised, Minds, OnJob

(* The Zs that are up stay so.                                             *)
Holds(t, s) == \A n \in Zs : Up(s, n) => Up(t, n)

LEMMA HoldsIs ==
  ASSUME NEW s, NEW t, Holds(t, s), t.c.leg = s.c.leg
  PROVE  (AllUp(s) => AllUp(t)) /\ (Raising(s) => Raising(t))
BY DEF Holds, AllUp, Raising

LEMMA HeldRaised ==
  ASSUME NEW s, Raised(s), NEW t, Holds(t, s), t.c.leg = s.c.leg, t.c.box = s.c.box,
         t.c.seq = s.c.seq, t.c.steps = s.c.steps, t.c.ringStep = s.c.ringStep,
         RingIdle(t) \/ (~RingIdle(s) /\ t.r.moves = s.r.moves),
         t.c.ctx = "JOB" => s.c.ctx = "JOB", OnJob(t) => OnJob(s), Placing(t) => Placing(s)
  PROVE  Raised(t)
<1>1. Minds(t) => Minds(s)
  BY DEF Minds
<1>2. /\ AllUp(s) => AllUp(t)
      /\ Raising(s) => Raising(t)
  BY HoldsIs
<1>3. (Missed(s) => Missed(t)) /\ (NoZs(s) => NoZs(t)) /\ (HasLine(t) => HasLine(s))
  BY DEF Missed, NoZs, HasLine
<1>4. Cares(s) => Cares(t)
  <2>1. RingIdle(s) => RingIdle(t)
    OBVIOUS
  <2> QED BY <1>2, <1>3, <2>1 DEF Cares
<1> QED BY <1>1, <1>4 DEF Raised

(* At rest the Zs that have no leg are up.                                 *)
LEMMA RestUp ==
  ASSUME NEW s, Rest(s), Raising(s)
  PROVE  AllUp(s)
<1>1. \A n \in Zs : s.c.leg[n] = NoLeg
  BY LegsAssumption DEF Rest, NoLegs
<1> QED BY <1>1 DEF Raising, AllUp, NoLeg

----------------------------------------------------------------------------
(* The operators: what they leave of the Zs                                *)

LEMMA EnableHolds ==
  ASSUME NEW s \in States, NEW A \in SUBSET Nodes, NEW o
  PROVE  Holds(Enable(s, A, o), s) /\ Holds(Readied(s, A, o), s)
<1> DEFINE tried == {n \in A : \A k \in Deaf(A, o) : Rank(n) <= Rank(k)}
           t == Enable(s, A, o)
<1>1. \A n \in Nodes : t.n[n] = IF n \in tried /\ Out(o, n) # "unheard"
                                THEN [s.n[n] EXCEPT !.on = TRUE] ELSE s.n[n]
  BY DEF Enable, States
<1>2. \A n \in Nodes : s.n[n] \in NodeStates
  BY DEF States
<1> HIDE DEF t, tried
<1>3. \A n \in Nodes : t.n[n].at = s.n[n].at /\ t.n[n].active = s.n[n].active
  BY <1>1, <1>2 DEF NodeStates
<1>4. Holds(t, s)
  BY <1>3, LegsAssumption DEF Holds, Up
<1>5. Holds(s, s)
  BY DEF Holds
<1> QED BY <1>4, <1>5 DEF Readied, t

(* A step's arms leave the nodes that are not of it.                       *)
LEMMA ArmOthers ==
  ASSUME NEW s \in States, NEW D \in SUBSET Nodes, NEW plan \in [D -> Plans], NEW o, NEW n \in Nodes \ D
  PROVE  Arm(s, plan, o).s.n[n] = s.n[n] /\ Arm(s, plan, o).s.c.leg[n] = s.c.leg[n]
<1> DEFINE refused == {k \in DOMAIN plan : ArmWhy(s, k, plan[k], o) # "ok"}
           bad     == IF refused = {} THEN None ELSE FirstOf(refused)
           tried   == {k \in DOMAIN plan : bad = None \/ Rank(k) <= Rank(bad)}
           m       == [k \in Nodes |-> IF k \in tried THEN NodeArm(s, k, plan[k], o) ELSE s.n[k]]
           asked   == [s EXCEPT !.n = m]
           A       == tried \ {bad}
<1>1. Arm(s, plan, o).s = Join(asked, A, plan)
  BY DEF Arm, States
<1>2. tried \subseteq D
  OBVIOUS
<1> HIDE DEF tried, bad, refused
<1>3. m[n] = s.n[n] /\ n \notin A
  BY <1>2
<1>4. asked.n = m /\ asked.c = s.c
  BY DEF States
<1> HIDE DEF m, A, asked
<1>5. Join(asked, A, plan).n = asked.n /\ Join(asked, A, plan).c.leg[n] = asked.c.leg[n]
  <2> DEFINE m2 == [k \in Nodes |-> IF k \notin A THEN s.c.leg[k]
                        ELSE [intent |-> plan[k].intent, goal |-> plan[k].goal, misses |-> 0,
                              settle |-> IF plan[k].intent \in {"park", "sweep"} THEN 0 ELSE SettlePolls]]
             j == Join(asked, A, plan)
  <2>1. DOMAIN asked.c = DOMAIN s.c /\ "leg" \in DOMAIN asked.c /\ asked = [s EXCEPT !.n = asked.n]
    BY DEF States, Cores, asked
  <2>2. j.c.leg = m2 /\ j.n = asked.n
    BY <1>4, <2>1 DEF Join, States, Cores
  <2>3. m2[n] = s.c.leg[n]
    BY <1>3
  <2> QED BY <1>4, <2>2, <2>3
<1> QED BY <1>1, <1>3, <1>4, <1>5

(* A step that is not the Zs' leaves them; the Zs' own sends each its leg. *)
LEMMA ArmRaises ==
  ASSUME NEW s \in States, NEW k \in StepKinds \ {"line"}, NEW o
  PROVE  LET r == Arm(s, StepPlan(k), o)
         IN /\ k # "zs" => Holds(r.s, s) /\ (AllUp(s) => AllUp(r.s))
            /\ k = "zs" /\ r.bad = None => Raising(r.s)
<1> DEFINE D == IF k = "zs" THEN Zs ELSE Rotary
           plan == StepPlan(k)
           r == Arm(s, plan, o)
<1>1. D \in SUBSET Nodes /\ plan \in [D -> Plans]
  BY StepPlanType
<1>2. plan = [n \in D |-> Park]
  BY DEF StepPlan
<1>3. CASE k # "zs"
  <2>1. \A n \in Zs : n \in Nodes \ D
    BY <1>3, LegsAssumption
  <2> HIDE DEF D, plan
  <2>2. \A n \in Zs : r.s.n[n] = s.n[n]
    BY <1>1, <2>1, ArmOthers
  <2> QED BY <1>3, <2>2 DEF Holds, AllUp, Up, plan
<1>4. CASE k = "zs"
  <2>1. SUFFICES ASSUME r.bad = None PROVE Raising(r.s)
    BY <1>4
  <2> HIDE DEF plan, D
  <2>2. PICK A \in SUBSET D : Joined(r.s, s, A, plan) /\ A = D
    BY <1>1, <2>1, ArmJoins
  <2>3. \A n \in D : r.s.c.leg[n].intent = plan[n].intent /\ r.s.c.leg[n].goal = plan[n].goal
    BY <2>2 DEF Joined, Fresh
  <2>4. \A n \in D : plan[n].intent = "park" /\ plan[n].goal = "park"
    BY <1>2 DEF Park, Leg
  <2> QED BY <1>4, <2>3, <2>4 DEF D, Raising
<1> QED BY <1>3, <1>4

(* The recipe's next step: the Zs' is behind it, what waits for the Zs     *)
(* finds them up or going up, and a line goes out only when they are.      *)
Climbs(x, s) ==
  /\ NoZs(x.s) /\ (HasLine(x.s) => HasLine(s))
  /\ x.bad = FALSE /\ (ZsFirst(s) \/ AllUp(s)) => Raising(x.s)
  /\ NoZs(s) /\ AllUp(s) => AllUp(x.s)
  /\ \/ x.s.r = s.r /\ x.s.c.ringStep = s.c.ringStep
     \/ /\ x.out = TRUE /\ x.s.r.state = "queued" /\ x.s.r.moves = XY /\ x.s.c.ringStep = TRUE
        /\ HasLine(s) /\ (ZsFirst(s) => AllUp(x.s))

LEMMA TailNoZs ==
  ASSUME NEW s \in States, NoZs(s) \/ ZsFirst(s), NEW i \in 1 .. Len(s.c.steps),
         NEW t, t.c.steps = SubSeq(s.c.steps, i + 1, Len(s.c.steps))
  PROVE  NoZs(t) /\ (HasLine(t) => HasLine(s))
<1> DEFINE steps == s.c.steps
           ks == SubSeq(steps, i + 1, Len(steps))
<1>1. steps \in Seq(StepKinds)
  BY DEF States, Cores
<1>2. i + 1 \in Nat /\ Len(steps) \in Nat /\ i + 1 <= Len(steps) + 1 /\ \A j \in i + 1 .. Len(steps) : steps[j] \in StepKinds
  BY <1>1
<1>3. /\ Len(ks) = IF i + 1 <= Len(steps) THEN Len(steps) - (i + 1) + 1 ELSE 0
      /\ \A j \in 1 .. Len(ks) : ks[j] = steps[(i + 1) + j - 1]
  <2> HIDE DEF steps
  <2> QED BY <1>2, SubSeqProperties
<1>4. \A j \in 1 .. Len(ks) : i + j \in 2 .. Len(steps) /\ i + j \in 1 .. Len(steps) /\ ks[j] = steps[i + j]
  <2> SUFFICES ASSUME NEW j \in 1 .. Len(ks)
               PROVE  i + j \in 2 .. Len(steps) /\ i + j \in 1 .. Len(steps) /\ ks[j] = steps[i + j]
    OBVIOUS
  <2> HIDE DEF ks, steps
  <2>1. i \in 1 .. Len(steps)
    BY DEF steps
  <2>2. (i + 1) + j - 1 = i + j
    BY <1>2, <2>1
  <2> QED BY <1>2, <1>3, <2>1, <2>2
<1> HIDE DEF ks
<1>5. t.c.steps = ks
  BY DEF ks
<1>6. NoZs(t)
  <2>1. \A j \in 2 .. Len(steps) : steps[j] # "zs"
    BY <1>2 DEF NoZs, ZsFirst
  <2> HIDE DEF steps
  <2> QED BY <1>4, <1>5, <2>1 DEF NoZs
<1>7. HasLine(t) => HasLine(s)
  BY <1>4, <1>5 DEF HasLine
<1> QED BY <1>6, <1>7

LEMMA NextRaises ==
  ASSUME NEW s \in States, Rest(s), NoZs(s) \/ ZsFirst(s), NEW line, NEW o
  PROVE  LET x == NextStep(s, line, o)
         IN (Torn(x.s) /\ x.out = FALSE) \/ Climbs(x, s)
<1> DEFINE steps   == s.c.steps
           Skip(k) == (k = "line" /\ line = "near") \/ (k # "line" /\ DOMAIN StepPlan(k) = {})
                      \/ (k = "a" /\ \A n \in Rotary : n \in s.c.origin /\ s.c.seen[n] = "park")
           idx     == {i \in 1 .. Len(steps) : ~Skip(steps[i])}
           i       == CHOOSE j \in idx : \A k \in idx : j <= k
           ks      == IF idx = {} THEN <<>> ELSE SubSeq(steps, i + 1, Len(steps))
           rest    == [s EXCEPT !.c.steps = ks]
           queued  == [rest EXCEPT !.r.state = "queued", !.r.moves = XY, !.c.ringStep = TRUE]
           armed   == Arm(rest, StepPlan(steps[i]), o)
           a       == armed.s
           x       == NextStep(s, line, o)
<1>2. steps \in Seq(StepKinds)
  BY DEF States, Cores
<1>3. idx # {} => i \in 1 .. Len(steps) /\ i \in idx
  <2>1. idx \in SUBSET Nat
    BY <1>2
  <2>2. idx # {} => \E j \in idx : \A k \in idx : j <= k
    <3> HIDE DEF idx
    <3> QED BY <2>1, LeastExists
  <2> QED BY <2>2
<1>1. \/ idx = {} /\ x = [s |-> rest, out |-> FALSE, bad |-> FALSE]
      \/ idx # {} /\ steps[i] = "line" /\ x = [s |-> rest, out |-> FALSE, bad |-> TRUE]
      \/ idx # {} /\ steps[i] = "line" /\ x = [s |-> queued, out |-> TRUE, bad |-> FALSE]
      \/ /\ idx # {} /\ steps[i] # "line" /\ armed.bad = None
         /\ x = [s |-> a, out |-> TRUE, bad |-> FALSE]
      \/ /\ idx # {} /\ steps[i] # "line" /\ armed.bad # None
         /\ x = [s |-> IF armed.any THEN HomingAbandon(a, armed.bad, o) ELSE a, out |-> FALSE, bad |-> TRUE]
  <2> DEFINE sent == [s EXCEPT !.c.steps = IF idx = {} THEN <<>> ELSE SubSeq(@, i + 1, Len(@))]
             queues == line = "far" /\ RingIdle(s) /\ ~s.r.abort
             StepReply(r) == IF r.bad = None THEN [s |-> r.s, out |-> TRUE, bad |-> FALSE]
                            ELSE [s |-> IF r.any THEN HomingAbandon(r.s, r.bad, o) ELSE r.s,
                                  out |-> FALSE, bad |-> TRUE]
             Sends(q) == CASE idx = {} -> [s |-> q, out |-> FALSE, bad |-> FALSE]
                           [] idx # {} /\ steps[i] = "line" ->
                                IF ~queues THEN [s |-> q, out |-> FALSE, bad |-> TRUE]
                                ELSE [s |-> [q EXCEPT !.r.state = "queued", !.r.moves = XY, !.c.ringStep = TRUE],
                                      out |-> TRUE, bad |-> FALSE]
                           [] OTHER -> StepReply(Arm(q, StepPlan(steps[i]), o))
  <2>1. rest = sent
    BY DEF States, Cores
  <2>2. NextStep(s, line, o) = Sends(sent)
    BY DEF NextStep
  <2> HIDE DEF sent, idx, i, rest, queues, steps
  <2>3. NextStep(s, line, o) = Sends(rest)
    BY <2>1, <2>2
  <2>4. CASE idx = {}
    BY <2>3, <2>4
  <2>5. CASE idx # {} /\ steps[i] = "line"
    BY <2>3, <2>5
  <2>6. CASE idx # {} /\ steps[i] # "line"
    <3>1. NextStep(s, line, o) = StepReply(armed)
      BY <2>3, <2>6
    <3> HIDE DEF armed
    <3> QED BY <2>6, <3>1
  <2> QED BY <2>4, <2>5, <2>6
\* A Zs' step that is skipped has no Z
<1>4. idx = {} \/ steps[i] # "zs" => (ZsFirst(s) => Zs = {})
  <2>0. ZsFirst(s) => Len(steps) >= 1 /\ steps[1] = "zs"
    BY DEF ZsFirst
  <2> SUFFICES ASSUME idx = {} \/ steps[i] # "zs", ZsFirst(s) PROVE Zs = {}
    BY Zenon
  <2>1. 1 \in 1 .. Len(steps) /\ steps[1] = "zs"
    <3> HIDE DEF steps, idx, i
    <3> QED BY <1>2, <2>0
  <2>2. 1 \notin idx
    <3> SUFFICES ASSUME 1 \in idx PROVE FALSE
      BY Zenon
    <3>1. i \in idx /\ i <= 1 /\ i \in 1 .. Len(steps)
      <4>1. idx \in SUBSET Nat
        <5> HIDE DEF Skip, steps
        <5> QED BY <1>2
      <4>2. \E j \in idx : \A k \in idx : j <= k
        <5> HIDE DEF idx
        <5> QED BY <4>1, LeastExists
      <4>3. i \in idx /\ \A k \in idx : i <= k
        <5> HIDE DEF idx
        <5> QED BY <4>2
      <4> QED BY <1>3, <4>3
    <3>2. i = 1
      <4> HIDE DEF i, idx, steps
      <4> QED BY <3>1
    <3> HIDE DEF i, idx
    <3> QED BY <2>1, <3>1, <3>2
  <2>3. Skip("zs")
    BY <2>1, <2>2
  <2> QED BY <2>3 DEF StepPlan
<1>5. idx # {} => steps[i] \in StepKinds
  <2>1. \A j \in 1 .. Len(steps) : steps[j] \in StepKinds
    BY <1>2
  <2> HIDE DEF idx, i, steps
  <2> QED BY <1>3, <2>1
<1>6. ks \in Seq(StepKinds)
  <2>1. <<>> \in Seq(StepKinds)
    OBVIOUS
  <2>2. ASSUME idx # {} PROVE SubSeq(steps, i + 1, Len(steps)) \in Seq(StepKinds)
    <3> HIDE DEF i, idx
    <3>1. i + 1 \in Nat /\ Len(steps) \in Nat /\ i + 1 <= Len(steps) + 1
      BY <1>2, <1>3, <2>2
    <3>2. \A j \in i + 1 .. Len(steps) : steps[j] \in StepKinds
      <4>1. \A j \in 1 .. Len(steps) : steps[j] \in StepKinds
        BY <1>2
      <4>2. \A j \in i + 1 .. Len(steps) : j \in 1 .. Len(steps)
        BY <1>3, <2>2, <3>1
      <4> HIDE DEF steps
      <4> QED BY <4>1, <4>2
    <3> HIDE DEF steps
    <3> QED BY <3>1, <3>2, SubSeqProperties
  <2> QED BY <2>1, <2>2
<1>7. /\ rest \in States /\ SameMachine(rest, s) /\ SameLegs(rest, s) /\ rest.r = s.r
      /\ rest.c.seq = s.c.seq /\ rest.c.ringStep = s.c.ringStep
  <2> HIDE DEF ks
  <2> QED BY <1>6, RestIs
<1>8. rest.n = s.n /\ rest.c.steps = ks
  <2> HIDE DEF ks
  <2> QED BY DEF States, Cores
<1>9. NoZs(rest) /\ (HasLine(rest) => HasLine(s))
  <2>1. CASE idx = {}
    <3>1. rest.c.steps = <<>>
      BY <1>8, <2>1
    <3> HIDE DEF rest
    <3> QED BY <3>1 DEF NoZs, HasLine
  <2>2. CASE idx # {}
    <3>1. rest.c.steps = SubSeq(steps, i + 1, Len(steps)) /\ i \in 1 .. Len(steps)
      BY <1>3, <1>8, <2>2
    <3> HIDE DEF rest, i
    <3> QED BY <3>1, TailNoZs
  <2> QED BY <2>1, <2>2
<1>10. idx # {} /\ steps[i] = "line" => HasLine(s)
  BY <1>3 DEF HasLine
<1> HIDE DEF idx, i, ks, x
<1>11. (AllUp(s) => AllUp(rest)) /\ (AllUp(rest) => Raising(rest)) /\ (Zs = {} => AllUp(rest))
  <2> HIDE DEF rest
  <2> QED BY <1>8 DEF AllUp, Up, Raising
<1> HIDE DEF rest
<1>12. CASE idx = {} /\ x = [s |-> rest, out |-> FALSE, bad |-> FALSE]
  <2>1. Climbs(x, s)
    BY <1>4, <1>7, <1>9, <1>11, <1>12 DEF Climbs
  <2> QED BY <2>1 DEF x
<1>13. CASE idx # {} /\ steps[i] = "line" /\ x = [s |-> rest, out |-> FALSE, bad |-> TRUE]
  <2>1. Climbs(x, s)
    BY <1>7, <1>9, <1>11, <1>13 DEF Climbs
  <2> QED BY <2>1 DEF x
<1>14. CASE idx # {} /\ steps[i] = "line" /\ x = [s |-> queued, out |-> TRUE, bad |-> FALSE]
  <2>1. /\ queued.n = rest.n /\ queued.c.leg = rest.c.leg /\ queued.c.steps = rest.c.steps
        /\ queued.r.state = "queued" /\ queued.r.moves = XY /\ queued.c.ringStep = TRUE
    BY <1>7 DEF States, Cores, Rings
  <2> HIDE DEF queued
  <2>2. NoZs(queued) /\ (HasLine(queued) => HasLine(s))
    BY <1>9, <2>1 DEF NoZs, HasLine
  <2>3. (AllUp(rest) => AllUp(queued)) /\ (Raising(rest) => Raising(queued))
    BY <2>1 DEF AllUp, Up, Raising
  <2>4. Climbs(x, s)
    BY <1>4, <1>10, <1>11, <1>14, <2>1, <2>2, <2>3 DEF Climbs
  <2> QED BY <2>4 DEF x
<1>15. ASSUME idx # {}, steps[i] # "line"
       PROVE  /\ a \in States /\ a.r = s.r /\ a.c.ringStep = s.c.ringStep
              /\ NoZs(a) /\ (HasLine(a) => HasLine(s))
              /\ steps[i] # "zs" => (AllUp(s) => AllUp(a)) /\ (Zs = {} => AllUp(a))
              /\ steps[i] = "zs" => ~NoZs(s)
              /\ steps[i] = "zs" /\ armed.bad = None => Raising(a)
  <2> DEFINE k == steps[i]
  <2>1. k \in StepKinds \ {"line"}
    BY <1>5, <1>15
  <2>2. /\ k # "zs" => Holds(armed.s, rest) /\ (AllUp(rest) => AllUp(armed.s))
        /\ k = "zs" /\ armed.bad = None => Raising(armed.s)
    <3> HIDE DEF k, armed
    <3>1. armed = Arm(rest, StepPlan(k), o)
      BY DEF armed, k
    <3> QED BY <1>7, <2>1, <3>1, ArmRaises
  <2>3. a \in States /\ SameMachine(a, rest) /\ SameSequence(a, rest)
    BY <1>7, StepPlanType, ArmIs
  <2>4. steps[i] = "zs" => ~NoZs(s)
    BY <1>3, <1>15 DEF NoZs
  <2> HIDE DEF armed, steps
  <2>5. NoZs(a) /\ (HasLine(a) => HasLine(s))
    BY <1>9, <2>3 DEF NoZs, HasLine, SameSequence
  <2> QED BY <1>7, <1>11, <2>2, <2>3, <2>4, <2>5 DEF SameSequence, AllUp
<1>16. AllUp(a) => Raising(a)
  BY DEF AllUp, Raising
<1> HIDE DEF armed, a
<1>17. CASE idx # {} /\ steps[i] # "line" /\ armed.bad = None /\ x = [s |-> a, out |-> TRUE, bad |-> FALSE]
  <2>1. Climbs(x, s)
    BY <1>4, <1>15, <1>16, <1>17 DEF Climbs, a
  <2> QED BY <2>1 DEF x
<1>18. CASE /\ idx # {} /\ steps[i] # "line" /\ armed.bad # None
            /\ x = [s |-> IF armed.any THEN HomingAbandon(a, armed.bad, o) ELSE a, out |-> FALSE, bad |-> TRUE]
  <2>1. CASE armed.any
    <3>1. Torn(x.s) /\ x.out = FALSE
      BY <1>15, <1>18, <2>1, HomingAbandonIs
    <3> QED BY <3>1 DEF x
  <2>2. CASE ~armed.any
    <3>1. Climbs(x, s)
      BY <1>15, <1>18, <2>2 DEF Climbs
    <3> QED BY <3>1 DEF x
  <2> QED BY <2>1, <2>2
<1> QED BY <1>1, <1>12, <1>13, <1>14, <1>17, <1>18

(* A recipe that is to go on: its Zs' step comes first, or is done.        *)
Climbing(s) ==
  /\ RingIdle(s) /\ (NoZs(s) \/ ZsFirst(s))
  /\ NoZs(s) /\ (HasLine(s) \/ Placing(s)) => AllUp(s)

LEMMA UpRaising ==
  ASSUME NEW s, AllUp(s)
  PROVE  Raising(s)
BY DEF AllUp, Raising

(* What it finds at its next step.                                         *)
LEMMA ClimbsCares ==
  ASSUME DistinctAxes, NEW s, Climbing(s), NEW x, Climbs(x, s), x.bad = FALSE, x.s.c.seq # "none",
         Placing(x.s) => Placing(s)
  PROVE  Cares(x.s)
<1> DEFINE t == x.s
<1>1. NoZs(t) /\ (HasLine(t) => HasLine(s))
  BY DEF Climbs
<1>2. ASSUME ~RingIdle(t)
      PROVE  t.c.ringStep = TRUE /\ AllUp(t) /\ t.r.moves \cap Zs = {}
  <2>1. t.r.moves = XY /\ t.c.ringStep = TRUE /\ HasLine(s) /\ (ZsFirst(s) => AllUp(t))
    BY <1>2 DEF Climbs, Climbing, RingIdle
  <2>2. AllUp(t)
    BY <2>1 DEF Climbs, Climbing
  <2> QED BY <2>1, <2>2 DEF DistinctAxes
<1>3. HasLine(t) \/ Placing(t) => Raising(t)
  BY <1>1, UpRaising DEF Climbs, Climbing
<1> QED BY <1>1, <1>2, <1>3 DEF Cares

(* A refused or a finished recipe's end leaves the Zs where they are.      *)
LEMMA EndCares ==
  ASSUME NEW s, RingIdle(s), Placing(s) => AllUp(s), NEW t, t.c.seq = "none", t.r = s.r, t.n = s.n,
         Placing(t) => Placing(s)
  PROVE  Cares(t)
<1>1. RingIdle(t) /\ (AllUp(s) => AllUp(t))
  BY DEF RingIdle, AllUp, Up
<1> QED BY <1>1, UpRaising DEF Cares

LEMMA WhyEndIs ==
  ASSUME NEW s \in States, NEW w \in {"none", "PLACE", "BUFFERING", "TOOL_CHANGE", "TOOL_WAIT"}
  PROVE  LET t == SequenceEnd([s EXCEPT !.c.why = w])
         IN /\ t.c.seq = "none" /\ t.r = s.r /\ t.n = s.n /\ t.c.ctx = s.c.ctx
            /\ t.c.aborted = s.c.aborted /\ t.c.begun = s.c.begun /\ t.c.why = w
<1> DEFINE y == [s EXCEPT !.c.why = w]
<1>2. y = [s EXCEPT !.c.why = w]
  OBVIOUS
<1> HIDE DEF y
<1>1. /\ y \in States /\ SameSequence(y, s) /\ y.n = s.n /\ y.c.ctx = s.c.ctx
      /\ y.c.aborted = s.c.aborted /\ y.c.begun = s.c.begun /\ y.c.why = w
  BY <1>2, WhyIs
<1>4. y.r = s.r
  BY <1>1 DEF SameSequence
<1>3. LET t == SequenceEnd(y)
      IN t.c.seq = "none" /\ t.r = y.r /\ t.n = y.n /\ SameMachine(t, y)
  BY <1>1, SequenceEndIs
<1> QED BY <1>1, <1>3, <1>4 DEF SameMachine, y

LEMMA ContinueRaises ==
  ASSUME DistinctAxes, NEW s \in States, Rest(s), s.c.seq # "none", s.c.seq # "home", s.c.ringStep = FALSE,
         s.c.ctx = "JOB" => s.c.seq \in JobSeqs, Minds(s) => Climbing(s), NEW line, NEW o
  PROVE  Raised(Continue(s, line, o))
<1> DEFINE x == NextStep(s, line, o)
           failed == x.bad \/ (~x.out /\ s.c.seq = "toolchange" /\ ~JobSwaps(s, "TOOL_CHANGE"))
           why == IF s.c.seq = "toolchange" THEN "TOOL_WAIT" ELSE x.s.c.why
           named == [x.s EXCEPT !.c.why = why]
           t == Continue(s, line, o)
<1>1. Held(s)
  BY OutcomeEven, EvenHolds DEF Rest, Held, Claimed, NoLegs
<1>2. Continues(t, s)
  BY <1>1, ContinueIs
<1>3. Stepped(x, s) /\ StepDone(x, s)
  BY <1>1, NextStepOutcome, NextStepIs
<1>4. x.bad \in BOOLEAN /\ x.out \in BOOLEAN /\ x.s \in States /\ Held(x.s)
  <2>1. Fails(x.s) => x.s \in States /\ Held(x.s)
    BY DEF Fails, Torn, Held
  <2> HIDE DEF x
  <2> QED BY <1>3, <2>1 DEF StepDone, Steps, Off
<1>5. CASE Torn(t)
  BY <1>5, TornRaised
<1>6. ASSUME ~Torn(t) PROVE t.c.ctx = s.c.ctx /\ t.c.aborted = s.c.aborted /\ t.c.seq \in {s.c.seq, "none"}
  BY <1>2, <1>6 DEF Continues, Steps, Ended, SameMachine
<1>7. CASE ~Torn(t) /\ ~Minds(s)
  <2>1. ~Minds(t) /\ (t.c.ctx = "JOB" => t.c.seq \in JobSeqs)
    BY <1>6, <1>7 DEF Minds, OnJob, JobSeqs
  <2> QED BY <2>1 DEF Raised
<1>8. CASE ~Torn(t) /\ Minds(s)
  <2>1. Climbing(s)
    BY <1>8
  <2>2. (Torn(x.s) /\ x.out = FALSE) \/ Climbs(x, s)
    <3>1. NoZs(s) \/ ZsFirst(s)
      BY <2>1 DEF Climbing
    <3> QED BY <3>1, NextRaises
  <2>3. ~failed
    <3> SUFFICES ASSUME failed PROVE FALSE
      OBVIOUS
    <3>1. t = SequenceFail(x.s, o)
      BY DEF Continue
    <3>2. Torn(t)
      BY <1>4, <3>1, SequenceFailIs
    <3> QED BY <1>8, <3>2
  <2>4. x.bad = FALSE
    BY <1>4, <2>3
  <2>5. x.s.c.seq = s.c.seq /\ SameMachine(x.s, s) /\ x.s.c.seq # "none"
    <3> HIDE DEF x
    <3> QED BY <1>3, <2>4 DEF StepDone, Steps
  <2>6. Climbs(x, s)
    BY <2>2, <2>5 DEF Torn
  <2>7. CASE x.out
    <3>1. t = x.s
      BY <2>3, <2>4, <2>7 DEF Continue
    <3> HIDE DEF x, t
    <3>2. Placing(x.s) => Placing(s)
      BY <2>5 DEF Placing, OnJob, SameMachine
    <3>3. Cares(t)
      BY <2>1, <2>4, <2>5, <2>6, <3>1, <3>2, ClimbsCares
    <3>4. Raised(t)
      BY <1>6, <1>8, <3>3 DEF Raised, JobSeqs
    <3> QED BY <3>4 DEF t
  <2>8. CASE ~x.out
    <3>1. t = SequenceEnd(named)
      BY <2>3, <2>4, <2>8 DEF Continue
    <3>2. why \in {"none", "PLACE", "BUFFERING", "TOOL_CHANGE", "TOOL_WAIT"}
      BY <1>4 DEF States, Cores
    <3>4. /\ t.c.seq = "none" /\ t.r = x.s.r /\ t.n = x.s.n /\ t.c.ctx = x.s.c.ctx
          /\ t.c.aborted = x.s.c.aborted /\ t.c.begun = x.s.c.begun /\ t.c.why = why
      <4>1. x.s \in States
        BY <1>4
      <4> HIDE DEF why, x, t
      <4>2. \A y \in States : LET z == SequenceEnd([y EXCEPT !.c.why = why])
                              IN /\ z.c.seq = "none" /\ z.r = y.r /\ z.n = y.n /\ z.c.ctx = y.c.ctx
                                 /\ z.c.aborted = y.c.aborted /\ z.c.begun = y.c.begun /\ z.c.why = why
        BY <3>2, WhyEndIs
      <4> QED BY <3>1, <4>1, <4>2
    <3>5. Placing(t) => Placing(x.s) /\ Placing(s)
      BY <2>5, <3>4 DEF Placing, OnJob, SameMachine
    <3> HIDE DEF x, t, why
    <3>6. x.s.r = s.r
      BY <2>6, <2>8 DEF Climbs
    <3>7. Placing(x.s) => AllUp(x.s)
      <4> SUFFICES ASSUME Placing(x.s) PROVE AllUp(x.s)
        OBVIOUS
      <4>1. Placing(s)
        BY <2>5 DEF Placing, OnJob, SameMachine
      <4>2. Rest(x.s)
        BY <1>3, <2>4, <2>5, <2>8 DEF Stepped, Off, Gone
      <4>3. Raising(x.s)
        BY <2>1, <2>4, <2>6, <4>1 DEF Climbs, Climbing
      <4> QED BY <4>2, <4>3, RestUp
    <3>8. RingIdle(x.s)
      BY <2>1, <3>6 DEF RingIdle, Climbing
    <3>9. Cares(t)
      BY <3>4, <3>5, <3>7, <3>8, EndCares
    <3>10. Raised(t)
      BY <1>6, <1>8, <3>9 DEF Raised, JobSeqs
    <3> QED BY <3>10 DEF t
  <2> QED BY <1>4, <2>7, <2>8
<1> QED BY <1>5, <1>7, <1>8

(* A list whose first step is the Zs'.                                     *)
LEMMA ZsListFirst ==
  ASSUME NEW s, s.c.steps \in {<<"zs", "a", "line">>, <<"zs", "line">>, <<"zs">>}
  PROVE  ZsFirst(s) /\ ~NoZs(s)
<1>1. CASE s.c.steps = <<"zs", "a", "line">>
  <2> DEFINE k == s.c.steps
  <2>1. Len(k) = 3 /\ k[1] = "zs" /\ k[2] = "a" /\ k[3] = "line"
    BY <1>1
  <2> HIDE DEF k
  <2> QED BY <2>1 DEF ZsFirst, NoZs, k
<1>2. CASE s.c.steps = <<"zs", "line">>
  BY <1>2 DEF ZsFirst, NoZs
<1>3. CASE s.c.steps = <<"zs">>
  BY <1>3 DEF ZsFirst, NoZs
<1> QED BY <1>1, <1>2, <1>3

(* One without the Zs.                                                     *)
LEMMA NoZsList ==
  ASSUME NEW s, s.c.steps \in {<<"line">>, <<"line", "line">>, <<"as">>}
  PROVE  NoZs(s) /\ (s.c.steps = <<"as">> => ~HasLine(s))
<1>1. CASE s.c.steps = <<"line">>
  BY <1>1 DEF NoZs
<1>2. CASE s.c.steps = <<"line", "line">>
  BY <1>2 DEF NoZs
<1>3. CASE s.c.steps = <<"as">>
  BY <1>3 DEF NoZs, HasLine
<1> QED BY <1>1, <1>2, <1>3

LEMMA StepLists ==
  /\ <<"zs", "a", "line">> \in Seq(StepKinds) /\ <<"zs", "line">> \in Seq(StepKinds)
  /\ <<"zs">> \in Seq(StepKinds) /\ <<"as">> \in Seq(StepKinds)
  /\ <<"line">> \in Seq(StepKinds) /\ <<"line", "line">> \in Seq(StepKinds)
BY DEF StepKinds

(* The sequence id is to take its first step.                              *)
LEMMA SetSteps ==
  ASSUME NEW s \in States, NEW id \in SeqIds, NEW ks \in Seq(StepKinds)
  PROVE  LET t == [SequenceStart(s, id) EXCEPT !.c.steps = ks]
         IN /\ t \in States /\ SameMachine(t, s) /\ t.r = s.r /\ t.n = s.n /\ t.c.seq = id
            /\ t.c.steps = ks /\ t.c.box = s.c.box
<1> DEFINE y == SequenceStart(s, id)
           t == [y EXCEPT !.c.steps = ks]
<1>1. y \in States /\ SameMachine(y, s) /\ y.r = s.r /\ y.n = s.n /\ y.c.seq = id /\ y.c.box = s.c.box
  BY SequenceStartIs DEF SameLegs
<1> HIDE DEF y
<1>2. t \in States /\ SameMachine(t, y) /\ t.r = y.r /\ t.c.seq = y.c.seq /\ t.c.box = y.c.box
  BY <1>1, RestIs DEF SameLegs
<1>3. t.n = y.n /\ t.c.steps = ks
  BY <1>1 DEF States, Cores
<1>4. SameMachine(t, s)
  BY <1>1, <1>2 DEF SameMachine
<1> HIDE DEF t
<1>5. t \in States /\ SameMachine(t, s) /\ t.r = s.r /\ t.n = s.n /\ t.c.seq = id /\ t.c.steps = ks /\ t.c.box = s.c.box
  BY <1>1, <1>2, <1>3, <1>4
<1> QED BY <1>5 DEF t, y

LEMMA BeginInJobRaises ==
  ASSUME DistinctAxes, NEW s \in States, Rest(s), OnJob(s) => RingIdle(s), NEW id \in {"toolchange", "place"},
         NEW ks \in {<<"zs", "a", "line">>, <<"zs", "line">>}, NEW line, NEW o
  PROVE  Raised(BeginInJob(s, id, ks, line, o))
<1> DEFINE u == [SequenceStart(s, id) EXCEPT !.c.steps = ks]
<1>1. ks \in Seq(StepKinds) /\ id \in SeqIds
  BY StepLists DEF SeqIds
<1>2. u \in States /\ SameMachine(u, s) /\ u.r = s.r /\ u.c.seq = id /\ u.c.steps = ks
  BY <1>1, SetSteps
<1>3. Rest(u) /\ u.c.ringStep = FALSE
  <2>1. Begun(u, s, id)
    BY <1>1, SetRests
  <2> HIDE DEF u
  <2> QED BY <2>1 DEF Begun
<1>4. BeginInJob(s, id, ks, line, o) = Continue(u, line, o)
  BY DEF BeginInJob
<1> HIDE DEF u
<1>5. ZsFirst(u) /\ ~NoZs(u)
  BY <1>2, ZsListFirst
<1>6. Minds(u) => Climbing(u)
  BY <1>2, <1>5 DEF Minds, OnJob, SameMachine, Climbing, RingIdle
<1>7. Raised(Continue(u, line, o))
  BY <1>2, <1>3, <1>6, ContinueRaises DEF JobSeqs
<1> QED BY <1>4, <1>7

LEMMA BeginRaises ==
  ASSUME DistinctAxes, NEW s \in States, Rest(s), RingIdle(s), NEW id \in {"goto", "place"},
         NEW ks \in {<<"zs", "line">>, <<"zs">>, <<"as">>, <<"line">>, <<"line", "line">>},
         Placing(s) => ks \in {<<"line">>, <<"line", "line">>},
         Placing(s) \/ ks \in {<<"line">>, <<"line", "line">>} => AllUp(s),
         NEW line, NEW o
  PROVE  Raised(Begin(s, id, ks, line, o))
<1> DEFINE u == [SequenceStart(s, id) EXCEPT !.c.steps = ks]
           x == NextStep(u, line, o)
           t == Begin(s, id, ks, line, o)
<1>1. ks \in Seq(StepKinds) /\ id \in SeqIds
  BY StepLists DEF SeqIds
<1>2. u \in States /\ SameMachine(u, s) /\ u.r = s.r /\ u.n = s.n /\ u.c.seq = id /\ u.c.steps = ks
  BY <1>1, SetSteps
<1>3. Rest(u) /\ u.c.ringStep = FALSE
  <2>1. Begun(u, s, id)
    BY <1>1, SetRests
  <2> HIDE DEF u
  <2> QED BY <2>1 DEF Begun
<1>4. t = IF x.out \/ x.s.c.seq = "none" THEN x.s ELSE SequenceEnd(x.s)
  BY DEF Begin
<1> HIDE DEF u, t
<1>5. /\ NoZs(u) \/ ZsFirst(u)
      /\ Placing(u) => NoZs(u)
      /\ NoZs(u) /\ (HasLine(u) \/ Placing(u)) => AllUp(s)
  <2>1. Placing(u) => Placing(s)
    BY <1>2 DEF Placing, OnJob, SameMachine
  <2>2. CASE ks \in {<<"zs", "line">>, <<"zs">>}
    <3>1. ZsFirst(u) /\ ~NoZs(u)
      BY <1>2, <2>2, ZsListFirst
    <3>2. ks \notin {<<"line">>, <<"line", "line">>}
      BY <2>2
    <3> QED BY <2>1, <3>1, <3>2
  <2>3. CASE ks \in {<<"as">>, <<"line">>, <<"line", "line">>}
    <3>1. NoZs(u) /\ (ks = <<"as">> => ~HasLine(u))
      BY <1>2, <2>3, NoZsList
    <3> QED BY <2>1, <2>3, <3>1
  <2> QED BY <2>2, <2>3
<1>6. AllUp(s) => AllUp(u)
  BY <1>2 DEF AllUp, Up
<1>7. Climbing(u)
  BY <1>2, <1>5, <1>6 DEF Climbing, RingIdle
<1>8. Held(u)
  BY <1>3 DEF Rest, Held, Claimed, NoLegs
<1>9. Stepped(x, u) /\ StepDone(x, u)
  BY <1>2, <1>3, <1>8, NextStepOutcome, NextStepIs
<1>10. (Torn(x.s) /\ x.out = FALSE) \/ Climbs(x, u)
  BY <1>2, <1>3, <1>5, NextRaises
<1> HIDE DEF x
<1>11. CASE Torn(x.s) /\ x.out = FALSE
  <2>1. t = x.s
    BY <1>4, <1>11 DEF Torn
  <2> QED BY <1>11, <2>1, TornRaised DEF t
<1>12. CASE ~(Torn(x.s) /\ x.out = FALSE) /\ Climbs(x, u)
  <2>1. x.s \in States /\ x.s.c.seq = id /\ SameMachine(x.s, s) /\ x.out \in BOOLEAN /\ (x.out => x.bad = FALSE)
    BY <1>2, <1>9, <1>12 DEF StepDone, Steps, Fails, SameMachine
  <2>2. Placing(x.s) => Placing(u) /\ Placing(s)
    BY <1>2, <2>1 DEF Placing, OnJob, SameMachine
  <2>3. CASE x.out
    <3>1. Cares(x.s)
      BY <1>7, <1>12, <2>1, <2>2, <2>3, ClimbsCares
    <3>2. t = x.s
      BY <1>4, <2>3
    <3>3. Raised(t)
      BY <2>1, <3>1, <3>2 DEF Raised, JobSeqs
    <3> QED BY <3>3 DEF t
  <2>4. CASE ~x.out
    <3>1. t = SequenceEnd(x.s)
      BY <1>4, <2>1, <2>4
    <3>2. t.c.seq = "none" /\ t.r = x.s.r /\ t.n = x.s.n /\ SameMachine(t, x.s)
      BY <2>1, <3>1, SequenceEndIs
    <3>3. RingIdle(x.s)
      BY <1>7, <1>12, <2>4 DEF Climbs, Climbing, RingIdle
    <3>4. Placing(x.s) => AllUp(x.s)
      BY <1>5, <1>6, <1>12, <2>2 DEF Climbs
    <3>5. Placing(t) => Placing(x.s)
      BY <3>2 DEF Placing, OnJob, SameMachine
    <3>6. Cares(t)
      BY <3>2, <3>3, <3>4, <3>5, EndCares
    <3>7. Raised(t)
      BY <3>2, <3>6 DEF Raised, JobSeqs
    <3> QED BY <3>7 DEF t
  <2> QED BY <2>1, <2>3, <2>4
<1> QED BY <1>10, <1>11, <1>12

(* The step is over: what the sequence may find.                           *)
LEMMA AdvanceRaised ==
  ASSUME DistinctAxes, NEW s \in States, Rest(s), s.c.seq # "none", s.c.ringStep = FALSE, HomeRun(s),
         s.c.ctx = "JOB" => s.c.seq \in JobSeqs, Minds(s) => Climbing(s), NEW line, NEW apart, NEW o
  PROVE  Raised(Advance(s, line, apart, o))
<1>1. Held(s)
  BY DEF Rest, Held, Claimed, NoLegs
<1>2. ASSUME NEW t, Fails(t) \/ Stays(t, s), s.c.seq \notin JobSeqs
      PROVE  Raised(t)
  <2>1. CASE Fails(t)
    BY <2>1, TornRaised DEF Fails
  <2>2. CASE Stays(t, s)
    BY <1>2, <2>2, AwayRaised DEF Stays, SameMachine, JobSeqs
  <2> QED BY <1>2, <2>1, <2>2
<1>3. CASE s.c.seq = "home"
  <2>1. Advance(s, line, apart, o) = HomeNext(s, apart, o)
    BY <1>3 DEF Advance
  <2>2. HomeGoes(HomeNext(s, apart, o), s)
    BY <1>1, <1>3, HomeNextIs DEF HomeRun
  <2> QED BY <1>2, <1>3, <2>1, <2>2 DEF HomeGoes, JobSeqs
<1>4. ASSUME s.c.seq \notin JobSeqs
      PROVE  Raised(SequenceEnd(s))
  BY <1>1, <1>2, <1>4, StaysHere, EndStays
<1>5. CASE s.c.seq = "recovery"
  <2>1. Advance(s, line, apart, o) = IF s.c.parking THEN SequenceEnd(s) ELSE RecoveryPark(s, o)
    BY <1>5 DEF Advance
  <2>2. Raised(RecoveryPark(s, o))
    BY <1>1, <1>2, <1>5, RecoveryParkIs DEF JobSeqs
  <2> QED BY <1>4, <1>5, <2>1, <2>2 DEF JobSeqs
<1>6. CASE s.c.seq \in {"leg", "traverse"}
  BY <1>4, <1>6 DEF Advance, JobSeqs
<1>7. CASE s.c.seq \notin {"home", "recovery", "leg", "traverse"}
  <2>1. Advance(s, line, apart, o) = Continue(s, line, o)
    BY <1>7 DEF Advance
  <2> QED BY <1>7, <2>1, ContinueRaises
<1> QED BY <1>3, <1>5, <1>6, <1>7

Lifted == Raised(S)

(* What neither the machine, the sequence, its legs nor the nodes feel.    *)
LEMMA FieldsRaised ==
  ASSUME NEW s, Raised(s), NEW t, t.n = s.n, t.r.state = s.r.state, t.r.moves = s.r.moves,
         t.c.leg = s.c.leg, t.c.box = s.c.box, t.c.seq = s.c.seq, t.c.steps = s.c.steps,
         t.c.ringStep = s.c.ringStep, t.c.ctx = s.c.ctx \/ t.c.ctx # "JOB",
         t.c.aborted = s.c.aborted \/ t.c.ctx # "JOB", Placing(t) => Placing(s)
  PROVE  Raised(t)
<1>1. Holds(t, s)
  BY DEF Holds, Up
<1>2. OnJob(t) => OnJob(s)
  BY DEF OnJob
<1>3. RingIdle(t) \/ (~RingIdle(s) /\ t.r.moves = s.r.moves)
  BY DEF RingIdle
<1>4. t.c.ctx = "JOB" => s.c.ctx = "JOB"
  OBVIOUS
<1> QED BY <1>1, <1>2, <1>3, <1>4, HeldRaised

LEMMA LeadsRaised ==
  ASSUME NEW t \in States, Raised(t), NEW p, Leads(t, p)
  PROVE  Lifted'
<1> DEFINE u == S'
<1>1. /\ u.n = t.n /\ u.r = t.r /\ u.c.leg = t.c.leg /\ u.c.box = t.c.box /\ u.c.seq = t.c.seq
      /\ u.c.steps = t.c.steps /\ u.c.ringStep = t.c.ringStep /\ u.c.ctx = t.c.ctx
      /\ u.c.aborted = t.c.aborted /\ u.c.why = t.c.why /\ u.c.begun = t.c.begun
  BY DEF States, Cores, Leads, S
<1> HIDE DEF u
<1>2. Placing(u) => Placing(t)
  BY <1>1 DEF Placing, OnJob
<1>3. Raised(u)
  BY <1>1, <1>2, FieldsRaised
<1> QED BY <1>3 DEF Lifted, u

LEMMA AbortSettleRaised ==
  ASSUME NEW s \in States, Raised(s)
  PROVE  Raised(AbortSettle(s))
<1> DEFINE t == JobCloses(s)
<1>1. t.n = s.n /\ SameSequence(t, s) /\ SameLegs(t, s) /\ t.c.ctx = "IDLE"
  BY JobClosesIs DEF JobCloses, States
<1>2. ~Placing(t)
  BY <1>1 DEF Placing, OnJob
<1> HIDE DEF t
<1>3. Raised(t)
  BY <1>1, <1>2, FieldsRaised DEF SameSequence, SameLegs
<1>4. AbortSettle(s) \in {s, t}
  BY DEF AbortSettle, t
<1> QED BY <1>3, <1>4

(* A change or a placement begins only with the ring at rest.              *)
LEMMA FreeRing ==
  ASSUME NEW s, Raised(s), s.c.seq = "none", OnJob(s)
  PROVE  RingIdle(s)
BY DEF Raised, Minds, Cares

LEMMA ToolChangeTickRaised ==
  ASSUME DistinctAxes, NEW s, Good(s), Outcome(s), Raised(s), NEW mounted \in BOOLEAN, NEW line, NEW o
  PROVE  Raised(ToolChangeTick(s, mounted, line, o))
<1> DEFINE on == [s EXCEPT !.c.begun = TRUE]
           swapped == [on EXCEPT !.c.why = "BUFFERING"]
           up == Readied(on, Zs, o)
           upA == Readied(up, Rotary, o)
           ks == <<"zs", "a", "line">>
           t == ToolChangeTick(s, mounted, line, o)
<1>1. CASE s.c.ctx # "JOB" \/ s.c.why # "TOOL_CHANGE" \/ s.c.begun
  BY <1>1 DEF ToolChangeTick
<1>2. CASE s.c.ctx = "JOB" /\ s.c.why = "TOOL_CHANGE" /\ ~s.c.begun
  <2>1. t \in {swapped, SequenceFail(on, o), SequenceFail(up, o), SequenceFail(upA, o),
               BeginInJob(upA, "toolchange", ks, line, o)}
    BY <1>2 DEF ToolChangeTick
  <2> HIDE DEF t
  <2>2. s \in States /\ Gone(s)
    BY <1>2, OwnedGone DEF Good, Owned
  <2>3. /\ on \in States /\ SameLegs(on, s) /\ on.c.seq = s.c.seq /\ SameThreads(on, s) /\ Quiet(on, s)
        /\ on.c.ctx = s.c.ctx /\ on.c.aborted = s.c.aborted /\ on.r = s.r
    BY <2>2 DEF States, Cores, SameLegs, SameThreads, Quiet
  <2>4. /\ swapped.n = s.n /\ swapped.r = s.r /\ SameLegs(swapped, s) /\ SameSequence(swapped, s)
        /\ swapped.c.ctx = s.c.ctx /\ swapped.c.aborted = s.c.aborted /\ swapped.c.why = "BUFFERING"
    BY <2>2 DEF States, Cores, SameLegs, SameSequence
  <2> HIDE DEF on, swapped
  <2>5. Raised(swapped)
    <3>1. ~Placing(swapped)
      BY <2>4 DEF Placing
    <3> QED BY <2>4, <3>1, FieldsRaised DEF SameLegs, SameSequence
  <2>6. Zs \in SUBSET Nodes /\ Rotary \in SUBSET Nodes
    BY LegsAssumption
  <2>7. Gone(on)
    BY <2>2, <2>3, GoneMachine DEF SameLegs
  <2> HIDE DEF up, ks
  <2>8. up \in States /\ Gone(up) /\ SameMachine(up, on) /\ up.r = on.r
    BY <2>3, <2>6, <2>7, ReadiedGone, ReadiedIs DEF up, SameSequence
  <2> HIDE DEF upA
  <2>9. upA \in States /\ Gone(upA) /\ SameMachine(upA, up) /\ upA.r = up.r
    BY <2>6, <2>8, ReadiedGone, ReadiedIs DEF upA, SameSequence
  <2>10. Held(on) /\ Held(up) /\ Held(upA) /\ Rest(upA)
    BY <2>3, <2>7, <2>8, <2>9, GoneEven, EvenHolds
  <2>11. Raised(BeginInJob(upA, "toolchange", ks, line, o))
    <3>1. OnJob(upA) => RingIdle(upA)
      <4>1. OnJob(upA) => OnJob(s)
        BY <2>3, <2>8, <2>9 DEF OnJob, SameMachine
      <4>2. s.c.seq = "none" /\ upA.r = s.r
        BY <2>2, <2>3, <2>8, <2>9 DEF Gone
      <4> QED BY <4>1, <4>2, FreeRing DEF RingIdle
    <3>2. ks \in {<<"zs", "a", "line">>, <<"zs", "line">>}
      BY DEF ks
    <3> QED BY <2>9, <2>10, <3>1, <3>2, BeginInJobRaises
  <2>12. /\ Raised(SequenceFail(on, o)) /\ Raised(SequenceFail(up, o)) /\ Raised(SequenceFail(upA, o))
    BY <2>3, <2>8, <2>9, <2>10, SequenceFailIs, TornRaised
  <2>13. Raised(t)
    BY <2>1, <2>5, <2>11, <2>12
  <2> QED BY <2>13 DEF t
<1> QED BY <1>1, <1>2

LEMMA PlaceTickRaised ==
  ASSUME DistinctAxes, NEW s, Good(s), Outcome(s), Raised(s), NEW line, NEW o
  PROVE  Raised(PlaceTick(s, line, o))
<1> DEFINE on == [s EXCEPT !.c.begun = TRUE, !.c.isSet = FALSE]
           up == Readied(on, Zs, o)
           ks == <<"zs", "line">>
           off == [s EXCEPT !.c.begun = FALSE]
           t == PlaceTick(s, line, o)
<1>1. s \in States
  BY DEF Good
<1>2. CASE s.c.ctx # "JOB" \/ s.c.why # "PLACE" \/ (s.c.begun /\ ~s.c.aborted)
  BY <1>2 DEF PlaceTick
<1>3. CASE s.c.ctx = "JOB" /\ s.c.why = "PLACE" /\ s.c.aborted
  <2>1. t = off
    BY <1>3 DEF PlaceTick
  <2>2. /\ off.n = s.n /\ off.r = s.r /\ SameLegs(off, s) /\ SameSequence(off, s)
        /\ off.c.ctx = s.c.ctx /\ off.c.aborted = s.c.aborted /\ off.c.begun = FALSE
    BY <1>1 DEF States, Cores, SameLegs, SameSequence
  <2> HIDE DEF off, t
  <2>3. ~Placing(off)
    BY <2>2 DEF Placing
  <2>4. Raised(off)
    BY <2>2, <2>3, FieldsRaised DEF SameLegs, SameSequence
  <2> QED BY <2>1, <2>4 DEF t
<1>4. CASE s.c.ctx = "JOB" /\ s.c.why = "PLACE" /\ ~s.c.aborted /\ ~s.c.begun
  <2>1. t \in {SequenceFail(up, o), BeginInJob(up, "place", ks, line, o)}
    BY <1>4 DEF PlaceTick
  <2> HIDE DEF t
  <2>2. Gone(s)
    BY <1>4, OwnedGone DEF Good, Owned
  <2>3. /\ on \in States /\ SameLegs(on, s) /\ on.c.seq = s.c.seq /\ SameThreads(on, s) /\ Quiet(on, s)
        /\ on.c.ctx = s.c.ctx /\ on.c.aborted = s.c.aborted /\ on.r = s.r
    BY <1>1 DEF States, Cores, SameLegs, SameThreads, Quiet
  <2> HIDE DEF on
  <2>4. Gone(on)
    BY <1>1, <2>2, <2>3, GoneMachine DEF SameLegs
  <2>5. Zs \in SUBSET Nodes
    BY LegsAssumption
  <2> HIDE DEF up, ks
  <2>6. up \in States /\ Gone(up) /\ SameMachine(up, on) /\ up.r = on.r
    BY <2>3, <2>4, <2>5, ReadiedGone, ReadiedIs DEF up, SameSequence
  <2>7. Held(up) /\ Rest(up)
    BY <2>6, GoneEven, EvenHolds
  <2>8. Raised(BeginInJob(up, "place", ks, line, o))
    <3>1. OnJob(up) => RingIdle(up)
      <4>1. OnJob(up) => OnJob(s)
        BY <2>3, <2>6 DEF OnJob, SameMachine
      <4>2. s.c.seq = "none" /\ up.r = s.r
        BY <2>2, <2>3, <2>6 DEF Gone
      <4> QED BY <4>1, <4>2, FreeRing DEF RingIdle
    <3>2. ks \in {<<"zs", "a", "line">>, <<"zs", "line">>}
      BY DEF ks
    <3> QED BY <2>6, <2>7, <3>1, <3>2, BeginInJobRaises
  <2>9. Raised(SequenceFail(up, o))
    BY <2>6, <2>7, SequenceFailIs, TornRaised
  <2>10. Raised(t)
    BY <2>1, <2>8, <2>9
  <2> QED BY <2>10 DEF t
<1> QED BY <1>1, <1>2, <1>3, <1>4 DEF States, Cores

LEMMA ToolsTickRaised ==
  ASSUME DistinctAxes, LiveInv, Lifted, ToolsTick
  PROVE  Lifted'
<1>1. PICK line \in Lines, mounted \in BOOLEAN, o \in Outs :
        Leads(AbortSettle(PlaceTick(ToolChangeTick(S, mounted, line, o), line, o)), "observe")
  BY DEF ToolsTick, Core0Step, Observing, Leads
<1>2. core.pc = "tools"
  BY DEF ToolsTick, Core0Step
<1> DEFINE x == ToolChangeTick(S, mounted, line, o)
           y == PlaceTick(x, line, o)
           t == AbortSettle(y)
<1>3. S.c.box = <<>> /\ Outcome(S) /\ Kept(S) /\ Fit(S) /\ Good(S)
  BY <1>2, LiveIs, LiveEmpty DEF LiveInv, LegsInv, Emptying, Kept
<1>4. Good(x) /\ x.c.box = <<>>
  BY <1>3, ToolChangeTickGood
<1>5. x = S \/ Onward(x, S, "toolchange")
  BY <1>3, ToolChangeTickOutcome
<1>6. Raised(x)
  BY <1>3, ToolChangeTickRaised DEF Lifted
<1> HIDE DEF x
<1>7. Outcome(x)
  BY <1>3, <1>5 DEF Onward
<1>8. Raised(y) /\ Good(y)
  BY <1>4, <1>6, <1>7, PlaceTickRaised, PlaceTickGood
<1> HIDE DEF y
<1>9. t \in States /\ Raised(t)
  BY <1>8, AbortSettleRaised, AbortSettleSteady DEF Good, Steady
<1>10. Leads(t, "observe")
  BY <1>1 DEF x, y
<1> HIDE DEF t
<1> QED BY <1>9, <1>10, LeadsRaised

LEMMA EffectEndNodes ==
  ASSUME NEW s \in States, NEW n, NEW intent, NEW why, NEW datum
  PROVE  EffectEnd(s, n, intent, why, datum).n = s.n
BY DEF EffectEnd, OriginAdopt, OriginInvalidate, States

(* A leg's end leaves the nodes' places, and says whether it failed.       *)
LEMMA LegEndsNodes ==
  ASSUME NEW s \in States, NEW n \in Nodes, NEW why, NEW datum, s.c.box = <<>>
  PROVE  LET t == LegEnds(s, n, why, datum)
         IN /\ \A k \in Nodes : t.n[k].at = s.n[k].at /\ t.n[k].active = s.n[k].active
            /\ t.c.box # <<>> /\ t.c.box[1].kind = "leg"
            /\ t.c.box[1].failed = EndFailed(s.c.leg[n].intent, why)
<1> DEFINE intent == s.c.leg[n].intent
           x == EffectEnd(s, n, intent, why, datum)
           y == ThreadClose(x, n)
           e == [kind |-> "leg", node |-> n, failed |-> EndFailed(intent, why)]
           d == [y.n[n] EXCEPT !.blind = @ \/ s.n[n].active]
           m == [y.n EXCEPT ![n] = d]
           g == [y.c.leg EXCEPT ![n] = NoLeg]
           b == Append(y.c.box, e)
           freed == [y EXCEPT !.n = m, !.c.leg = g, !.c.box = b]
           t == StepCheck(freed)
<1>1. x \in States /\ SameLegs(x, s) /\ x.n = s.n
  BY EffectEndIs, EffectEndNodes
<1> HIDE DEF x
<1>2. y \in States /\ SameLegs(y, x) /\ y.n = x.n
  BY <1>1, ThreadCloseIs DEF ThreadClose, States
<1>3. LegEnds(s, n, why, datum) = t
  <2>1. LegEnds(s, n, why, datum) =
          StepCheck([y EXCEPT !.n[n].blind = @ \/ s.n[n].active, !.c.leg[n] = NoLeg,
                              !.c.box = Append(@, e)])
    BY DEF LegEnds, x
  <2>2. [y EXCEPT !.n[n].blind = @ \/ s.n[n].active, !.c.leg[n] = NoLeg, !.c.box = Append(@, e)]
          = freed
    BY <1>2 DEF States, Cores
  <2> QED BY <2>1, <2>2
<1> HIDE DEF y
<1>4. e \in Boxed /\ e.kind = "leg" /\ e.failed = EndFailed(intent, why)
  BY DEF EndFailed, LegEvents, Boxed
<1>5. d \in NodeStates /\ d.at = s.n[n].at /\ d.active = s.n[n].active
  BY <1>1, <1>2 DEF States, NodeStates
<1>6. /\ m \in [Nodes -> NodeStates] /\ g \in [Nodes -> LegStates]
      /\ m[n] = d /\ \A k \in Nodes \ {n} : m[k] = s.n[k]
  <2> HIDE DEF d
  <2> QED BY <1>1, <1>2, <1>5, NoLegType DEF States, Cores
<1>7. y.c.box = <<>> /\ y.c.box \in Seq(Boxed)
  BY <1>1, <1>2 DEF States, Cores, SameLegs
<1> HIDE DEF e, d
<1>8. b \in Seq(Boxed) /\ Len(b) = 1 /\ b[1] = e
  BY <1>4, <1>7
<1> HIDE DEF m, g, b
<1>9. freed \in States
  BY <1>2, <1>6, <1>8 DEF States, Cores
<1>10. freed.n = m /\ freed.c.box = b
  BY <1>2 DEF States, Cores
<1> HIDE DEF freed
<1>11. IF freed.c.live /\ Claimed(freed) = {} /\ freed.c.open = {}
       THEN t.c.box = Append(freed.c.box, StepEnd) ELSE t = freed
  BY <1>9, StepCheckThreads
<1>12. t.n = freed.n
  BY <1>9 DEF StepCheck, States
<1> HIDE DEF t
<1>13. \A k \in Nodes : t.n[k].at = s.n[k].at /\ t.n[k].active = s.n[k].active
  BY <1>5, <1>6, <1>10, <1>12
<1>14. t.c.box # <<>> /\ t.c.box[1] = e
  <2>1. StepEnd \in Boxed
    BY DEF StepEnd, Boxed
  <2> DEFINE q == Append(b, StepEnd)
  <2>7. q = Append(b, StepEnd)
    OBVIOUS
  <2> HIDE DEF q
  <2>2. Len(q) = 2 /\ q[1] = b[1]
    BY <1>8, <2>1, <2>7, SecondPosted
  <2>3. t.c.box \in {b, q}
    BY <1>10, <1>11 DEF q
  <2>4. Len(<<>>) = 0
    OBVIOUS
  <2>5. CASE t.c.box = b
    BY <1>8, <2>4, <2>5
  <2>6. CASE t.c.box = q
    <3>1. q[1] = e /\ Len(q) # Len(<<>>)
      BY <1>8, <2>2, <2>4
    <3> QED BY <2>6, <3>1
  <2> QED BY <2>3, <2>5, <2>6
<1> QED BY <1>3, <1>4, <1>13, <1>14 DEF t

(* A Z's leg to the park position that ends has got there, or has failed.  *)
LEMMA LegEndsRaises ==
  ASSUME NEW s \in States, Armed(s), Raised(s), NEW n \in Claimed(s), NEW why \in {"failed", "none", "budget"},
         NEW datum, s.c.box = <<>>,
         why = "none" /\ s.c.leg[n].intent = "park" /\ s.c.leg[n].goal = "park" => Up(s, n),
         why = "budget" => s.c.leg[n].intent # "park"
  PROVE  Raised(LegEnds(s, n, why, datum))
<1> DEFINE t == LegEnds(s, n, why, datum)
<1>1. n \in Nodes
  BY DEF Claimed
<1>2. SameMachine(t, s) /\ SameSequence(t, s)
  BY <1>1, LegEndsIs
<1>3. EndPosts(t, s, n)
  BY <1>1, LegEndsEnds
<1>4. /\ \A k \in Nodes : t.n[k].at = s.n[k].at /\ t.n[k].active = s.n[k].active
      /\ t.c.box # <<>> /\ t.c.box[1].kind = "leg"
      /\ t.c.box[1].failed = EndFailed(s.c.leg[n].intent, why)
  BY <1>1, LegEndsNodes
<1> HIDE DEF t
<1>5. \A k \in Zs : k \in Nodes /\ (Up(s, k) <=> Up(t, k))
  BY <1>4, LegsAssumption DEF Up
<1>6. AllUp(s) => AllUp(t)
  BY <1>5 DEF AllUp
<1>7. Raising(s) => Raising(t) \/ Missed(t)
  <2> SUFFICES ASSUME Raising(s), ~Missed(t) PROVE Raising(t)
    OBVIOUS
  <2>1. why # "failed"
    BY <1>4 DEF EndFailed, Missed
  <2>2. n \in Zs => Up(t, n)
    BY <1>5, <2>1 DEF Raising
  <2>3. \A k \in Zs \ {n} : Up(t, k) \/ (t.c.leg[k].intent = "park" /\ t.c.leg[k].goal = "park")
    BY <1>3, <1>5 DEF Raising, EndPosts, Ending
  <2> QED BY <2>2, <2>3 DEF Raising
<1>8. ~Missed(s)
  BY DEF Missed
<1>9. Cares(s) => Cares(t)
  BY <1>2, <1>6, <1>7, <1>8 DEF Cares, SameMachine, SameSequence, NoZs, HasLine, Placing, OnJob, RingIdle, Armed
<1>10. Raised(t)
  BY <1>2, <1>9 DEF Raised, Minds, OnJob, SameMachine, SameSequence
<1> QED BY <1>10 DEF t

(* A poll that ends no leg leaves each its aim.                            *)
LEMMA PollRaises ==
  ASSUME NEW s \in States, Raised(s), NEW n \in Nodes, NEW g,
         g.intent = s.c.leg[n].intent, g.goal = s.c.leg[n].goal
  PROVE  Raised([s EXCEPT !.c.leg[n] = g])
<1> DEFINE t == [s EXCEPT !.c.leg[n] = g]
<1>1. /\ t.n = s.n /\ t.r = s.r /\ SameMachine(t, s) /\ SameSequence(t, s) /\ t.c.box = s.c.box
      /\ t.c.leg = [s.c.leg EXCEPT ![n] = g]
  BY DEF States, Cores, SameMachine, SameSequence
<1>2. \A k \in Nodes : t.c.leg[k].intent = s.c.leg[k].intent /\ t.c.leg[k].goal = s.c.leg[k].goal
  BY <1>1 DEF States, Cores
<1> HIDE DEF t
<1>3. (AllUp(s) => AllUp(t)) /\ (Raising(s) => Raising(t))
  BY <1>1, <1>2, LegsAssumption DEF AllUp, Raising, Up
<1>4. Cares(s) => Cares(t)
  BY <1>1, <1>3 DEF Cares, SameMachine, SameSequence, NoZs, HasLine, Placing, OnJob, RingIdle, Missed
<1>5. Raised(t)
  BY <1>1, <1>4 DEF Raised, Minds, OnJob, SameMachine, SameSequence
<1> QED BY <1>5 DEF t

LEMMA PollOneRaises ==
  ASSUME NEW s \in States, Armed(s), Raised(s), NEW n \in Claimed(s), NEW o, s.c.box = <<>>
  PROVE  Raised(PollOne(s, n, o))
<1> DEFINE g == s.c.leg[n]
           d == s.n[n]
           heard == [g EXCEPT !.misses = 0]
           missed == [g EXCEPT !.misses = @ + 1]
           settled == [heard EXCEPT !.settle = @ - 1]
           t == PollOne(s, n, o)
<1>1. n \in Nodes /\ g \in LegStates /\ d \in NodeStates
  BY DEF Claimed, States, Cores
<1>2. /\ heard.intent = g.intent /\ heard.goal = g.goal /\ missed.intent = g.intent /\ missed.goal = g.goal
      /\ settled.intent = g.intent /\ settled.goal = g.goal
  BY <1>1 DEF LegStates
<1>3. \/ t = [s EXCEPT !.c.leg[n] = missed]
      \/ t = [s EXCEPT !.c.leg[n] = heard]
      \/ t = [s EXCEPT !.c.leg[n] = settled]
      \/ t = LegEnds(s, n, "failed", FALSE) \/ t = LegEnds(s, n, "failed", d.datum)
      \/ d.lit = FALSE /\ Verdict(g, n, d) /\ t = LegEnds(s, n, "none", d.datum)
      \/ g.intent # "park" /\ t = LegEnds(s, n, "budget", d.datum)
  <2>1. [s EXCEPT !.c.leg[n].misses = 0] = [s EXCEPT !.c.leg[n] = heard]
    BY <1>1 DEF States, Cores
  <2>2. [s EXCEPT !.c.leg[n].misses = @ + 1] = [s EXCEPT !.c.leg[n] = missed]
    BY <1>1 DEF States, Cores
  <2>3. [[s EXCEPT !.c.leg[n].misses = 0] EXCEPT !.c.leg[n].settle = @ - 1]
          = [s EXCEPT !.c.leg[n] = settled]
    BY <1>1, SettleIs
  <2>4. d.lit \in BOOLEAN
    BY <1>1 DEF NodeStates
  <2> HIDE DEF heard, missed, settled
  <2> QED BY <2>1, <2>2, <2>3, <2>4 DEF PollOne
<1> HIDE DEF heard, missed, settled
<1>4. ASSUME NEW x, x.intent = g.intent, x.goal = g.goal, t = [s EXCEPT !.c.leg[n] = x] PROVE Raised(t)
  <2>1. Raised([s EXCEPT !.c.leg[n] = x])
    BY <1>1, <1>4, PollRaises
  <2> HIDE DEF t
  <2> QED BY <1>4, <2>1
<1>5. Raised(LegEnds(s, n, "failed", FALSE)) /\ Raised(LegEnds(s, n, "failed", d.datum))
  BY LegEndsRaises
<1>6. d.lit = FALSE /\ Verdict(g, n, d) => Raised(LegEnds(s, n, "none", d.datum))
  <2> SUFFICES ASSUME d.lit = FALSE, Verdict(g, n, d) PROVE Raised(LegEnds(s, n, "none", d.datum))
    OBVIOUS
  <2>1. d.active = FALSE
    BY <1>1 DEF NodeStates
  <2>2. g.intent = "park" /\ g.goal = "park" => Up(s, n)
    BY <2>1 DEF Verdict, Up
  <2> QED BY <2>2, LegEndsRaises
<1>7. g.intent # "park" => Raised(LegEnds(s, n, "budget", d.datum))
  BY LegEndsRaises
<1> HIDE DEF t, g, d
<1>8. Raised(t)
  BY <1>2, <1>3, <1>4, <1>5, <1>6, <1>7
<1> QED BY <1>8 DEF t

LEMMA RunnerTickRaised ==
  ASSUME LiveInv, Lifted, NEW n \in Nodes, RunnerTick(n)
  PROVE  Lifted'
<1>1. PICK o \in Outs : Leads(PollOne(S, n, o), AfterRunner(PollOne(S, n, o)))
  BY DEF RunnerTick, Core0Step, Leads
<1>2. n \in Claimed(S) /\ Served
  BY DEF RunnerTick, Core0Step
<1>3. S.c.box = <<>> /\ Armed(S) /\ S \in States
  BY <1>2, ServedArmed, LiveIs
<1>4. Raised(PollOne(S, n, o)) /\ PollOne(S, n, o) \in States
  BY <1>2, <1>3, PollOneRaises, PollOneTicks DEF Lifted, Ticks
<1> QED BY <1>1, <1>4, LeadsRaised

LEMMA RunnerDeadlineRaised ==
  ASSUME LiveInv, Lifted, NEW n \in Nodes, RunnerDeadline(n)
  PROVE  Lifted'
<1> DEFINE t == LegEnds(S, n, "failed", FALSE)
<1>1. n \in Claimed(S) /\ Served
  BY DEF RunnerDeadline
<1>2. S.c.box = <<>> /\ Armed(S) /\ S \in States
  BY <1>1, ServedArmed, LiveIs
<1>3. Ticks(t, S)
  BY <1>2, LegEndsTicks
<1>4. Raised(t)
  BY <1>1, <1>2, LegEndsRaises DEF Lifted
<1>5. Leads(t, AfterRunner(t))
  <2>1. core' = [t.c EXCEPT !.pc = AfterRunner(t)] /\ node' = t.n /\ ring' = ring
    BY DEF RunnerDeadline
  <2>2. t.r = ring
    BY <1>3, LiveIs DEF Ticks, SameSequence
  <2> QED BY <2>1, <2>2 DEF Leads
<1> HIDE DEF t
<1> QED BY <1>3, <1>4, <1>5, LeadsRaised DEF Ticks

(* Where a step is over the Zs are up, if that is still wanted.            *)
LEMMA RestClimbs ==
  ASSUME NEW s, Raised(s), Minds(s), s.c.seq # "none", Rest(s), RingIdle(s), ~Missed(s)
  PROVE  Climbing(s)
BY RestUp DEF Raised, Cares, Climbing

LEMMA SameClimbs ==
  ASSUME NEW s, Climbing(s), NEW t, t.n = s.n, t.r.state = s.r.state, t.c.steps = s.c.steps, SameMachine(t, s)
  PROVE  Climbing(t)
BY DEF Climbing, RingIdle, NoZs, ZsFirst, HasLine, Placing, OnJob, AllUp, Up, SameMachine

(* An event that is no failed leg's is taken.                              *)
LEMMA TakenRaised ==
  ASSUME NEW s, Raised(s), ~Missed(s), NEW t, t.n = s.n, SameMachine(t, s), SameSequence(t, s), t.c.leg = s.c.leg
  PROVE  Raised(t)
<1>1. (AllUp(s) => AllUp(t)) /\ (Raising(s) => Raising(t))
  BY DEF AllUp, Raising, Up
<1>2. Cares(s) => Cares(t)
  BY <1>1 DEF Cares, SameMachine, SameSequence, NoZs, HasLine, Placing, OnJob, RingIdle
<1> QED BY <1>2 DEF Raised, Minds, OnJob, SameMachine, SameSequence

LEMMA ServeEndsRaised ==
  ASSUME LiveInv, Lifted, ServeEnds
  PROVE  Lifted'
<1>1. Leads(S, AfterRunner(S))
  BY DEF ServeEnds, Core0Step, Leads
<1> QED BY <1>1, LiveIs, LeadsRaised DEF Lifted

LEMMA ObserveFaultRaised ==
  ASSUME LiveInv, ObserveFault
  PROVE  Lifted'
<1> DEFINE t == FaultSet(S, "F_TOOL", Fine)
<1>1. core' = t.c /\ node' = t.n /\ ring' = t.r
  BY DEF ObserveFault
<1>2. Torn(t)
  BY LiveIs, FaultSetIs DEF Faults
<1> HIDE DEF t
<1>3. t \in States /\ Raised(t)
  BY <1>2, TornRaised DEF Torn
<1>4. Leads(t, t.c.pc)
  <2>1. [t.c EXCEPT !.pc = t.c.pc] = t.c
    BY <1>3 DEF States, Cores
  <2> QED BY <1>1, <2>1 DEF Leads
<1> QED BY <1>3, <1>4, LeadsRaised

LEMMA ObserveRaised ==
  ASSUME DistinctAxes, LiveInv, Lifted, Observe
  PROVE  Lifted'
<1> DEFINE s == [S EXCEPT !.r.facts = @ - 1]
           u == [s EXCEPT !.c.ringStep = FALSE]
           drained == RingIdle(s) /\ s.c.seq # "none" /\ s.c.ringStep
<1>1. PICK line \in Lines, o \in Outs :
        Leads(IF drained THEN Advance(u, line, FALSE, o) ELSE s, "observe")
  BY DEF Observe, Core0Step, Observing, Leads
<1>2. core.pc = "observe" /\ ring.facts > 0
  BY DEF Observe, Core0Step
<1>3. S.c.box = <<>> /\ S \in States /\ Outcome(S) /\ HomeRun(S) /\ Fit(S)
  BY <1>2, LiveIs, LiveEmpty DEF LiveInv, LegsInv, Emptying, Good
<1>4. S.r.facts \in Nat /\ S.r.facts > 0
  BY <1>2, LiveIs DEF States, Rings
<1>5. /\ s \in States /\ s.c = S.c /\ s.n = S.n /\ s.r.state = S.r.state /\ s.r.moves = S.r.moves
  BY <1>3, <1>4 DEF States, Rings
<1> HIDE DEF s
<1>6. Raised(s)
  BY <1>5, FieldsRaised DEF Lifted, Placing, OnJob
<1>7. u \in States /\ u.c.ringStep = FALSE /\ u.c.seq = s.c.seq /\ u.c.run = s.c.run /\ u.c.box = s.c.box
      /\ u.c.live = s.c.live /\ u.c.open = s.c.open /\ u.c.leg = s.c.leg /\ u.r = s.r /\ u.n = s.n
      /\ u.c.steps = s.c.steps /\ SameMachine(u, s)
  BY <1>5 DEF States, Cores, SameMachine
<1> HIDE DEF u
<1>8. CASE drained
  <2> DEFINE t == Advance(u, line, FALSE, o)
  <2>1. Rest(S)
    BY <1>3, <1>5, <1>8 DEF Outcome, Gone, Armed, Rolling
  <2>2. Rest(s) /\ Rest(u) /\ HomeRun(u) /\ u.c.seq # "none" /\ u.c.box = <<>>
    BY <1>3, <1>5, <1>7, <1>8, <2>1 DEF Rest, HomeRun
  <2>3. Minds(u) => Climbing(u)
    <3> SUFFICES ASSUME Minds(u) PROVE Climbing(u)
      OBVIOUS
    <3>1. Minds(s) /\ ~Missed(s)
      BY <1>3, <1>5, <1>7 DEF Minds, OnJob, SameMachine, Missed
    <3>2. Climbing(s)
      BY <1>6, <1>8, <2>2, <3>1, RestClimbs
    <3> QED BY <1>7, <3>2, SameClimbs
  <2>4. u.c.ctx = "JOB" => u.c.seq \in JobSeqs
    BY <1>6, <1>7 DEF Raised, SameMachine
  <2>5. Raised(t)
    BY <1>7, <2>2, <2>3, <2>4, AdvanceRaised
  <2>6. t \in States
    BY <1>7, <2>2, AdvanceOutcome DEF Onward
  <2> HIDE DEF t
  <2>7. Leads(t, "observe")
    BY <1>1, <1>8 DEF t
  <2> QED BY <2>5, <2>6, <2>7, LeadsRaised
<1>9. CASE ~drained
  <2>1. Leads(s, "observe")
    BY <1>1, <1>9
  <2> QED BY <1>5, <1>6, <2>1, LeadsRaised
<1> QED BY <1>8, <1>9

LEMMA SequenceTickRaised ==
  ASSUME DistinctAxes, LiveInv, Lifted, SequenceTick
  PROVE  Lifted'
<1> DEFINE ev == Head(core.box)
           s == [S EXCEPT !.c.box = Tail(@)]
           F(line, apart, o) == Handled(s, ev, line, apart, o)
<1>0. \E line \in Lines, apart \in BOOLEAN, o \in Outs : \E x \in {F(line, apart, o)} :
        core' = [x.c EXCEPT !.pc = AfterRunner(x)] /\ node' = x.n /\ ring' = x.r
  BY ZenonT(60) DEF SequenceTick, Core0Step, Handled
<1>1. PICK line \in Lines, apart \in BOOLEAN, o \in Outs :
        Leads(F(line, apart, o), AfterRunner(F(line, apart, o)))
  <2> HIDE DEF F
  <2> QED BY <1>0 DEF Leads
<1> DEFINE t == F(line, apart, o)
<1> HIDE DEF F
<1>2. core.box # <<>> /\ core.box \in Seq(Boxed) /\ S.c.box = core.box
  BY LiveIs DEF SequenceTick, States, Cores
<1> DEFINE b == Tail(core.box)
<1>3. ev \in Boxed /\ ev = core.box[1] /\ b \in Seq(Boxed)
  BY <1>2, HeadTailProperties
<1>4. s = [S EXCEPT !.c.box = b]
  BY <1>2, LiveIs DEF States, Cores
<1> HIDE DEF b, ev, s
<1>5. /\ s \in States /\ SameMachine(s, S) /\ SameSequence(s, S) /\ s.n = S.n
      /\ s.c.leg = S.c.leg /\ s.c.live = S.c.live /\ SameThreads(s, S)
  BY <1>3, <1>4, LiveIs DEF States, Cores, SameMachine, SameSequence, SameThreads
<1>6. Held(s) /\ HomeRun(s) /\ (Rest(S) => Rest(s))
  BY <1>5, LiveIs DEF Held, Good, HomeRun, Claimed, Rest, SameMachine, SameSequence, SameThreads
<1>7. S.c.seq # "none" /\ (ev.kind = "step" => Over(S)) /\ ev.kind \in {"step", "leg"}
  <2>1. CASE Over(S) /\ S.c.box = <<StepEnd>>
    BY <1>2, <1>3, <2>1 DEF StepEnd, Over
  <2>2. CASE \E n \in Nodes : Posted(S, n)
    BY <1>2, <1>3, <2>2 DEF Posted, Over, Almost
  <2> QED BY <1>2, <2>1, <2>2, LiveIs DEF Live
<1>8. ev.kind = "leg" => ev.node \in Nodes /\ ev.failed \in BOOLEAN
  BY <1>3 DEF Boxed, LegEvents
<1>9. Missed(S) => ev.kind = "leg" /\ ev.failed = TRUE
  BY <1>2, <1>3 DEF Missed
<1>10. s.c.seq = S.c.seq /\ s.c.ringStep = S.c.ringStep /\ s.r = S.r /\ s.c.steps = S.c.steps /\ s.c.ctx = S.c.ctx
  BY <1>5 DEF SameSequence, SameMachine
<1>11. s.c.ctx = "JOB" => s.c.seq \in JobSeqs
  BY <1>10 DEF Lifted, Raised
<1>12. CASE ev.kind = "step"
  <2>1. t = Advance(s, line, apart, o)
    BY <1>7, <1>10, <1>12 DEF Handled, F
  <2>2. Over(S) /\ Rest(s) /\ s.c.ringStep = FALSE
    BY <1>6, <1>7, <1>10, <1>12 DEF Over
  <2>3. Minds(s) => Climbing(s)
    <3> SUFFICES ASSUME Minds(s) PROVE Climbing(s)
      OBVIOUS
    <3>1. Minds(S)
      BY <1>5, <1>10 DEF Minds, OnJob, SameMachine
    <3>2. RingIdle(S)
      BY <1>7, <2>2, <3>1 DEF Lifted, Raised, Cares, Over
    <3>3. ~Missed(S)
      BY <1>9, <1>12
    <3>4. Climbing(S)
      BY <1>7, <2>2, <3>1, <3>2, <3>3, RestClimbs DEF Lifted, Over
    <3> QED BY <1>5, <1>10, <3>4, SameClimbs
  <2>4. Raised(Advance(s, line, apart, o)) /\ Advance(s, line, apart, o) \in States
    BY <1>5, <1>6, <1>7, <1>10, <1>11, <2>2, <2>3, AdvanceRaised, AdvanceOutcome DEF Onward
  <2> HIDE DEF t
  <2>5. Leads(t, AfterRunner(t))
    BY <1>1 DEF t
  <2> QED BY <2>1, <2>4, <2>5, LeadsRaised
<1>13. CASE ev.kind = "leg"
  <2>1. t = IF ev.failed THEN HomingFail(s, o) ELSE IF s.c.seq = "home" THEN HomeLegEnded(s, ev.node, o) ELSE s
    BY <1>7, <1>10, <1>13 DEF Handled, F
  <2>2. Raised(HomingFail(s, o)) /\ HomingFail(s, o) \in States
    BY <1>5, HomingFailIs, TornRaised DEF Torn
  <2>3. s.c.seq = "home" => Raised(HomeLegEnded(s, ev.node, o)) /\ HomeLegEnded(s, ev.node, o) \in States
    <3> SUFFICES ASSUME s.c.seq = "home"
                 PROVE  Raised(HomeLegEnded(s, ev.node, o)) /\ HomeLegEnded(s, ev.node, o) \in States
      OBVIOUS
    <3> DEFINE h == HomeLegEnded(s, ev.node, o)
    <3>1. HomeGoes(h, s)
      BY <1>5, <1>6, <1>8, <1>13, HomeLegEndedIs DEF HomeRun
    <3> HIDE DEF h
    <3>2. CASE Fails(h)
      BY <3>2, TornRaised DEF Fails, Torn, h
    <3>3. CASE Stays(h, s)
      <4>1. h.c.ctx # "JOB" /\ h.c.seq # "goto" /\ h \in States
        BY <1>11, <3>3 DEF Stays, SameMachine, JobSeqs
      <4>2. Raised(h)
        BY <4>1, AwayRaised
      <4> QED BY <4>1, <4>2 DEF h
    <3> QED BY <3>1, <3>2, <3>3 DEF HomeGoes
  <2>4. ev.failed = FALSE => Raised(s)
    BY <1>5, <1>9, TakenRaised DEF Lifted
  <2> HIDE DEF t
  <2>5. t \in States /\ Raised(t)
    BY <1>5, <1>8, <1>13, <2>1, <2>2, <2>3, <2>4
  <2>6. Leads(t, AfterRunner(t))
    BY <1>1 DEF t
  <2> QED BY <2>5, <2>6, LeadsRaised
<1> QED BY <1>7, <1>12, <1>13

(* What a command leaves, and the machinePublish after it.                 *)
LEMMA ServesRaised ==
  ASSUME NEW t \in States, Raised(t), Leads(AbortSettle(t), "serve")
  PROVE  Lifted'
<1>1. AbortSettle(t) \in States /\ Raised(AbortSettle(t))
  BY AbortSettleRaised, AbortSettleSteady DEF Steady
<1> QED BY <1>1, LeadsRaised

(* A command of the machine at rest, with no job on it.                    *)
LEMMA AwayServes ==
  ASSUME NEW t \in States, t.c.ctx # "JOB", t.c.seq # "goto", Leads(AbortSettle(t), "serve")
  PROVE  Lifted'
BY AwayRaised, ServesRaised

LEMMA BeginsServes ==
  ASSUME S.c.ctx # "JOB", S.c.seq # "goto", NEW id, id # "goto", NEW t, Begins(t, S, id),
         Leads(AbortSettle(t), "serve")
  PROVE  Lifted'
<1>1. CASE Fails(t)
  BY <1>1, TornRaised, ServesRaised DEF Fails, Torn
<1>2. CASE ~Fails(t)
  <2>1. t \in States /\ t.c.ctx # "JOB" /\ t.c.seq # "goto"
    BY <1>2 DEF Begins, SameMachine
  <2> QED BY <2>1, AwayServes
<1> QED BY <1>1, <1>2

LEMMA CmdHomeRaised ==
  ASSUME LiveInv, CmdHome
  PROVE  Lifted'
<1>1. PICK x \in {<<Nodes, FALSE>>, <<Nodes \ core.origin, FALSE>>, <<XY, FALSE>>}
                  \cup {<<{n}, TRUE>> : n \in Nodes} :
        Serve("home", Rests(S) /\ core.events = {} /\ x[1] # {},
              LAMBDA o : HomeStart(S, x[1], x[2], o))
  BY DEF CmdHome
<1>2. PICK o \in Outs : Leads(AbortSettle(HomeStart(S, x[1], x[2], o)), "serve")
  BY <1>1 DEF Serve, Core0Step, Leads
<1>3. Served /\ Rests(S) /\ x[1] # {} /\ x[1] \in SUBSET Nodes
  <2>1. Served /\ Rests(S) /\ x[1] # {}
    BY <1>1 DEF Serve, Core0Step
  <2>2. \E A \in SUBSET Nodes, b \in BOOLEAN : x = <<A, b>>
    BY LegsAssumption
  <2> QED BY <2>1, <2>2
<1>4. Begins(HomeStart(S, x[1], x[2], o), S, "home")
  BY <1>3, LiveIs, HomeStartIs
<1>5. S.c.ctx # "JOB" /\ S.c.seq # "goto"
  BY <1>3, RestsGone DEF Rests
<1> QED BY <1>2, <1>4, <1>5, BeginsServes

(* A goto's start: its Zs' step comes before its line.                     *)
LEMMA GotoRaises ==
  ASSUME DistinctAxes, LiveInv, Lifted, Served, Rests(S) \/ Waits(S), NEW A \in SUBSET Nodes,
         NEW ks \in {<<"zs", "line">>, <<"zs">>, <<"as">>}, NEW line, NEW o
  PROVE  /\ Readied(S, A, o) \in States /\ Raised(Readied(S, A, o))
         /\ Begin(Readied(S, A, o), "goto", ks, line, o) \in States
         /\ Raised(Begin(Readied(S, A, o), "goto", ks, line, o))
<1> DEFINE u == Readied(S, A, o)
<1>1. S \in States /\ Gone(S) /\ ~Busy(S) /\ ~Placing(S)
  BY RestsGone DEF Rests, Waits, Placing, OnJob
<1>2. u \in States /\ SameMachine(u, S) /\ SameSequence(u, S) /\ SameLegs(u, S) /\ Gone(u)
  BY <1>1, ReadiedIs, ReadiedGone
<1>3. Holds(u, S)
  BY <1>1, EnableHolds
<1> HIDE DEF u
<1>4. ~Placing(u) /\ RingIdle(u) /\ Rest(u)
  BY <1>1, <1>2 DEF Placing, OnJob, SameMachine, SameSequence, Busy, RingIdle, Gone
<1>5. u.c.leg = S.c.leg /\ u.c.box = S.c.box /\ u.c.seq = S.c.seq /\ u.c.steps = S.c.steps
      /\ u.c.ringStep = S.c.ringStep /\ u.c.ctx = S.c.ctx /\ u.c.aborted = S.c.aborted
  BY <1>2 DEF SameMachine, SameSequence, SameLegs
<1>6. OnJob(u) => OnJob(S)
  BY <1>5 DEF OnJob
<1>7. Raised(u)
  BY <1>3, <1>4, <1>5, <1>6, HeldRaised DEF Lifted
<1>8. ks \notin {<<"line">>, <<"line", "line">>}
  BY "zs" # "line", "as" # "line"
<1>9. Raised(Begin(u, "goto", ks, line, o))
  BY <1>2, <1>4, <1>8, BeginRaises
<1>10. Begin(u, "goto", ks, line, o) \in States
  <2>1. ks \in Seq(StepKinds) /\ "goto" \in SeqIds \ {"none", "home"}
    BY StepLists DEF SeqIds
  <2> QED BY <1>2, <1>4, <2>1, BeginOutcome DEF Onward
<1> QED BY <1>2, <1>7, <1>9, <1>10 DEF u

LEMMA CmdGotoXYRaised ==
  ASSUME DistinctAxes, LiveInv, Lifted, CmdGotoXY
  PROVE  Lifted'
<1> DEFINE ks == <<"zs", "line">>
           u(o) == Readied(S, Zs, o)
           t(line, o) == IF Ready(S, Zs, o) THEN Begin(u(o), "goto", ks, line, o) ELSE u(o)
<1>1. PICK line \in Lines, o \in Outs : Leads(AbortSettle(t(line, o)), "serve")
  BY DEF CmdGotoXY, Serve, Core0Step, Leads
<1>2. Served /\ (Rests(S) \/ Waits(S))
  BY DEF CmdGotoXY, Serve, Core0Step
<1>3. Zs \in SUBSET Nodes /\ ks \in {<<"zs", "line">>, <<"zs">>, <<"as">>}
  BY LegsAssumption
<1> HIDE DEF ks
<1> DEFINE v == t(line, o)
<1>4. v \in {Readied(S, Zs, o), Begin(Readied(S, Zs, o), "goto", ks, line, o)}
  OBVIOUS
<1>5. Leads(AbortSettle(v), "serve")
  BY <1>1
<1>6. v \in States /\ Raised(v)
  <2> HIDE DEF v
  <2> QED BY <1>2, <1>3, <1>4, GotoRaises
<1> HIDE DEF u, t, v
<1> QED BY <1>5, <1>6, ServesRaised

LEMMA CmdGotoLegsRaised ==
  ASSUME DistinctAxes, LiveInv, Lifted, CmdGotoLegs
  PROVE  Lifted'
<1>1. PICK x \in {<<Zs, "zs">>, <<Rotary, "as">>} :
        Serve("goto", Rests(S) /\ core.events = {} /\ x[1] \subseteq core.origin /\ x[1] # {},
              LAMBDA o : IF Ready(S, x[1], o)
                         THEN Begin(Readied(S, x[1], o), "goto", <<x[2]>>, "far", o)
                         ELSE Readied(S, x[1], o))
  BY DEF CmdGotoLegs
<1> DEFINE u(o) == Readied(S, x[1], o)
           ks == <<x[2]>>
           t(o) == IF Ready(S, x[1], o) THEN Begin(u(o), "goto", ks, "far", o) ELSE u(o)
<1>2. PICK o \in Outs : Leads(AbortSettle(t(o)), "serve")
  BY <1>1 DEF Serve, Core0Step, Leads
<1>3. Served /\ Rests(S)
  BY <1>1 DEF Serve, Core0Step
<1>4. x[1] \in SUBSET Nodes /\ x[2] \in {"zs", "as"}
  BY <1>1, LegsAssumption
<1>5. ks \in {<<"zs", "line">>, <<"zs">>, <<"as">>}
  BY <1>4
<1> HIDE DEF ks
<1> DEFINE v == t(o)
<1>6. v \in {Readied(S, x[1], o), Begin(Readied(S, x[1], o), "goto", ks, "far", o)}
  OBVIOUS
<1>7. Leads(AbortSettle(v), "serve")
  BY <1>2
<1>8. v \in States /\ Raised(v)
  <2> HIDE DEF v
  <2> QED BY <1>3, <1>4, <1>5, <1>6, GotoRaises
<1> HIDE DEF u, t, v
<1> QED BY <1>7, <1>8, ServesRaised

LEMMA CmdGotoAxisRaised ==
  ASSUME LiveInv, CmdGotoAxis
  PROVE  Lifted'
<1> DEFINE x == SequenceStart(S, "gotoaxis")
           t(n) == [x EXCEPT !.c.ringStep = TRUE, !.r.state = "queued", !.r.moves = {n}]
<1>1. PICK n \in Zs, o \in Outs : Leads(AbortSettle(t(n)), "serve")
  BY DEF CmdGotoAxis, Serve, Core0Step, Leads
<1>2. Served /\ Rests(S)
  BY DEF CmdGotoAxis, Serve, Core0Step
<1>3. x \in States /\ SameMachine(x, S) /\ x.c.seq = "gotoaxis"
  BY LiveIs, SequenceStartIs DEF SeqIds
<1> HIDE DEF x
<1>4. {n} \in SUBSET Nodes
  BY LegsAssumption
<1> DEFINE v == [x EXCEPT !.r.state = "queued", !.r.moves = {n}, !.c.ringStep = TRUE]
<1>5. v = t(n)
  BY <1>3 DEF States
<1>6. v \in States /\ v.c.seq = "gotoaxis" /\ v.c.ctx = S.c.ctx
  <2> DEFINE c == [x.c EXCEPT !.ringStep = TRUE]
             r == [x.r EXCEPT !.state = "queued", !.moves = {n}]
  <2>1. x.c \in Cores /\ x.r \in Rings
    BY <1>3 DEF States
  <2>2. c \in Cores /\ c.seq = x.c.seq /\ c.ctx = x.c.ctx
    BY <2>1 DEF Cores
  <2>3. r \in Rings
    BY <1>4, <2>1 DEF Rings
  <2>4. v = [x EXCEPT !.c = c, !.r = r]
    BY <1>3 DEF States
  <2> HIDE DEF c, r, v
  <2>5. v \in States /\ v.c = c
    BY <1>3, <2>2, <2>3, <2>4 DEF States
  <2> QED BY <1>3, <2>2, <2>5 DEF SameMachine
<1> HIDE DEF v, t
<1> QED BY <1>1, <1>2, <1>5, <1>6, AwayServes DEF Rests

LEMMA CmdEnableRaised ==
  ASSUME LiveInv, NEW n \in Nodes, CmdEnable(n)
  PROVE  Lifted'
<1>1. PICK o \in Outs : Leads(AbortSettle(Enable(S, {n}, o)), "serve")
  BY DEF CmdEnable, Serve, Core0Step, Leads
<1>2. Served /\ Rests(S)
  BY DEF CmdEnable, Serve, Core0Step
<1> DEFINE t == Enable(S, {n}, o)
<1>3. t \in States /\ SameMachine(t, S) /\ SameSequence(t, S)
  BY LiveIs, EnableIs
<1> HIDE DEF t
<1>4. t.c.ctx # "JOB" /\ t.c.seq # "goto"
  BY <1>2, <1>3, RestsGone DEF SameMachine, SameSequence, Rests
<1> QED BY <1>1, <1>3, <1>4, AwayServes DEF t

LEMMA CmdSetOriginRaised ==
  ASSUME LiveInv, NEW n \in Nodes, CmdSetOrigin(n)
  PROVE  Lifted'
<1> DEFINE where == [m \in Nodes |-> node[m].at]
           s(o) == OriginDatum(S, {n}, where, o)
           t(o) == IF Deaf({n}, o) = {} THEN [s(o) EXCEPT !.c.ctx = "IDLE"] ELSE s(o)
<1>1. PICK o \in Outs : Leads(AbortSettle(t(o)), "serve")
  BY DEF CmdSetOrigin, Serve, Core0Step, Leads
<1>2. Served /\ ~Busy(S) /\ S.c.ctx # "JOB"
  BY LiveIs DEF CmdSetOrigin, Serve, Core0Step
<1> DEFINE x == s(o)
           y == [x EXCEPT !.c.ctx = "IDLE"]
<1>3. where \in [Nodes -> Places]
  BY LiveIs DEF States, NodeStates, Places
<1> HIDE DEF where
<1>4. x \in States /\ SameMachine(x, S) /\ SameSequence(x, S)
  BY <1>3, LiveIs, OriginDatumIs
<1> HIDE DEF s, x
<1>5. y \in States /\ y.c.seq = x.c.seq /\ y.c.ctx = "IDLE"
  BY <1>4 DEF States, Cores
<1> HIDE DEF y
<1>6. \A z \in {x, y} : z \in States /\ z.c.ctx # "JOB" /\ z.c.seq # "goto"
  BY <1>2, <1>4, <1>5, NotBusyGone DEF SameMachine, SameSequence
<1>7. t(o) \in {x, y}
  BY DEF x, y
<1> HIDE DEF t
<1> QED BY <1>1, <1>6, <1>7, AwayServes

LEMMA CmdHomeEndRaised ==
  ASSUME LiveInv, CmdHomeEnd
  PROVE  Lifted'
<1> DEFINE t == [S EXCEPT !.c.ctx = "IDLE"]
<1>1. Leads(AbortSettle(t), "serve") /\ S.c.seq = "none"
  BY LiveIs DEF CmdHomeEnd, Serve, Core0Step, Leads
<1>2. t \in States /\ t.c.ctx = "IDLE" /\ t.c.seq = S.c.seq
  BY LiveIs DEF States, Cores
<1> HIDE DEF t
<1> QED BY <1>1, <1>2, AwayServes

LEMMA CmdUnstopRaised ==
  ASSUME LiveInv, CmdUnstop
  PROVE  Lifted'
<1> DEFINE t == [S EXCEPT !.c.estop = "clear"]
<1>1. Leads(AbortSettle(t), "serve") /\ Served /\ ~Busy(S) /\ S.c.ctx = "IDLE"
  BY LiveIs DEF CmdUnstop, Serve, Core0Step, Leads
<1>2. t \in States /\ t.c.ctx = S.c.ctx /\ t.c.seq = S.c.seq
  BY LiveIs DEF States, Cores
<1> HIDE DEF t
<1> QED BY <1>1, <1>2, NotBusyGone, AwayServes

LEMMA CmdUnalarmRaised ==
  ASSUME LiveInv, CmdUnalarm
  PROVE  Lifted'
<1> DEFINE s == [S EXCEPT !.c.events = {}]
           t(o) == RecoveryStart(s, o)
<1>1. PICK o \in Outs : Leads(AbortSettle(t(o)), "serve") /\ Served /\ Rests(S)
  BY DEF CmdUnalarm, Serve, Core0Step, Leads
<1>2. S \in States /\ Gone(S)
  BY <1>1, RestsGone
<1>3. s \in States /\ SameLegs(s, S) /\ s.c.seq = S.c.seq /\ s.c.ctx = S.c.ctx
  BY <1>2 DEF States, Cores, SameLegs
<1> HIDE DEF s
<1>4. Held(s)
  BY <1>3, LiveIs DEF Held, Claimed, SameLegs
<1>5. Begins(t(o), s, "recovery")
  BY <1>3, <1>4, RecoveryStartIs
<1> HIDE DEF t
<1>6. CASE Fails(t(o))
  BY <1>1, <1>6, TornRaised, ServesRaised DEF Fails, Torn
<1>7. CASE ~Fails(t(o))
  <2>1. t(o) \in States /\ t(o).c.ctx # "JOB" /\ t(o).c.seq # "goto"
    BY <1>1, <1>2, <1>3, <1>5, <1>7 DEF Begins, SameMachine, Rests, Gone
  <2> QED BY <1>1, <2>1, AwayServes
<1> QED BY <1>6, <1>7

LEMMA CmdStopRaised ==
  ASSUME LiveInv, CmdStop, core.box = <<>>
  PROVE  Lifted'
<1> DEFINE s == [S EXCEPT !.c.estop = "asked"]
           u == TearDownEstop(s)
           t == OriginInvalidate(u, Nodes)
<1>1. Leads(AbortSettle(t), "serve") /\ Served
  BY DEF CmdStop, Serve, Core0Step, Leads
<1>2. S.c.box = <<>> /\ S \in States
  BY LiveIs
<1>3. Even(S)
  BY <1>2, LiveIs, LiveEmpty, OutcomeEven
<1>4. s \in States /\ SameLegs(s, S) /\ SameThreads(s, S)
  BY <1>2 DEF States, Cores, SameLegs, SameThreads
<1> HIDE DEF s
<1>5. Even(s)
  BY <1>3, <1>4, SameRest DEF Even, SameLegs
<1>6. u \in States /\ Gone(u) /\ u.c.ctx = "IDLE"
  BY <1>4, <1>5, EstopRests
<1> HIDE DEF u
<1>7. t \in States /\ SameMachine(t, u) /\ SameSequence(t, u)
  BY <1>6, OriginInvalidateIs
<1> HIDE DEF t
<1>8. t.c.ctx # "JOB" /\ t.c.seq # "goto"
  BY <1>6, <1>7 DEF Gone, SameMachine, SameSequence
<1> QED BY <1>1, <1>7, <1>8, AwayServes

(* A job's header opens the placement, with the ring at rest.              *)
LEMMA JobHdrRaised ==
  ASSUME LiveInv, JobHdr
  PROVE  Lifted'
<1> DEFINE t == [S EXCEPT !.c.ctx = "JOB", !.c.why = "PLACE", !.c.begun = FALSE, !.c.isSet = FALSE]
<1>1. Leads(AbortSettle(t), "serve") /\ Served /\ Rests(S)
  BY DEF JobHdr, Serve, Core0Step, Leads, Idle
<1>2. t \in States /\ t.c.begun = FALSE /\ t.c.seq = S.c.seq /\ t.r = S.r
  BY LiveIs DEF States, Cores
<1> HIDE DEF t
<1>3. t.c.seq = "none" /\ RingIdle(t) /\ ~Placing(t)
  BY <1>1, <1>2, RestsGone DEF Rests, Busy, RingIdle, Placing
<1>4. Raised(t)
  BY <1>3 DEF Raised, Cares, JobSeqs
<1> QED BY <1>1, <1>2, <1>4, ServesRaised

(* A command that writes only what the job is at.                          *)
LEMMA JobServes ==
  ASSUME LiveInv, Lifted, NEW t \in States, t.n = S.n, t.r = S.r, SameLegs(t, S),
         t.c.seq = S.c.seq, t.c.steps = S.c.steps, t.c.ringStep = S.c.ringStep, t.c.ctx = S.c.ctx,
         t.c.aborted = S.c.aborted, Placing(t) => Placing(S), Leads(AbortSettle(t), "serve")
  PROVE  Lifted'
<1>1. Raised(t)
  BY FieldsRaised DEF Lifted, SameLegs
<1> QED BY <1>1, ServesRaised

LEMMA ToolHdrRaised ==
  ASSUME LiveInv, Lifted, ToolHdr
  PROVE  Lifted'
<1> DEFINE t == [S EXCEPT !.c.why = "TOOL_CHANGE", !.c.begun = FALSE]
<1>1. Leads(AbortSettle(t), "serve")
  BY DEF ToolHdr, Serve, Core0Step, Leads
<1>2. /\ t \in States /\ t.n = S.n /\ t.r = S.r /\ SameLegs(t, S) /\ t.c.seq = S.c.seq
      /\ t.c.steps = S.c.steps /\ t.c.ringStep = S.c.ringStep /\ t.c.ctx = S.c.ctx
      /\ t.c.aborted = S.c.aborted /\ t.c.why = "TOOL_CHANGE"
  BY LiveIs DEF States, Cores, SameLegs
<1> HIDE DEF t
<1> QED BY <1>1, <1>2, JobServes DEF Placing

LEMMA ToolChangeLeaveRaised ==
  ASSUME LiveInv, Lifted, ToolChangeLeave
  PROVE  Lifted'
<1> DEFINE t == [S EXCEPT !.c.why = "BUFFERING"]
<1>1. Leads(AbortSettle(t), "serve")
  BY DEF ToolChangeLeave, Serve, Core0Step, Leads
<1>2. /\ t \in States /\ t.n = S.n /\ t.r = S.r /\ SameLegs(t, S) /\ t.c.seq = S.c.seq
      /\ t.c.steps = S.c.steps /\ t.c.ringStep = S.c.ringStep /\ t.c.ctx = S.c.ctx
      /\ t.c.aborted = S.c.aborted /\ t.c.why = "BUFFERING"
  BY LiveIs DEF States, Cores, SameLegs
<1> HIDE DEF t
<1> QED BY <1>1, <1>2, JobServes DEF Placing

LEMMA PlaceSetRaised ==
  ASSUME LiveInv, Lifted, PlaceSet
  PROVE  Lifted'
<1> DEFINE t == [S EXCEPT !.c.isSet = TRUE]
<1>1. Leads(AbortSettle(t), "serve")
  BY DEF PlaceSet, Serve, Core0Step, Leads
<1>2. /\ t \in States /\ t.n = S.n /\ t.r = S.r /\ SameLegs(t, S) /\ t.c.seq = S.c.seq
      /\ t.c.steps = S.c.steps /\ t.c.ringStep = S.c.ringStep /\ t.c.ctx = S.c.ctx
      /\ t.c.aborted = S.c.aborted /\ t.c.why = S.c.why /\ t.c.begun = S.c.begun
  BY LiveIs DEF States, Cores, SameLegs
<1> HIDE DEF t
<1> QED BY <1>1, <1>2, JobServes DEF Placing, OnJob

LEMMA PlaceOkRaised ==
  ASSUME LiveInv, Lifted, PlaceOk
  PROVE  Lifted'
<1> DEFINE t == [S EXCEPT !.c.why = "BUFFERING", !.c.begun = FALSE, !.c.isSet = FALSE]
<1>1. Leads(AbortSettle(t), "serve")
  BY DEF PlaceOk, Serve, Core0Step, Leads
<1>2. /\ t \in States /\ t.n = S.n /\ t.r = S.r /\ SameLegs(t, S) /\ t.c.seq = S.c.seq
      /\ t.c.steps = S.c.steps /\ t.c.ringStep = S.c.ringStep /\ t.c.ctx = S.c.ctx
      /\ t.c.aborted = S.c.aborted /\ t.c.why = "BUFFERING"
  BY LiveIs DEF States, Cores, SameLegs
<1> HIDE DEF t
<1> QED BY <1>1, <1>2, JobServes DEF Placing

(* A placement's own line, long after its Zs' step.                        *)
LEMMA PlaceRaises ==
  ASSUME DistinctAxes, LiveInv, Lifted, Served, PlaceAdmits(TRUE), NEW ks \in {<<"line">>, <<"line", "line">>},
         NEW line, NEW o
  PROVE  Begin(S, "place", ks, line, o) \in States /\ Raised(Begin(S, "place", ks, line, o))
<1> DEFINE t == Begin(S, "place", ks, line, o)
<1>1. S \in States /\ Gone(S) /\ S.c.box = <<>> /\ ~Busy(S) /\ S.c.ctx = "JOB" /\ S.c.why = "PLACE"
      /\ S.c.begun = TRUE
  <2>1. S.c.begun \in BOOLEAN
    BY LiveIs DEF States, Cores
  <2> QED BY <2>1, LiveIs, PlaceAdmitsGone DEF PlaceAdmits
<1>2. Rest(S) /\ RingIdle(S) /\ ~Missed(S)
  BY <1>1 DEF Gone, Busy, Missed
<1>3. ks \in Seq(StepKinds) /\ "place" \in SeqIds \ {"none", "home"}
  BY StepLists DEF SeqIds
<1>4. t \in States
  BY <1>1, <1>2, <1>3, BeginOutcome DEF Onward
<1>5. CASE S.c.aborted = TRUE
  <2>1. Held(S) /\ Claimed(S) = {}
    BY <1>1, GoneEven, EvenHolds, RestPolled, <1>2
  <2>2. Fails(t) \/ Sets(t, S, "place")
    BY <1>1, <1>3, <2>1, BeginIs
  <2>3. CASE Fails(t)
    BY <1>4, <2>3, TornRaised DEF Fails
  <2>4. CASE Sets(t, S, "place")
    <3>1. t.c.seq \in {"place", "none"} /\ t.c.aborted = TRUE
      BY <1>5, <2>4 DEF Sets, SameMachine
    <3> HIDE DEF t
    <3>2. Raised(t)
      BY <3>1, AwayRaised DEF JobSeqs
    <3> QED BY <1>4, <3>2 DEF t
  <2> QED BY <2>2, <2>3, <2>4
<1>6. CASE S.c.aborted # TRUE
  <2>1. S.c.aborted = FALSE
    BY <1>1, <1>6 DEF States, Cores
  <2>2. Placing(S) /\ Minds(S)
    BY <1>1, <2>1 DEF Placing, Minds, OnJob
  <2>3. AllUp(S)
    BY <1>2, <2>2, RestUp DEF Lifted, Raised, Cares
  <2> QED BY <1>1, <1>2, <1>4, <2>3, BeginRaises
<1> QED BY <1>5, <1>6

LEMMA PlaceGoRaised ==
  ASSUME DistinctAxes, LiveInv, Lifted, PlaceGo
  PROVE  Lifted'
<1>1. PICK line \in Lines, route \in {<<"line">>, <<"line", "line">>}, o \in Outs :
        Leads(AbortSettle(Begin(S, "place", route, line, o)), "serve") /\ Served /\ PlaceAdmits(TRUE)
  BY DEF PlaceGo, Serve, Core0Step, Leads
<1> QED BY <1>1, PlaceRaises, ServesRaised

LEMMA PlaceResetRaised ==
  ASSUME DistinctAxes, LiveInv, Lifted, PlaceReset
  PROVE  Lifted'
<1> DEFINE ks == <<"line">>
           s(line, o) == Begin(S, "place", ks, line, o)
           t(line, o) == IF line = "refused" \/ ring.abort THEN s(line, o)
                         ELSE [s(line, o) EXCEPT !.c.isSet = FALSE]
<1>1. PICK line \in Lines, o \in Outs :
        Leads(AbortSettle(t(line, o)), "serve") /\ Served /\ PlaceAdmits(TRUE)
  BY PlaceResetServes
<1> DEFINE x == s(line, o)
           y == [x EXCEPT !.c.isSet = FALSE]
<1>2. x \in States /\ Raised(x)
  BY <1>1, PlaceRaises
<1>3. t(line, o) \in {x, y}
  OBVIOUS
<1> HIDE DEF t, s, x
<1>4. /\ y \in States /\ y.n = x.n /\ y.r = x.r /\ SameLegs(y, x) /\ y.c.seq = x.c.seq
      /\ y.c.steps = x.c.steps /\ y.c.ringStep = x.c.ringStep /\ y.c.ctx = x.c.ctx
      /\ y.c.aborted = x.c.aborted /\ y.c.why = x.c.why /\ y.c.begun = x.c.begun
  BY <1>2 DEF States, Cores, SameLegs
<1> HIDE DEF y
<1>5. Raised(y)
  BY <1>2, <1>4, FieldsRaised DEF SameLegs, Placing, OnJob
<1> QED BY <1>1, <1>2, <1>3, <1>4, <1>5, ServesRaised

LEMMA CmdCancelRaised ==
  ASSUME LiveInv, Lifted, CmdCancel
  PROVE  Lifted'
<1> DEFINE t == [S EXCEPT !.c.ctx = "IDLE", !.c.why = "none", !.c.begun = FALSE, !.c.isSet = FALSE,
                          !.r.state = "idle"]
<1>1. Leads(AbortSettle(t), "serve")
  BY DEF CmdCancel, Serve, Core0Step, Leads
<1>2. t \in States
  BY ZenonT(60), LiveIs DEF States, Cores, Rings
<1>3. /\ t.n = S.n /\ SameLegs(t, S) /\ t.c.seq = S.c.seq /\ t.c.steps = S.c.steps
      /\ t.c.ringStep = S.c.ringStep /\ t.c.ctx = "IDLE" /\ t.r.state = "idle"
  BY LiveIs DEF States, Cores, Rings, SameLegs
<1> HIDE DEF t
<1>4. Holds(t, S) /\ RingIdle(t) /\ ~OnJob(t) /\ ~Placing(t)
  BY <1>3 DEF Holds, Up, RingIdle, OnJob, Placing
<1>5. Raised(t)
  BY <1>3, <1>4, HeldRaised DEF Lifted, SameLegs
<1> QED BY <1>1, <1>2, <1>5, ServesRaised

(* The ABORT byte: what runs is a job's no more, or was none's.            *)
LEMMA HostAbortRaised ==
  ASSUME LiveInv, Lifted, HostAbort
  PROVE  Lifted'
<1>1. PICK o \in Outs : Leads(JobAbort(S, o), "serve")
  BY DEF HostAbort, Core0Step, Leads
<1> DEFINE t == JobAbort(S, o)
<1>2. S \in States /\ t \in States
      /\ (S.c.ctx = "JOB" => t.c.seq = "none" /\ t.c.aborted = TRUE)
  BY LiveIs, JobAbortIs
<1>3. CASE S.c.ctx = "JOB"
  <2> HIDE DEF t
  <2>1. Raised(t)
    BY <1>2, <1>3, AwayRaised DEF JobSeqs
  <2> QED BY <1>1, <1>2, <2>1, LeadsRaised DEF t
<1>4. CASE S.c.ctx # "JOB"
  <2>1. t = [S EXCEPT !.r.abort = TRUE]
    BY <1>4 DEF JobAbort
  <2>2. t.c = S.c /\ t.n = S.n /\ t.r.state = S.r.state /\ t.r.moves = S.r.moves
    BY <1>2, <2>1 DEF States, Rings
  <2> HIDE DEF t
  <2>3. Raised(t)
    BY <2>2, FieldsRaised DEF Lifted, Placing, OnJob
  <2> QED BY <1>1, <1>2, <2>3, LeadsRaised DEF t
<1> QED BY <1>3, <1>4

LEMMA CmdLegRaised ==
  ASSUME LiveInv, NEW n \in Nodes, CmdLeg(n)
  PROVE  Lifted'
<1> DEFINE p(intent) == IF intent = "park" THEN Park ELSE Leg(intent, "between", TRUE)
           plan(intent) == [m \in {n} |-> p(intent)]
           homes(intent) == intent \in {"seek", "retract", "sweep"} \/ (intent = "park" /\ core.ctx = "HOMING")
           armed(intent, o) == Arm(S, plan(intent), o)
           t(intent, o) ==
             IF armed(intent, o).bad # None THEN armed(intent, o).s
             ELSE IF homes(intent) THEN [SequenceStart(armed(intent, o).s, "leg") EXCEPT !.c.ctx = "HOMING"]
             ELSE SequenceStart(armed(intent, o).s, "traverse")
<1>0. PICK intent \in {"seek", "retract", "sweep", "park", "span", "unlatch"} :
        Serve("leg", /\ LegAdmits(intent) /\ n \in core.enabled
                     /\ (intent = "park" => n \in core.origin) /\ (intent = "unlatch" => n \in core.latch),
              LAMBDA o : t(intent, o))
  BY DEF CmdLeg
<1>1. PICK o \in Outs : Leads(AbortSettle(t(intent, o)), "serve") /\ LegAdmits(intent) /\ Served
  <2> HIDE DEF t
  <2> QED BY <1>0 DEF Serve, Core0Step, Leads
<1>2. ~Busy(S) /\ S.c.ctx # "JOB"
  BY <1>1, LiveIs DEF LegAdmits, Idle, Latched, Rests
<1>3. S \in States /\ Gone(S) /\ S.c.seq = "none"
  BY <1>1, <1>2, NotBusyGone, LiveIs
<1>4. p(intent) \in Plans
  BY DEF Park, Leg, Plans, Intents, Places
<1> HIDE DEF p
<1>5. plan(intent) \in [{n} -> Plans] /\ {n} \in SUBSET Nodes
  BY <1>4
<1> HIDE DEF plan
<1> DEFINE a == armed(intent, o).s
           x == SequenceStart(a, "leg")
           y == [x EXCEPT !.c.ctx = "HOMING"]
           z == SequenceStart(a, "traverse")
<1>6. a \in States /\ SameMachine(a, S) /\ SameSequence(a, S)
  BY <1>3, <1>5, ArmIs
<1>7. t(intent, o) \in {a, y, z}
  OBVIOUS
<1> HIDE DEF t, armed, a
<1>8. /\ x \in States /\ SameMachine(x, a) /\ x.c.seq = "leg"
      /\ z \in States /\ SameMachine(z, a) /\ z.c.seq = "traverse"
  BY <1>6, SequenceStartIs DEF SeqIds
<1> HIDE DEF x, z
<1>9. y \in States /\ y.c.seq = "leg" /\ y.c.ctx = "HOMING"
  BY <1>8 DEF States, Cores
<1> HIDE DEF y
<1> DEFINE v == t(intent, o)
<1>10. v \in States /\ v.c.ctx # "JOB" /\ v.c.seq # "goto"
  BY <1>2, <1>3, <1>6, <1>7, <1>8, <1>9 DEF SameMachine, SameSequence
<1>11. Leads(AbortSettle(v), "serve")
  BY <1>1
<1> HIDE DEF v
<1> QED BY <1>10, <1>11, AwayServes

(* A leg's halt leaves a node that stands.                                 *)
LEMMA AbortLegStands ==
  ASSUME NEW d \in NodeStates, NEW o, NEW n
  PROVE  /\ AbortLeg(d, o, n).at = d.at
         /\ d.active = FALSE => AbortLeg(d, o, n).active = FALSE
BY DEF AbortLeg, LegHalt, NodeStates

LEMMA CmdLegAbortRaised ==
  ASSUME LiveInv, Lifted, NEW n \in Nodes, CmdLegAbort(n)
  PROVE  Lifted'
<1> DEFINE halted(o) == [S EXCEPT !.n[n] = IF Out(o, n) = "unheard" THEN @ ELSE AbortLeg(@, o, n)]
           freed(o)  == StepCheck(OriginInvalidate([halted(o) EXCEPT !.c.leg[n] = NoLeg,
                                                                     !.c.open = @ \ {n}], {n}))
           t(o) == IF Out(o, n) # "ok" THEN halted(o)
                   ELSE IF freed(o).c.seq \in {"none", "traverse"} THEN freed(o) ELSE HomingFail(freed(o), o)
<1>0. Serve("legabort", core.ctx # "JOB" /\ (core.live \/ ring.state = "idle") /\ n \in Claimed(S),
            LAMBDA o : t(o))
  BY DEF CmdLegAbort
<1>1. PICK o \in Outs : Leads(AbortSettle(t(o)), "serve") /\ S.c.ctx # "JOB"
  <2> HIDE DEF t
  <2> QED BY <1>0, LiveIs DEF Serve, Core0Step, Leads
<1>2. S \in States
  BY LiveIs
<1> DEFINE d == IF Out(o, n) = "unheard" THEN S.n[n] ELSE AbortLeg(S.n[n], o, n)
           m == [S.n EXCEPT ![n] = d]
           h == [S EXCEPT !.n = m]
           g == [S.c.leg EXCEPT ![n] = NoLeg]
           q == S.c.open \ {n}
           x == [h EXCEPT !.c.leg = g, !.c.open = q]
           y == OriginInvalidate(x, {n})
           f == StepCheck(y)
<1>3. S.n[n] \in NodeStates
  BY <1>2 DEF States
<1>4. d \in NodeStates /\ d.at = S.n[n].at /\ (S.n[n].active = FALSE => d.active = FALSE)
  BY <1>3, AbortLegType, AbortLegStands
<1>5. halted(o) = h
  BY <1>2 DEF States
<1> HIDE DEF d
<1>6. m \in [Nodes -> NodeStates] /\ m[n] = d /\ \A k \in Nodes \ {n} : m[k] = S.n[k]
  BY <1>2, <1>4 DEF States
<1> HIDE DEF m
<1>7. h \in States /\ h.c = S.c /\ h.r = S.r /\ h.n = m
  BY <1>2, <1>6 DEF States
<1>8. [h EXCEPT !.c.leg[n] = NoLeg, !.c.open = @ \ {n}] = x
  BY <1>2 DEF States, Cores
<1> HIDE DEF h, halted
<1>9. g \in [Nodes -> LegStates] /\ q \in SUBSET Nodes
  BY <1>2, NoLegType DEF States, Cores
<1> HIDE DEF g, q
<1>10. x \in States /\ x.c.seq = S.c.seq /\ x.c.ctx = S.c.ctx
  BY <1>7, <1>9 DEF States, Cores
<1> HIDE DEF x
<1>11. y \in States /\ SameMachine(y, x)
  BY <1>10, OriginInvalidateIs
<1> HIDE DEF y
<1>12. f \in States /\ SameMachine(f, y)
  BY <1>11, StepCheckIs
<1>13. freed(o) = f
  BY <1>5, <1>8 DEF y
<1>14. t(o) = IF Out(o, n) # "ok" THEN h ELSE IF f.c.seq \in {"none", "traverse"} THEN f ELSE HomingFail(f, o)
  BY <1>5, <1>13
<1> HIDE DEF f, freed, t
<1>15. CASE Out(o, n) # "ok"
  <2>1. Holds(h, S)
    BY <1>4, <1>6, <1>7, LegsAssumption DEF Holds, Up
  <2>2. Raised(h)
    BY <1>1, <1>7, <2>1, HeldRaised DEF Lifted, OnJob, Placing, RingIdle
  <2> QED BY <1>1, <1>7, <1>14, <1>15, <2>2, ServesRaised
<1>16. CASE Out(o, n) = "ok" /\ f.c.seq \in {"none", "traverse"}
  <2>1. f.c.ctx # "JOB" /\ f.c.seq # "goto"
    BY <1>1, <1>10, <1>11, <1>12, <1>16 DEF SameMachine
  <2> QED BY <1>1, <1>12, <1>14, <1>16, <2>1, AwayServes
<1>17. CASE Out(o, n) = "ok" /\ f.c.seq \notin {"none", "traverse"}
  <2> DEFINE v == HomingFail(f, o)
  <2>1. Torn(v)
    BY <1>12, HomingFailIs
  <2>2. t(o) = v
    BY <1>14, <1>17
  <2> HIDE DEF v
  <2>3. v \in States /\ Raised(v)
    BY <2>1, TornRaised DEF Torn
  <2> QED BY <1>1, <2>2, <2>3, ServesRaised
<1> QED BY <1>15, <1>16, <1>17

LEMMA CommandRaised ==
  ASSUME DistinctAxes, LiveInv, Lifted, Command, CmdStop => core.box = <<>>
  PROVE  Lifted'
BY CmdHomeRaised, CmdGotoXYRaised, CmdGotoLegsRaised, CmdGotoAxisRaised, CmdHomeEndRaised,
   CmdUnalarmRaised, CmdStopRaised, CmdUnstopRaised, JobHdrRaised, ToolHdrRaised, ToolChangeLeaveRaised,
   PlaceSetRaised, PlaceGoRaised, PlaceResetRaised, PlaceOkRaised, CmdCancelRaised, HostAbortRaised,
   CmdEnableRaised, CmdLegRaised, CmdLegAbortRaised, CmdSetOriginRaised
   DEF Command

(* A node's own steps: one that stands does not leave its place.           *)
LEMMA NodeStepRaised ==
  ASSUME LiveInv, Lifted, NodeStep
  PROVE  Lifted'
<1> DEFINE u == S'
<1>1. u.c = core /\ u.r = ring /\ u.n = node'
  BY DEF S, NodeStep, PulserStops, PulserEscapes, NodeLoop, NodeResets
<1>2. node \in [Nodes -> NodeStates]
  BY Typed DEF LiveInv
<1>3. ASSUME NEW k \in Nodes, node[k].active = FALSE
      PROVE  node'[k].at = node[k].at /\ node'[k].active = FALSE
  <2>1. PICK n \in Nodes : PulserStops(n) \/ PulserEscapes(n) \/ NodeLoop(n) \/ NodeResets(n)
    BY DEF NodeStep
  <2>2. node[n] \in NodeStates /\ node[k] \in NodeStates
    BY <1>2
  <2>3. CASE PulserStops(n)
    <3>1. node[n].active
      BY <2>3 DEF PulserStops
    <3>2. n # k
      BY <1>3, <3>1
    <3>3. \E e : node' = [node EXCEPT ![n] = e]
      BY <2>3, Zenon DEF PulserStops
    <3> QED BY <1>2, <1>3, <3>2, <3>3
  <2>4. CASE PulserEscapes(n)
    <3>1. n # k
      BY <1>3, <2>4 DEF PulserEscapes
    <3> QED BY <1>2, <1>3, <2>4, <3>1 DEF PulserEscapes
  <2>5. CASE NodeLoop(n)
    BY <1>2, <1>3, <2>2, <2>5 DEF NodeLoop, NodeStates
  <2>6. CASE NodeResets(n)
    BY <1>2, <1>3, <2>2, <2>6 DEF NodeResets, NodeStates
  <2> QED BY <2>1, <2>3, <2>4, <2>5, <2>6
<1>4. S.c = core /\ S.r = ring /\ S.n = node
  BY DEF S
<1> HIDE DEF u
<1>5. Holds(u, S)
  BY <1>1, <1>3, <1>4, LegsAssumption DEF Holds, Up
<1>6. Raised(u)
  BY <1>1, <1>4, <1>5, HeldRaised DEF Lifted, OnJob, Placing, RingIdle
<1> QED BY <1>6 DEF Lifted, u

(* Core 1: a line that minds the Zs takes none of them.                    *)
LEMMA Core1StepRaised ==
  ASSUME LiveInv, Lifted, Core1Step
  PROVE  Lifted'
<1> DEFINE u == S'
<1>1. u.c = core' /\ u.r = ring' /\ u.n = node' /\ S.c = core /\ S.r = ring /\ S.n = node
  BY DEF S
<1>2. core \in Cores /\ ring \in Rings /\ node \in [Nodes -> NodeStates]
  BY Typed DEF LiveInv
<1> HIDE DEF u
<1>3. CASE RingTakes
  <2>1. /\ u.c.leg = S.c.leg /\ u.c.box = S.c.box /\ u.c.seq = S.c.seq /\ u.c.steps = S.c.steps
        /\ u.c.ringStep = S.c.ringStep /\ u.c.ctx = S.c.ctx /\ u.c.aborted = S.c.aborted
        /\ u.c.why = S.c.why /\ u.c.begun = S.c.begun
    BY <1>1, <1>2, <1>3 DEF RingTakes, Cores
  <2>2. ~RingIdle(S) /\ u.r.moves = S.r.moves
    BY <1>1, <1>2, <1>3 DEF RingTakes, RingIdle, Rings
  <2>3. CASE ~Minds(S)
    BY <2>1, <2>3 DEF Lifted, Raised, Minds, OnJob, u
  <2>4. CASE Minds(S)
    <3>1. S.r.moves \cap Zs = {}
      BY <2>2, <2>4 DEF Lifted, Raised, Cares
    <3>2. \A n \in Zs : node'[n] = node[n]
      BY <1>1, <1>3, <3>1, LegsAssumption DEF RingTakes
    <3>3. Holds(u, S)
      BY <1>1, <3>2 DEF Holds, Up
    <3>4. Raised(u)
      BY <2>1, <2>2, <3>3, HeldRaised DEF Lifted, OnJob, Placing
    <3> QED BY <3>4 DEF Lifted, u
  <2> QED BY <2>3, <2>4
<1>4. CASE RingStops \/ RingTells \/ RingAbortAtRest
  <2>1. core' = core /\ node' = node
    BY <1>4 DEF RingStops, RingTells, RingAbortAtRest
  <2>2. ring'.state = "idle" \/ (ring'.state = ring.state /\ ring'.moves = ring.moves)
    BY <1>2, <1>4 DEF RingStops, RingTells, RingAbortAtRest, Rings
  <2>3. RingIdle(u) \/ (~RingIdle(S) /\ u.r.moves = S.r.moves)
    BY <1>1, <2>2 DEF RingIdle
  <2>4. Holds(u, S)
    BY <1>1, <2>1 DEF Holds, Up
  <2>5. Raised(u)
    BY <1>1, <2>1, <2>3, <2>4, HeldRaised DEF Lifted, OnJob, Placing
  <2> QED BY <2>5 DEF Lifted, u
<1>5. CASE Sweep
  <2>1. u.c.seq = S.c.seq /\ u.c.ctx = S.c.ctx /\ S.c.estop # "clear"
    BY <1>1, <1>2, <1>5 DEF Sweep, Cores
  <2>2. u.c.seq # "goto" /\ u.c.ctx # "JOB"
    BY <2>1, LiveIs DEF Fit
  <2>3. Raised(u)
    BY <2>2, AwayRaised
  <2> QED BY <2>3 DEF Lifted, u
<1> QED BY <1>3, <1>4, <1>5 DEF Core1Step

LEMMA InitRaised == Init => Lifted
<1> SUFFICES ASSUME Init PROVE Lifted
  OBVIOUS
<1>1. S.c.ctx # "JOB" /\ S.c.seq # "goto"
  BY DEF Init, S
<1> QED BY <1>1, AwayRaised DEF Lifted

LEMMA StepRaised ==
  ASSUME DistinctAxes, LiveInv, Lifted, [Next]_vars, StopIsLate => UNCHANGED vars
  PROVE  Lifted'
<1>1. CASE Core0Loop
  BY <1>1, ObserveRaised, ServeEndsRaised, SequenceTickRaised, ToolsTickRaised, RunnerTickRaised
     DEF Core0Loop
<1>2. CASE ObserveFault
  BY <1>2, ObserveFaultRaised
<1>3. CASE \E n \in Nodes : RunnerDeadline(n)
  BY <1>3, RunnerDeadlineRaised
<1>4. CASE Command /\ ~StopIsLate
  BY <1>4, CommandRaised DEF StopIsLate
<1>5. CASE NodeStep
  BY <1>5, NodeStepRaised
<1>6. CASE Core1Step
  BY <1>6, Core1StepRaised
<1>7. CASE UNCHANGED vars
  <2>1. S' = S
    BY <1>7 DEF vars, S
  <2> QED BY <2>1 DEF Lifted
<1> QED BY <1>1, <1>2, <1>3, <1>4, <1>5, <1>6, <1>7 DEF Next

LEMMA RaisedZsAreUp == LiveInv /\ Lifted => ZsAreUp
<1> SUFFICES ASSUME LiveInv, Lifted, ring.state = "moving", core.seq \in {"goto", "toolchange", "place"},
                    core.seq # "goto" => core.ctx = "JOB" /\ ~core.aborted, NEW n \in Zs
             PROVE  node[n].at = "park"
  BY DEF ZsAreUp
<1>1. S.c = core /\ S.r = ring /\ S.n = node /\ core.aborted \in BOOLEAN
  BY LiveIs DEF States, Cores
<1>2. Minds(S) /\ ~RingIdle(S)
  BY <1>1 DEF Minds, OnJob, RingIdle
<1>3. AllUp(S)
  BY <1>1, <1>2 DEF Lifted, Raised, Cares
<1> QED BY <1>1, <1>3 DEF AllUp, Up

(* With X and Y bound to nodes that are no head's Z: as long as no stop is *)
(* late, a line of a goto, a tool change or a placement that is still      *)
(* wanted travels with every Z at its park position, wherever a leg was    *)
(* lost, refused, aborted or interrupted before.                           *)
THEOREM ZsStayUp ==
  ASSUME DistinctAxes
  PROVE  Spec /\ [][~StopIsLate]_vars => []ZsAreUp
<1>1. (LiveInv /\ Lifted) /\ [Next]_vars /\ [~StopIsLate]_vars => (LiveInv /\ Lifted)'
  BY StepAlive, StepRaised
<1>2. Init => LiveInv /\ Lifted
  BY InitInv, InitAlive, InitRaised DEF LiveInv
<1>3. LiveInv /\ Lifted => ZsAreUp
  BY RaisedZsAreUp
<1> QED BY <1>1, <1>2, <1>3, PTL DEF Spec

(* In the instances of the runs that pass no stop is late, so there the    *)
(* travel is clear in every behaviour.                                     *)
THEOREM ZsAlwaysUp ==
  ASSUME DistinctAxes, NoLeftover
  PROVE  Spec => []ZsAreUp
<1>1. (LiveInv /\ Lifted) /\ [Next]_vars => (LiveInv /\ Lifted)'
  BY NoLateStop, StepAlive, StepRaised
<1>2. Init => LiveInv /\ Lifted
  BY InitInv, InitAlive, InitRaised DEF LiveInv
<1>3. LiveInv /\ Lifted => ZsAreUp
  BY RaisedZsAreUp
<1> QED BY <1>1, <1>2, <1>3, PTL DEF Spec
=============================================================================
