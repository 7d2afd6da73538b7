-------------------------- MODULE JobMotionProofs ---------------------------
(***************************************************************************)
(* Proofs about JobMotion: for jobs of every length, records of any number *)
(* of parts, every ring and any number of commands and packets in a pass.  *)
(***************************************************************************)
EXTENDS JobMotion, TLAPS

Parts   == 0 .. RecLen
Tags    == 0 .. (Records + 1)
Blocks  == [kind : Kinds, record : Tags, s : Parts]
Stops   == [cut : BOOLEAN, record : Tags, s : Parts]
Resumes == [known : BOOLEAN, record : Tags, s : Parts]
Layers  == [open : BOOLEAN, next : Tags, inContour : BOOLEAN, first : BOOLEAN, trim : Parts]
Execs   == [state : {"Running", "Holding", "Held"}, cur : BOOLEAN, along : Parts,
            moving : BOOLEAN, done : BOOLEAN]

Places == {"top", "dropped", "consumed", "look", "tick", "settle", "drained"}
Modes  == {"none", "abort", "pause", "late", "duty"}
Phases == {"START", "DWELL", "SWITCH", "SETTLE", "FAILED"}

JobTypes  == /\ ctx \in {"IDLE", "JOB"} /\ why \in Reasons /\ jobResume \in Resumes
             /\ ingest \in Layers
RingTypes == /\ ring \in Seq(Blocks) /\ Len(ring) <= RingSize
             /\ exec \in Execs
             /\ exec.cur => ring # <<>> /\ active
FactTypes == facts \in Seq(FactNames) /\ dutyStop \in Stops
FlagTypes ==
  /\ pauseRequested \in BOOLEAN /\ abortRequested \in BOOLEAN /\ jobAborted \in BOOLEAN
  /\ active \in BOOLEAN /\ dutyWait \in BOOLEAN /\ runsOn \in BOOLEAN
  /\ toolOn \in BOOLEAN /\ power \in BOOLEAN /\ unheard \in BOOLEAN
  /\ stuck \in BOOLEAN
PlaceTypes ==
  /\ estop \in {"clear", "requested", "swept"} /\ z \in {"up", "cut"}
  /\ c0 \in {"observe", "unwait", "serial", "last"} /\ place \in {"none", "begun", "started"}
  /\ c1 \in Places /\ mode \in Modes /\ evPhase \in Phases

InLoop == c1 \in {"look", "tick", "settle"}
LoopActive == InLoop => active

Types == JobTypes /\ RingTypes /\ FactTypes /\ FlagTypes /\ PlaceTypes /\ LoopActive

----------------------------------------------------------------------------
(* Sequences.                                                              *)

(* What is appended to a sequence, what is left of it, and what two make.   *)
LEMMA Appended ==
  ASSUME NEW S, NEW q \in Seq(S), NEW x \in S
  PROVE  /\ Append(q, x) \in Seq(S) /\ Len(Append(q, x)) = Len(q) + 1
         /\ \A i \in 1 .. Len(q) : Append(q, x)[i] = q[i]
         /\ Append(q, x)[Len(q) + 1] = x
  OBVIOUS

LEMMA Popped ==
  ASSUME NEW S, NEW q \in Seq(S), q # <<>>
  PROVE  /\ Head(q) \in S /\ Tail(q) \in Seq(S) /\ Len(q) \in Nat /\ Len(q) > 0
         /\ Len(Tail(q)) = Len(q) - 1 /\ Head(q) = q[1] /\ (Tail(q) = <<>> <=> Len(q) = 1)
         /\ \A i \in 1 .. Len(Tail(q)) : Tail(q)[i] = q[i + 1] /\ i + 1 \in 1 .. Len(q)
<1>1. /\ Head(q) \in S /\ Tail(q) \in Seq(S) /\ Len(q) \in Nat /\ Len(q) > 0
      /\ Len(Tail(q)) = Len(q) - 1 /\ Head(q) = q[1]
      /\ \A i \in 1 .. Len(Tail(q)) : Tail(q)[i] = q[i + 1] /\ i + 1 \in 1 .. Len(q)
  OBVIOUS
<1>2. \A t \in Seq(S) : t = <<>> <=> Len(t) = 0
  OBVIOUS
<1>3. Tail(q) = <<>> <=> Len(Tail(q)) = 0
  BY <1>1, <1>2
<1> QED BY <1>1, <1>3

LEMMA Joined ==
  ASSUME NEW S, NEW p \in Seq(S), NEW q \in Seq(S)
  PROVE  /\ p \o q \in Seq(S) /\ Len(p \o q) = Len(p) + Len(q)
         /\ \A i \in 1 .. Len(p \o q) : (p \o q)[i] = IF i <= Len(p) THEN p[i] ELSE q[i - Len(p)]
  OBVIOUS

LEMMA Joined3 ==
  ASSUME NEW S, NEW p \in Seq(S), NEW m \in Seq(S), NEW q \in Seq(S), Len(m) = 1
  PROVE  /\ (p \o m) \o q \in Seq(S) /\ Len((p \o m) \o q) = Len(p) + 1 + Len(q)
         /\ ((p \o m) \o q)[Len(p) + 1] = m[1]
         /\ \A i \in 1 .. Len(p) : ((p \o m) \o q)[i] = p[i]
         /\ \A i \in 1 .. Len(q) : ((p \o m) \o q)[Len(p) + 1 + i] = q[i]
<1> DEFINE pm == p \o m
<1>1. /\ pm \in Seq(S) /\ Len(pm) = Len(p) + 1
      /\ \A i \in 1 .. Len(pm) : pm[i] = IF i <= Len(p) THEN p[i] ELSE m[i - Len(p)]
  <2>1. /\ p \o m \in Seq(S) /\ Len(p \o m) = Len(p) + Len(m)
        /\ \A i \in 1 .. Len(p \o m) : (p \o m)[i] = IF i <= Len(p) THEN p[i] ELSE m[i - Len(p)]
    BY Joined
  <2> QED BY <2>1
<1>2. Len(p) \in Nat /\ Len(q) \in Nat
  OBVIOUS
<1>3. pm[Len(p) + 1] = m[1] /\ \A i \in 1 .. Len(p) : pm[i] = p[i]
  BY <1>1, <1>2
<1> HIDE DEF pm
<1>4. /\ pm \o q \in Seq(S) /\ Len(pm \o q) = Len(pm) + Len(q)
      /\ \A i \in 1 .. Len(pm \o q) : (pm \o q)[i] = IF i <= Len(pm) THEN pm[i] ELSE q[i - Len(pm)]
  BY <1>1, Joined
<1>5. /\ (pm \o q)[Len(p) + 1] = m[1] /\ \A i \in 1 .. Len(p) : (pm \o q)[i] = p[i]
      /\ \A i \in 1 .. Len(q) : (pm \o q)[Len(p) + 1 + i] = q[i]
  BY <1>1, <1>2, <1>3, <1>4
<1> QED BY <1>1, <1>4, <1>5 DEF pm

LEMMA Listed ==
  ASSUME NEW S, NEW n \in Nat, NEW q \in [1 .. n -> S]
  PROVE  q \in Seq(S) /\ Len(q) = n
<1>1. q \in Seq(S)
  OBVIOUS
<1>2. Len(q) \in Nat /\ DOMAIN q = 1 .. Len(q) /\ DOMAIN q = 1 .. n
  BY <1>1
<1>3. Len(q) = n
  BY <1>2
<1> QED BY <1>1, <1>3

LEMMA Constants ==
  /\ Records \in Nat /\ RecLen \in Nat /\ Margin \in Nat /\ RingSize \in Nat /\ RingSize >= 4
  /\ 0 \in Parts /\ RecLen \in Parts /\ 0 \in Tags
  BY JobAssumption DEF Parts, Tags

LEMMA BlockIs ==
  ASSUME NEW k \in Kinds, NEW r \in Tags, NEW s \in Parts
  PROVE  /\ Block(k, r, s) \in Blocks
         /\ Block(k, r, s).kind = k /\ Block(k, r, s).record = r /\ Block(k, r, s).s = s
  BY DEF Block, Blocks

(* The oldest block, and where the run stands in it.                        *)
LEMMA HeadIs ==
  ASSUME RingTypes, ring # <<>>
  PROVE  /\ Head(ring) = ring[1] /\ ring[1] \in Blocks /\ ring[1].kind \in Kinds
         /\ ring[1].record \in Tags /\ ring[1].s \in Parts
         /\ Len(ring) \in Nat /\ Len(ring) > 0
<1>1. ring \in Seq(Blocks)
  BY DEF RingTypes
<1>2. Head(ring) = ring[1] /\ ring[1] \in Blocks /\ Len(ring) \in Nat /\ Len(ring) > 0
  BY <1>1, Popped
<1> QED BY <1>2 DEF Blocks

LEMMA StopPointIs ==
  ASSUME RingTypes
  PROVE  StopPoint \in Stops
<1>1. CASE ring = <<>>
  BY <1>1, Constants DEF StopPoint, NoStop, Stops
<1>2. CASE ring # <<>>
  <2>1. exec.along \in Parts
    BY DEF RingTypes, Execs
  <2> QED BY <1>2, <2>1, HeadIs DEF StopPoint, Stops
<1> QED BY <1>1, <1>2

(* A lift: Z up if it fits, the tool off.                                   *)
LEMMA LiftIs ==
  ASSUME FlagTypes, PlaceTypes, NEW fits \in BOOLEAN
  PROVE  /\ LiftBlocks(fits) \in Seq(Blocks) /\ Len(LiftBlocks(fits)) <= 2
         /\ \A i \in 1 .. Len(LiftBlocks(fits)) : LiftBlocks(fits)[i].kind \in {"up", "off"}
         /\ z = "cut" /\ fits
              => \E i \in 1 .. Len(LiftBlocks(fits)) : LiftBlocks(fits)[i].kind = "up"
         /\ toolOn => \E i \in 1 .. Len(LiftBlocks(fits)) : LiftBlocks(fits)[i].kind = "off"
         /\ LiftBlocks(fits) = <<>> => (z = "up" \/ (z = "cut" /\ ~fits)) /\ ~toolOn
         /\ \A i \in 1 .. Len(LiftBlocks(fits)) :
              LiftBlocks(fits)[i].record = 0 /\ LiftBlocks(fits)[i].s = 0
<1> DEFINE u == Block("up", 0, 0)
           o == Block("off", 0, 0)
           l == LiftBlocks(fits)
           Good == /\ l \in Seq(Blocks) /\ Len(l) <= 2
                   /\ \A i \in 1 .. Len(l) : l[i].kind \in {"up", "off"}
                   /\ z = "cut" /\ fits => \E i \in 1 .. Len(l) : l[i].kind = "up"
                   /\ toolOn => \E i \in 1 .. Len(l) : l[i].kind = "off"
                   /\ l = <<>> => (z = "up" \/ (z = "cut" /\ ~fits)) /\ ~toolOn
                   /\ \A i \in 1 .. Len(l) : l[i].record = 0 /\ l[i].s = 0
<1>1. /\ u \in Blocks /\ o \in Blocks /\ u.kind = "up" /\ o.kind = "off"
      /\ u.record = 0 /\ u.s = 0 /\ o.record = 0 /\ o.s = 0
  BY BlockIs, Constants DEF Kinds
<1>2. l = (IF z = "cut" /\ fits THEN <<u>> ELSE <<>>) \o (IF toolOn THEN <<o>> ELSE <<>>)
  BY DEF LiftBlocks
<1> HIDE DEF u, o, l
<1> SUFFICES Good
  BY DEF l
<1>3. CASE z = "cut" /\ fits /\ toolOn
  <2> DEFINE p == <<u>>
             q == <<o>>
  <2>1. /\ p \in Seq(Blocks) /\ Len(p) = 1 /\ p[1] = u
        /\ q \in Seq(Blocks) /\ Len(q) = 1 /\ q[1] = o
    BY <1>1
  <2>2. l = p \o q
    BY <1>2, <1>3
  <2> HIDE DEF p, q
  <2>3. l \in Seq(Blocks) /\ Len(l) = 2 /\ l[1] = u /\ l[2] = o
    BY <2>1, <2>2, Joined
  <2> QED BY <1>1, <1>3, <2>3
<1>4. CASE z = "cut" /\ fits /\ ~toolOn
  <2>1. l = <<u>>
    BY <1>1, <1>2, <1>4
  <2>2. Len(<<u>>) = 1 /\ <<u>>[1] = u /\ <<u>> \in Seq(Blocks)
    BY <1>1
  <2> QED BY <1>1, <1>4, <2>1, <2>2
<1>5. CASE ~(z = "cut" /\ fits) /\ toolOn
  <2>1. l = <<>> \o <<o>>
    BY <1>2, <1>5
  <2>3. l = <<o>>
    BY <1>1, <2>1
  <2>2. Len(<<o>>) = 1 /\ <<o>>[1] = o /\ <<o>> \in Seq(Blocks)
    BY <1>1
  <2> QED BY <1>1, <1>5, <2>2, <2>3
<1>6. CASE ~(z = "cut" /\ fits) /\ ~toolOn
  <2>1. l = <<>>
    BY <1>1, <1>2, <1>6
  <2> QED BY <1>6, <2>1 DEF PlaceTypes
<1> QED BY <1>3, <1>4, <1>5, <1>6 DEF FlagTypes

(* Blocks of the same tag.                                                  *)
Tagged(kinds, r, s) == [i \in DOMAIN kinds |-> Block(kinds[i], r, s)]

LEMMA TaggedIs ==
  ASSUME NEW kinds \in Seq(Kinds), NEW r \in Tags, NEW s \in Parts
  PROVE  /\ Tagged(kinds, r, s) \in Seq(Blocks) /\ Len(Tagged(kinds, r, s)) = Len(kinds)
         /\ \A i \in 1 .. Len(kinds) :
              /\ Tagged(kinds, r, s)[i].kind = kinds[i]
              /\ Tagged(kinds, r, s)[i].record = r /\ Tagged(kinds, r, s)[i].s = s
<1> DEFINE t == Tagged(kinds, r, s)
<1>1. Len(kinds) \in Nat /\ DOMAIN kinds = 1 .. Len(kinds)
      /\ \A i \in 1 .. Len(kinds) : kinds[i] \in Kinds
  OBVIOUS
<1>2. t = [i \in 1 .. Len(kinds) |-> Block(kinds[i], r, s)]
  BY <1>1 DEF Tagged
<1>3. \A i \in 1 .. Len(kinds) :
         Block(kinds[i], r, s) \in Blocks /\ Block(kinds[i], r, s).kind = kinds[i]
         /\ Block(kinds[i], r, s).record = r /\ Block(kinds[i], r, s).s = s
  BY <1>1, BlockIs
<1>4. t \in [1 .. Len(kinds) -> Blocks]
  BY <1>2, <1>3
<1> HIDE DEF t
<1>5. t \in Seq(Blocks) /\ Len(t) = Len(kinds)
  BY <1>1, <1>4, Listed
<1> QED BY <1>2, <1>3, <1>5 DEF t

(* What comes before a record's cut, and after it.                          *)
Breaks == {"none", "corner", "duty"}
Lead(start, brk) ==
  IF start THEN <<"up", "on", "down">>
  ELSE IF brk = "corner" THEN <<"up", "down">>
  ELSE IF brk = "duty" THEN <<"up", "off", "on", "down">> ELSE <<>>
Trail(end) == IF end THEN <<"up", "off">> ELSE <<>>

LeadShape(p, start) ==
  /\ p \in Seq(Kinds) /\ Len(p) \in 0 .. 4 /\ (p = <<>> <=> Len(p) = 0)
  /\ \A i \in 1 .. Len(p) : p[i] # "cut"
  /\ Len(p) > 0 => p[Len(p)] = "down" /\ p[1] = "up" /\ Len(p) > 1
  /\ \A i \in 1 .. Len(p) - 1 :
        p[i + 1] = "down" => p[i] = "on" \/ (p[i] = "up" /\ i = 1 /\ ~start)
  /\ start => Len(p) > 0 /\ p[2] = "on"

LEMMA LeadIs ==
  ASSUME NEW start \in BOOLEAN, NEW brk \in Breaks, start => brk = "none"
  PROVE  LeadShape(Lead(start, brk), start)
<1>1. CASE start
  <2>1. LeadShape(<<"up", "on", "down">>, start)
    BY <1>1 DEF LeadShape, Kinds
  <2> QED BY <1>1, <2>1 DEF Lead
<1>2. CASE ~start /\ brk = "corner"
  <2>1. LeadShape(<<"up", "down">>, start)
    BY <1>2 DEF LeadShape, Kinds
  <2> QED BY <1>2, <2>1 DEF Lead
<1>3. CASE ~start /\ brk = "duty"
  <2>1. LeadShape(<<"up", "off", "on", "down">>, start)
    BY <1>3 DEF LeadShape, Kinds
  <2> QED BY <1>3, <2>1 DEF Lead
<1>4. CASE ~start /\ brk = "none"
  <2>1. LeadShape(<<>>, start)
    BY <1>4 DEF LeadShape, Kinds
  <2> QED BY <1>4, <2>1 DEF Lead
<1> QED BY <1>1, <1>2, <1>3, <1>4 DEF Breaks

LEMMA TrailIs ==
  ASSUME NEW end \in BOOLEAN
  PROVE  /\ Trail(end) \in Seq(Kinds) /\ Len(Trail(end)) \in Nat
         /\ \A i \in 1 .. Len(Trail(end)) : Trail(end)[i] \in {"up", "off"}
         /\ ~end => Len(Trail(end)) = 0
<1>1. CASE end
  <2>1. <<"up", "off">> \in Seq(Kinds) /\ Len(<<"up", "off">>) = 2
        /\ \A i \in 1 .. 2 : <<"up", "off">>[i] \in {"up", "off"}
    BY DEF Kinds
  <2> QED BY <1>1, <2>1 DEF Trail
<1>2. CASE ~end
  BY <1>2 DEF Trail
<1> QED BY <1>1, <1>2

(* A record's blocks, with the n-th the cut.                                *)
NextTrim == IF ingest.first THEN ingest.trim ELSE 0

RecordShape(b, l, end) ==
  LET n == Len(l) + 1
  IN /\ b \in Seq(Blocks) /\ Len(b) \in Nat /\ Len(b) > 0 /\ n \in 1 .. Len(b)
     /\ b[n].kind = "cut" /\ b[n].record = ingest.next /\ b[n].s = NextTrim
     /\ \A i \in 1 .. n - 1 : b[i].kind = l[i] /\ b[i].record = ingest.next /\ b[i].s = 0
     /\ \A i \in n + 1 .. Len(b) :
           b[i].kind \in {"up", "off"} /\ b[i].record = ingest.next + 1 /\ b[i].s = 0
     /\ ~end => Len(b) = n

LEMMA RecordIs ==
  ASSUME JobTypes, ingest.next <= Records,
         NEW start \in BOOLEAN, NEW brk \in Breaks, NEW end \in BOOLEAN, start => brk = "none"
  PROVE  RecordShape(RecordBlocks(start, brk, end), Lead(start, brk), end)
<1> DEFINE l == Lead(start, brk)
           r == ingest.next
           p == Tagged(l, r, 0)
           cut == Block("cut", r, NextTrim)
           q == Tagged(Trail(end), r + 1, 0)
           m == <<cut>>
           n == Len(l) + 1
           b == RecordBlocks(start, brk, end)
<1>1. r \in Tags /\ r + 1 \in Tags /\ NextTrim \in Parts
  BY Constants DEF JobTypes, Layers, Tags, NextTrim
<1>2. l \in Seq(Kinds) /\ Len(l) \in Nat /\ \A i \in 1 .. Len(l) : l[i] # "cut"
  BY LeadIs DEF LeadShape
<1>3. Trail(end) \in Seq(Kinds) /\ Len(Trail(end)) \in Nat
      /\ (\A i \in 1 .. Len(Trail(end)) : Trail(end)[i] \in {"up", "off"})
      /\ (~end => Len(Trail(end)) = 0)
  BY TrailIs
<1>4. b = (p \o m) \o q
  BY DEF RecordBlocks, Tagged, Lead, Trail, NextTrim
<1> HIDE DEF l, b, r
<1>5. p \in Seq(Blocks) /\ Len(p) = Len(l)
      /\ \A i \in 1 .. Len(l) : p[i].kind = l[i] /\ p[i].record = r /\ p[i].s = 0
  BY <1>1, <1>2, Constants, TaggedIs
<1>6. q \in Seq(Blocks) /\ Len(q) = Len(Trail(end))
      /\ \A i \in 1 .. Len(Trail(end)) :
            q[i].kind = Trail(end)[i] /\ q[i].record = r + 1 /\ q[i].s = 0
  BY <1>1, <1>3, Constants, TaggedIs
<1>7. /\ cut \in Blocks /\ cut.kind = "cut" /\ cut.record = r /\ cut.s = NextTrim
  BY <1>1, BlockIs DEF Kinds
<1> HIDE DEF cut, p, q
<1>8. m \in Seq(Blocks) /\ Len(m) = 1 /\ m[1] = cut
  BY <1>7
<1> HIDE DEF m
<1>9. /\ b \in Seq(Blocks) /\ Len(b) = Len(p) + 1 + Len(q) /\ b[Len(p) + 1] = m[1]
      /\ \A i \in 1 .. Len(p) : b[i] = p[i]
      /\ \A i \in 1 .. Len(q) : b[Len(p) + 1 + i] = q[i]
  <2>1. p \in Seq(Blocks) /\ m \in Seq(Blocks) /\ q \in Seq(Blocks) /\ Len(m) = 1
    BY <1>5, <1>6, <1>8
  <2>2. /\ (p \o m) \o q \in Seq(Blocks) /\ Len((p \o m) \o q) = Len(p) + 1 + Len(q)
        /\ ((p \o m) \o q)[Len(p) + 1] = m[1]
        /\ \A i \in 1 .. Len(p) : ((p \o m) \o q)[i] = p[i]
        /\ \A i \in 1 .. Len(q) : ((p \o m) \o q)[Len(p) + 1 + i] = q[i]
    BY <2>1, Joined3, SMTT(30)
  <2> QED BY <1>4, <2>2
<1>10. /\ b \in Seq(Blocks) /\ Len(b) = n + Len(Trail(end)) /\ Len(b) \in Nat
       /\ \A i \in n + 1 .. Len(b) : b[i] = q[i - n] /\ i - n \in 1 .. Len(Trail(end))
  <2>1. b \in Seq(Blocks) /\ Len(b) = n + Len(Trail(end)) /\ Len(b) \in Nat
    BY <1>2, <1>3, <1>5, <1>6, <1>9
  <2>2. ASSUME NEW i \in n + 1 .. Len(b)
        PROVE  b[i] = q[i - n] /\ i - n \in 1 .. Len(Trail(end))
    <3>1. i - n \in 1 .. Len(Trail(end)) /\ Len(p) + 1 + (i - n) = i
      BY <1>2, <1>3, <1>5, <2>1
    <3> QED BY <1>6, <1>9, <3>1
  <2> QED BY <2>1, <2>2
<1>11. n \in 1 .. Len(b) /\ Len(b) > 0 /\ b[n] = cut /\ \A i \in 1 .. n - 1 : b[i] = p[i]
  BY <1>2, <1>3, <1>5, <1>8, <1>9, <1>10
<1>12. \A i \in n + 1 .. Len(b) : b[i].kind \in {"up", "off"} /\ b[i].record = r + 1 /\ b[i].s = 0
  BY <1>3, <1>6, <1>10
<1>13. \A i \in 1 .. n - 1 : b[i].kind = l[i] /\ b[i].record = r /\ b[i].s = 0
  BY <1>2, <1>5, <1>11
<1>14. RecordShape(b, l, end)
  BY <1>3, <1>7, <1>10, <1>11, <1>12, <1>13 DEF RecordShape, r
<1> QED BY <1>14 DEF l, b

(* The duty lift of a stop d.                                               *)
DutyKinds == <<"up", "off", "on", "down">>

LEMMA DutyIs ==
  ASSUME NEW d \in Stops
  PROVE  /\ DutyBlocks(d) \in Seq(Blocks) /\ Len(DutyBlocks(d)) = 4
         /\ \A i \in 1 .. 4 : /\ DutyBlocks(d)[i].kind = DutyKinds[i]
                              /\ DutyBlocks(d)[i].record = d.record /\ DutyBlocks(d)[i].s = d.s
<1>1. DutyKinds \in Seq(Kinds) /\ Len(DutyKinds) = 4 /\ DOMAIN DutyKinds = 1 .. 4
  BY DEF DutyKinds, Kinds
<1>2. d.record \in Tags /\ d.s \in Parts
  BY DEF Stops
<1>3. DutyBlocks(d) = Tagged(DutyKinds, d.record, d.s)
  BY <1>1 DEF DutyBlocks, Tagged, DutyKinds
<1> QED BY <1>1, <1>2, <1>3, TaggedIs

----------------------------------------------------------------------------
(* Types.                                                                  *)

LEMMA TypesInit == Init => Types
<1>1. NoResume \in Resumes /\ NoLayer \in Layers /\ NoStop \in Stops /\ IdleExec \in Execs
  BY Constants DEF NoResume, NoLayer, NoStop, IdleExec, Resumes, Layers, Stops, Execs, Parts, Tags
<1>2. <<>> \in Seq(Blocks) /\ <<>> \in Seq(FactNames) /\ Len(<<>>) <= RingSize
  BY Constants
<1>3. ~IdleExec.cur
  BY DEF IdleExec
<1> SUFFICES ASSUME Init PROVE Types
  OBVIOUS
<1>4. JobTypes /\ FactTypes
  BY <1>1, <1>2 DEF Init, JobTypes, FactTypes, Reasons
<1>5. RingTypes
  BY <1>1, <1>2, <1>3 DEF Init, RingTypes
<1>6. FlagTypes /\ PlaceTypes /\ LoopActive
  BY DEF Init, FlagTypes, PlaceTypes, LoopActive, InLoop, Places, Modes, Phases
<1> QED BY <1>4, <1>5, <1>6 DEF Types

(* The ring is dropped, and what a hold reports.                            *)
LEMMA DropIs ==
  ASSUME DropRing
  PROVE  ring' \in Seq(Blocks) /\ Len(ring') <= RingSize /\ exec' \in Execs /\ ~exec'.cur
<1>1. IdleExec \in Execs /\ ~IdleExec.cur
  BY Constants DEF IdleExec, Execs
<1> QED BY <1>1, Constants DEF DropRing

LEMMA ReportIs ==
  ASSUME facts \in Seq(FactNames), NEW f \in FactNames, Report(f)
  PROVE  /\ facts' \in Seq(FactNames) /\ Len(facts) \in Nat /\ Len(facts') = Len(facts) + 1
         /\ facts'[Len(facts')] = f /\ \A i \in 1 .. Len(facts) : facts'[i] = facts[i]
  BY Appended DEF Report

LEMMA LandHeldIs ==
  ASSUME Types, LandHeld
  PROVE  /\ jobResume' \in Resumes /\ facts' \in Seq(FactNames)
         /\ ring' = <<>> /\ exec' = IdleExec /\ ~active' /\ why' = "HOLDING"
<1>1. StopPoint \in Stops
  BY StopPointIs DEF Types
<1>2. "HELD" \in FactNames /\ facts \in Seq(FactNames) /\ Report("HELD")
  BY DEF FactNames, Types, FactTypes, LandHeld
<1>3. jobResume' \in Resumes
  BY <1>1 DEF LandHeld, Resumes, Stops
<1> QED BY <1>2, <1>3, ReportIs DEF LandHeld, DropRing

(* What is left of the claimed block goes back.                             *)
LEMMA ReleaseIs ==
  ASSUME RingTypes, Release
  PROVE  /\ ring' \in Seq(Blocks) /\ Len(ring') = Len(ring) /\ exec' = IdleExec
         /\ \A i \in 1 .. Len(ring) :
              ring'[i].kind = ring[i].kind /\ ring'[i].record = ring[i].record
         /\ \A i \in 2 .. Len(ring) : ring'[i] = ring[i]
         /\ ring # <<>> => ring'[1].s = IF Cutting THEN exec.along ELSE ring[1].s
         /\ ring' = <<>> <=> ring = <<>>
<1>1. exec' = IdleExec /\ ring \in Seq(Blocks) /\ exec.along \in Parts
  BY DEF Release, RingTypes, Execs
<1>2. CASE ~Cutting
  BY <1>1, <1>2 DEF Release
<1>3. CASE Cutting
  <2>1. ring # <<>>
    BY <1>3 DEF Cutting, RingTypes
  <2>2. ring' = [ring EXCEPT ![1] = [ring[1] EXCEPT !.s = exec.along]]
    BY <1>3 DEF Release
  <2>3. ring[1] \in Blocks /\ Len(ring) \in Nat /\ Len(ring) > 0
    BY <2>1, HeadIs
  <2> DEFINE b == [ring[1] EXCEPT !.s = exec.along]
  <2>4. b \in Blocks /\ b.kind = ring[1].kind /\ b.record = ring[1].record /\ b.s = exec.along
    BY <1>1, <2>3 DEF Blocks
  <2> HIDE DEF b
  <2>5. ring' = [ring EXCEPT ![1] = b]
    BY <2>2 DEF b
  <2>6. ring' \in Seq(Blocks) /\ Len(ring') = Len(ring) /\ ring'[1] = b
        /\ \A i \in 2 .. Len(ring) : ring'[i] = ring[i]
    BY <1>1, <2>3, <2>4, <2>5
  <2>7. ring' # <<>>
    BY <2>3, <2>6
  <2> QED BY <1>1, <1>3, <2>1, <2>3, <2>4, <2>6, <2>7
<1> QED BY <1>2, <1>3

LEMMA FlagsKept == FlagTypes /\ [Next]_vars => FlagTypes'
<1> SUFFICES ASSUME FlagTypes, [Next]_vars PROVE FlagTypes'
  OBVIOUS
<1> USE DEF ctxVars, flagVars, ringVars, dutyVars, toolVars, core1Vars, core0Vars, settleVars,
            core1Untouched,
            FlagTypes
<1>1. CASE EnterLift
  BY <1>1 DEF EnterLift, MayEnter, Enters
<1>2. CASE EnterHeld
  BY <1>2 DEF EnterHeld, MayEnter, LandHeld
<1>3. CASE EnterRun
  BY <1>3 DEF EnterRun, MayEnter, Enters
<1>4. CASE AbortDrops
  BY <1>4 DEF AbortDrops
<1>5. CASE AbortConsumed
  BY <1>5 DEF AbortConsumed
<1>6. CASE EstopSweep
  BY <1>6 DEF EstopSweep
<1>7. CASE EstopReturns
  BY <1>7 DEF EstopReturns, Returns
<1>8. CASE Look
  BY <1>8 DEF Look
<1>9. CASE Tick
  BY <1>9 DEF Tick
<1>10. CASE NotSettled
  BY <1>10 DEF NotSettled
<1>11. CASE Drained
  BY <1>11 DEF Drained, AtSettle
<1>12. CASE RunsDry
  BY <1>12 DEF RunsDry, AtSettle, Returns
<1>13. CASE LateRests
  BY <1>13 DEF LateRests, AtSettle, Returns
<1>14. CASE DutyRests
  BY <1>14 DEF DutyRests, AtSettle
<1>15. CASE PauseRests
  BY <1>15 DEF PauseRests, AtSettle, Returns, LandHeld
<1>16. CASE EventOff
  BY <1>16 DEF EventOff, EventWaits, AtSettle
<1>17. CASE EventDwell
  BY <1>17 DEF EventDwell, EventWaits, AtSettle
<1>18. CASE EventSwitch
  BY <1>18 DEF EventSwitch, EventWaits, AtSettle
<1>19. CASE EventSettled
  BY <1>19 DEF EventSettled, EventWaits, AtSettle
<1>20. CASE DrainedReports
  BY <1>20 DEF DrainedReports, Returns
<1>21. CASE Publish
  BY <1>21 DEF Publish, AbortSettle, SettleDue
<1>22. CASE PassEnds
  BY <1>22 DEF PassEnds
<1>23. CASE ObserveHeld
  BY <1>23 DEF ObserveHeld, Observes, LandPaused, QueueLift, AtRest
<1>24. CASE ObserveDrained
  BY <1>24 DEF ObserveDrained, Observes, LandPaused
<1>25. CASE ObserveToolFailed
  BY <1>25 DEF ObserveToolFailed, Observes, RaiseFault
<1>26. CASE ObserveDutyHeld
  BY <1>26 DEF ObserveDutyHeld, Observes, RaiseFault
<1>27. CASE DutyUnwaits
  BY <1>27 DEF DutyUnwaits
<1>28. CASE ObserveEnds
  BY <1>28 DEF ObserveEnds
<1>29. CASE OpenJob
  BY <1>29 DEF OpenJob, Turn
<1>30. CASE PreflightPasses
  BY <1>30 DEF PreflightPasses, Turn
<1>31. CASE PreflightFails
  BY <1>31 DEF PreflightFails, Serves, Turn
<1>32. CASE PlaceOk
  BY <1>32 DEF PlaceOk, Turn
<1>33. CASE OpenLayer
  BY <1>33 DEF OpenLayer, Serves, Turn
<1>34. CASE Resume
  BY <1>34 DEF Resume, Serves, Turn
<1>35. CASE QueueRecord
  BY <1>35 DEF QueueRecord, Serves, Turn
<1>36. CASE Pause
  BY <1>36 DEF Pause, Serves, Turn
<1>37. CASE Abort
  BY <1>37 DEF Abort, Serves, Turn
<1>38. CASE Cancel
  BY <1>38 DEF Cancel, Serves, Turn
<1>39. CASE Stop
  BY <1>39 DEF Stop, Serves, Turn
<1>40. CASE Unstop
  BY <1>40 DEF Unstop, Serves, Turn
<1>41. CASE Unalarm
  BY <1>41 DEF Unalarm, Serves, Turn
<1>42. CASE Reset
  BY <1>42 DEF Reset, Serves, Turn
<1>43. CASE UNCHANGED vars
  BY <1>43 DEF vars
<1> QED BY <1>1, <1>2, <1>3, <1>4, <1>5, <1>6, <1>7, <1>8, <1>9, <1>10, <1>11, <1>12, <1>13,
          <1>14, <1>15, <1>16, <1>17, <1>18, <1>19, <1>20, <1>21, <1>22, <1>23, <1>24, <1>25,
          <1>26, <1>27, <1>28, <1>29, <1>30, <1>31, <1>32, <1>33, <1>34, <1>35, <1>36, <1>37,
          <1>38, <1>39, <1>40, <1>41, <1>42, <1>43
        DEF Next, Host, Pass, Core1, Observe, Settled


LEMMA PlacesKept == PlaceTypes /\ [Next]_vars => PlaceTypes'
<1> SUFFICES ASSUME PlaceTypes, [Next]_vars PROVE PlaceTypes'
  OBVIOUS
<1> USE DEF ctxVars, flagVars, ringVars, dutyVars, toolVars, core1Vars, core0Vars, settleVars,
            core1Untouched,
            PlaceTypes, Places, Modes, Phases
<1>1. CASE EnterLift
  BY <1>1 DEF EnterLift, MayEnter, Enters
<1>2. CASE EnterHeld
  BY <1>2 DEF EnterHeld, MayEnter, LandHeld
<1>3. CASE EnterRun
  BY <1>3 DEF EnterRun, MayEnter, Enters
<1>4. CASE AbortDrops
  BY <1>4 DEF AbortDrops
<1>5. CASE AbortConsumed
  BY <1>5 DEF AbortConsumed
<1>6. CASE EstopSweep
  BY <1>6 DEF EstopSweep
<1>7. CASE EstopReturns
  BY <1>7 DEF EstopReturns, Returns
<1>8. CASE Look
  BY <1>8 DEF Look
<1>9. CASE Tick
  <2>1. z' = z \/ z' \in {"up", "cut"}
    BY <1>9 DEF Tick, Claim, Finish, Advance, HoldEnds, AbortFindsHeld, TickRests
  <2> QED BY <1>9, <2>1 DEF Tick
<1>10. CASE NotSettled
  BY <1>10 DEF NotSettled
<1>11. CASE Drained
  BY <1>11 DEF Drained, AtSettle
<1>12. CASE RunsDry
  BY <1>12 DEF RunsDry, AtSettle, Returns
<1>13. CASE LateRests
  BY <1>13 DEF LateRests, AtSettle, Returns
<1>14. CASE DutyRests
  BY <1>14 DEF DutyRests, AtSettle
<1>15. CASE PauseRests
  BY <1>15 DEF PauseRests, AtSettle, Returns, LandHeld
<1>16. CASE EventOff
  BY <1>16 DEF EventOff, EventWaits, AtSettle
<1>17. CASE EventDwell
  BY <1>17 DEF EventDwell, EventWaits, AtSettle
<1>18. CASE EventSwitch
  BY <1>18 DEF EventSwitch, EventWaits, AtSettle
<1>19. CASE EventSettled
  BY <1>19 DEF EventSettled, EventWaits, AtSettle
<1>20. CASE DrainedReports
  BY <1>20 DEF DrainedReports, Returns
<1>21. CASE Publish
  BY <1>21 DEF Publish, AbortSettle, SettleDue
<1>22. CASE PassEnds
  BY <1>22 DEF PassEnds
<1>23. CASE ObserveHeld
  BY <1>23 DEF ObserveHeld, Observes, LandPaused, QueueLift, AtRest
<1>24. CASE ObserveDrained
  BY <1>24 DEF ObserveDrained, Observes, LandPaused
<1>25. CASE ObserveToolFailed
  BY <1>25 DEF ObserveToolFailed, Observes, RaiseFault
<1>26. CASE ObserveDutyHeld
  BY <1>26 DEF ObserveDutyHeld, Observes, RaiseFault
<1>27. CASE DutyUnwaits
  BY <1>27 DEF DutyUnwaits
<1>28. CASE ObserveEnds
  BY <1>28 DEF ObserveEnds
<1>29. CASE OpenJob
  BY <1>29 DEF OpenJob, Turn
<1>30. CASE PreflightPasses
  BY <1>30 DEF PreflightPasses, Turn
<1>31. CASE PreflightFails
  BY <1>31 DEF PreflightFails, Serves, Turn
<1>32. CASE PlaceOk
  BY <1>32 DEF PlaceOk, Turn
<1>33. CASE OpenLayer
  BY <1>33 DEF OpenLayer, Serves, Turn
<1>34. CASE Resume
  BY <1>34 DEF Resume, Serves, Turn
<1>35. CASE QueueRecord
  BY <1>35 DEF QueueRecord, Serves, Turn
<1>36. CASE Pause
  BY <1>36 DEF Pause, Serves, Turn
<1>37. CASE Abort
  BY <1>37 DEF Abort, Serves, Turn
<1>38. CASE Cancel
  BY <1>38 DEF Cancel, Serves, Turn
<1>39. CASE Stop
  BY <1>39 DEF Stop, Serves, Turn
<1>40. CASE Unstop
  BY <1>40 DEF Unstop, Serves, Turn
<1>41. CASE Unalarm
  BY <1>41 DEF Unalarm, Serves, Turn
<1>42. CASE Reset
  BY <1>42 DEF Reset, Serves, Turn
<1>43. CASE UNCHANGED vars
  BY <1>43 DEF vars
<1> QED BY <1>1, <1>2, <1>3, <1>4, <1>5, <1>6, <1>7, <1>8, <1>9, <1>10, <1>11, <1>12, <1>13,
          <1>14, <1>15, <1>16, <1>17, <1>18, <1>19, <1>20, <1>21, <1>22, <1>23, <1>24, <1>25,
          <1>26, <1>27, <1>28, <1>29, <1>30, <1>31, <1>32, <1>33, <1>34, <1>35, <1>36, <1>37,
          <1>38, <1>39, <1>40, <1>41, <1>42, <1>43
        DEF Next, Host, Pass, Core1, Observe, Settled


LEMMA LoopKept == FlagTypes /\ LoopActive /\ [Next]_vars => LoopActive'
<1> SUFFICES ASSUME FlagTypes, LoopActive, [Next]_vars PROVE LoopActive'
  OBVIOUS
<1> USE DEF ctxVars, flagVars, ringVars, dutyVars, toolVars, core1Vars, core0Vars, settleVars,
            core1Untouched,
            FlagTypes, LoopActive, InLoop
<1>1. CASE EnterLift
  BY <1>1 DEF EnterLift, MayEnter, Enters
<1>2. CASE EnterHeld
  BY <1>2 DEF EnterHeld, MayEnter, LandHeld
<1>3. CASE EnterRun
  BY <1>3 DEF EnterRun, MayEnter, Enters
<1>4. CASE AbortDrops
  BY <1>4 DEF AbortDrops
<1>5. CASE EstopSweep
  BY <1>5 DEF EstopSweep
<1>6. CASE EstopReturns
  BY <1>6 DEF EstopReturns, Returns
<1>7. CASE Look
  BY <1>7 DEF Look
<1>8. CASE Tick
  BY <1>8 DEF Tick
<1>9. CASE NotSettled
  BY <1>9 DEF NotSettled
<1>10. CASE Drained
  BY <1>10 DEF Drained, AtSettle
<1>11. CASE DrainedReports
  BY <1>11 DEF DrainedReports, Returns
<1>12. CASE RunsDry
  BY <1>12 DEF RunsDry, AtSettle, Returns
<1>13. CASE LateRests
  BY <1>13 DEF LateRests, AtSettle, Returns
<1>14. CASE DutyRests
  BY <1>14 DEF DutyRests, AtSettle
<1>15. CASE PauseRests
  BY <1>15 DEF PauseRests, AtSettle, Returns, LandHeld
<1>16. CASE EventOff
  BY <1>16 DEF EventOff, EventWaits, AtSettle
<1>17. CASE EventDwell
  BY <1>17 DEF EventDwell, EventWaits, AtSettle
<1>18. CASE EventSwitch
  BY <1>18 DEF EventSwitch, EventWaits, AtSettle
<1>19. CASE EventSettled
  BY <1>19 DEF EventSettled, EventWaits, AtSettle
<1>20. CASE AbortConsumed
  BY <1>20 DEF AbortConsumed
<1>21. CASE Cancel
  BY <1>21 DEF Cancel, Serves, Turn
<1>22. CASE Reset
  BY <1>22 DEF Reset, Serves, Turn
<1>23. CASE \/ Publish \/ PassEnds \/ ObserveHeld \/ ObserveDrained \/ ObserveToolFailed
            \/ ObserveDutyHeld \/ DutyUnwaits \/ ObserveEnds \/ OpenJob \/ PreflightPasses
            \/ PreflightFails \/ PlaceOk \/ OpenLayer \/ Resume \/ QueueRecord \/ Pause \/ Abort
            \/ Stop \/ Unstop \/ Unalarm
  BY <1>23 DEF Publish, PassEnds, ObserveHeld, Observes, ObserveDrained, ObserveToolFailed,
         ObserveDutyHeld, DutyUnwaits, ObserveEnds, OpenJob, Turn, PreflightPasses,
         PreflightFails, Serves, PlaceOk, OpenLayer, Resume, QueueRecord, Pause, Abort, Stop,
         Unstop, Unalarm
<1>24. CASE UNCHANGED vars
  BY <1>24 DEF vars
<1> QED BY <1>1, <1>2, <1>3, <1>4, <1>5, <1>6, <1>7, <1>8, <1>9, <1>10, <1>11, <1>12, <1>13,
          <1>14, <1>15, <1>16, <1>17, <1>18, <1>19, <1>20, <1>21, <1>22, <1>23, <1>24
        DEF Next, Host, Pass, Core1, Observe, Settled

LEMMA JobsKept == Types /\ [Next]_vars => JobTypes'
<1> SUFFICES ASSUME Types, [Next]_vars PROVE JobTypes'
  OBVIOUS
<1> USE DEF ctxVars, flagVars, ringVars, dutyVars, toolVars, core1Vars, core0Vars, settleVars,
            core1Untouched,
            Types, JobTypes
<1>0. LandHeld => jobResume' \in Resumes
  BY LandHeldIs
<1>1. CASE EnterHeld
  <2>1. jobResume' \in Resumes
    BY <1>1, <1>0 DEF EnterHeld
  <2> QED BY <1>1, <2>1 DEF EnterHeld, LandHeld, Reasons
<1>2. CASE EnterRun
  BY <1>2 DEF EnterRun, MayEnter, Enters, Reasons
<1>3. CASE Look
  BY <1>3 DEF Look, Reasons
<1>4. CASE RunsDry
  BY <1>4 DEF RunsDry, AtSettle, Returns, Reasons
<1>5. CASE LateRests
  BY <1>5 DEF LateRests, AtSettle, Returns, Reasons
<1>6. CASE PauseRests
  <2>1. jobResume' \in Resumes
    BY <1>6, <1>0 DEF PauseRests
  <2> QED BY <1>6, <2>1 DEF PauseRests, LandHeld, Reasons
<1>7. CASE EventDwell
  BY <1>7 DEF EventDwell, EventWaits, AtSettle, Reasons
<1>8. CASE Publish
  BY <1>8 DEF Publish, AbortSettle, QueueLift, Reasons
<1>9. CASE ObserveHeld
  BY <1>9 DEF ObserveHeld, Observes, QueueLift, LandPaused, Reasons
<1>10. CASE ObserveDrained
  BY <1>10 DEF ObserveDrained, Observes, LandPaused, Reasons
<1>11. CASE OpenJob
  <2>1. jobResume' \in Resumes
    BY <1>11, Constants DEF OpenJob, NoResume, Resumes
  <2>2. ingest' \in Layers
    <3>1. 1 \in Tags
      BY JobAssumption DEF Tags
    <3> QED BY <1>11, <3>1 DEF OpenJob, Layers
  <2> QED BY <1>11, <2>1, <2>2 DEF OpenJob, Reasons
<1>12. CASE PreflightPasses
  BY <1>12 DEF PreflightPasses, Turn, Reasons
<1>13. CASE PreflightFails
  BY <1>13 DEF PreflightFails, Serves, Turn
<1>14. CASE PlaceOk
  BY <1>14 DEF PlaceOk, Turn, Reasons
<1>15. CASE OpenLayer
  <2>1. ingest' \in Layers
    BY <1>15 DEF OpenLayer, Layers
  <2> QED BY <1>15, <2>1 DEF OpenLayer
<1>16. CASE Resume
  <2>1. jobResume' \in Resumes
    BY <1>16, Constants DEF Resume, NoResume, Resumes
  <2>2. jobResume.record \in Tags /\ jobResume.s \in Parts /\ ingest.next \in Tags
    BY DEF Resumes, Layers
  <2>3. Max0(jobResume.s - Margin) \in Parts
    BY <2>2, Constants DEF Max0, Parts
  <2>4. ingest' \in Layers
    BY <1>16, <2>2, <2>3, Constants DEF Resume, Layers
  <2> QED BY <1>16, <2>1, <2>4 DEF Resume, Reasons
<1>17. CASE QueueRecord
  <2>1. PICK end \in BOOLEAN :
           ingest' = [open |-> TRUE, next |-> ingest.next + 1, inContour |-> ~end,
                      first |-> FALSE, trim |-> 0]
    BY <1>17 DEF QueueRecord
  <2>2. ingest.next <= Records /\ ingest.next \in Tags
    BY <1>17 DEF QueueRecord, Layers
  <2>3. ingest.next + 1 \in Tags /\ (~end) \in BOOLEAN
    BY <2>2, Constants DEF Tags
  <2>4. ingest' \in Layers
    BY <2>1, <2>3, Constants DEF Layers
  <2> QED BY <1>17, <2>4 DEF QueueRecord
<1>18. CASE Abort
  <2>1. ingest' \in Layers
    BY <1>18 DEF Abort, Layers
  <2> QED BY <1>18, <2>1 DEF Abort
<1>19. CASE Cancel
  <2>1. ingest' \in Layers
    BY <1>19 DEF Cancel, Layers
  <2> QED BY <1>19, <2>1 DEF Cancel
<1>20. CASE Stop
  BY <1>20 DEF Stop, Serves, Turn
<1>21. CASE Reset
  BY <1>21 DEF Reset, Serves, Turn, Reasons
<1>22. CASE \/ EnterLift \/ AbortDrops \/ AbortConsumed \/ EstopSweep \/ EstopReturns \/ Tick
            \/ NotSettled \/ Drained \/ DutyRests \/ EventOff \/ EventSwitch \/ EventSettled
            \/ DrainedReports \/ PassEnds \/ ObserveToolFailed \/ ObserveDutyHeld \/ DutyUnwaits
            \/ ObserveEnds \/ Pause \/ Unstop \/ Unalarm
  BY <1>22 DEF EnterLift, MayEnter, Enters, AbortDrops, AbortConsumed, EstopSweep, EstopReturns,
         Returns, Tick, NotSettled, Drained, AtSettle, DutyRests, EventOff, EventWaits,
         EventSwitch, EventSettled, DrainedReports, PassEnds, ObserveToolFailed, Observes,
         ObserveDutyHeld, DutyUnwaits, ObserveEnds, Pause, Serves, Turn, Unstop, Unalarm
<1>23. CASE UNCHANGED vars
  BY <1>23 DEF vars
<1> QED BY <1>1, <1>2, <1>3, <1>4, <1>5, <1>6, <1>7, <1>8, <1>9, <1>10, <1>11, <1>12, <1>13,
          <1>14, <1>15, <1>16, <1>17, <1>18, <1>19, <1>20, <1>21, <1>22, <1>23
        DEF Next, Host, Pass, Core1, Observe, Settled


LEMMA FactsKept == Types /\ [Next]_vars => FactTypes'
<1> SUFFICES ASSUME Types, [Next]_vars PROVE FactTypes'
  OBVIOUS
<1> USE DEF ctxVars, flagVars, ringVars, dutyVars, toolVars, core1Vars, core0Vars, settleVars,
            core1Untouched,
            Types, FactTypes
<1>0. /\ Report("HELD") \/ Report("DRAINED") \/ Report("TOOL_FAILED") \/ Report("DUTY_HELD")
          => facts' \in Seq(FactNames)
      /\ LandHeld => facts' \in Seq(FactNames)
  BY ReportIs, LandHeldIs DEF FactNames
<1>00. facts # <<>> => Tail(facts) \in Seq(FactNames)
  BY Popped
<1>1. CASE EnterHeld
  <2>1. facts' \in Seq(FactNames)
    BY <1>1, <1>0 DEF EnterHeld
  <2> QED BY <1>1, <2>1 DEF EnterHeld
<1>2. CASE AbortConsumed
  BY <1>2, <1>0 DEF AbortConsumed
<1>3. CASE DutyRests
  <2>1. facts' \in Seq(FactNames)
    BY <1>3, <1>0 DEF DutyRests
  <2>2. dutyStop' \in Stops
    BY <1>3, StopPointIs DEF DutyRests
  <2> QED BY <2>1, <2>2
<1>4. CASE PauseRests
  <2>1. facts' \in Seq(FactNames)
    BY <1>4, <1>0 DEF PauseRests
  <2> QED BY <1>4, <2>1 DEF PauseRests
<1>5. CASE EventOff
  BY <1>5, <1>0 DEF EventOff, EventWaits, AtSettle
<1>6. CASE EventSwitch
  BY <1>6, <1>0 DEF EventSwitch, EventWaits, AtSettle
<1>7. CASE DrainedReports
  BY <1>7, <1>0 DEF DrainedReports, Returns
<1>8. CASE ObserveHeld
  BY <1>8, <1>00 DEF ObserveHeld, Observes
<1>9. CASE ObserveDrained
  BY <1>9, <1>00 DEF ObserveDrained, Observes
<1>10. CASE ObserveToolFailed
  BY <1>10, <1>00 DEF ObserveToolFailed, Observes
<1>11. CASE ObserveDutyHeld
  BY <1>11, <1>00 DEF ObserveDutyHeld, Observes
<1>12. CASE DutyUnwaits
  <2>1. NoStop \in Stops
    BY Constants DEF NoStop, Stops
  <2> QED BY <1>12, <2>1 DEF DutyUnwaits
<1>13. CASE Reset
  BY <1>13 DEF Reset, Serves, Turn
<1>14. CASE \/ EnterLift \/ EnterRun \/ AbortDrops \/ EstopSweep \/ EstopReturns \/ Look \/ Tick
            \/ NotSettled \/ Drained \/ RunsDry \/ LateRests \/ EventDwell \/ EventSettled
            \/ Publish \/ PassEnds \/ ObserveEnds \/ OpenJob \/ PreflightPasses \/ PreflightFails
            \/ PlaceOk \/ OpenLayer \/ Resume \/ QueueRecord \/ Pause \/ Abort \/ Cancel \/ Stop
            \/ Unstop \/ Unalarm
  BY <1>14 DEF EnterLift, MayEnter, Enters, EnterRun, AbortDrops, EstopSweep, EstopReturns, Returns,
         Look, Tick, NotSettled, Drained, AtSettle, RunsDry, LateRests, EventDwell, EventWaits,
         EventSettled, Publish, PassEnds, ObserveEnds, OpenJob, Turn, PreflightPasses,
         PreflightFails, Serves, PlaceOk, OpenLayer, Resume, QueueRecord, Pause, Abort, Cancel,
         Stop, Unstop, Unalarm
<1>15. CASE UNCHANGED vars
  BY <1>15 DEF vars
<1> QED BY <1>1, <1>2, <1>3, <1>4, <1>5, <1>6, <1>7, <1>8, <1>9, <1>10, <1>11, <1>12, <1>13,
          <1>14, <1>15
        DEF Next, Host, Pass, Core1, Observe, Settled


LEMMA RingKept == Types /\ [Next]_vars => RingTypes'
<1> SUFFICES ASSUME Types, [Next]_vars PROVE RingTypes'
  OBVIOUS
<1> USE DEF ctxVars, flagVars, ringVars, dutyVars, toolVars, core1Vars, core0Vars, settleVars,
            core1Untouched,
            Types
<1>0. ~IdleExec.cur /\ IdleExec \in Execs
  BY Constants DEF IdleExec, Execs
<1>1. CASE EnterLift
  BY <1>1 DEF EnterLift, MayEnter, RingTypes
<1>2. CASE EnterHeld
  <2>1. ring' = <<>> /\ exec' = IdleExec
    BY <1>2, LandHeldIs DEF EnterHeld
  <2> QED BY <1>0, <2>1, Constants DEF RingTypes
<1>3. CASE EnterRun
  BY <1>3 DEF EnterRun, MayEnter, RingTypes
<1>4. CASE AbortDrops
  BY <1>4, DropIs DEF AbortDrops, RingTypes
<1>5. CASE EstopSweep
  BY <1>5, DropIs DEF EstopSweep, RingTypes
<1>6. CASE Look
  <2>1. Hold(exec) \in Execs /\ Hold(exec).cur = exec.cur
    BY DEF Hold, RingTypes, Execs
  <2>2. exec' \in Execs /\ exec'.cur = exec.cur
    BY <1>6, <2>1 DEF Look, RingTypes
  <2> QED BY <1>6, <2>2 DEF Look, RingTypes
<1>7. CASE Tick
  <2> USE DEF RingTypes
  <2>1. active /\ active' = active
    BY <1>7 DEF Tick, LoopActive, InLoop
  <2>2. CASE Claim
    <3>1. exec' \in Execs /\ ring # <<>> /\ ring' = ring
      BY <2>2, HeadIs, Constants DEF Claim, Execs
    <3> QED BY <2>1, <3>1
  <2>3. CASE Finish
    <3>1. PICK m \in BOOLEAN :
             exec' = [exec EXCEPT !.cur = FALSE, !.along = 0, !.done = FALSE, !.moving = m]
      BY <2>3 DEF Finish
    <3>2. exec' \in Execs /\ ~exec'.cur
      BY <3>1, Constants DEF Execs
    <3>3. ring # <<>> /\ ring' = Tail(ring)
      BY <2>3 DEF Finish
    <3> QED BY <3>2, <3>3, Popped, Constants
  <2>4. CASE Advance
    <3>1. exec.along + 1 \in Parts
      BY <2>4, Constants DEF Advance, Execs, Parts
    <3>2. exec' \in Execs /\ exec'.cur = exec.cur /\ ring' = ring
      BY <2>4, <3>1 DEF Advance, Execs
    <3> QED BY <2>1, <3>2
  <2>5. CASE HoldEnds
    <3>1. CASE mode = "abort"
      BY <2>5, <3>1, DropIs DEF HoldEnds
    <3>2. CASE mode # "abort"
      <4>1. exec' \in Execs /\ exec'.cur = exec.cur /\ ring' = ring
        BY <2>5, <3>2 DEF HoldEnds, Execs
      <4> QED BY <2>1, <4>1
    <3> QED BY <3>1, <3>2
  <2>6. CASE AbortFindsHeld
    BY <2>6, DropIs DEF AbortFindsHeld
  <2>7. CASE TickRests
    BY <2>1, <2>7 DEF TickRests
  <2> QED BY <1>7, <2>2, <2>3, <2>4, <2>5, <2>6, <2>7 DEF Tick
<1>8. CASE Drained
  BY <1>8 DEF Drained, RingTypes
<1>9. CASE RunsDry
  BY <1>9 DEF RunsDry, RingTypes
<1>10. CASE LateRests
  BY <1>10, ReleaseIs, <1>0 DEF LateRests, RingTypes
<1>11. CASE DutyRests
  BY <1>11, ReleaseIs, <1>0 DEF DutyRests, RingTypes
<1>12. CASE PauseRests
  <2>1. ring' = <<>> /\ exec' = IdleExec
    BY <1>12, LandHeldIs DEF PauseRests
  <2> QED BY <1>0, <2>1, Constants DEF RingTypes
<1>13. CASE EventOff
  <2>1. exec' \in Execs /\ exec'.cur = exec.cur
    BY <1>13 DEF EventOff, RingTypes, Execs
  <2> QED BY <1>13, <2>1 DEF EventOff, RingTypes
<1>14. CASE EventSettled
  <2>1. exec' \in Execs /\ exec'.cur = exec.cur
    BY <1>14 DEF EventSettled, RingTypes, Execs
  <2> QED BY <1>14, <2>1 DEF EventSettled, RingTypes
<1>15. CASE Publish
  <2>1. ring' = ring \/ (~exec.cur /\ \E fits \in BOOLEAN : ring' = LiftBlocks(fits))
    BY <1>15 DEF Publish, AbortSettle, QueueLift, LiftDue, AtRest, RingTypes
  <2>2. ring' \in Seq(Blocks) /\ Len(ring') <= RingSize /\ (ring' = ring \/ ~exec.cur)
    BY <2>1, LiftIs, Constants DEF RingTypes
  <2> QED BY <1>15, <2>2 DEF Publish, RingTypes
<1>16. CASE ObserveHeld
  <2>1. ring' = ring \/ (~exec.cur /\ \E fits \in BOOLEAN : ring' = LiftBlocks(fits))
    BY <1>16 DEF ObserveHeld, QueueLift, LiftDue, AtRest, RingTypes
  <2>2. ring' \in Seq(Blocks) /\ Len(ring') <= RingSize /\ (ring' = ring \/ ~exec.cur)
    BY <2>1, LiftIs, Constants DEF RingTypes
  <2> QED BY <1>16, <2>2 DEF ObserveHeld, RingTypes
<1>17. CASE ObserveToolFailed
  BY <1>17, Constants DEF ObserveToolFailed, RingTypes
<1>18. CASE ObserveDutyHeld
  <2> DEFINE b == DutyBlocks(dutyStop)
  <2>1. b \in Seq(Blocks) /\ Len(b) = 4
    BY DutyIs DEF FactTypes
  <2>4. ring' = ring \/ (Len(ring) <= RingSize - 4 /\ ring' = b \o ring)
    BY <1>18 DEF ObserveDutyHeld
  <2> HIDE DEF b
  <2>2. CASE ring' = ring
    BY <1>18, <2>2 DEF ObserveDutyHeld, RingTypes
  <2>3. CASE Len(ring) <= RingSize - 4 /\ ring' = b \o ring
    <3>1. ring' \in Seq(Blocks) /\ Len(ring') = 4 + Len(ring) /\ Len(ring) \in Nat
      <4>1. ring \in Seq(Blocks) /\ Len(ring) \in Nat
        BY DEF RingTypes
      <4>2. b \o ring \in Seq(Blocks) /\ Len(b \o ring) = Len(b) + Len(ring)
        BY <2>1, <4>1, Joined
      <4> QED BY <2>1, <2>3, <4>1, <4>2
    <3>2. ring' # <<>> /\ Len(ring') <= RingSize
      BY <2>3, <3>1, Constants
    <3> QED BY <1>18, <3>1, <3>2 DEF ObserveDutyHeld, RingTypes
  <2> QED BY <2>2, <2>3, <2>4
<1>19. CASE QueueRecord
  <2>1. PICK brk \in Breaks, end \in BOOLEAN :
           /\ ~ingest.inContour => brk = "none"
           /\ HasRoom(Len(RecordBlocks(~ingest.inContour, brk, end)))
           /\ ring' = ring \o RecordBlocks(~ingest.inContour, brk, end)
    BY <1>19 DEF QueueRecord, Breaks
  <2> DEFINE b == RecordBlocks(~ingest.inContour, brk, end)
  <2>2. b \in Seq(Blocks) /\ Len(b) \in Nat /\ Len(b) > 0
    <3>1. ingest.next <= Records /\ (~ingest.inContour) \in BOOLEAN
      BY <1>19 DEF QueueRecord
    <3>2. RecordShape(b, Lead(~ingest.inContour, brk), end)
      BY <2>1, <3>1, RecordIs
    <3> HIDE DEF b
    <3> QED BY <3>2 DEF RecordShape
  <2> HIDE DEF b
  <2>3. /\ ring \in Seq(Blocks) /\ Len(ring) \in Nat /\ ring' = ring \o b
        /\ Len(ring) + Len(b) + 4 <= RingSize
    BY <2>1 DEF RingTypes, HasRoom, b
  <2>4. ring' \in Seq(Blocks) /\ Len(ring') = Len(ring) + Len(b)
    BY <2>2, <2>3, Joined
  <2>5. ring' # <<>> /\ Len(ring') <= RingSize
    BY <2>2, <2>3, <2>4, Constants
  <2> QED BY <1>19, <2>4, <2>5 DEF QueueRecord, RingTypes
<1>20. CASE Cancel
  BY <1>20, DropIs DEF Cancel, RingTypes
<1>21. CASE Reset
  BY <1>21, DropIs DEF Reset, RingTypes
<1>22. CASE \/ AbortConsumed \/ EstopReturns \/ NotSettled \/ EventDwell \/ EventSwitch
            \/ DrainedReports \/ PassEnds \/ ObserveDrained \/ DutyUnwaits \/ ObserveEnds
            \/ OpenJob \/ PreflightPasses \/ PreflightFails \/ PlaceOk \/ OpenLayer \/ Resume
            \/ Pause \/ Abort \/ Stop \/ Unstop \/ Unalarm
  BY <1>22 DEF RingTypes, AbortConsumed, EstopReturns, Returns, NotSettled, EventDwell,
         EventWaits, AtSettle, EventSwitch, DrainedReports, PassEnds, ObserveDrained, Observes, DutyUnwaits,
         ObserveEnds, OpenJob, Turn, PreflightPasses, PreflightFails, Serves, PlaceOk,
         OpenLayer, Resume, Pause, Abort, Stop, Unstop, Unalarm
<1>23. CASE UNCHANGED vars
  BY <1>23 DEF vars, RingTypes
<1> QED BY <1>1, <1>2, <1>3, <1>4, <1>5, <1>6, <1>7, <1>8, <1>9, <1>10, <1>11, <1>12, <1>13,
          <1>14, <1>15, <1>16, <1>17, <1>18, <1>19, <1>20, <1>21, <1>22, <1>23
        DEF Next, Host, Pass, Core1, Observe, Settled


LEMMA TypesKept == Types /\ [Next]_vars => Types'
<1> SUFFICES ASSUME Types, [Next]_vars PROVE Types'
  OBVIOUS
<1> QED BY JobsKept, RingKept, FactsKept, FlagsKept, PlacesKept, LoopKept DEF Types

(* Every state has its types.  The model keeps them apart from what the      *)
(* steps promise one another, which is below.                               *)
THEOREM MotionTypes == Spec => []TypeOK
<1>1. Types => TypeOK
  BY DEF Types, JobTypes, RingTypes, FactTypes, TypeOK, Blocks, Execs, Parts, Tags
<1> QED BY TypesInit, TypesKept, <1>1, PTL DEF Spec

----------------------------------------------------------------------------
(* What holds of a job from its placement to its end, unless it is aborted. *)

AtTop == c1 \in {"top", "dropped", "consumed"}

(* Core 1's place and what goes with it: processPlanner's locals, the        *)
(* lifecycle, the latch.                                                    *)
Core1Place ==
  /\ AtTop => mode = "none" /\ ~runsOn /\ evPhase = "START"
  /\ c1 \in {"dropped", "consumed"} => abortRequested
  /\ runsOn => mode \in {"none", "late", "abort"}
  /\ c1 = "drained" => runsOn \/ mode = "abort"
  /\ ctx = "JOB" => estop = "clear"
  /\ estop = "swept" => AtTop
  /\ InLoop /\ estop = "clear" => ctx = "JOB"
  /\ power => toolOn \/ unheard

Aborts ==
  ctx = "JOB" /\ (abortRequested \/ mode = "abort" \/ why = "ABORTING") => jobAborted

Mine   == ctx = "JOB" /\ ~jobAborted
Before == {"PREFLIGHT", "PLACE"}
Own    == Mine /\ why \notin Before

(* Nothing moves before the job is placed, and the reports of what was       *)
(* before it are read by then.                                              *)
NotOpen ==
  /\ ctx = "JOB" /\ why \in Before => ~active /\ ~ingest.open /\ AtTop
  /\ Mine /\ ~ingest.open =>
       /\ ~pauseRequested /\ ~active /\ why \in Before \union {"BUFFERING"}
       /\ why = "BUFFERING" => ring = <<>>
  /\ Mine /\ why = "PLACE" /\ place = "started" /\ c0 \in {"serial", "last"} => facts = <<>>

Safe     == (z = "up" \/ stuck) /\ ~toolOn /\ (power => unheard)
Failures == \A j \in 1 .. Len(facts) : facts[j] = "TOOL_FAILED"
Only(i)  == \A j \in 1 .. Len(facts) : j # i => facts[j] = "TOOL_FAILED"

(* A report that is still to be read says what is still so.                 *)
ReportTrue(i) ==
  /\ facts[i] = "HELD" => Only(i) /\ c1 = "top" /\ AtRest /\ why = "HOLDING"
  /\ facts[i] = "DRAINED" => Only(i) /\ c1 = "top" /\ AtRest /\ why = "HOLDING" /\ Safe
  /\ facts[i] = "DUTY_HELD" =>
       /\ Only(i) /\ c1 = "look" /\ dutyWait /\ ~runsOn /\ mode = "none" /\ c0 # "unwait"
       /\ ~exec.cur
       /\ dutyStop.cut => ring # <<>> /\ ring[1].kind = "cut"
FactsTrue  == Own => \A i \in 1 .. Len(facts) : ReportTrue(i)
UnwaitTrue ==
  Own /\ c0 = "unwait" => Failures /\ c1 = "look" /\ dutyWait /\ ~runsOn /\ ~exec.cur
DrainedTrue ==
  Own /\ c1 = "drained" => AtRest /\ Failures /\ why = "HOLDING" /\ Safe

(* A pause's lift does all that is left to make it safe.                     *)
Lifting   == runsOn \/ (why = "HOLDING" /\ ~active)
Undone(i) == ~(i = 1 /\ exec.cur /\ exec.done)
Lifts ==
  /\ why = "HOLDING"
  /\ \A i \in 1 .. Len(ring) : ring[i].kind \in {"up", "off"}
  /\ ring # <<>> \/ runsOn =>
       /\ z = "cut" /\ ~stuck => \E i \in 1 .. Len(ring) : ring[i].kind = "up"
       /\ toolOn => \E i \in 1 .. Len(ring) : ring[i].kind = "off" /\ Undone(i)
LiftTrue   == Own /\ Lifting => Lifts
PausedTrue == Own /\ why = "PAUSED" => Safe /\ AtRest

(* A cut follows a cut or a plunge, a plunge a switched-on tool or a lift    *)
(* that left it on.                                                         *)
Plunged(i) ==
  /\ ring[i + 1].kind = "cut" => ring[i].kind \in {"cut", "down"}
  /\ ring[i + 1].kind = "down" =>
       ring[i].kind = "on" \/ (ring[i].kind = "up" /\ (i > 1 => ring[i - 1].kind = "cut"))
Ahead == Own => \A i \in 1 .. (Len(ring) - 1) : Plunged(i)
Ready ==
  /\ ring[1].kind = "cut" => z = "cut" /\ power
  /\ ring[1].kind = "down" => power /\ (exec.cur => z = "cut")
  /\ (ring[1].kind = "up" /\ Len(ring) > 1 /\ ring[2].kind = "down") => power
  /\ (ring[1].kind = "on" /\ exec.cur /\ exec.done) => power
HeadReady == Own /\ ring # <<>> => Ready
Phase ==
  Own /\ evPhase # "START" /\ InLoop =>
    /\ mode \notin {"late", "duty"}
    /\ ring # <<>> /\ ring[1].kind = "on" /\ exec.cur /\ ~exec.done
    /\ evPhase = "SETTLE" => power
Stopping  == why = "PAUSED" \/ (why = "HOLDING" /\ (~active \/ runsOn))
OnPath    == ~Stopping /\ ingest.open /\ ingest.inContour
TailReady ==
  Own /\ OnPath => IF ring = <<>> THEN z = "cut" /\ power ELSE ring[Len(ring)].kind = "cut"

Inv == /\ Types /\ Core1Place /\ Aborts /\ NotOpen
       /\ FactsTrue /\ UnwaitTrue /\ DrainedTrue /\ LiftTrue /\ PausedTrue
       /\ Ahead /\ HeadReady /\ Phase /\ TailReady


(* The oldest report, and the rest.                                         *)
LEMMA HeadFact ==
  ASSUME FactTypes, facts # <<>>
  PROVE  Head(facts) = facts[1] /\ 1 \in 1 .. Len(facts)
<1>1. facts \in Seq(FactNames)
  BY DEF FactTypes
<1>2. Head(facts) = facts[1] /\ Len(facts) \in Nat /\ Len(facts) > 0
  BY <1>1, Popped
<1> QED BY <1>2


LEMMA Core1Kept ==
  FlagTypes /\ PlaceTypes /\ LoopActive /\ Core1Place /\ NotOpen /\ [Next]_vars => Core1Place'
<1> SUFFICES ASSUME FlagTypes /\ PlaceTypes /\ LoopActive /\ Core1Place /\ NotOpen, [Next]_vars
             PROVE  Core1Place'
  OBVIOUS
<1> USE DEF ctxVars, flagVars, ringVars, dutyVars, toolVars, core1Vars, core0Vars, settleVars,
            core1Untouched,
            FlagTypes, LoopActive, InLoop, AtTop, Core1Place
<1>1. CASE EnterLift
  BY <1>1 DEF EnterLift, MayEnter, Enters
<1>2. CASE EnterHeld
  BY <1>2 DEF EnterHeld, MayEnter, LandHeld
<1>3. CASE EnterRun
  BY <1>3 DEF EnterRun, MayEnter, Enters
<1>4. CASE AbortDrops
  BY <1>4 DEF AbortDrops
<1>5. CASE AbortConsumed
  BY <1>5 DEF AbortConsumed
<1>6. CASE EstopSweep
  BY <1>6 DEF EstopSweep
<1>7. CASE EstopReturns
  BY <1>7 DEF EstopReturns, Returns
<1>8. CASE Look
  BY <1>8 DEF Look
<1>9. CASE Tick
  BY <1>9 DEF Tick
<1>10. CASE NotSettled
  BY <1>10 DEF NotSettled
<1>11. CASE Drained
  BY <1>11 DEF Drained, AtSettle
<1>12. CASE RunsDry
  BY <1>12 DEF RunsDry, AtSettle, Returns
<1>13. CASE LateRests
  BY <1>13 DEF LateRests, AtSettle, Returns
<1>14. CASE DutyRests
  BY <1>14 DEF DutyRests, AtSettle
<1>15. CASE PauseRests
  BY <1>15 DEF PauseRests, AtSettle, Returns, LandHeld
<1>16. CASE EventOff
  BY <1>16 DEF EventOff, EventWaits, AtSettle
<1>17. CASE EventDwell
  BY <1>17 DEF EventDwell, EventWaits, AtSettle
<1>18. CASE EventSwitch
  BY <1>18 DEF EventSwitch, EventWaits, AtSettle
<1>19. CASE EventSettled
  BY <1>19 DEF EventSettled, EventWaits, AtSettle
<1>20. CASE DrainedReports
  BY <1>20 DEF DrainedReports, Returns
<1>21. CASE Publish
  BY <1>21 DEF Publish, AbortSettle, SettleDue, AtRest
<1>22. CASE PassEnds
  BY <1>22 DEF PassEnds
<1>23. CASE ObserveHeld
  BY <1>23 DEF ObserveHeld, Observes
<1>24. CASE ObserveDrained
  BY <1>24 DEF ObserveDrained, Observes
<1>25. CASE ObserveToolFailed
  BY <1>25 DEF ObserveToolFailed, Observes, RaiseFault
<1>26. CASE ObserveDutyHeld
  BY <1>26 DEF ObserveDutyHeld, Observes, RaiseFault
<1>27. CASE DutyUnwaits
  BY <1>27 DEF DutyUnwaits
<1>28. CASE ObserveEnds
  BY <1>28 DEF ObserveEnds
<1>29. CASE OpenJob
  BY <1>29 DEF OpenJob, Turn, AtRest, Core1Prompt
<1>30. CASE PreflightPasses
  BY <1>30 DEF PreflightPasses, Turn
<1>31. CASE PreflightFails
  BY <1>31 DEF PreflightFails, Serves, Turn, InPreflight, NotOpen, Before
<1>32. CASE PlaceOk
  BY <1>32 DEF PlaceOk, Turn
<1>33. CASE OpenLayer
  BY <1>33 DEF OpenLayer, Serves, Turn
<1>34. CASE Resume
  BY <1>34 DEF Resume, Serves, Turn
<1>35. CASE QueueRecord
  BY <1>35 DEF QueueRecord, Serves, Turn
<1>36. CASE Pause
  BY <1>36 DEF Pause, Serves, Turn
<1>37. CASE Abort
  BY <1>37 DEF Abort, Serves, Turn
<1>38. CASE Cancel
  BY <1>38 DEF Cancel, Serves, Turn
<1>39. CASE Stop
  BY <1>39 DEF Stop, Serves, Turn
<1>40. CASE Unstop
  BY <1>40 DEF Unstop, Serves, Turn
<1>41. CASE Unalarm
  BY <1>41 DEF Unalarm, Serves, Turn
<1>42. CASE Reset
  BY <1>42 DEF Reset, Serves, Turn
<1>43. CASE UNCHANGED vars
  BY <1>43 DEF vars
<1> QED BY <1>1, <1>2, <1>3, <1>4, <1>5, <1>6, <1>7, <1>8, <1>9, <1>10, <1>11, <1>12, <1>13,
          <1>14, <1>15, <1>16, <1>17, <1>18, <1>19, <1>20, <1>21, <1>22, <1>23, <1>24, <1>25,
          <1>26, <1>27, <1>28, <1>29, <1>30, <1>31, <1>32, <1>33, <1>34, <1>35, <1>36, <1>37,
          <1>38, <1>39, <1>40, <1>41, <1>42, <1>43
        DEF Next, Host, Pass, Core1, Observe, Settled


LEMMA AbortsKept ==
  FlagTypes /\ PlaceTypes /\ LoopActive /\ Core1Place /\ Aborts /\ [Next]_vars => Aborts'
<1> SUFFICES ASSUME FlagTypes /\ PlaceTypes /\ LoopActive /\ Core1Place /\ Aborts, [Next]_vars
             PROVE  Aborts'
  OBVIOUS
<1> USE DEF ctxVars, flagVars, ringVars, dutyVars, toolVars, core1Vars, core0Vars, settleVars,
            core1Untouched,
            FlagTypes, LoopActive, InLoop, AtTop, Core1Place, Aborts
<1>1. CASE EnterLift
  BY <1>1 DEF EnterLift, MayEnter, Enters
<1>2. CASE EnterHeld
  BY <1>2 DEF EnterHeld, MayEnter, LandHeld
<1>3. CASE EnterRun
  BY <1>3 DEF EnterRun, MayEnter, Enters
<1>4. CASE AbortDrops
  BY <1>4 DEF AbortDrops
<1>5. CASE AbortConsumed
  BY <1>5 DEF AbortConsumed
<1>6. CASE EstopSweep
  BY <1>6 DEF EstopSweep
<1>7. CASE EstopReturns
  BY <1>7 DEF EstopReturns, Returns
<1>8. CASE Look
  BY <1>8 DEF Look
<1>9. CASE Tick
  BY <1>9 DEF Tick
<1>10. CASE NotSettled
  BY <1>10 DEF NotSettled
<1>11. CASE Drained
  BY <1>11 DEF Drained, AtSettle
<1>12. CASE RunsDry
  BY <1>12 DEF RunsDry, AtSettle, Returns
<1>13. CASE LateRests
  BY <1>13 DEF LateRests, AtSettle, Returns
<1>14. CASE DutyRests
  BY <1>14 DEF DutyRests, AtSettle
<1>15. CASE PauseRests
  BY <1>15 DEF PauseRests, AtSettle, Returns, LandHeld
<1>16. CASE EventOff
  BY <1>16 DEF EventOff, EventWaits, AtSettle
<1>17. CASE EventDwell
  BY <1>17 DEF EventDwell, EventWaits, AtSettle
<1>18. CASE EventSwitch
  BY <1>18 DEF EventSwitch, EventWaits, AtSettle
<1>19. CASE EventSettled
  BY <1>19 DEF EventSettled, EventWaits, AtSettle
<1>20. CASE DrainedReports
  BY <1>20 DEF DrainedReports, Returns
<1>21. CASE Publish
  BY <1>21 DEF Publish, AbortSettle, SettleDue, AtRest, QueueLift
<1>22. CASE PassEnds
  BY <1>22 DEF PassEnds
<1>23. CASE ObserveHeld
  BY <1>23 DEF ObserveHeld, Observes, QueueLift, LandPaused
<1>24. CASE ObserveDrained
  BY <1>24 DEF ObserveDrained, Observes, LandPaused
<1>25. CASE ObserveToolFailed
  BY <1>25 DEF ObserveToolFailed, Observes, RaiseFault
<1>26. CASE ObserveDutyHeld
  BY <1>26 DEF ObserveDutyHeld, Observes, RaiseFault
<1>27. CASE DutyUnwaits
  BY <1>27 DEF DutyUnwaits
<1>28. CASE ObserveEnds
  BY <1>28 DEF ObserveEnds
<1>29. CASE OpenJob
  BY <1>29 DEF OpenJob, Turn, AtRest, Core1Prompt, PlaceTypes, Places
<1>30. CASE PreflightPasses
  BY <1>30 DEF PreflightPasses, Turn
<1>31. CASE PreflightFails
  BY <1>31 DEF PreflightFails, Serves, Turn
<1>32. CASE PlaceOk
  BY <1>32 DEF PlaceOk, Turn
<1>33. CASE OpenLayer
  BY <1>33 DEF OpenLayer, Serves, Turn
<1>34. CASE Resume
  BY <1>34 DEF Resume, Serves, Turn
<1>35. CASE QueueRecord
  BY <1>35 DEF QueueRecord, Serves, Turn
<1>36. CASE Pause
  BY <1>36 DEF Pause, Serves, Turn
<1>37. CASE Abort
  BY <1>37 DEF Abort, Serves, Turn
<1>38. CASE Cancel
  BY <1>38 DEF Cancel, Serves, Turn
<1>39. CASE Stop
  BY <1>39 DEF Stop, Serves, Turn
<1>40. CASE Unstop
  BY <1>40 DEF Unstop, Serves, Turn
<1>41. CASE Unalarm
  BY <1>41 DEF Unalarm, Serves, Turn
<1>42. CASE Reset
  BY <1>42 DEF Reset, Serves, Turn
<1>43. CASE UNCHANGED vars
  BY <1>43 DEF vars
<1> QED BY <1>1, <1>2, <1>3, <1>4, <1>5, <1>6, <1>7, <1>8, <1>9, <1>10, <1>11, <1>12, <1>13,
          <1>14, <1>15, <1>16, <1>17, <1>18, <1>19, <1>20, <1>21, <1>22, <1>23, <1>24, <1>25,
          <1>26, <1>27, <1>28, <1>29, <1>30, <1>31, <1>32, <1>33, <1>34, <1>35, <1>36, <1>37,
          <1>38, <1>39, <1>40, <1>41, <1>42, <1>43
        DEF Next, Host, Pass, Core1, Observe, Settled


LEMMA NotOpenKept ==
  Types /\ Core1Place /\ Aborts /\ NotOpen /\ FactsTrue /\ [Next]_vars => NotOpen'
<1> SUFFICES ASSUME Types /\ Core1Place /\ Aborts /\ NotOpen /\ FactsTrue, [Next]_vars
             PROVE  NotOpen'
  OBVIOUS
<1> USE DEF ctxVars, flagVars, ringVars, dutyVars, toolVars, core1Vars, core0Vars, settleVars,
            core1Untouched,
            Types, FlagTypes, LoopActive, InLoop, AtTop, Core1Place, NotOpen, Mine, Before
<1>1. CASE EnterLift
  BY <1>1 DEF EnterLift, MayEnter, Enters
<1>2. CASE EnterHeld
  BY <1>2 DEF EnterHeld, MayEnter, LandHeld
<1>3. CASE EnterRun
  BY <1>3 DEF EnterRun, MayEnter, Enters
<1>4. CASE AbortDrops
  BY <1>4 DEF AbortDrops, Aborts
<1>5. CASE AbortConsumed
  BY <1>5 DEF AbortConsumed, Aborts
<1>6. CASE EstopSweep
  BY <1>6 DEF EstopSweep
<1>7. CASE EstopReturns
  BY <1>7 DEF EstopReturns, Returns
<1>8. CASE Look
  BY <1>8 DEF Look
<1>9. CASE Tick
  BY <1>9 DEF Tick
<1>10. CASE NotSettled
  BY <1>10 DEF NotSettled
<1>11. CASE Drained
  BY <1>11 DEF Drained, AtSettle
<1>12. CASE RunsDry
  BY <1>12 DEF RunsDry, AtSettle, Returns
<1>13. CASE LateRests
  BY <1>13 DEF LateRests, AtSettle, Returns
<1>14. CASE DutyRests
  BY <1>14 DEF DutyRests, AtSettle
<1>15. CASE PauseRests
  BY <1>15 DEF PauseRests, AtSettle, Returns, LandHeld
<1>16. CASE EventOff
  BY <1>16 DEF EventOff, EventWaits, AtSettle
<1>17. CASE EventDwell
  BY <1>17 DEF EventDwell, EventWaits, AtSettle
<1>18. CASE EventSwitch
  BY <1>18 DEF EventSwitch, EventWaits, AtSettle
<1>19. CASE EventSettled
  BY <1>19 DEF EventSettled, EventWaits, AtSettle
<1>20. CASE DrainedReports
  BY <1>20 DEF DrainedReports, Returns
<1>21. CASE Publish
  BY <1>21 DEF Publish, AbortSettle, SettleDue, AtRest, QueueLift, LiftDue
<1>22. CASE PassEnds
  BY <1>22 DEF PassEnds
<1>23. CASE ObserveHeld
  BY <1>23 DEF ObserveHeld, Observes, QueueLift, LandPaused, LiftDue
<1>24. CASE ObserveDrained
  BY <1>24 DEF ObserveDrained, Observes, LandPaused
<1>25. CASE ObserveToolFailed
  BY <1>25 DEF ObserveToolFailed, Observes, RaiseFault
<1>26. CASE ObserveDutyHeld
  <2>1. facts # <<>> /\ facts[1] = "DUTY_HELD" /\ 1 \in 1 .. Len(facts)
    BY <1>26, HeadFact DEF ObserveDutyHeld, Observes, Types
  <2> QED BY <1>26, <2>1 DEF ObserveDutyHeld, RaiseFault, FactsTrue, ReportTrue, Own
<1>27. CASE DutyUnwaits
  BY <1>27 DEF DutyUnwaits
<1>28. CASE ObserveEnds
  BY <1>28 DEF ObserveEnds
<1>29. CASE OpenJob
  BY <1>29 DEF OpenJob, Turn, AtRest, Core1Prompt, PlaceTypes, Places, JobTypes, Layers
<1>30. CASE PreflightPasses
  BY <1>30 DEF PreflightPasses, Turn, InPreflight
<1>31. CASE PreflightFails
  BY <1>31 DEF PreflightFails, Serves, Turn
<1>32. CASE PlaceOk
  BY <1>32 DEF PlaceOk, Turn, AtRest
<1>33. CASE OpenLayer
  BY <1>33 DEF OpenLayer, Serves, Turn, JobTypes, Layers, Admits
<1>34. CASE Resume
  BY <1>34 DEF Resume, Serves, Turn, JobTypes, Layers
<1>35. CASE QueueRecord
  BY <1>35 DEF QueueRecord, Serves, Turn, JobTypes, Layers
<1>36. CASE Pause
  BY <1>36 DEF Pause, Serves, Turn
<1>37. CASE Abort
  BY <1>37 DEF Abort, Serves, Turn, JobTypes, Layers
<1>38. CASE Cancel
  BY <1>38 DEF Cancel, Serves, Turn, JobTypes, Layers
<1>39. CASE Stop
  BY <1>39 DEF Stop, Serves, Turn
<1>40. CASE Unstop
  BY <1>40 DEF Unstop, Serves, Turn
<1>41. CASE Unalarm
  BY <1>41 DEF Unalarm, Serves, Turn
<1>42. CASE Reset
  BY <1>42 DEF Reset, Serves, Turn
<1>43. CASE UNCHANGED vars
  BY <1>43 DEF vars
<1> QED BY <1>1, <1>2, <1>3, <1>4, <1>5, <1>6, <1>7, <1>8, <1>9, <1>10, <1>11, <1>12, <1>13,
          <1>14, <1>15, <1>16, <1>17, <1>18, <1>19, <1>20, <1>21, <1>22, <1>23, <1>24, <1>25,
          <1>26, <1>27, <1>28, <1>29, <1>30, <1>31, <1>32, <1>33, <1>34, <1>35, <1>36, <1>37,
          <1>38, <1>39, <1>40, <1>41, <1>42, <1>43
        DEF Next, Host, Pass, Core1, Observe, Settled


(* The steps of a placed job that nobody has aborted.                       *)
Lives == \/ EnterLift \/ EnterHeld \/ EnterRun \/ Look \/ Tick \/ NotSettled \/ Drained
         \/ DrainedReports \/ RunsDry \/ LateRests \/ DutyRests \/ PauseRests \/ EventOff
         \/ EventDwell \/ EventSwitch \/ EventSettled \/ PassEnds \/ ObserveHeld
         \/ ObserveDrained \/ ObserveDutyHeld \/ DutyUnwaits \/ ObserveEnds \/ OpenLayer
         \/ Resume \/ QueueRecord \/ Pause

(* What is known of such a job.                                             *)
LEMMA OwnIs ==
  ASSUME Inv, Own
  PROVE  /\ ctx = "JOB" /\ ~jobAborted /\ ~abortRequested /\ mode # "abort" /\ estop = "clear"
         /\ why \notin Before /\ why # "ABORTING" /\ c1 \notin {"dropped", "consumed"}
         /\ why # "BUFFERING" => ingest.open
         /\ InLoop => active /\ why # "PAUSED"
         /\ InLoop => (OnPath <=> ~runsOn /\ ingest.open /\ ingest.inContour)
         /\ exec.cur => ring # <<>> /\ active
<1> USE DEF Inv, Own, Mine
<1>1. ctx = "JOB" /\ ~jobAborted /\ ~abortRequested /\ mode # "abort" /\ why # "ABORTING"
  BY DEF Aborts, Types, FlagTypes
<1>2. estop = "clear" /\ why \notin Before /\ c1 \notin {"dropped", "consumed"}
  BY <1>1 DEF Core1Place
<1>3. why # "BUFFERING" => ingest.open
  BY <1>2 DEF NotOpen
<1>4. InLoop => active /\ why # "PAUSED"
  BY DEF Types, LoopActive, PausedTrue, AtRest
<1>5. runsOn => why = "HOLDING"
  BY DEF LiftTrue, Lifting, Lifts
<1>6. InLoop => (OnPath <=> ~runsOn /\ ingest.open /\ ingest.inContour)
  BY <1>4, <1>5 DEF OnPath, Stopping
<1>7. exec.cur => ring # <<>> /\ active
  BY DEF Types, RingTypes
<1> QED BY <1>1, <1>2, <1>3, <1>4, <1>6, <1>7

(* It was such a job before, or is placed by this step.                     *)
LEMMA OwnBefore ==
  FlagTypes /\ LoopActive /\ Core1Place /\ Aborts /\ NotOpen /\ [Next]_vars =>
    (Own' => Own \/ PlaceOk)
<1> SUFFICES ASSUME FlagTypes /\ LoopActive /\ Core1Place /\ Aborts /\ NotOpen, [Next]_vars
             PROVE  (Own' => Own \/ PlaceOk)
  OBVIOUS
<1> USE DEF ctxVars, flagVars, ringVars, dutyVars, toolVars, core1Vars, core0Vars, settleVars,
            core1Untouched,
            FlagTypes, LoopActive, InLoop, AtTop, Core1Place, NotOpen, Aborts, Own, Mine, Before
<1>1. CASE EnterLift
  BY <1>1 DEF EnterLift, MayEnter, Enters
<1>2. CASE EnterHeld
  BY <1>2 DEF EnterHeld, MayEnter, LandHeld
<1>3. CASE EnterRun
  BY <1>3 DEF EnterRun, MayEnter, Enters
<1>4. CASE AbortDrops
  BY <1>4 DEF AbortDrops
<1>5. CASE AbortConsumed
  BY <1>5 DEF AbortConsumed
<1>6. CASE EstopSweep
  BY <1>6 DEF EstopSweep
<1>7. CASE EstopReturns
  BY <1>7 DEF EstopReturns, Returns
<1>8. CASE Look
  BY <1>8 DEF Look
<1>9. CASE Tick
  BY <1>9 DEF Tick
<1>10. CASE NotSettled
  BY <1>10 DEF NotSettled
<1>11. CASE Drained
  BY <1>11 DEF Drained, AtSettle
<1>12. CASE RunsDry
  BY <1>12 DEF RunsDry, AtSettle, Returns
<1>13. CASE LateRests
  BY <1>13 DEF LateRests, AtSettle, Returns
<1>14. CASE DutyRests
  BY <1>14 DEF DutyRests, AtSettle
<1>15. CASE PauseRests
  BY <1>15 DEF PauseRests, AtSettle, Returns, LandHeld
<1>16. CASE EventOff
  BY <1>16 DEF EventOff, EventWaits, AtSettle
<1>17. CASE EventDwell
  BY <1>17 DEF EventDwell, EventWaits, AtSettle
<1>18. CASE EventSwitch
  BY <1>18 DEF EventSwitch, EventWaits, AtSettle
<1>19. CASE EventSettled
  BY <1>19 DEF EventSettled, EventWaits, AtSettle
<1>20. CASE DrainedReports
  BY <1>20 DEF DrainedReports, Returns
<1>21. CASE Publish
  BY <1>21 DEF Publish, AbortSettle, SettleDue, QueueLift
<1>22. CASE PassEnds
  BY <1>22 DEF PassEnds
<1>23. CASE ObserveHeld
  BY <1>23 DEF ObserveHeld, Observes, QueueLift, LandPaused, LiftDue
<1>24. CASE ObserveDrained
  BY <1>24 DEF ObserveDrained, Observes, LandPaused
<1>25. CASE ObserveToolFailed
  BY <1>25 DEF ObserveToolFailed, Observes, RaiseFault
<1>26. CASE ObserveDutyHeld
  BY <1>26 DEF ObserveDutyHeld, Observes, RaiseFault
<1>27. CASE DutyUnwaits
  BY <1>27 DEF DutyUnwaits
<1>28. CASE ObserveEnds
  BY <1>28 DEF ObserveEnds
<1>29. CASE OpenJob
  BY <1>29 DEF OpenJob, Turn
<1>30. CASE PreflightPasses
  BY <1>30 DEF PreflightPasses, Turn
<1>31. CASE PreflightFails
  BY <1>31 DEF PreflightFails, Serves, Turn
<1>32. CASE PlaceOk
  BY <1>32
<1>33. CASE OpenLayer
  BY <1>33 DEF OpenLayer, Serves, Turn
<1>34. CASE Resume
  BY <1>34 DEF Resume, Serves, Turn
<1>35. CASE QueueRecord
  BY <1>35 DEF QueueRecord, Serves, Turn
<1>36. CASE Pause
  BY <1>36 DEF Pause, Serves, Turn
<1>37. CASE Abort
  BY <1>37 DEF Abort, Serves, Turn
<1>38. CASE Cancel
  BY <1>38 DEF Cancel, Serves, Turn
<1>39. CASE Stop
  BY <1>39 DEF Stop, Serves, Turn
<1>40. CASE Unstop
  BY <1>40 DEF Unstop, Serves, Turn
<1>41. CASE Unalarm
  BY <1>41 DEF Unalarm, Serves, Turn
<1>42. CASE Reset
  BY <1>42 DEF Reset, Serves, Turn
<1>43. CASE UNCHANGED vars
  BY <1>43 DEF vars
<1> QED BY <1>1, <1>2, <1>3, <1>4, <1>5, <1>6, <1>7, <1>8, <1>9, <1>10, <1>11, <1>12, <1>13,
          <1>14, <1>15, <1>16, <1>17, <1>18, <1>19, <1>20, <1>21, <1>22, <1>23, <1>24, <1>25,
          <1>26, <1>27, <1>28, <1>29, <1>30, <1>31, <1>32, <1>33, <1>34, <1>35, <1>36, <1>37,
          <1>38, <1>39, <1>40, <1>41, <1>42, <1>43
        DEF Next, Host, Pass, Core1, Observe, Settled


(* Each step of such a job is one of Lives: what aborts, closes, stops or    *)
(* resets it leaves no such job.                                            *)
LEMMA OwnStep ==
  ASSUME Inv, [Next]_vars, Own'
  PROVE  \/ Own /\ (Lives \/ UNCHANGED vars)
         \/ PlaceOk /\ why = "PLACE" /\ ring = <<>> /\ ~active /\ facts = <<>> /\ AtTop
            /\ ~runsOn /\ ~ingest.open
<1> USE DEF ctxVars, flagVars, ringVars, dutyVars, toolVars, core1Vars, core0Vars, settleVars,
            core1Untouched
<1>p. CASE PlaceOk
  <2>1. Mine /\ ctx = "JOB" /\ why = "PLACE" /\ place = "started" /\ c0 = "serial" /\ AtRest
    BY <1>p DEF PlaceOk, Turn, Own, Mine
  <2>2. facts = <<>> /\ AtTop /\ ~ingest.open
    BY <2>1 DEF Inv, NotOpen, Before
  <2>3. ~runsOn
    BY <2>2 DEF Inv, Core1Place
  <2> QED BY <1>p, <2>1, <2>2, <2>3 DEF AtRest
<1> SUFFICES ASSUME ~PlaceOk PROVE Own /\ (Lives \/ UNCHANGED vars)
  BY <1>p
<1>q. Own
  BY OwnBefore DEF Inv, Types
<1>r. /\ ctx = "JOB" /\ ~jobAborted /\ ~abortRequested /\ mode # "abort" /\ estop = "clear"
      /\ why \notin Before /\ why # "ABORTING" /\ c1 \notin {"dropped", "consumed"}
  BY <1>q, OwnIs
<1>w. ctx' = "JOB" /\ ~jobAborted' /\ why' \notin Before
  BY DEF Own, Mine
<1>1. ~AbortDrops
  BY <1>r, <1>w DEF AbortDrops
<1>2. ~AbortConsumed
  BY <1>r, <1>w DEF AbortConsumed
<1>3. ~EstopSweep
  BY <1>r, <1>w DEF EstopSweep
<1>4. ~EstopReturns
  BY <1>r, <1>w DEF EstopReturns, Returns
<1>5. ~Publish
  BY <1>r, <1>w DEF Publish, AbortSettle, SettleDue, QueueLift
<1>6. ~ObserveToolFailed
  BY <1>r, <1>w DEF ObserveToolFailed, Observes, RaiseFault
<1>7. ~OpenJob
  BY <1>r, <1>w DEF OpenJob, Turn, Before
<1>8. ~PreflightPasses
  BY <1>r, <1>w DEF PreflightPasses, Turn, Before
<1>9. ~PreflightFails
  BY <1>r, <1>w DEF PreflightFails, Serves, Turn
<1>10. ~Abort
  BY <1>r, <1>w DEF Abort, Serves, Turn
<1>11. ~Cancel
  BY <1>r, <1>w DEF Cancel, Serves, Turn
<1>12. ~Stop
  BY <1>r, <1>w DEF Stop, Serves, Turn
<1>13. ~Unstop
  BY <1>r, <1>w DEF Unstop, Serves, Turn
<1>14. ~Unalarm
  BY <1>r, <1>w DEF Unalarm, Serves, Turn
<1>15. ~Reset
  BY <1>r, <1>w DEF Reset, Serves, Turn
<1> QED BY <1>q, <1>1, <1>2, <1>3, <1>4, <1>5, <1>6, <1>7, <1>8, <1>9, <1>10, <1>11, <1>12, <1>13,
          <1>14, <1>15
        DEF Next, Host, Pass, Core1, Observe, Settled, Lives

----------------------------------------------------------------------------
(* The reports and what they say.                                          *)

(* Where Core 1 is while only failures wait to be read.                     *)
LEMMA Quiet ==
  ASSUME Inv, Own
  PROVE  /\ c1 \in {"tick", "settle", "drained"} => Failures
         /\ c1 = "top" /\ (ring # <<>> \/ active \/ why # "HOLDING") => Failures
         /\ c1 = "look" /\ ~dutyWait => Failures
         /\ c0 = "unwait" => Failures
<1>1. \A i \in 1 .. Len(facts) : facts[i] \in FactNames
  BY DEF Inv, Types, FactTypes
<1>2. \A i \in 1 .. Len(facts) : ReportTrue(i)
  BY DEF Inv, FactsTrue
<1>3. c1 = "drained" \/ c0 = "unwait" => Failures
  BY DEF Inv, DrainedTrue, UnwaitTrue
<1>4. \/ c1 \in {"tick", "settle"}
      \/ c1 = "top" /\ (ring # <<>> \/ active \/ why # "HOLDING")
      \/ c1 = "look" /\ ~dutyWait
      => Failures
  BY <1>1, <1>2 DEF ReportTrue, FactNames, Failures, AtRest
<1> QED BY <1>3, <1>4

LEMMA FailuresTrue ==
  ASSUME Failures'
  PROVE  \A i \in 1 .. Len(facts') : ReportTrue(i)'
  BY DEF Failures, ReportTrue

(* One report after failures is the only one of its kind.                   *)
LEMMA OneReport ==
  ASSUME FactTypes, Failures, NEW f \in FactNames, Report(f)
  PROVE  /\ \A i \in 1 .. Len(facts') :
              IF i = Len(facts') THEN facts'[i] = f /\ Only(i)' ELSE facts'[i] = "TOOL_FAILED"
         /\ f = "TOOL_FAILED" => Failures'
<1>1. /\ Len(facts) \in Nat /\ Len(facts') = Len(facts) + 1 /\ facts'[Len(facts')] = f
      /\ \A i \in 1 .. Len(facts) : facts'[i] = facts[i]
  BY ReportIs DEF FactTypes
<1>2. \A i \in 1 .. Len(facts') : i # Len(facts') => facts'[i] = "TOOL_FAILED"
  BY <1>1 DEF Failures
<1>3. \A i \in 1 .. Len(facts') : i = Len(facts') => Only(i)'
  BY <1>2 DEF Only
<1> QED BY <1>1, <1>2, <1>3 DEF Failures

(* The only report of its kind is read.                                     *)
LEMMA ReportRead ==
  ASSUME FactTypes, facts # <<>>, facts' = Tail(facts), Only(1)
  PROVE  Failures'
<1>1. \A i \in 1 .. Len(facts') : facts'[i] = facts[i + 1] /\ i + 1 \in 1 .. Len(facts)
  BY Popped DEF FactTypes
<1> QED BY <1>1 DEF Failures, Only

(* What the oldest report says when it is read.                             *)
LEMMA OldestIs ==
  ASSUME Inv, Own, NEW f, Observes(f)
  PROVE  /\ facts # <<>> /\ facts' = Tail(facts) /\ facts[1] = f /\ c0 = "observe"
         /\ ReportTrue(1) /\ 1 \in 1 .. Len(facts)
         /\ f \in {"HELD", "DRAINED", "DUTY_HELD"} => Only(1) /\ Failures'
<1>1. facts # <<>> /\ facts' = Tail(facts) /\ Head(facts) = f /\ c0 = "observe"
  BY DEF Observes
<1>2. Head(facts) = facts[1] /\ 1 \in 1 .. Len(facts)
  BY <1>1, HeadFact DEF Inv, Types
<1>3. ReportTrue(1)
  BY <1>2 DEF Inv, FactsTrue
<1>4. f \in {"HELD", "DRAINED", "DUTY_HELD"} => Only(1)
  BY <1>1, <1>2, <1>3 DEF ReportTrue
<1>5. FactTypes
  BY DEF Inv, Types
<1> QED BY <1>1, <1>2, <1>3, <1>4, <1>5, ReportRead

(* What a record adds, behind what is there.                                *)
LEMMA QueuedIs ==
  ASSUME Inv, QueueRecord
  PROVE  \E brk \in Breaks, end \in BOOLEAN :
           LET start == ~ingest.inContour
               b == RecordBlocks(start, brk, end)
               l == Lead(start, brk)
               n == Len(l) + 1
           IN /\ start => brk = "none"
              /\ ring \in Seq(Blocks) /\ b \in Seq(Blocks) /\ Len(ring) \in Nat /\ Len(b) \in Nat
              /\ ring' \in Seq(Blocks) /\ Len(ring') = Len(ring) + Len(b)
              /\ \A i \in 1 .. Len(ring) : ring'[i] = ring[i]
              /\ \A i \in 1 .. Len(b) : ring'[Len(ring) + i] = b[i]
              /\ ring # <<>> => ring' # <<>> /\ ring'[1] = ring[1]
              /\ ingest'.open /\ ingest'.inContour = ~end
<1>1. PICK brk \in Breaks, end \in BOOLEAN :
        /\ ~ingest.inContour => brk = "none"
        /\ ring' = ring \o RecordBlocks(~ingest.inContour, brk, end)
        /\ ingest' = [open |-> TRUE, next |-> ingest.next + 1, inContour |-> ~end,
                      first |-> FALSE, trim |-> 0]
  BY DEF QueueRecord, Breaks
<1> DEFINE b == RecordBlocks(~ingest.inContour, brk, end)
<1>2. b \in Seq(Blocks) /\ Len(b) \in Nat
  <2>1. JobTypes /\ ingest.next <= Records /\ (~ingest.inContour) \in BOOLEAN
    BY DEF QueueRecord, Inv, Types
  <2> QED BY <1>1, <2>1, RecordIs DEF RecordShape
<1>3. ring \in Seq(Blocks) /\ Len(ring) \in Nat
  BY DEF Inv, Types, RingTypes
<1>4. ring' = ring \o b
  BY <1>1
<1> HIDE DEF b
<1>5. ring' \in Seq(Blocks) /\ Len(ring') = Len(ring) + Len(b)
      /\ \A i \in 1 .. Len(ring') : ring'[i] = IF i <= Len(ring) THEN ring[i] ELSE b[i - Len(ring)]
  <2>1. ring \o b \in Seq(Blocks) /\ Len(ring \o b) = Len(ring) + Len(b)
        /\ \A i \in 1 .. Len(ring \o b) :
             (ring \o b)[i] = IF i <= Len(ring) THEN ring[i] ELSE b[i - Len(ring)]
    BY <1>2, <1>3, Joined
  <2> QED BY <1>4, <2>1
<1>6. /\ \A i \in 1 .. Len(ring) : ring'[i] = ring[i]
      /\ \A i \in 1 .. Len(b) : ring'[Len(ring) + i] = b[i]
  <2>1. ASSUME NEW i \in 1 .. Len(ring) PROVE ring'[i] = ring[i]
    <3>1. i \in 1 .. Len(ring') /\ i <= Len(ring)
      BY <1>2, <1>3, <1>5
    <3> QED BY <1>5, <3>1
  <2>2. ASSUME NEW i \in 1 .. Len(b) PROVE ring'[Len(ring) + i] = b[i]
    <3>1. /\ Len(ring) + i \in 1 .. Len(ring') /\ ~(Len(ring) + i <= Len(ring))
          /\ (Len(ring) + i) - Len(ring) = i
      BY <1>2, <1>3, <1>5
    <3> QED BY <1>5, <3>1
  <2> QED BY <2>1, <2>2
<1>7. ring # <<>> => ring' # <<>> /\ ring'[1] = ring[1]
  <2>1. ring # <<>> => Len(ring) > 0
    BY <1>3
  <2>2. ring' = <<>> => Len(ring') = 0
    OBVIOUS
  <2> QED BY <1>2, <1>3, <1>5, <1>6, <2>1, <2>2
<1> QED BY <1>1, <1>2, <1>3, <1>5, <1>6, <1>7 DEF b

(* Every report goes on being true.                                         *)
LEMMA ReportsKept ==
  ASSUME Inv, Own, Own', Lives \/ UNCHANGED vars
  PROVE  \A i \in 1 .. Len(facts') : ReportTrue(i)'
<1> USE DEF ctxVars, flagVars, ringVars, dutyVars, toolVars, core1Vars, core0Vars, settleVars,
            core1Untouched
<1>a. /\ ctx = "JOB" /\ ~jobAborted /\ ~abortRequested /\ mode # "abort" /\ estop = "clear"
      /\ why \notin Before /\ why # "ABORTING" /\ c1 \notin {"dropped", "consumed"}
      /\ why # "BUFFERING" => ingest.open
      /\ InLoop => active /\ why # "PAUSED"
      /\ InLoop => (OnPath <=> ~runsOn /\ ingest.open /\ ingest.inContour)
      /\ exec.cur => ring # <<>> /\ active
  BY OwnIs
<1>b. /\ c1 \in {"tick", "settle", "drained"} => Failures
      /\ c1 = "top" /\ (ring # <<>> \/ active \/ why # "HOLDING") => Failures
      /\ c1 = "look" /\ ~dutyWait => Failures
      /\ c0 = "unwait" => Failures
  BY Quiet
<1>c. \A i \in 1 .. Len(facts) : ReportTrue(i)
  BY DEF Inv, FactsTrue
<1>1. CASE EnterLift
  <2>1. Failures'
    BY <1>1, <1>a, <1>b DEF EnterLift, MayEnter, Enters, Failures
  <2> QED BY <2>1, FailuresTrue
<1>2. CASE EnterHeld
  <2>1. Report("HELD") /\ "HELD" \in FactNames /\ Failures /\ FactTypes
    BY <1>2, <1>a, <1>b DEF EnterHeld, MayEnter, LandHeld, FactNames, Inv, Types
  <2>2. \A i \in 1 .. Len(facts') :
          IF i = Len(facts') THEN facts'[i] = "HELD" /\ Only(i)' ELSE facts'[i] = "TOOL_FAILED"
    BY <2>1, OneReport
  <2>3. c1' = "top" /\ AtRest' /\ why' = "HOLDING"
    BY <1>2, LandHeldIs DEF EnterHeld, MayEnter, AtRest, Inv
  <2> QED BY <2>2, <2>3 DEF ReportTrue
<1>3. CASE EnterRun
  <2>1. Failures'
    BY <1>3, <1>a, <1>b DEF EnterRun, MayEnter, Enters, Failures
  <2> QED BY <2>1, FailuresTrue
<1>4. CASE Look
  <2>1. Failures'
    BY <1>4, <1>a, <1>b DEF Look, Failures
  <2> QED BY <2>1, FailuresTrue
<1>5. CASE Tick
  <2>1. Failures'
    BY <1>5, <1>a, <1>b DEF Tick, Failures
  <2> QED BY <2>1, FailuresTrue
<1>6. CASE NotSettled
  <2>1. Failures'
    BY <1>6, <1>a, <1>b DEF NotSettled, Failures
  <2> QED BY <2>1, FailuresTrue
<1>7. CASE Drained
  <2>1. Failures'
    BY <1>7, <1>a, <1>b DEF Drained, AtSettle, Failures
  <2> QED BY <2>1, FailuresTrue
<1>8. CASE DrainedReports
  <2>1. Report("DRAINED") /\ "DRAINED" \in FactNames /\ Failures /\ FactTypes
    BY <1>8, <1>a, <1>b DEF DrainedReports, Returns, FactNames, Inv, Types
  <2>2. \A i \in 1 .. Len(facts') :
          IF i = Len(facts') THEN facts'[i] = "DRAINED" /\ Only(i)' ELSE facts'[i] = "TOOL_FAILED"
    BY <2>1, OneReport
  <2>3. c1' = "top" /\ AtRest' /\ why' = "HOLDING" /\ Safe'
    BY <1>8 DEF DrainedReports, Returns, AtRest, Safe, Inv, DrainedTrue
  <2> QED BY <2>2, <2>3 DEF ReportTrue
<1>9. CASE RunsDry
  <2>1. Failures'
    BY <1>9, <1>a, <1>b DEF RunsDry, AtSettle, Returns, Failures
  <2> QED BY <2>1, FailuresTrue
<1>10. CASE LateRests
  <2>1. Failures'
    BY <1>10, <1>a, <1>b DEF LateRests, AtSettle, Returns, Failures
  <2> QED BY <2>1, FailuresTrue
<1>11. CASE DutyRests
  <2>1. Report("DUTY_HELD") /\ "DUTY_HELD" \in FactNames /\ Failures /\ FactTypes
    BY <1>11, <1>a, <1>b DEF DutyRests, AtSettle, AtSettle, FactNames, Inv, Types
  <2>2. \A i \in 1 .. Len(facts') :
          IF i = Len(facts') THEN facts'[i] = "DUTY_HELD" /\ Only(i)' ELSE facts'[i] = "TOOL_FAILED"
    BY <2>1, OneReport
  <2>3. c1' = "look" /\ dutyWait' /\ mode' = "none" /\ ~runsOn'
    BY <1>11 DEF DutyRests, AtSettle, Inv, Core1Place
  <2>4. c0' # "unwait"
    BY <1>11 DEF DutyRests, AtSettle, Inv, UnwaitTrue
  <2>5. RingTypes /\ Release /\ dutyStop' = StopPoint
    BY <1>11 DEF DutyRests, Inv, Types
  <2>6. ~exec'.cur
    BY <2>5, ReleaseIs DEF IdleExec
  <2>7. dutyStop'.cut => ring' # <<>> /\ ring'[1].kind = "cut"
    <3> SUFFICES ASSUME dutyStop'.cut PROVE ring' # <<>> /\ ring'[1].kind = "cut"
      OBVIOUS
    <3>1. ring # <<>>
      BY <2>5 DEF StopPoint, NoStop
    <3>2. Head(ring).kind = "cut"
      BY <2>5, <3>1 DEF StopPoint
    <3>3. ring[1].kind = "cut" /\ 1 \in 1 .. Len(ring)
      BY <2>5, <3>1, <3>2, HeadIs
    <3> QED BY <2>5, <3>1, <3>3, ReleaseIs
  <2> QED BY <2>2, <2>3, <2>4, <2>6, <2>7 DEF ReportTrue
<1>12. CASE PauseRests
  <2>1. Report("HELD") /\ "HELD" \in FactNames /\ Failures /\ FactTypes
    BY <1>12, <1>a, <1>b DEF PauseRests, AtSettle, Returns, LandHeld, FactNames, Inv, Types
  <2>2. \A i \in 1 .. Len(facts') :
          IF i = Len(facts') THEN facts'[i] = "HELD" /\ Only(i)' ELSE facts'[i] = "TOOL_FAILED"
    BY <2>1, OneReport
  <2>3. c1' = "top" /\ AtRest' /\ why' = "HOLDING"
    BY <1>12, LandHeldIs DEF PauseRests, Returns, AtRest, Inv
  <2> QED BY <2>2, <2>3 DEF ReportTrue
<1>13. CASE EventOff
  <2>1. Failures /\ FactTypes /\ "TOOL_FAILED" \in FactNames
    BY <1>13, <1>b DEF EventOff, EventWaits, AtSettle, FactNames, Inv, Types
  <2>2. UNCHANGED facts \/ Report("TOOL_FAILED")
    BY <1>13 DEF EventOff
  <2>3. Failures'
    BY <2>1, <2>2, OneReport DEF Failures
  <2> QED BY <2>3, FailuresTrue
<1>14. CASE EventDwell
  <2>1. Failures'
    BY <1>14, <1>a, <1>b DEF EventDwell, EventWaits, AtSettle, Failures
  <2> QED BY <2>1, FailuresTrue
<1>15. CASE EventSwitch
  <2>1. Failures /\ FactTypes /\ "TOOL_FAILED" \in FactNames
    BY <1>15, <1>b DEF EventSwitch, EventWaits, AtSettle, FactNames, Inv, Types
  <2>2. UNCHANGED facts \/ Report("TOOL_FAILED")
    BY <1>15 DEF EventSwitch
  <2>3. Failures'
    BY <2>1, <2>2, OneReport DEF Failures
  <2> QED BY <2>3, FailuresTrue
<1>16. CASE EventSettled
  <2>1. Failures'
    BY <1>16, <1>a, <1>b DEF EventSettled, EventWaits, AtSettle, Failures
  <2> QED BY <2>1, FailuresTrue
<1>17. CASE ObserveHeld
  <2>1. Observes("HELD")
    BY <1>17 DEF ObserveHeld
  <2>2. Failures'
    BY <2>1, OldestIs
  <2> QED BY <2>2, FailuresTrue
<1>18. CASE ObserveDrained
  <2>1. Observes("DRAINED")
    BY <1>18 DEF ObserveDrained
  <2>2. Failures'
    BY <2>1, OldestIs
  <2> QED BY <2>2, FailuresTrue
<1>19. CASE ObserveDutyHeld
  <2>1. Observes("DUTY_HELD")
    BY <1>19 DEF ObserveDutyHeld
  <2>2. Failures'
    BY <2>1, OldestIs
  <2> QED BY <2>2, FailuresTrue
<1>20. CASE DutyUnwaits
  <2>1. Failures'
    BY <1>20, <1>a, <1>b DEF DutyUnwaits, Failures
  <2> QED BY <2>1, FailuresTrue
<1>21. CASE ObserveEnds
  <2>1. Failures'
    BY <1>21, <1>a, <1>b DEF ObserveEnds, Failures
  <2> QED BY <2>1, FailuresTrue
<1>22. CASE QueueRecord
  <2>1. facts' = facts /\ c0' # "unwait" /\ why # "HOLDING"
    BY <1>22 DEF QueueRecord, Serves, Turn, Admits
  <2>2. ring # <<>> => ring' # <<>> /\ ring'[1] = ring[1]
    BY <1>22, QueuedIs DEF Inv
  <2> QED BY <1>22, <1>c, <2>1, <2>2 DEF QueueRecord, ReportTrue, Only
<1>23. CASE \/ PassEnds \/ OpenLayer \/ Resume \/ Pause
  BY <1>23, <1>c
     DEF PassEnds, OpenLayer, Serves, Turn, Resume, Pause, ReportTrue, Only, AtRest, Safe
<1>24. CASE UNCHANGED vars
  BY <1>24, <1>c DEF vars, ReportTrue, Only, AtRest, Safe
<1> QED BY <1>1, <1>2, <1>3, <1>4, <1>5, <1>6, <1>7, <1>8, <1>9, <1>10, <1>11, <1>12, <1>13,
          <1>14, <1>15, <1>16, <1>17, <1>18, <1>19, <1>20, <1>21, <1>22, <1>23, <1>24
        DEF Lives


(* A lift with nothing left has done all.                                   *)
LEMMA EmptyLift ==
  ASSUME Lifts, ring = <<>>, runsOn
  PROVE  why = "HOLDING" /\ (z # "cut" \/ stuck) /\ ~toolOn
<1>1. Len(ring) = 0 /\ ~(\E i \in 1 .. Len(ring) : TRUE)
  OBVIOUS
<1> QED BY <1>1 DEF Lifts

(* Core 1 waits while its duty hold is answered.                            *)
LEMMA UnwaitKept ==
  ASSUME Inv, Own, Own', Lives \/ UNCHANGED vars
  PROVE  UnwaitTrue'
<1> USE DEF ctxVars, flagVars, ringVars, dutyVars, toolVars, core1Vars, core0Vars, settleVars,
            core1Untouched,
            UnwaitTrue
<1>a. /\ ctx = "JOB" /\ ~jobAborted /\ ~abortRequested /\ mode # "abort" /\ estop = "clear"
      /\ why \notin Before /\ why # "ABORTING" /\ c1 \notin {"dropped", "consumed"}
      /\ why # "BUFFERING" => ingest.open
      /\ InLoop => active /\ why # "PAUSED"
      /\ InLoop => (OnPath <=> ~runsOn /\ ingest.open /\ ingest.inContour)
      /\ exec.cur => ring # <<>> /\ active
  BY OwnIs
<1>c. c0 = "unwait" => Failures /\ c1 = "look" /\ dutyWait /\ ~runsOn /\ ~exec.cur
  BY DEF Inv, UnwaitTrue
<1>1. CASE PassEnds
  BY <1>1 DEF PassEnds
<1>2. CASE ObserveHeld
  BY <1>2 DEF ObserveHeld, Observes
<1>3. CASE ObserveDrained
  BY <1>3 DEF ObserveDrained, Observes
<1>4. CASE ObserveDutyHeld
  <2>1. Observes("DUTY_HELD")
    BY <1>4 DEF ObserveDutyHeld
  <2>2. Failures' /\ ReportTrue(1) /\ facts[1] = "DUTY_HELD"
    BY <2>1, OldestIs
  <2> QED BY <1>4, <2>2 DEF ObserveDutyHeld, ReportTrue
<1>5. CASE DutyUnwaits
  BY <1>5 DEF DutyUnwaits
<1>6. CASE ObserveEnds
  BY <1>6 DEF ObserveEnds
<1>7. CASE OpenLayer
  BY <1>7 DEF OpenLayer, Serves, Turn
<1>8. CASE Resume
  BY <1>8 DEF Resume, Serves, Turn
<1>9. CASE QueueRecord
  BY <1>9 DEF QueueRecord, Serves, Turn
<1>10. CASE Pause
  BY <1>10 DEF Pause, Serves, Turn
<1>11. CASE \/ EnterLift \/ EnterHeld \/ EnterRun \/ Look \/ Tick \/ NotSettled \/ Drained
            \/ DrainedReports \/ RunsDry \/ LateRests \/ DutyRests \/ PauseRests \/ EventOff
            \/ EventDwell \/ EventSwitch \/ EventSettled
  BY <1>11, <1>a, <1>c
     DEF EnterLift, MayEnter, Enters, EnterHeld, LandHeld, EnterRun, Look, Tick, NotSettled,
         Drained, AtSettle, DrainedReports, Returns, RunsDry, LateRests, DutyRests, PauseRests,
         EventOff, EventWaits, EventDwell, EventSwitch, EventSettled
<1>12. CASE UNCHANGED vars
  BY <1>12, <1>c DEF vars, Failures
<1> QED BY <1>1, <1>2, <1>3, <1>4, <1>5, <1>6, <1>7, <1>8, <1>9, <1>10, <1>11, <1>12
        DEF Lives


(* A drained lift has done its work.                                        *)
LEMMA DrainedKept ==
  ASSUME Inv, Own, Own', Lives \/ UNCHANGED vars
  PROVE  DrainedTrue'
<1> USE DEF ctxVars, flagVars, ringVars, dutyVars, toolVars, core1Vars, core0Vars, settleVars,
            core1Untouched,
            DrainedTrue
<1>a. /\ ctx = "JOB" /\ ~jobAborted /\ ~abortRequested /\ mode # "abort" /\ estop = "clear"
      /\ why \notin Before /\ why # "ABORTING" /\ c1 \notin {"dropped", "consumed"}
      /\ why # "BUFFERING" => ingest.open
      /\ InLoop => active /\ why # "PAUSED"
      /\ InLoop => (OnPath <=> ~runsOn /\ ingest.open /\ ingest.inContour)
      /\ exec.cur => ring # <<>> /\ active
  BY OwnIs
<1>b. /\ c1 \in {"tick", "settle", "drained"} => Failures
      /\ c1 = "top" /\ (ring # <<>> \/ active \/ why # "HOLDING") => Failures
      /\ c1 = "look" /\ ~dutyWait => Failures
      /\ c0 = "unwait" => Failures
  BY Quiet
<1>c. c1 = "drained" => AtRest /\ Failures /\ why = "HOLDING" /\ Safe
  BY DEF Inv, DrainedTrue
<1>1. CASE EnterLift
  BY <1>1, <1>a DEF EnterLift, MayEnter, Enters
<1>2. CASE EnterHeld
  BY <1>2, <1>a DEF EnterHeld, MayEnter, LandHeld
<1>3. CASE EnterRun
  BY <1>3, <1>a DEF EnterRun, MayEnter, Enters
<1>4. CASE Look
  BY <1>4, <1>a DEF Look
<1>5. CASE Tick
  BY <1>5, <1>a DEF Tick
<1>6. CASE NotSettled
  BY <1>6, <1>a DEF NotSettled
<1>7. CASE Drained
  <2>1. Failures /\ runsOn /\ ring = <<>> /\ c1 = "settle"
    BY <1>7, <1>a, <1>b DEF Drained, AtSettle
  <2>2. why = "HOLDING" /\ (z # "cut" \/ stuck) /\ ~toolOn
    BY <2>1, EmptyLift DEF Inv, LiftTrue, Lifting
  <2>3. power => unheard
    BY <2>2 DEF Inv, Core1Place
  <2> QED BY <1>7, <2>1, <2>2, <2>3 DEF Drained, AtRest, Safe, Failures, Inv, Types, PlaceTypes
<1>8. CASE DrainedReports
  BY <1>8, <1>a DEF DrainedReports, Returns
<1>9. CASE RunsDry
  BY <1>9, <1>a DEF RunsDry, AtSettle, Returns
<1>10. CASE LateRests
  BY <1>10, <1>a DEF LateRests, AtSettle, Returns
<1>11. CASE DutyRests
  BY <1>11, <1>a DEF DutyRests, AtSettle
<1>12. CASE PauseRests
  BY <1>12, <1>a DEF PauseRests, AtSettle, Returns, LandHeld
<1>13. CASE EventOff
  BY <1>13, <1>a DEF EventOff, EventWaits, AtSettle
<1>14. CASE EventDwell
  BY <1>14, <1>a DEF EventDwell, EventWaits, AtSettle
<1>15. CASE EventSwitch
  BY <1>15, <1>a DEF EventSwitch, EventWaits, AtSettle
<1>16. CASE EventSettled
  BY <1>16, <1>a DEF EventSettled, EventWaits, AtSettle
<1>17. CASE ObserveHeld
  <2>1. Observes("HELD")
    BY <1>17 DEF ObserveHeld
  <2>2. ReportTrue(1) /\ facts[1] = "HELD"
    BY <2>1, OldestIs
  <2>3. c1 # "drained" /\ c1' = c1
    BY <1>17, <2>2 DEF ObserveHeld, ReportTrue
  <2> QED BY <2>3
<1>18. CASE ObserveDrained
  <2>1. Observes("DRAINED")
    BY <1>18 DEF ObserveDrained
  <2>2. ReportTrue(1) /\ facts[1] = "DRAINED"
    BY <2>1, OldestIs
  <2>3. c1 # "drained" /\ c1' = c1
    BY <1>18, <2>2 DEF ObserveDrained, ReportTrue
  <2> QED BY <2>3
<1>19. CASE ObserveDutyHeld
  <2>1. Observes("DUTY_HELD")
    BY <1>19 DEF ObserveDutyHeld
  <2>2. ReportTrue(1) /\ facts[1] = "DUTY_HELD"
    BY <2>1, OldestIs
  <2>3. c1 # "drained" /\ c1' = c1
    BY <1>19, <2>2 DEF ObserveDutyHeld, ReportTrue
  <2> QED BY <2>3
<1>20. CASE OpenLayer
  BY <1>20 DEF OpenLayer, Serves, Turn, Core1Prompt
<1>21. CASE Resume
  BY <1>21 DEF Resume, Serves, Turn, Core1Prompt
<1>22. CASE QueueRecord
  BY <1>22 DEF QueueRecord, Serves, Turn, Core1Prompt
<1>23. CASE Pause
  BY <1>23 DEF Pause, Serves, Turn, Core1Prompt
<1>24. CASE \/ PassEnds \/ DutyUnwaits \/ ObserveEnds
  BY <1>24, <1>a, <1>c
     DEF PassEnds, DutyUnwaits, ObserveEnds, Failures, Safe, AtRest, Core1Prompt, LandHeld,
         InLoop, Release
<1>25. CASE UNCHANGED vars
  BY <1>25, <1>c DEF vars, Failures, Safe, AtRest
<1> QED BY <1>1, <1>2, <1>3, <1>4, <1>5, <1>6, <1>7, <1>8, <1>9, <1>10, <1>11, <1>12, <1>13,
          <1>14, <1>15, <1>16, <1>17, <1>18, <1>19, <1>20, <1>21, <1>22, <1>23, <1>24, <1>25
        DEF Lives


(* A paused job is at rest and safe.                                        *)
LEMMA PausedKept ==
  ASSUME Inv, Own, Own', Lives \/ UNCHANGED vars
  PROVE  PausedTrue'
<1> USE DEF ctxVars, flagVars, ringVars, dutyVars, toolVars, core1Vars, core0Vars, settleVars,
            core1Untouched,
            PausedTrue
<1>a. /\ ctx = "JOB" /\ ~jobAborted /\ ~abortRequested /\ mode # "abort" /\ estop = "clear"
      /\ why \notin Before /\ why # "ABORTING" /\ c1 \notin {"dropped", "consumed"}
      /\ why # "BUFFERING" => ingest.open
      /\ InLoop => active /\ why # "PAUSED"
      /\ InLoop => (OnPath <=> ~runsOn /\ ingest.open /\ ingest.inContour)
      /\ exec.cur => ring # <<>> /\ active
  BY OwnIs
<1>c. why = "PAUSED" => Safe /\ AtRest
  BY DEF Inv, PausedTrue
<1>1. CASE EnterLift
  BY <1>1, <1>a DEF EnterLift, MayEnter, Enters, InLoop
<1>2. CASE EnterHeld
  BY <1>2, <1>a DEF EnterHeld, MayEnter, LandHeld
<1>3. CASE EnterRun
  BY <1>3, <1>a DEF EnterRun, MayEnter, Enters, InLoop
<1>4. CASE Look
  BY <1>4, <1>a DEF Look, InLoop
<1>5. CASE Tick
  BY <1>5, <1>a DEF Tick, InLoop
<1>6. CASE NotSettled
  BY <1>6, <1>a DEF NotSettled, InLoop
<1>7. CASE Drained
  BY <1>7, <1>a DEF Drained, AtSettle, InLoop
<1>8. CASE DrainedReports
  BY <1>8, <1>c DEF DrainedReports, Returns, AtRest, Safe
<1>9. CASE RunsDry
  BY <1>9, <1>a DEF RunsDry, AtSettle, Returns, InLoop
<1>10. CASE LateRests
  BY <1>10, <1>a DEF LateRests, AtSettle, Returns, InLoop
<1>11. CASE DutyRests
  BY <1>11, <1>a DEF DutyRests, AtSettle, InLoop
<1>12. CASE PauseRests
  BY <1>12, <1>a DEF PauseRests, AtSettle, Returns, LandHeld
<1>13. CASE EventOff
  BY <1>13, <1>a DEF EventOff, EventWaits, AtSettle, InLoop
<1>14. CASE EventDwell
  BY <1>14, <1>a DEF EventDwell, EventWaits, AtSettle, InLoop
<1>15. CASE EventSwitch
  BY <1>15, <1>a DEF EventSwitch, EventWaits, AtSettle, InLoop
<1>16. CASE EventSettled
  BY <1>16, <1>a DEF EventSettled, EventWaits, AtSettle, InLoop
<1>17. CASE PassEnds
  BY <1>17, <1>c DEF PassEnds, AtRest, Safe
<1>18. CASE ObserveHeld
  <2>1. Observes("HELD")
    BY <1>18 DEF ObserveHeld
  <2>2. AtRest /\ why = "HOLDING"
    BY <2>1, OldestIs DEF ReportTrue
  <2>5. PICK fits \in BOOLEAN :
          /\ IF LiftDue(fits) THEN QueueLift("HOLDING", fits) ELSE LandPaused /\ UNCHANGED ring
          /\ stuck' = (z = "cut" /\ ~fits)
    BY <1>18 DEF ObserveHeld
  <2>3. CASE LiftDue(fits)
    BY <2>3, <2>5 DEF QueueLift
  <2>4. CASE ~LiftDue(fits)
    <3>1. LiftBlocks(fits) = <<>>
      BY <1>a, <2>2, <2>4 DEF LiftDue
    <3>2. (z = "up" \/ stuck') /\ ~toolOn
      BY <2>5, <3>1, LiftIs DEF Inv, Types
    <3>3. power => unheard
      BY <3>2 DEF Inv, Core1Place
    <3> QED BY <1>18, <2>2, <2>4, <2>5, <3>2, <3>3 DEF ObserveHeld, AtRest, Safe
  <2> QED BY <2>3, <2>4
<1>19. CASE ObserveDrained
  <2>1. Observes("DRAINED")
    BY <1>19 DEF ObserveDrained
  <2>2. AtRest /\ Safe
    BY <2>1, OldestIs DEF ReportTrue
  <2> QED BY <1>19, <2>2 DEF ObserveDrained, AtRest, Safe
<1>20. CASE ObserveDutyHeld
  <2>1. Observes("DUTY_HELD")
    BY <1>20 DEF ObserveDutyHeld
  <2>2. c1 = "look"
    BY <2>1, OldestIs DEF ReportTrue
  <2> QED BY <1>20, <1>a, <2>2 DEF ObserveDutyHeld, InLoop
<1>21. CASE DutyUnwaits
  BY <1>21, <1>c DEF DutyUnwaits, AtRest, Safe
<1>22. CASE ObserveEnds
  BY <1>22, <1>c DEF ObserveEnds, AtRest, Safe
<1>23. CASE OpenLayer
  BY <1>23, <1>c DEF OpenLayer, Serves, Turn, AtRest, Safe
<1>24. CASE Resume
  BY <1>24 DEF Resume, Serves, Turn
<1>25. CASE QueueRecord
  BY <1>25 DEF QueueRecord, Serves, Turn, Admits
<1>26. CASE Pause
  BY <1>26, <1>c DEF Pause, Serves, Turn, AtRest, Safe
<1>27. CASE UNCHANGED vars
  BY <1>27, <1>c DEF vars, Safe, AtRest
<1> QED BY <1>1, <1>2, <1>3, <1>4, <1>5, <1>6, <1>7, <1>8, <1>9, <1>10, <1>11, <1>12, <1>13,
          <1>14, <1>15, <1>16, <1>17, <1>18, <1>19, <1>20, <1>21, <1>22, <1>23, <1>24, <1>25,
          <1>26, <1>27
        DEF Lives


(* Nothing is left to lift.                                                 *)
LEMMA NoLift ==
  ASSUME ring' = <<>>, ~runsOn', why' = "HOLDING"
  PROVE  Lifts'
<1>1. \A i \in 1 .. Len(ring') : FALSE
  BY Len(<<>>) = 0
<1> QED BY <1>1 DEF Lifts

(* Core 1 runs a lift: Z stays up once it is, and so does each block it has  *)
(* not run.                                                                 *)
LEMMA TickLifts ==
  ASSUME Inv, Own, Tick, runsOn
  PROVE  Lifts'
<1>1. Lifts /\ mode # "abort"
  BY OwnIs DEF Inv, LiftTrue, Lifting
<1>2. why' = why /\ toolOn' = toolOn /\ runsOn' = runsOn /\ stuck' = stuck
  BY DEF Tick, ctxVars, settleVars
<1>3. RingTypes /\ (ring # <<>> => Head(ring) = ring[1] /\ ring[1].kind \in {"up", "off"})
  <2>1. RingTypes
    BY DEF Inv, Types
  <2>2. ASSUME ring # <<>> PROVE Head(ring) = ring[1] /\ ring[1].kind \in {"up", "off"}
    <3>1. Head(ring) = ring[1] /\ 1 \in 1 .. Len(ring)
      BY <2>1, <2>2, HeadIs
    <3> QED BY <1>1, <3>1 DEF Lifts
  <2> QED BY <2>1, <2>2
<1>4. exec.cur => ring # <<>>
  BY <1>3 DEF RingTypes
<1>5. CASE Claim
  <2>1. ring' = ring /\ z' = z /\ ~exec'.done
    BY <1>3, <1>5 DEF Claim, RingTypes, Execs
  <2> QED BY <1>1, <1>2, <2>1 DEF Lifts, Undone
<1>6. CASE Finish
  <2>1. ring # <<>> /\ ring' = Tail(ring) /\ ~exec'.cur /\ exec.cur
    BY <1>3, <1>4, <1>6 DEF Finish, RingTypes, Execs
  <2>2. /\ Len(ring) \in Nat /\ Len(ring') = Len(ring) - 1
        /\ \A i \in 1 .. Len(ring') : ring'[i] = ring[i + 1] /\ i + 1 \in 1 .. Len(ring)
    BY <1>3, <2>1, Popped DEF RingTypes
  <2>3. \A i \in 1 .. Len(ring) : i # 1 => i - 1 \in 1 .. Len(ring') /\ ring'[i - 1] = ring[i]
    <3>1. ASSUME NEW i \in 1 .. Len(ring), i # 1
          PROVE  i - 1 \in 1 .. Len(ring') /\ (i - 1) + 1 = i
      BY <2>2, <3>1
    <3> QED BY <2>2, <3>1
  <2>4. \A i \in 1 .. Len(ring') : ring'[i].kind \in {"up", "off"}
    BY <1>1, <2>2 DEF Lifts
  <2>5. z' = "cut" /\ ~stuck' => \E i \in 1 .. Len(ring') : ring'[i].kind = "up"
    <3> SUFFICES ASSUME z' = "cut", ~stuck' PROVE \E i \in 1 .. Len(ring') : ring'[i].kind = "up"
      OBVIOUS
    <3>1. z = "cut" /\ ~stuck /\ ring[1].kind # "up"
      BY <1>2, <1>3, <1>6, <2>1 DEF Finish
    <3>2. PICK i \in 1 .. Len(ring) : ring[i].kind = "up"
      BY <1>1, <3>1 DEF Lifts
    <3> QED BY <2>3, <3>1, <3>2
  <2>6. toolOn' => \E i \in 1 .. Len(ring') : ring'[i].kind = "off" /\ Undone(i)'
    <3> SUFFICES ASSUME toolOn'
                 PROVE  \E i \in 1 .. Len(ring') : ring'[i].kind = "off" /\ Undone(i)'
      OBVIOUS
    <3>1. PICK i \in 1 .. Len(ring) : ring[i].kind = "off" /\ Undone(i)
      BY <1>1, <1>2 DEF Lifts
    <3>2. i # 1
      BY <1>3, <1>6, <2>1, <3>1 DEF Finish, Undone, Cutting
    <3>3. i - 1 \in 1 .. Len(ring') /\ ring'[i - 1].kind = "off"
      BY <2>3, <3>1, <3>2
    <3>4. Undone(i - 1)'
      BY <2>1 DEF Undone
    <3> QED BY <3>3, <3>4
  <2> QED BY <1>1, <1>2, <2>4, <2>5, <2>6 DEF Lifts
<1>7. ~Advance /\ ~AbortFindsHeld
  BY <1>1, <1>3, <1>4 DEF Advance, AbortFindsHeld, Cutting
<1>8. CASE HoldEnds \/ TickRests
  <2>1. ring' = ring /\ z' = z /\ exec'.cur = exec.cur /\ exec'.done = exec.done
    BY <1>1, <1>3, <1>8 DEF HoldEnds, TickRests, RingTypes, Execs
  <2> QED BY <1>1, <1>2, <2>1 DEF Lifts, Undone
<1> QED BY <1>5, <1>6, <1>7, <1>8 DEF Tick

(* A lift goes on until it has made the job safe.                           *)
LEMMA LiftKept ==
  ASSUME Inv, Own, Own', Lives \/ UNCHANGED vars
  PROVE  LiftTrue'
<1> USE DEF ctxVars, flagVars, ringVars, dutyVars, toolVars, core1Vars, core0Vars, settleVars,
            core1Untouched
<1>a. /\ ctx = "JOB" /\ ~jobAborted /\ ~abortRequested /\ mode # "abort" /\ estop = "clear"
      /\ why \notin Before /\ why # "ABORTING" /\ c1 \notin {"dropped", "consumed"}
      /\ why # "BUFFERING" => ingest.open
      /\ InLoop => active /\ why # "PAUSED"
      /\ InLoop => (OnPath <=> ~runsOn /\ ingest.open /\ ingest.inContour)
      /\ exec.cur => ring # <<>> /\ active
  BY OwnIs
<1>c. Lifting => Lifts
  BY DEF Inv, LiftTrue
<1> SUFFICES ASSUME Lifting' PROVE Lifts'
  BY DEF LiftTrue
<1>d. Lifting'
  OBVIOUS
<1>1. CASE EnterLift
  <2>1. Lifts /\ ring # <<>>
    BY <1>1, <1>a, <1>c DEF EnterLift, Lifting
  <2> QED BY <1>1, <2>1 DEF EnterLift, Enters, Lifts, Undone
<1>2. CASE EnterHeld
  <2>1. ring' = <<>> /\ why' = "HOLDING"
    BY <1>2, LandHeldIs DEF EnterHeld, Inv
  <2>2. ~runsOn'
    BY <1>2 DEF EnterHeld, MayEnter, Returns, Inv, Core1Place, AtTop
  <2> QED BY <2>1, <2>2, NoLift
<1>3. CASE EnterRun
  BY <1>3, <1>a DEF EnterRun, MayEnter, Enters, Lifting
<1>4. CASE Look
  <2>1. runsOn' = runsOn /\ active' = active /\ ring' = ring /\ active
    BY <1>4, <1>a DEF Look, InLoop
  <2>2. Lifts /\ runsOn
    BY <1>c, <1>d, <2>1 DEF Lifting
  <2>3. exec'.cur = exec.cur /\ exec'.done = exec.done
    <3>1. Hold(exec).cur = exec.cur /\ Hold(exec).done = exec.done
      BY DEF Hold, Inv, Types, RingTypes, Execs
    <3> QED BY <1>4, <3>1 DEF Look
  <2>4. why' = why
    BY <1>4, <1>a, <2>2 DEF Look
  <2> QED BY <1>4, <2>1, <2>2, <2>3, <2>4 DEF Look, Lifts, Undone
<1>5. CASE Tick
  <2>1. runsOn
    BY <1>5, <1>a, <1>d DEF Tick, Lifting, InLoop
  <2> QED BY <1>5, <2>1, TickLifts
<1>6. CASE Drained
  <2>1. Lifts /\ runsOn
    BY <1>6, <1>a, <1>c DEF Drained, AtSettle, Lifting
  <2> QED BY <1>6, <2>1 DEF Drained, Lifts, Undone
<1>7. CASE DrainedReports
  <2>1. ring' = <<>> /\ why' = "HOLDING" /\ ~runsOn'
    BY <1>7 DEF DrainedReports, Returns, Inv, DrainedTrue, AtRest
  <2> QED BY <2>1, NoLift
<1>8. CASE RunsDry
  BY <1>8, <1>a DEF RunsDry, AtSettle, Returns, Lifting
<1>9. CASE LateRests
  <2>1. runsOn /\ runsOn' /\ why' = why /\ toolOn' = toolOn /\ z' = z /\ stuck' = stuck
    BY <1>9, <1>d DEF LateRests, AtSettle, Returns, Lifting
  <2>2. Lifts /\ RingTypes /\ Release
    BY <1>9, <1>c, <2>1 DEF Lifting, LateRests, Inv, Types
  <2>3. /\ Len(ring') = Len(ring) /\ (ring' = <<>> <=> ring = <<>>)
        /\ \A i \in 1 .. Len(ring) : ring'[i].kind = ring[i].kind
    BY <2>2, ReleaseIs
  <2>4. ~exec'.cur
    BY <2>2, ReleaseIs DEF IdleExec
  <2> QED BY <2>1, <2>2, <2>3, <2>4 DEF Lifts, Undone
<1>10. CASE DutyRests
  <2>1. ~runsOn /\ active
    BY <1>10, <1>a DEF DutyRests, AtSettle, Inv, Core1Place, InLoop
  <2> QED BY <1>10, <1>d, <2>1 DEF DutyRests, Lifting
<1>11. CASE PauseRests
  <2>1. ring' = <<>> /\ why' = "HOLDING"
    BY <1>11, LandHeldIs DEF PauseRests, Inv
  <2>2. ~runsOn'
    BY <1>11 DEF PauseRests, MayEnter, Returns, Inv, Core1Place, AtTop
  <2> QED BY <2>1, <2>2, NoLift
<1>12. CASE EventOff
  <2>1. runsOn
    BY <1>12, <1>a, <1>d DEF EventOff, EventWaits, AtSettle, InLoop, Lifting
  <2>2. Lifts
    BY <1>c, <2>1 DEF Lifting
  <2> QED BY <1>12, <2>2 DEF EventOff, Lifts
<1>13. CASE EventDwell
  <2>1. active /\ active' = active /\ runsOn' = runsOn /\ c1 = "settle" /\ exec.cur
    BY <1>13, <1>a DEF EventDwell, EventWaits, AtSettle, InLoop
  <2>2. Lifts /\ Head(ring).kind = "on"
    BY <1>13, <1>c, <1>d, <2>1 DEF EventDwell, EventWaits, Lifting
  <2>3. ring # <<>> /\ Head(ring) = ring[1] /\ 1 \in 1 .. Len(ring)
    BY <1>a, <2>1, HeadIs DEF Inv, Types
  <2> QED BY <2>2, <2>3 DEF Lifts
<1>14. CASE EventSwitch
  <2>1. active /\ active' = active /\ runsOn' = runsOn /\ c1 = "settle" /\ exec.cur
    BY <1>14, <1>a DEF EventSwitch, EventWaits, AtSettle, InLoop
  <2>2. Lifts /\ Head(ring).kind = "on"
    BY <1>14, <1>c, <1>d, <2>1 DEF EventSwitch, EventWaits, Lifting
  <2>3. ring # <<>> /\ Head(ring) = ring[1] /\ 1 \in 1 .. Len(ring)
    BY <1>a, <2>1, HeadIs DEF Inv, Types
  <2> QED BY <2>2, <2>3 DEF Lifts
<1>15. CASE EventSettled
  <2>1. active /\ active' = active /\ runsOn' = runsOn /\ c1 = "settle" /\ exec.cur
    BY <1>15, <1>a DEF EventSettled, EventWaits, AtSettle, InLoop
  <2>2. Lifts /\ Head(ring).kind = "on"
    BY <1>15, <1>c, <1>d, <2>1 DEF EventSettled, EventWaits, Lifting
  <2>3. ring # <<>> /\ Head(ring) = ring[1] /\ 1 \in 1 .. Len(ring)
    BY <1>a, <2>1, HeadIs DEF Inv, Types
  <2> QED BY <2>2, <2>3 DEF Lifts
<1>16. CASE ObserveHeld
  <2>1. Observes("HELD")
    BY <1>16 DEF ObserveHeld
  <2>2. AtRest /\ why = "HOLDING" /\ c1 = "top"
    BY <2>1, OldestIs DEF ReportTrue
  <2>5. ~runsOn'
    BY <1>16, <2>2 DEF ObserveHeld, Inv, Core1Place, AtTop
  <2>6. why' = "HOLDING"
    BY <1>d, <2>5 DEF Lifting
  <2>7. PICK fits \in BOOLEAN :
          /\ IF LiftDue(fits) THEN QueueLift("HOLDING", fits) ELSE LandPaused /\ UNCHANGED ring
          /\ stuck' = (z = "cut" /\ ~fits)
    BY <1>16 DEF ObserveHeld
  <2>3. ring' = LiftBlocks(fits)
    BY <1>a, <2>2, <2>6, <2>7 DEF LandPaused, QueueLift
  <2>4. ~exec'.cur /\ z' = z /\ toolOn' = toolOn
    BY <1>16, <1>a, <2>2 DEF ObserveHeld, AtRest
  <2> QED BY <2>3, <2>4, <2>6, <2>7, LiftIs DEF Inv, Types, Lifts, Undone
<1>17. CASE ObserveDrained
  <2>1. Observes("DRAINED")
    BY <1>17 DEF ObserveDrained
  <2>2. AtRest /\ why = "HOLDING" /\ c1 = "top"
    BY <2>1, OldestIs DEF ReportTrue
  <2> QED BY <1>17, <1>a, <1>d, <2>2 DEF ObserveDrained, LandPaused, Lifting, Inv, Core1Place, AtTop
<1>18. CASE ObserveDutyHeld
  <2>1. Observes("DUTY_HELD")
    BY <1>18 DEF ObserveDutyHeld
  <2>2. c1 = "look" /\ ~runsOn
    BY <2>1, OldestIs DEF ReportTrue
  <2> QED BY <1>18, <1>a, <1>d, <2>2 DEF ObserveDutyHeld, InLoop, Lifting
<1>19. CASE Resume
  <2>1. ~runsOn
    BY <1>19, <1>c DEF Resume, Lifting, Lifts
  <2> QED BY <1>19, <1>d, <2>1 DEF Resume, Serves, Turn, Lifting
<1>20. CASE QueueRecord
  <2>1. ~runsOn /\ why # "HOLDING"
    BY <1>20, <1>c DEF QueueRecord, Admits, Lifting, Lifts
  <2> QED BY <1>20, <1>d, <2>1 DEF QueueRecord, Serves, Turn, Lifting
<1>21. CASE \/ NotSettled \/ PassEnds \/ DutyUnwaits \/ ObserveEnds \/ OpenLayer \/ Pause
  BY <1>21, <1>c, <1>d
     DEF NotSettled, PassEnds, DutyUnwaits, ObserveEnds, OpenLayer, Serves, Turn, Pause,
         Lifting, Lifts, Undone
<1>22. CASE UNCHANGED vars
  BY <1>22, <1>c, <1>d DEF vars, Lifting, Lifts, Undone
<1> QED BY <1>1, <1>2, <1>3, <1>4, <1>5, <1>6, <1>7, <1>8, <1>9, <1>10, <1>11, <1>12, <1>13,
          <1>14, <1>15, <1>16, <1>17, <1>18, <1>19, <1>20, <1>21, <1>22
        DEF Lives


----------------------------------------------------------------------------
(* The ring and the plunge.                                                *)

(* The kinds of the blocks a record adds: its lead, the n-th of them its     *)
(* cut, and its trail.                                                      *)
Adds(n) ==
  LET k == Len(ring)
      t == Len(ring')
  IN /\ k \in Nat /\ t \in Nat /\ n > 0 /\ k + n <= t
     /\ ring'[k + n].kind = "cut"
     /\ \A i \in 1 .. n - 1 : ring'[k + i].kind # "cut"
     /\ n > 1 => n > 2 /\ ring'[k + 1].kind = "up" /\ ring'[k + (n - 1)].kind = "down"
     /\ \A i \in 1 .. n - 2 : ring'[k + (i + 1)].kind = "down" =>
           \/ ring'[k + i].kind = "on"
           \/ ring'[k + i].kind = "up" /\ i = 1 /\ ingest.inContour
     /\ \A i \in k + n + 1 .. t : ring'[i].kind \in {"up", "off"}
     /\ ingest'.inContour => t = k + n
     /\ ~ingest.inContour => n > 2 /\ ring'[k + 2].kind = "on"
     /\ \A i \in 1 .. k : ring'[i] = ring[i]
     /\ ring' \in Seq(Blocks)
     /\ ring'[k + n].record = ingest.next /\ ring'[k + n].s = NextTrim
     /\ \A i \in 1 .. n - 1 :
           ring'[k + i].record = ingest.next /\ ring'[k + i].s = 0
     /\ \A i \in k + n + 1 .. t :
           ring'[i].record = ingest.next + 1 /\ ring'[i].s = 0

LEMMA AddedIs ==
  ASSUME Inv, QueueRecord
  PROVE  \E n \in Nat : Adds(n)
<1>1. PICK brk \in Breaks, end \in BOOLEAN :
           LET start == ~ingest.inContour
               b == RecordBlocks(start, brk, end)
               l == Lead(start, brk)
               n == Len(l) + 1
           IN /\ start => brk = "none"
              /\ ring \in Seq(Blocks) /\ b \in Seq(Blocks) /\ Len(ring) \in Nat /\ Len(b) \in Nat
              /\ ring' \in Seq(Blocks) /\ Len(ring') = Len(ring) + Len(b)
              /\ \A i \in 1 .. Len(ring) : ring'[i] = ring[i]
              /\ \A i \in 1 .. Len(b) : ring'[Len(ring) + i] = b[i]
              /\ ring # <<>> => ring' # <<>> /\ ring'[1] = ring[1]
              /\ ingest'.open /\ ingest'.inContour = ~end
  BY QueuedIs
<1> DEFINE start == ~ingest.inContour
           b == RecordBlocks(start, brk, end)
           l == Lead(start, brk)
           n == Len(l) + 1
           k == Len(ring)
<1>2. /\ JobTypes /\ ingest.next <= Records /\ start \in BOOLEAN /\ (start => brk = "none")
  BY <1>1 DEF QueueRecord, Inv, Types
<1>0. RecordShape(b, l, end)
  BY <1>1, <1>2, RecordIs
<1>3. /\ b \in Seq(Blocks) /\ Len(b) \in Nat /\ Len(b) > 0 /\ n \in 1 .. Len(b)
      /\ b[n].kind = "cut" /\ b[n].record = ingest.next /\ b[n].s = NextTrim
      /\ \A i \in 1 .. n - 1 : b[i].kind = l[i] /\ b[i].record = ingest.next /\ b[i].s = 0
      /\ \A i \in n + 1 .. Len(b) :
            b[i].kind \in {"up", "off"} /\ b[i].record = ingest.next + 1 /\ b[i].s = 0
      /\ ~end => Len(b) = n
  BY <1>0 DEF RecordShape
<1>4. /\ l \in Seq(Kinds) /\ Len(l) \in 0 .. 4
      /\ \A i \in 1 .. Len(l) : l[i] # "cut"
      /\ Len(l) > 0 => l[Len(l)] = "down" /\ l[1] = "up" /\ Len(l) > 1
      /\ \A i \in 1 .. Len(l) - 1 :
            l[i + 1] = "down" => l[i] = "on" \/ (l[i] = "up" /\ i = 1 /\ ~start)
      /\ start => Len(l) > 0 /\ l[2] = "on"
  <2>1. LeadShape(l, start)
    BY <1>1, <1>2, LeadIs
  <2> QED BY <2>1 DEF LeadShape
<1>5. /\ k \in Nat /\ Len(ring') = k + Len(b) /\ ring' \in Seq(Blocks)
      /\ \A i \in 1 .. k : ring'[i] = ring[i]
      /\ \A i \in 1 .. Len(b) : ring'[k + i] = b[i]
      /\ ingest'.inContour = ~end
  BY <1>1
<1> HIDE DEF b, l, k
<1>6. n \in Nat /\ n > 0 /\ k + n <= Len(ring') /\ Len(ring') \in Nat /\ ring'[k + n].kind = "cut"
      /\ ring'[k + n].record = ingest.next /\ ring'[k + n].s = NextTrim
  BY <1>3, <1>4, <1>5
<1>7. \A i \in 1 .. n - 1 :
        ring'[k + i].kind = l[i] /\ ring'[k + i].record = ingest.next /\ ring'[k + i].s = 0
  <2>1. ASSUME NEW i \in 1 .. n - 1 PROVE i \in 1 .. Len(b)
    BY <1>3, <1>4
  <2> QED BY <1>3, <1>5, <2>1
<1>8. \A i \in 1 .. n - 1 : ring'[k + i].kind # "cut"
  BY <1>4, <1>7
<1>9. n > 1 => n > 2 /\ ring'[k + 1].kind = "up" /\ ring'[k + (n - 1)].kind = "down"
  BY <1>4, <1>7
<1>10. \A i \in 1 .. n - 2 : ring'[k + (i + 1)].kind = "down" =>
          \/ ring'[k + i].kind = "on"
          \/ ring'[k + i].kind = "up" /\ i = 1 /\ ingest.inContour
  <2>1. ASSUME NEW i \in 1 .. n - 2
        PROVE  /\ ring'[k + i].kind = l[i] /\ ring'[k + (i + 1)].kind = l[i + 1]
               /\ i \in 1 .. Len(l) - 1
    BY <1>4, <1>7
  <2> QED BY <1>4, <2>1
<1>11. \A i \in k + n + 1 .. Len(ring') :
         ring'[i].kind \in {"up", "off"} /\ ring'[i].record = ingest.next + 1 /\ ring'[i].s = 0
  <2>1. ASSUME NEW i \in k + n + 1 .. Len(ring')
        PROVE  /\ ring'[i].kind \in {"up", "off"}
               /\ ring'[i].record = ingest.next + 1 /\ ring'[i].s = 0
    <3>1. i - k \in n + 1 .. Len(b) /\ i - k \in 1 .. Len(b) /\ k + (i - k) = i
      BY <1>3, <1>4, <1>5
    <3>2. ring'[i] = b[i - k]
      BY <1>5, <3>1
    <3> QED BY <1>3, <3>1, <3>2
  <2> QED BY <2>1
<1>12. ingest'.inContour => Len(ring') = k + n
  BY <1>3, <1>5
<1>13. ~ingest.inContour => n > 2 /\ ring'[k + 2].kind = "on"
  <2>1. ~ingest.inContour => Len(l) > 1 /\ l[2] = "on"
    BY <1>4
  <2> QED BY <1>4, <1>7, <2>1
<1> HIDE DEF n
<1>14. Adds(n)
  BY <1>5, <1>6, <1>7, <1>8, <1>9, <1>10, <1>11, <1>12, <1>13 DEF k, Adds
<1> QED BY <1>6, <1>14

(* A record of a contour joins one that ends in a cut.                      *)
LEMMA JoinsCut ==
  ASSUME Inv, Own, QueueRecord, ingest.inContour
  PROVE  IF ring = <<>> THEN z = "cut" /\ power ELSE ring[Len(ring)].kind = "cut"
<1>1. OnPath
  BY DEF OnPath, Stopping, QueueRecord, Admits
<1> QED BY <1>1 DEF Inv, TailReady

LEMMA SameKinds ==
  ASSUME ring \in Seq(Blocks), Len(ring') = Len(ring),
         \A i \in 1 .. Len(ring) : ring'[i].kind = ring[i].kind,
         \A i \in 1 .. (Len(ring) - 1) : Plunged(i)
  PROVE  \A i \in 1 .. (Len(ring') - 1) : Plunged(i)'
<1> SUFFICES ASSUME NEW i \in 1 .. (Len(ring') - 1) PROVE Plunged(i)'
  OBVIOUS
<1>1. i \in 1 .. Len(ring) /\ i + 1 \in 1 .. Len(ring) /\ (i > 1 => i - 1 \in 1 .. Len(ring))
  OBVIOUS
<1> QED BY <1>1 DEF Plunged

(* A duty lift, ahead of the cut it interrupted.                            *)
LEMMA LiftedIs ==
  ASSUME Inv, Own, ObserveDutyHeld, ring' # ring
  PROVE  /\ ring # <<>> /\ ring[1].kind = "cut" /\ Len(ring') = 4 + Len(ring)
         /\ ring'[1].kind = "up" /\ ring'[2].kind = "off" /\ ring'[3].kind = "on"
         /\ ring'[4].kind = "down" /\ ring' \in Seq(Blocks)
         /\ \A i \in {1, 2, 3, 4} :
               ring'[i].record = dutyStop.record /\ ring'[i].s = dutyStop.s
         /\ \A i \in 1 .. Len(ring) : ring'[4 + i] = ring[i]
<1> DEFINE b == DutyBlocks(dutyStop)
<1>1. dutyStop.cut /\ ring' = b \o ring
  BY DEF ObserveDutyHeld
<1>2. ring # <<>> /\ ring[1].kind = "cut"
  <2>1. Observes("DUTY_HELD")
    BY DEF ObserveDutyHeld
  <2> QED BY <1>1, <2>1, OldestIs DEF ReportTrue
<1>3. /\ b \in Seq(Blocks) /\ Len(b) = 4
      /\ b[1].kind = "up" /\ b[2].kind = "off" /\ b[3].kind = "on" /\ b[4].kind = "down"
      /\ \A i \in {1, 2, 3, 4} : b[i].record = dutyStop.record /\ b[i].s = dutyStop.s
  <2>1. dutyStop \in Stops
    BY DEF Inv, Types, FactTypes
  <2>2. b \in Seq(Blocks) /\ Len(b) = 4
        /\ \A i \in 1 .. 4 : /\ b[i].kind = DutyKinds[i]
                             /\ b[i].record = dutyStop.record /\ b[i].s = dutyStop.s
    BY <2>1, DutyIs
  <2> QED BY <2>2 DEF DutyKinds
<1>4. ring \in Seq(Blocks) /\ Len(ring) \in Nat
  BY DEF Inv, Types, RingTypes
<1> HIDE DEF b
<1>5. /\ ring' \in Seq(Blocks) /\ Len(ring') = 4 + Len(ring)
      /\ \A i \in 1 .. Len(ring') : ring'[i] = IF i <= 4 THEN b[i] ELSE ring[i - 4]
  <2>1. /\ b \o ring \in Seq(Blocks) /\ Len(b \o ring) = Len(b) + Len(ring)
        /\ \A i \in 1 .. Len(b \o ring) :
             (b \o ring)[i] = IF i <= Len(b) THEN b[i] ELSE ring[i - Len(b)]
    BY <1>3, <1>4, Joined
  <2> QED BY <1>1, <1>3, <2>1
<1>6. ring'[1] = b[1] /\ ring'[2] = b[2] /\ ring'[3] = b[3] /\ ring'[4] = b[4]
  BY <1>4, <1>5
<1>7. ASSUME NEW i \in 1 .. Len(ring) PROVE ring'[4 + i] = ring[i]
  <2>1. 4 + i \in 1 .. Len(ring') /\ ~(4 + i <= 4) /\ (4 + i) - 4 = i
    BY <1>4, <1>5
  <2> QED BY <1>5, <2>1
<1> QED BY <1>2, <1>3, <1>5, <1>6, <1>7

(* What follows what stays so, however the ring is built.                    *)
LEMMA AheadKept ==
  ASSUME Inv, Own, Own', Lives \/ UNCHANGED vars
  PROVE  \A i \in 1 .. (Len(ring') - 1) : Plunged(i)'
<1> USE DEF ctxVars, flagVars, ringVars, dutyVars, toolVars, core1Vars, core0Vars, settleVars,
            core1Untouched
<1>a. /\ ctx = "JOB" /\ ~jobAborted /\ ~abortRequested /\ mode # "abort" /\ estop = "clear"
      /\ why \notin Before /\ why # "ABORTING" /\ c1 \notin {"dropped", "consumed"}
      /\ why # "BUFFERING" => ingest.open
      /\ InLoop => active /\ why # "PAUSED"
      /\ InLoop => (OnPath <=> ~runsOn /\ ingest.open /\ ingest.inContour)
      /\ exec.cur => ring # <<>> /\ active
  BY OwnIs
<1>c. \A i \in 1 .. (Len(ring) - 1) : Plunged(i)
  BY DEF Inv, Ahead
<1>d. ring \in Seq(Blocks) /\ Len(ring) \in Nat
  BY DEF Inv, Types, RingTypes
<1>1. CASE EnterHeld
  <2>1. ring' = <<>>
    BY <1>1, LandHeldIs DEF EnterHeld, Inv
  <2>2. Len(ring') = 0
    BY <2>1
  <2> QED BY <2>2
<1>2. CASE Tick
  <2>1. CASE Finish
    <3>1. ring # <<>> /\ ring' = Tail(ring)
      BY <1>a, <2>1 DEF Finish
    <3>2. /\ Len(ring') = Len(ring) - 1
          /\ \A i \in 1 .. Len(ring') : ring'[i] = ring[i + 1] /\ i + 1 \in 1 .. Len(ring)
      BY <1>d, <3>1, Popped
    <3> SUFFICES ASSUME NEW i \in 1 .. (Len(ring') - 1) PROVE Plunged(i)'
      OBVIOUS
    <3>3. /\ i \in 1 .. Len(ring') /\ i + 1 \in 1 .. Len(ring') /\ i + 1 \in 1 .. (Len(ring) - 1)
          /\ i + 1 > 1 /\ (i + 1) - 1 = i /\ (i > 1 => i - 1 \in 1 .. Len(ring') /\ (i - 1) + 1 = i)
      BY <1>d, <3>2
    <3>4. Plunged(i + 1)
      BY <1>c, <3>3
    <3> QED BY <3>2, <3>3, <3>4 DEF Plunged
  <2>2. CASE ~Finish
    <3>1. ring' = ring
      BY <1>2, <1>a, <2>2 DEF Tick, Claim, Advance, HoldEnds, AbortFindsHeld, TickRests
    <3> QED BY <1>c, <3>1 DEF Plunged
  <2> QED BY <2>1, <2>2
<1>3. CASE LateRests
  <2>1. RingTypes /\ Release
    BY <1>3 DEF LateRests, Inv, Types
  <2>2. Len(ring') = Len(ring) /\ \A i \in 1 .. Len(ring) : ring'[i].kind = ring[i].kind
    BY <2>1, ReleaseIs
  <2> QED BY <1>c, <1>d, <2>2, SameKinds
<1>4. CASE DutyRests
  <2>1. RingTypes /\ Release
    BY <1>4 DEF DutyRests, Inv, Types
  <2>2. Len(ring') = Len(ring) /\ \A i \in 1 .. Len(ring) : ring'[i].kind = ring[i].kind
    BY <2>1, ReleaseIs
  <2> QED BY <1>c, <1>d, <2>2, SameKinds
<1>5. CASE PauseRests
  <2>1. ring' = <<>>
    BY <1>5, LandHeldIs DEF PauseRests, Inv
  <2>2. Len(ring') = 0
    BY <2>1
  <2> QED BY <2>2
<1>6. CASE ObserveHeld
  <2>1. ring' = ring \/ \E fits \in BOOLEAN : ring' = LiftBlocks(fits)
    BY <1>6 DEF ObserveHeld, QueueLift
  <2>2. CASE ring' = ring
    BY <1>c, <2>2 DEF Plunged
  <2>3. CASE \E fits \in BOOLEAN : ring' = LiftBlocks(fits)
    <3>1. ring' \in Seq(Blocks) /\ \A i \in 1 .. Len(ring') : ring'[i].kind \in {"up", "off"}
      BY <2>3, LiftIs DEF Inv, Types
    <3>2. \A i \in 1 .. (Len(ring') - 1) : ring'[i + 1].kind \in {"up", "off"}
      <4>1. Len(ring') \in Nat
        BY <3>1
      <4> QED BY <3>1, <4>1
    <3> QED BY <3>2 DEF Plunged
  <2> QED BY <2>1, <2>2, <2>3
<1>7. CASE ObserveDutyHeld
  <2>1. CASE ring' = ring
    BY <1>c, <2>1 DEF Plunged
  <2>2. CASE ring' # ring
    <3> DEFINE k(i) == ring'[i].kind
    <3>1. /\ ring # <<>> /\ ring[1].kind = "cut" /\ Len(ring') = 4 + Len(ring)
          /\ k(1) = "up" /\ k(2) = "off" /\ k(3) = "on" /\ k(4) = "down"
          /\ \A i \in 1 .. Len(ring) : ring'[4 + i] = ring[i]
      BY <1>7, <2>2, LiftedIs
    <3> SUFFICES ASSUME NEW i \in 1 .. (Len(ring') - 1) PROVE Plunged(i)'
      OBVIOUS
    <3>2. CASE i \in {1, 2, 3}
      BY <3>1, <3>2 DEF Plunged
    <3>3. CASE i = 4
      <4>1. ring'[5] = ring[1]
        <5>1. 1 \in 1 .. Len(ring) /\ 4 + 1 = 5
          BY <3>1, HeadIs DEF Inv, Types
        <5> QED BY <3>1, <5>1
      <4> QED BY <3>1, <3>3, <4>1 DEF Plunged
    <3>4. CASE i > 4
      <4>1. /\ i - 4 \in 1 .. (Len(ring) - 1) /\ i - 4 \in 1 .. Len(ring) /\ 4 + (i - 4) = i
            /\ (i - 4) + 1 \in 1 .. Len(ring) /\ 4 + ((i - 4) + 1) = i + 1
        BY <1>d, <3>1, <3>4
      <4>2. ring'[i] = ring[i - 4] /\ ring'[i + 1] = ring[(i - 4) + 1]
        BY <3>1, <4>1
      <4>3. Plunged(i - 4)
        BY <1>c, <4>1
      <4>4. CASE i - 4 = 1
        BY <3>1, <4>2, <4>3, <4>4 DEF Plunged
      <4>5. CASE i - 4 > 1
        <5>1. (i - 4) - 1 \in 1 .. Len(ring) /\ 4 + ((i - 4) - 1) = i - 1
          BY <4>1, <4>5
        <5>2. ring'[i - 1] = ring[(i - 4) - 1]
          BY <3>1, <5>1
        <5> QED BY <4>2, <4>3, <4>5, <5>2 DEF Plunged
      <4> QED BY <4>1, <4>4, <4>5
    <3> QED BY <1>d, <3>1, <3>2, <3>3, <3>4
  <2> QED BY <2>1, <2>2
<1>8. CASE QueueRecord
  <2> DEFINE k == Len(ring)
             t == Len(ring')
  <2>1. PICK n \in Nat :
           /\ k \in Nat /\ t \in Nat /\ n > 0 /\ k + n <= t
           /\ ring'[k + n].kind = "cut"
           /\ \A i \in 1 .. n - 1 : ring'[k + i].kind # "cut"
           /\ n > 1 => n > 2 /\ ring'[k + 1].kind = "up" /\ ring'[k + (n - 1)].kind = "down"
           /\ \A i \in 1 .. n - 2 : ring'[k + (i + 1)].kind = "down" =>
                 \/ ring'[k + i].kind = "on"
                 \/ ring'[k + i].kind = "up" /\ i = 1 /\ ingest.inContour
           /\ \A i \in k + n + 1 .. t : ring'[i].kind \in {"up", "off"}
           /\ ~ingest.inContour => n > 2 /\ ring'[k + 2].kind = "on"
           /\ \A i \in 1 .. k : ring'[i] = ring[i]
    BY <1>8, AddedIs DEF Adds
  <2>2. ingest.inContour /\ k > 0 => ring[k].kind = "cut"
    <3>1. k > 0 => ring # <<>>
      BY <1>d
    <3> QED BY <1>8, <3>1, JoinsCut
  <2> HIDE DEF k, t
  <2> SUFFICES ASSUME NEW i \in 1 .. (t - 1) PROVE Plunged(i)'
    BY DEF t
  <2>3. CASE i + 1 <= k
    <3>1. /\ i \in 1 .. (k - 1) /\ i \in 1 .. k /\ i + 1 \in 1 .. k
          /\ (i > 1 => i - 1 \in 1 .. k)
      BY <2>1, <2>3
    <3>2. Plunged(i)
      BY <1>c, <3>1 DEF k
    <3> QED BY <2>1, <3>1, <3>2 DEF Plunged
  <2>4. CASE i = k
    <3>1. ring'[i] = ring[k] /\ k > 0
      BY <2>1, <2>4
    <3>2. CASE n = 1
      BY <2>1, <2>2, <2>4, <3>1, <3>2 DEF Plunged
    <3>3. CASE n > 1
      BY <2>1, <2>4, <3>3 DEF Plunged
    <3> QED BY <2>1, <3>2, <3>3
  <2>5. CASE i > k /\ i - k < n - 1
    <3>1. i - k \in 1 .. n - 2 /\ k + (i - k) = i /\ k + ((i - k) + 1) = i + 1 /\ (i - k) + 1 \in 1 .. n - 1
      BY <2>1, <2>5
    <3>2. ring'[i + 1].kind # "cut"
      BY <2>1, <3>1
    <3>3. ring'[i + 1].kind = "down" =>
             ring'[i].kind = "on" \/ (ring'[i].kind = "up" /\ i - k = 1 /\ ingest.inContour)
      BY <2>1, <3>1
    <3>4. i - k = 1 /\ i > 1 => i - 1 = k /\ k > 0 /\ k \in 1 .. k
      BY <2>1
    <3>5. i - k = 1 /\ i > 1 /\ ingest.inContour => ring'[i - 1].kind = "cut"
      BY <2>1, <2>2, <3>4
    <3> QED BY <3>2, <3>3, <3>5 DEF Plunged
  <2>6. CASE i = k + (n - 1) /\ i # k
    <3>1. n > 1 /\ i + 1 = k + n
      BY <2>1, <2>6
    <3> QED BY <2>1, <2>6, <3>1 DEF Plunged
  <2>7. CASE i >= k + n
    <3>1. i + 1 \in k + n + 1 .. t
      BY <2>1, <2>7
    <3> QED BY <2>1, <3>1 DEF Plunged
  <2> QED BY <2>1, <2>3, <2>4, <2>5, <2>6, <2>7
<1>9. CASE \/ EnterLift \/ EnterRun \/ Look \/ NotSettled \/ Drained \/ DrainedReports
           \/ RunsDry \/ EventOff \/ EventDwell \/ EventSwitch \/ EventSettled \/ PassEnds
           \/ ObserveDrained \/ DutyUnwaits \/ ObserveEnds \/ OpenLayer \/ Resume \/ Pause
  BY <1>9, <1>c
     DEF EnterLift, MayEnter, Enters, EnterRun, Look, NotSettled, Drained, AtSettle,
         DrainedReports, Returns, RunsDry, EventOff, EventWaits, EventDwell, EventSwitch,
         EventSettled, PassEnds, ObserveDrained, Observes, DutyUnwaits, ObserveEnds, OpenLayer,
         Serves, Turn, Resume, Pause, Plunged
<1>10. CASE UNCHANGED vars
  BY <1>10, <1>c DEF vars, Plunged
<1> QED BY <1>1, <1>2, <1>3, <1>4, <1>5, <1>6, <1>7, <1>8, <1>9, <1>10
        DEF Lives


(* Core 1 leaves a tool's switching on only when it is done.                 *)
LEMMA PhaseKept ==
  ASSUME Inv, Own, Own', Lives \/ UNCHANGED vars
  PROVE  Phase'
<1> USE DEF ctxVars, flagVars, ringVars, dutyVars, toolVars, core1Vars, core0Vars, settleVars,
            core1Untouched,
            Phase
<1>a. /\ ctx = "JOB" /\ ~jobAborted /\ ~abortRequested /\ mode # "abort" /\ estop = "clear"
      /\ why \notin Before /\ why # "ABORTING" /\ c1 \notin {"dropped", "consumed"}
      /\ why # "BUFFERING" => ingest.open
      /\ InLoop => active /\ why # "PAUSED"
      /\ InLoop => (OnPath <=> ~runsOn /\ ingest.open /\ ingest.inContour)
      /\ exec.cur => ring # <<>> /\ active
  BY OwnIs
<1>c. evPhase # "START" /\ InLoop =>
        /\ mode \notin {"late", "duty"}
        /\ ring # <<>> /\ ring[1].kind = "on" /\ exec.cur /\ ~exec.done
        /\ evPhase = "SETTLE" => power
  BY DEF Inv, Phase
<1>d. ring # <<>> => Head(ring) = ring[1] /\ Len(ring) \in Nat /\ Len(ring) > 0
  BY HeadIs DEF Inv, Types
<1>1. CASE EnterLift
  BY <1>1 DEF EnterLift, MayEnter, Enters, LandHeld, InLoop
<1>2. CASE EnterHeld
  BY <1>2 DEF EnterHeld, MayEnter, LandHeld, InLoop
<1>3. CASE EnterRun
  BY <1>3 DEF EnterRun, MayEnter, Enters, LandHeld, InLoop
<1>4. CASE Look
  <2>1. Hold(exec).cur = exec.cur /\ Hold(exec).done = exec.done
    BY DEF Hold, Inv, Types, RingTypes, Execs
  <2>2. /\ ring' = ring /\ evPhase' = evPhase /\ power' = power /\ InLoop
        /\ exec'.cur = exec.cur /\ exec'.done = exec.done
    BY <1>4, <2>1 DEF Look, InLoop
  <2>3. evPhase # "START" => mode' \notin {"late", "duty"}
    BY <1>4, <1>a, <1>c, <1>d, <2>2 DEF Look, Late, Cutting
  <2> QED BY <1>c, <2>2, <2>3
<1>5. CASE Tick
  <2>1. /\ evPhase' = evPhase /\ power' = power /\ mode' = mode /\ InLoop
    BY <1>5 DEF Tick, InLoop
  <2>2. CASE evPhase # "START"
    <3>1. ring # <<>> /\ ring[1].kind = "on" /\ Head(ring) = ring[1] /\ exec.cur /\ ~exec.done
      BY <1>c, <1>d, <2>1, <2>2
    <3>2. ~Claim /\ ~Finish /\ ~Advance /\ ~AbortFindsHeld
      BY <1>a, <3>1 DEF Claim, Finish, Advance, AbortFindsHeld, Cutting
    <3>3. ring' = ring /\ exec'.cur = exec.cur /\ exec'.done = exec.done
      BY <1>5, <1>a, <3>2 DEF Tick, HoldEnds, TickRests, Inv, Types, RingTypes, Execs
    <3> QED BY <1>c, <2>1, <2>2, <3>3
  <2> QED BY <2>1, <2>2
<1>6. CASE NotSettled
  BY <1>6, <1>c DEF NotSettled, InLoop
<1>7. CASE Drained
  BY <1>7, <1>a DEF Drained, AtSettle, InLoop
<1>8. CASE DrainedReports
  BY <1>8 DEF DrainedReports, Returns, MayEnter, LandHeld, InLoop
<1>9. CASE RunsDry
  BY <1>9 DEF RunsDry, AtSettle, Returns, MayEnter, LandHeld, InLoop
<1>10. CASE LateRests
  BY <1>10, <1>c DEF LateRests, AtSettle, Returns, InLoop
<1>11. CASE DutyRests
  BY <1>11, <1>c DEF DutyRests, AtSettle, InLoop
<1>12. CASE PauseRests
  BY <1>12 DEF PauseRests, AtSettle, Returns, LandHeld, MayEnter, InLoop
<1>13. CASE EventOff
  BY <1>13, <1>c DEF EventOff, EventWaits, AtSettle, InLoop
<1>14. CASE EventDwell
  BY <1>14, <1>c, <1>d, <1>a DEF EventDwell, EventWaits, AtSettle, InLoop
<1>15. CASE EventSwitch
  BY <1>15, <1>c, <1>d, <1>a DEF EventSwitch, EventWaits, AtSettle, InLoop
<1>16. CASE EventSettled
  BY <1>16, <1>c, <1>d, <1>a DEF EventSettled, EventWaits, AtSettle, InLoop
<1>17. CASE ObserveHeld
  <2>1. Observes("HELD")
    BY <1>17 DEF ObserveHeld
  <2>2. c1 = "top"
    BY <2>1, OldestIs DEF ReportTrue
  <2> QED BY <1>17, <2>2 DEF ObserveHeld, InLoop
<1>18. CASE ObserveDrained
  <2>1. Observes("DRAINED")
    BY <1>18 DEF ObserveDrained
  <2>2. c1 = "top"
    BY <2>1, OldestIs DEF ReportTrue
  <2> QED BY <1>18, <2>2 DEF ObserveDrained, InLoop
<1>19. CASE ObserveDutyHeld
  <2>1. Observes("DUTY_HELD")
    BY <1>19 DEF ObserveDutyHeld
  <2>2. ~exec.cur /\ c1 = "look"
    BY <2>1, OldestIs DEF ReportTrue
  <2> QED BY <1>19, <1>c, <2>2 DEF ObserveDutyHeld, InLoop
<1>20. CASE QueueRecord
  <2>1. ring # <<>> => ring' # <<>> /\ ring'[1] = ring[1]
    BY <1>20, QueuedIs
  <2> QED BY <1>20, <1>c, <2>1 DEF QueueRecord, Serves, Turn, InLoop
<1>21. CASE \/ PassEnds \/ DutyUnwaits \/ ObserveEnds \/ OpenLayer \/ Resume \/ Pause
  BY <1>21, <1>c
     DEF PassEnds, DutyUnwaits, ObserveEnds, OpenLayer, Serves, Turn, Resume, Pause, InLoop
<1>22. CASE UNCHANGED vars
  BY <1>22, <1>c DEF vars, InLoop
<1> QED BY <1>1, <1>2, <1>3, <1>4, <1>5, <1>6, <1>7, <1>8, <1>9, <1>10, <1>11, <1>12, <1>13,
          <1>14, <1>15, <1>16, <1>17, <1>18, <1>19, <1>20, <1>21, <1>22
        DEF Lives


(* Core 1 runs the head of a ring whose head is ready and whose order is     *)
(* kept: the next is ready too.                                             *)
LEMMA TickReady ==
  ASSUME Inv, Own, Tick
  PROVE  ring' # <<>> => Ready'
<1>1. RingTypes /\ power' = power /\ mode # "abort"
  BY OwnIs DEF Inv, Types, Tick
<1>2. ring # <<>> => Ready /\ Head(ring) = ring[1] /\ Len(ring) \in Nat /\ Len(ring) > 0
  BY <1>1, HeadIs DEF Inv, HeadReady
<1>3. exec.cur => ring # <<>>
  BY <1>1 DEF RingTypes
<1>4. CASE Claim
  <2>1. ring' = ring /\ exec'.cur /\ ~exec'.done /\ ring # <<>>
    BY <1>1, <1>4 DEF Claim, RingTypes, Execs
  <2>2. z' = IF ring[1].kind = "down" THEN "cut" ELSE z
    BY <1>2, <1>4, <2>1 DEF Claim
  <2> QED BY <1>1, <1>2, <2>1, <2>2 DEF Ready
<1>5. CASE Finish
  <2>1. ring # <<>> /\ ring' = Tail(ring) /\ ~exec'.cur /\ exec.cur
    BY <1>1, <1>3, <1>5 DEF Finish, RingTypes, Execs
  <2>2. /\ Len(ring) \in Nat /\ Len(ring') = Len(ring) - 1
        /\ \A i \in 1 .. Len(ring') : ring'[i] = ring[i + 1]
        /\ ring' = <<>> <=> Len(ring) = 1
    BY <1>1, <2>1, Popped DEF RingTypes
  <2> SUFFICES ASSUME ring' # <<>> PROVE Ready'
    OBVIOUS
  <2>3. Len(ring) > 1 /\ ring'[1] = ring[2] /\ (Len(ring') > 1 => ring'[2] = ring[3] /\ Len(ring) > 2)
    BY <1>2, <2>1, <2>2
  <2>4. Plunged(1) /\ (Len(ring) > 2 => Plunged(2))
    BY <2>2, <2>3 DEF Inv, Ahead
  <2>5. /\ ring[2].kind = "cut" => ring[1].kind \in {"cut", "down"}
        /\ ring[2].kind = "down" => ring[1].kind \in {"on", "up"}
        /\ Len(ring) > 2 /\ ring[3].kind = "down" /\ ring[2].kind = "up" => ring[1].kind = "cut"
    BY <2>4 DEF Plunged
  <2>6. ring[1].kind = "on" => exec.done
    BY <1>2, <1>5, <2>1 DEF Finish, Cutting
  <2>7. ring[1].kind # "up" => z' = z
    BY <1>2, <1>5, <2>1 DEF Finish
  <2> QED BY <1>1, <1>2, <2>1, <2>3, <2>5, <2>6, <2>7 DEF Ready
<1>6. CASE Advance \/ HoldEnds \/ TickRests
  <2>1. ring' = ring /\ z' = z /\ exec'.cur = exec.cur /\ exec'.done = exec.done
    BY <1>1, <1>6 DEF Advance, HoldEnds, TickRests, RingTypes, Execs
  <2> QED BY <1>1, <1>2, <2>1 DEF Ready
<1>7. ~AbortFindsHeld
  BY <1>1 DEF AbortFindsHeld
<1> QED BY <1>4, <1>5, <1>6, <1>7 DEF Tick

(* A record's first block is ready where there is none before it.            *)
LEMMA AddedReady ==
  ASSUME Inv, Own, QueueRecord
  PROVE  ring' # <<>> => Ready'
<1> DEFINE k == Len(ring)
           t == Len(ring')
<1>1. PICK n \in Nat :
         /\ k \in Nat /\ t \in Nat /\ n > 0 /\ k + n <= t
         /\ ring'[k + n].kind = "cut"
         /\ n > 1 => n > 2 /\ ring'[k + 1].kind = "up"
         /\ ~ingest.inContour => n > 2 /\ ring'[k + 2].kind = "on"
         /\ \A i \in 1 .. k : ring'[i] = ring[i]
  BY AddedIs DEF Adds
<1>2. exec' = exec /\ z' = z /\ power' = power
  BY DEF QueueRecord, toolVars
<1>3. ring # <<>> => Ready
  BY DEF Inv, HeadReady
<1>4. (ring = <<>> <=> k = 0) /\ (exec.cur => ring # <<>>)
  BY DEF Inv, Types, RingTypes
<1>5. CASE k = 0
  <2>1. ingest.inContour => z = "cut" /\ power
    BY <1>4, <1>5, JoinsCut
  <2>2. ring'[1].kind = "cut" \/ (ring'[1].kind = "up" /\ n > 2)
    BY <1>1, <1>5
  <2>3. ~ingest.inContour => ring'[1].kind = "up" /\ ring'[2].kind = "on"
    BY <1>1, <1>5
  <2> HIDE DEF k, t
  <2> QED BY <1>2, <1>4, <1>5, <2>1, <2>2, <2>3 DEF Ready
<1>6. CASE k = 1
  <2>1. ring'[1] = ring[1] /\ (ring'[2].kind = "cut" \/ ring'[2].kind = "up")
    BY <1>1, <1>6
  <2> QED BY <1>2, <1>3, <1>4, <1>6, <2>1 DEF Ready
<1>7. CASE k > 1
  <2>1. ring'[1] = ring[1] /\ ring'[2] = ring[2]
    BY <1>1, <1>7
  <2> QED BY <1>2, <1>3, <1>4, <1>7, <2>1 DEF Ready
<1>8. k \in Nat
  BY DEF Inv, Types, RingTypes
<1> HIDE DEF k, t
<1>9. k = 0 \/ k = 1 \/ k > 1
  BY <1>8
<1> QED BY <1>5, <1>6, <1>7, <1>9

(* The head of the ring stays ready.                                         *)
LEMMA ReadyKept ==
  ASSUME Inv, Own, Own', Lives \/ UNCHANGED vars
  PROVE  ring' # <<>> => Ready'
<1> USE DEF ctxVars, flagVars, ringVars, dutyVars, toolVars, core1Vars, core0Vars, settleVars,
            core1Untouched
<1>a. /\ ctx = "JOB" /\ ~jobAborted /\ ~abortRequested /\ mode # "abort" /\ estop = "clear"
      /\ why \notin Before /\ why # "ABORTING" /\ c1 \notin {"dropped", "consumed"}
      /\ why # "BUFFERING" => ingest.open
      /\ InLoop => active /\ why # "PAUSED"
      /\ InLoop => (OnPath <=> ~runsOn /\ ingest.open /\ ingest.inContour)
      /\ exec.cur => ring # <<>> /\ active
  BY OwnIs
<1>c. ring # <<>> => Ready
  BY DEF Inv, HeadReady
<1>d. ring # <<>> => Head(ring) = ring[1] /\ Len(ring) \in Nat /\ Len(ring) > 0
  BY HeadIs DEF Inv, Types
<1>1. CASE EnterHeld
  <2>1. ring' = <<>>
    BY <1>1, LandHeldIs DEF EnterHeld, Inv
  <2> QED BY <2>1
<1>2. CASE Look
  <2>1. Hold(exec).cur = exec.cur /\ Hold(exec).done = exec.done
    BY DEF Hold, Inv, Types, RingTypes, Execs
  <2>2. exec'.cur = exec.cur /\ exec'.done = exec.done
    BY <1>2, <2>1 DEF Look
  <2> QED BY <1>2, <1>c, <2>2 DEF Look, Ready
<1>3. CASE Tick
  <2> QED BY <1>3, TickReady
<1>4. CASE LateRests
  <2>1. RingTypes /\ Release /\ z' = z /\ power' = power
    BY <1>4 DEF LateRests, Inv, Types
  <2>2. /\ Len(ring') = Len(ring) /\ (ring' = <<>> <=> ring = <<>>)
        /\ \A i \in 1 .. Len(ring) : ring'[i].kind = ring[i].kind
    BY <2>1, ReleaseIs
  <2>3. ~exec'.cur
    BY <2>1, ReleaseIs DEF IdleExec
  <2>4. ring # <<>> => ring'[1].kind = ring[1].kind
    BY <1>d, <2>2
  <2>5. Len(ring) > 1 => ring'[2].kind = ring[2].kind
    <3>1. ring \in Seq(Blocks)
      BY <2>1 DEF RingTypes
    <3>2. Len(ring) > 1 => 2 \in 1 .. Len(ring)
      BY <3>1
    <3> QED BY <2>2, <3>2
  <2> QED BY <1>c, <2>1, <2>2, <2>3, <2>4, <2>5 DEF Ready
<1>5. CASE DutyRests
  <2>1. RingTypes /\ Release /\ z' = z /\ power' = power
    BY <1>5 DEF DutyRests, Inv, Types
  <2>2. /\ Len(ring') = Len(ring) /\ (ring' = <<>> <=> ring = <<>>)
        /\ \A i \in 1 .. Len(ring) : ring'[i].kind = ring[i].kind
    BY <2>1, ReleaseIs
  <2>3. ~exec'.cur
    BY <2>1, ReleaseIs DEF IdleExec
  <2>4. ring # <<>> => ring'[1].kind = ring[1].kind
    BY <1>d, <2>2
  <2>5. Len(ring) > 1 => ring'[2].kind = ring[2].kind
    <3>1. ring \in Seq(Blocks)
      BY <2>1 DEF RingTypes
    <3>2. Len(ring) > 1 => 2 \in 1 .. Len(ring)
      BY <3>1
    <3> QED BY <2>2, <3>2
  <2> QED BY <1>c, <2>1, <2>2, <2>3, <2>4, <2>5 DEF Ready
<1>6. CASE PauseRests
  <2>1. ring' = <<>>
    BY <1>6, LandHeldIs DEF PauseRests, Inv
  <2> QED BY <2>1
<1>7. CASE EventOff
  <2>1. ring' = ring /\ ring[1].kind = "off"
    BY <1>7, <1>a, <1>d DEF EventOff, EventWaits
  <2> QED BY <2>1 DEF Ready
<1>8. CASE EventDwell
  BY <1>8, <1>c DEF EventDwell, EventWaits, AtSettle, Ready
<1>9. CASE EventSwitch
  <2>1. ring' = ring /\ z' = z /\ exec' = exec /\ (power' = power \/ power')
    BY <1>9 DEF EventSwitch
  <2> QED BY <1>c, <2>1 DEF Ready
<1>10. CASE EventSettled
  <2>1. ring' = ring /\ power' = power /\ ring[1].kind = "on" /\ power
    BY <1>10, <1>a, <1>d DEF EventSettled, EventWaits, AtSettle, Inv, Phase, InLoop
  <2> QED BY <2>1 DEF Ready
<1>11. CASE ObserveHeld
  <2>1. ring' = ring \/ \E fits \in BOOLEAN : ring' = LiftBlocks(fits)
    BY <1>11 DEF ObserveHeld, QueueLift
  <2>2. CASE ring' = ring
    BY <1>11, <1>c, <2>2 DEF ObserveHeld, Ready
  <2>3. CASE \E fits \in BOOLEAN : ring' = LiftBlocks(fits)
    <3>1. ring' \in Seq(Blocks) /\ \A i \in 1 .. Len(ring') : ring'[i].kind \in {"up", "off"}
      BY <2>3, LiftIs DEF Inv, Types
    <3> SUFFICES ASSUME ring' # <<>> PROVE Ready'
      OBVIOUS
    <3>2. 1 \in 1 .. Len(ring') /\ (Len(ring') > 1 => 2 \in 1 .. Len(ring'))
      BY <3>1
    <3> QED BY <3>1, <3>2 DEF Ready
  <2> QED BY <2>1, <2>2, <2>3
<1>12. CASE ObserveDutyHeld
  <2>1. CASE ring' = ring
    BY <1>12, <1>c, <2>1 DEF ObserveDutyHeld, Ready
  <2>2. CASE ring' # ring
    BY <1>12, <2>2, LiftedIs DEF Ready
  <2> QED BY <2>1, <2>2
<1>13. CASE QueueRecord
  BY <1>13, AddedReady
<1>14. CASE \/ EnterLift \/ EnterRun \/ NotSettled \/ Drained \/ DrainedReports \/ RunsDry
            \/ PassEnds \/ ObserveDrained \/ DutyUnwaits \/ ObserveEnds \/ OpenLayer
            \/ Resume \/ Pause
  BY <1>14, <1>c
     DEF EnterLift, MayEnter, Enters, EnterRun, NotSettled, Drained, AtSettle, DrainedReports,
         Returns, RunsDry, PassEnds, ObserveDrained, Observes, DutyUnwaits, ObserveEnds,
         OpenLayer, Serves, Turn, Resume, Pause, Ready
<1>15. CASE UNCHANGED vars
  BY <1>15, <1>c DEF vars, Ready
<1> QED BY <1>1, <1>2, <1>3, <1>4, <1>5, <1>6, <1>7, <1>8, <1>9, <1>10, <1>11, <1>12, <1>13,
          <1>14, <1>15
        DEF Lives


LEMMA TailReleased ==
  ASSUME RingTypes, Release, z' = z, power' = power,
         IF ring = <<>> THEN z = "cut" /\ power ELSE ring[Len(ring)].kind = "cut"
  PROVE  IF ring' = <<>> THEN z' = "cut" /\ power' ELSE ring'[Len(ring')].kind = "cut"
<1>1. /\ Len(ring') = Len(ring) /\ (ring' = <<>> <=> ring = <<>>)
      /\ \A i \in 1 .. Len(ring) : ring'[i].kind = ring[i].kind
  BY ReleaseIs
<1>2. ring # <<>> => Len(ring) \in 1 .. Len(ring)
  BY HeadIs
<1> QED BY <1>1, <1>2

(* The ring of a contour ends in a cut, or its last one leaves the blade     *)
(* plunged.                                                                 *)
LEMMA TailKept ==
  ASSUME Inv, Own, Own', Lives \/ UNCHANGED vars
  PROVE  OnPath' => IF ring' = <<>> THEN z' = "cut" /\ power' ELSE ring'[Len(ring')].kind = "cut"
<1> USE DEF ctxVars, flagVars, ringVars, dutyVars, toolVars, core1Vars, core0Vars, settleVars,
            core1Untouched
<1>a. /\ ctx = "JOB" /\ ~jobAborted /\ ~abortRequested /\ mode # "abort" /\ estop = "clear"
      /\ why \notin Before /\ why # "ABORTING" /\ c1 \notin {"dropped", "consumed"}
      /\ why # "BUFFERING" => ingest.open
      /\ InLoop => active /\ why # "PAUSED"
      /\ InLoop => (OnPath <=> ~runsOn /\ ingest.open /\ ingest.inContour)
      /\ exec.cur => ring # <<>> /\ active
  BY OwnIs
<1>c. OnPath => IF ring = <<>> THEN z = "cut" /\ power ELSE ring[Len(ring)].kind = "cut"
  BY DEF Inv, TailReady
<1>d. ring # <<>> => Head(ring) = ring[1] /\ Len(ring) \in Nat /\ Len(ring) > 0
  BY HeadIs DEF Inv, Types
<1>e. runsOn => why = "HOLDING"
  BY DEF Inv, LiftTrue, Lifting, Lifts
<1>1. CASE EnterLift
  BY <1>1, <1>a DEF EnterLift, MayEnter, Enters, OnPath, Stopping
<1>2. CASE EnterHeld
  <2>1. why' = "HOLDING" /\ ~active'
    BY <1>2, LandHeldIs DEF EnterHeld, Inv
  <2> QED BY <2>1 DEF OnPath, Stopping
<1>3. CASE EnterRun
  BY <1>3, <1>a, <1>c DEF EnterRun, MayEnter, Enters, OnPath, Stopping
<1>4. CASE Look
  <2>1. OnPath' => OnPath
    <3>1. runsOn => why' = why
      BY <1>4, <1>a, <1>e DEF Look
    <3> QED BY <1>4, <1>a, <1>e, <3>1 DEF Look, OnPath, Stopping, InLoop
  <2> QED BY <1>4, <1>c, <2>1 DEF Look
<1>5. CASE Tick
  <2>1. OnPath' => OnPath
    BY <1>5 DEF Tick, OnPath, Stopping
  <2>2. OnPath => IF ring' = <<>> THEN z' = "cut" /\ power' ELSE ring'[Len(ring')].kind = "cut"
    <3> SUFFICES ASSUME OnPath
                 PROVE  IF ring' = <<>> THEN z' = "cut" /\ power' ELSE ring'[Len(ring')].kind = "cut"
      OBVIOUS
    <3>1. power' = power
      BY <1>5 DEF Tick
    <3>2. CASE Finish
      <4>1. ring # <<>> /\ ring' = Tail(ring) /\ Head(ring) = ring[1]
        BY <1>a, <1>d, <3>2 DEF Finish
      <4>2. ring[Len(ring)].kind = "cut"
        BY <1>c, <4>1
      <4>3. /\ Len(ring) \in Nat /\ Len(ring') = Len(ring) - 1 /\ (ring' = <<>> <=> Len(ring) = 1)
            /\ \A i \in 1 .. Len(ring') : ring'[i] = ring[i + 1]
        BY <4>1, Popped DEF Inv, Types, RingTypes
      <4>4. CASE Len(ring) = 1
        <5>1. ring[1].kind = "cut" /\ z = "cut" /\ power
          BY <4>1, <4>2, <4>4 DEF Inv, HeadReady, Ready
        <5> QED BY <3>1, <3>2, <4>1, <4>3, <4>4, <5>1 DEF Finish
      <4>5. CASE Len(ring) # 1
        <5>1. Len(ring') \in 1 .. Len(ring') /\ Len(ring') + 1 = Len(ring) /\ ring' # <<>>
          BY <1>d, <4>1, <4>3, <4>5
        <5> QED BY <4>2, <4>3, <5>1
      <4> QED BY <4>4, <4>5
    <3>3. CASE ~Finish
      <4>1. ring' = ring /\ (ring = <<>> => z' = z)
        BY <1>5, <1>a, <3>3 DEF Tick, Claim, Advance, HoldEnds, AbortFindsHeld, TickRests
      <4> QED BY <1>c, <3>1, <4>1
    <3> QED BY <3>2, <3>3
  <2> QED BY <2>1, <2>2
<1>6. CASE Drained
  <2>1. runsOn /\ runsOn' = runsOn /\ why' = why
    BY <1>6, <1>a DEF Drained, AtSettle
  <2>2. why = "HOLDING"
    BY <2>1 DEF Inv, LiftTrue, Lifting, Lifts
  <2> QED BY <2>1, <2>2 DEF OnPath, Stopping
<1>7. CASE DrainedReports
  <2>1. why' = "HOLDING" /\ ~active'
    BY <1>7 DEF DrainedReports, Inv, DrainedTrue, AtRest
  <2> QED BY <2>1 DEF OnPath, Stopping
<1>8. CASE RunsDry
  <2>1. ring = <<>> /\ OnPath => z = "cut" /\ power
    BY <1>c
  <2>2. OnPath' => OnPath
    BY <1>8, <1>a DEF RunsDry, AtSettle, OnPath, Stopping, InLoop
  <2> QED BY <1>8, <2>1, <2>2 DEF RunsDry
<1>9. CASE LateRests
  <2>1. OnPath' => OnPath
    BY <1>9, <1>a, <1>e DEF LateRests, AtSettle, OnPath, Stopping, InLoop
  <2>2. RingTypes /\ Release /\ z' = z /\ power' = power
    BY <1>9 DEF LateRests, Inv, Types
  <2> QED BY <1>c, <1>d, <2>1, <2>2, TailReleased
<1>10. CASE DutyRests
  <2>1. OnPath' => OnPath
    BY <1>10 DEF DutyRests, OnPath, Stopping
  <2>2. RingTypes /\ Release /\ z' = z /\ power' = power
    BY <1>10 DEF DutyRests, Inv, Types
  <2> QED BY <1>c, <1>d, <2>1, <2>2, TailReleased
<1>11. CASE PauseRests
  <2>1. why' = "HOLDING" /\ ~active'
    BY <1>11, LandHeldIs DEF PauseRests, Inv
  <2> QED BY <2>1 DEF OnPath, Stopping
<1>12. CASE EventOff
  <2>1. ring # <<>> /\ ring' = ring
    BY <1>12, <1>a DEF EventOff, EventWaits
  <2>2. OnPath' => OnPath
    BY <1>12 DEF EventOff, OnPath, Stopping
  <2> QED BY <1>c, <2>1, <2>2
<1>13. CASE EventDwell
  <2>1. ring # <<>> /\ ring' = ring
    BY <1>13, <1>a DEF EventDwell, EventWaits
  <2>2. OnPath' => OnPath
    <3>1. ~runsOn
      <4>1. Head(ring) = ring[1] /\ ring[1].kind = "on" /\ 1 \in 1 .. Len(ring)
        BY <1>13, <1>d, <2>1 DEF EventDwell, EventWaits
      <4> QED BY <4>1 DEF Inv, LiftTrue, Lifting, Lifts
    <3> QED BY <1>13, <1>a, <3>1 DEF EventDwell, EventWaits, AtSettle, OnPath, Stopping, InLoop
  <2> QED BY <1>c, <2>1, <2>2
<1>14. CASE EventSwitch
  <2>1. ring # <<>> /\ ring' = ring
    BY <1>14, <1>a DEF EventSwitch, EventWaits
  <2>2. OnPath' => OnPath
    BY <1>14 DEF EventSwitch, OnPath, Stopping
  <2> QED BY <1>c, <2>1, <2>2
<1>15. CASE EventSettled
  <2>1. ring # <<>> /\ ring' = ring
    BY <1>15, <1>a DEF EventSettled, EventWaits
  <2>2. OnPath' => OnPath
    BY <1>15 DEF EventSettled, OnPath, Stopping
  <2> QED BY <1>c, <2>1, <2>2
<1>16. CASE ObserveHeld
  <2>1. Observes("HELD")
    BY <1>16 DEF ObserveHeld
  <2>2. AtRest /\ why = "HOLDING" /\ c1 = "top"
    BY <2>1, OldestIs DEF ReportTrue
  <2>3. ~active' /\ why' \in {"HOLDING", "PAUSED"}
    BY <1>16, <2>2 DEF ObserveHeld, QueueLift, LandPaused, AtRest
  <2> QED BY <2>3 DEF OnPath, Stopping
<1>17. CASE ObserveDrained
  <2>1. Observes("DRAINED")
    BY <1>17 DEF ObserveDrained
  <2>2. AtRest /\ why = "HOLDING"
    BY <2>1, OldestIs DEF ReportTrue
  <2>3. why' = "PAUSED"
    BY <1>17, <1>a, <2>2 DEF ObserveDrained, LandPaused
  <2> QED BY <2>3 DEF OnPath, Stopping
<1>18. CASE ObserveDutyHeld
  <2>1. OnPath' => OnPath
    BY <1>18 DEF ObserveDutyHeld, OnPath, Stopping
  <2>2. CASE ring' = ring
    BY <1>18, <1>c, <2>1, <2>2 DEF ObserveDutyHeld
  <2>3. CASE ring' # ring
    <3>1. /\ ring # <<>> /\ Len(ring') = 4 + Len(ring) /\ ring' \in Seq(Blocks)
          /\ \A i \in 1 .. Len(ring) : ring'[4 + i] = ring[i]
      BY <1>18, <2>3, LiftedIs
    <3>2. ring'[Len(ring')] = ring[Len(ring)] /\ ring' # <<>>
      <4>1. Len(ring) \in 1 .. Len(ring) /\ Len(ring') > 0
        BY <1>d, <3>1
      <4> QED BY <3>1, <4>1
    <3> QED BY <1>c, <2>1, <3>1, <3>2
  <2> QED BY <2>2, <2>3
<1>19. CASE OpenLayer
  <2>1. ~ingest'.inContour
    BY <1>19 DEF OpenLayer, Inv, Types, JobTypes, Layers
  <2> QED BY <2>1 DEF OnPath, Stopping
<1>20. CASE Resume
  BY <1>20 DEF Resume, Serves, Turn, OnPath, Stopping
<1>21. CASE QueueRecord
  <2>1. PICK n \in Nat :
           /\ Len(ring) \in Nat /\ n > 0 /\ Len(ring) + n <= Len(ring')
           /\ ring'[Len(ring) + n].kind = "cut"
           /\ ingest'.inContour => Len(ring') = Len(ring) + n
    BY <1>21, AddedIs DEF Adds
  <2>2. ring' # <<>>
    <3>1. Len(<<>>) = 0
      OBVIOUS
    <3> QED BY <2>1, <3>1
  <2> QED BY <2>1, <2>2 DEF OnPath, Stopping
<1>22. CASE \/ NotSettled \/ PassEnds \/ DutyUnwaits \/ ObserveEnds \/ Pause
  BY <1>22, <1>c
     DEF NotSettled, PassEnds, DutyUnwaits, ObserveEnds, Pause, Serves, Turn, OnPath, Stopping
<1>23. CASE UNCHANGED vars
  BY <1>23, <1>c DEF vars, OnPath, Stopping
<1> QED BY <1>1, <1>2, <1>3, <1>4, <1>5, <1>6, <1>7, <1>8, <1>9, <1>10, <1>11, <1>12, <1>13,
          <1>14, <1>15, <1>16, <1>17, <1>18, <1>19, <1>20, <1>21, <1>22, <1>23
        DEF Lives


(* Only processPlanner's tick moves what is claimed.                         *)
LEMMA TickCuts ==
  ASSUME RingTypes, [Next]_vars, Cuts
  PROVE  Tick
<1> USE DEF ctxVars, flagVars, ringVars, dutyVars, toolVars, core1Vars, core0Vars, settleVars,
            core1Untouched
<1>1. c1 = "tick" /\ exec' # exec
  BY DEF Cuts, RingTypes, Execs, Parts
<1>2. ~EnterLift /\ ~EnterHeld /\ ~EnterRun /\ ~AbortDrops /\ ~AbortConsumed /\ ~EstopSweep
  BY <1>1 DEF EnterLift, EnterHeld, EnterRun, MayEnter, AbortDrops, AbortConsumed, EstopSweep
<1>3. ~EstopReturns /\ ~Look /\ ~NotSettled /\ ~Settled /\ ~DrainedReports
  BY <1>1 DEF EstopReturns, Look, NotSettled, DrainedReports, Settled, Drained, RunsDry, LateRests,
              DutyRests, PauseRests, EventOff, EventDwell, EventSwitch, EventSettled, EventWaits,
              AtSettle
<1>4. ~Pass
  BY <1>1 DEF Pass, Observe, Publish, PassEnds, ObserveHeld, ObserveDrained, ObserveToolFailed,
              ObserveDutyHeld, DutyUnwaits, ObserveEnds
<1>5. ~Host
  BY <1>1 DEF Host, OpenJob, PreflightPasses, PreflightFails, PlaceOk, OpenLayer, Resume, QueueRecord,
              Pause, Abort, Cancel, Stop, Unstop, Unalarm, Reset
<1>6. ~UNCHANGED vars
  BY <1>1 DEF vars
<1> QED BY <1>2, <1>3, <1>4, <1>5, <1>6 DEF Next, Core1

----------------------------------------------------------------------------
(* The invariant.                                                          *)

(* A job that is placed starts at rest, with nothing in the ring and nothing *)
(* to be read.                                                              *)
LEMMA PlacedHolds ==
  ASSUME PlaceOk, ring = <<>>, ~active, facts = <<>>, AtTop, ~runsOn, ~ingest.open
  PROVE  /\ FactsTrue' /\ UnwaitTrue' /\ DrainedTrue' /\ LiftTrue' /\ PausedTrue'
         /\ Ahead' /\ HeadReady' /\ Phase' /\ TailReady'
<1>1. /\ ring' = <<>> /\ ~active' /\ facts' = <<>> /\ c1' = c1 /\ ~runsOn' /\ ~ingest'.open
      /\ why' = "BUFFERING" /\ c0' \in {"serial", "last"}
  BY DEF PlaceOk, Turn, core1Untouched, core1Vars
<1>2. Len(facts') = 0 /\ Len(ring') = 0
  BY <1>1
<1>3. FactsTrue' /\ UnwaitTrue' /\ Ahead'
  BY <1>1, <1>2 DEF FactsTrue, UnwaitTrue, Ahead
<1>4. DrainedTrue' /\ LiftTrue' /\ PausedTrue' /\ HeadReady' /\ Phase' /\ TailReady'
  BY <1>1 DEF DrainedTrue, LiftTrue, Lifting, PausedTrue, HeadReady, Phase, TailReady, OnPath, Stopping,
              AtTop, InLoop
<1> QED BY <1>3, <1>4

LEMMA InvInit == Init => Inv
<1> SUFFICES ASSUME Init PROVE Inv
  OBVIOUS
<1>1. Types
  BY TypesInit
<1>2. Core1Place /\ Aborts /\ NotOpen
  BY DEF Init, Core1Place, Aborts, NotOpen, AtTop, InLoop, Mine
<1>3. ~Own
  BY DEF Init, Own, Mine
<1> QED BY <1>1, <1>2, <1>3 DEF Inv, FactsTrue, UnwaitTrue, DrainedTrue, LiftTrue, PausedTrue,
                               Ahead, HeadReady, Phase, TailReady

LEMMA InvKept == Inv /\ [Next]_vars => Inv'
<1> SUFFICES ASSUME Inv, [Next]_vars PROVE Inv'
  OBVIOUS
<1>1. Types'
  BY TypesKept DEF Inv
<1>2. Core1Place' /\ Aborts' /\ NotOpen'
  BY Core1Kept, AbortsKept, NotOpenKept DEF Inv, Types
<1> DEFINE Promises ==
      /\ FactsTrue /\ UnwaitTrue /\ DrainedTrue /\ LiftTrue /\ PausedTrue
      /\ Ahead /\ HeadReady /\ Phase /\ TailReady
<1>3. ~Own' => Promises'
  BY DEF FactsTrue, UnwaitTrue, DrainedTrue, LiftTrue, PausedTrue, Ahead, HeadReady, Phase,
         TailReady
<1>4. Own' => Promises'
  <2> SUFFICES ASSUME Own' PROVE Promises'
    OBVIOUS
  <2>1. CASE Own /\ (Lives \/ UNCHANGED vars)
    <3>1. FactsTrue'
      BY <2>1, ReportsKept DEF FactsTrue
    <3>2. UnwaitTrue' /\ DrainedTrue' /\ LiftTrue' /\ PausedTrue'
      BY <2>1, UnwaitKept, DrainedKept, LiftKept, PausedKept
    <3>3. Ahead'
      BY <2>1, AheadKept DEF Ahead
    <3>4. HeadReady'
      BY <2>1, ReadyKept DEF HeadReady
    <3>5. TailReady'
      BY <2>1, TailKept DEF TailReady
    <3> QED BY <2>1, <3>1, <3>2, <3>3, <3>4, <3>5, PhaseKept
  <2>2. CASE PlaceOk /\ ring = <<>> /\ ~active /\ facts = <<>> /\ AtTop /\ ~runsOn /\ ~ingest.open
    BY <2>2, PlacedHolds
  <2> QED BY <2>1, <2>2, OwnStep
<1> QED BY <1>1, <1>2, <1>3, <1>4 DEF Inv

(* A paused job is safe to leave (plannerLandPaused, plannerQueueLift): the  *)
(* ring is empty and idle, the blade up and the tool off, for jobs of any    *)
(* length and any order of commands, faults and reports.                    *)
THEOREM PauseSafe == Spec => []PausedIsSafe
<1>1. Inv => PausedIsSafe
  BY DEF Inv, PausedTrue, Own, Mine, Before, Safe, PausedIsSafe
<1> QED BY InvInit, InvKept, <1>1, PTL DEF Spec

(* Core 1 cuts only for a placed job, and the cut is the oldest block.       *)
LEMMA CutsOwn ==
  ASSUME Inv, [Next]_vars, Cuts, ~jobAborted
  PROVE  Own /\ ring # <<>> /\ Cutting /\ Head(ring) = ring[1] /\ ring[1].kind = "cut"
<1>1. c1 = "tick" /\ Cutting /\ Tick
  BY TickCuts DEF Cuts, Inv, Types
<1>2. ctx = "JOB" /\ active
  BY <1>1 DEF Tick, Inv, Core1Place, InLoop, Types, LoopActive
<1>3. Own
  BY <1>2 DEF Own, Mine, Inv, NotOpen
<1>4. ring # <<>> /\ RingTypes
  BY <1>1 DEF Cutting, Inv, Types, RingTypes
<1>5. Head(ring) = ring[1]
  BY <1>4, HeadIs
<1> QED BY <1>1, <1>3, <1>4, <1>5 DEF Cutting

(* No step cuts with the blade up or the tool without power, whatever lifts, *)
(* drops, resumes and duty stops built the ring (follower.cpp, queue.cpp).   *)
THEOREM CutsAreReady == Spec => CutsPlunged
<1>1. Inv /\ [Next]_vars => [(Cuts /\ ~jobAborted) => z = "cut" /\ power]_vars
  <2> SUFFICES ASSUME Inv, [Next]_vars, Cuts, ~jobAborted PROVE z = "cut" /\ power
    BY DEF CutsPlunged
  <2>1. Own /\ ring # <<>> /\ ring[1].kind = "cut"
    BY CutsOwn
  <2> QED BY <2>1 DEF Inv, HeadReady, Ready
<1> QED BY InvInit, InvKept, <1>1, PTL DEF Spec, CutsPlunged

----------------------------------------------------------------------------
(* Where the path has got to, for the first job.                           *)

Pos(b)    == PathAt(b.record, b.s)
EndPos(b) == IF b.kind = "cut" THEN PathAt(b.record, RecLen) ELSE Pos(b)

(* Nothing is left over from a job before it.                               *)
FirstJob ==
  /\ jobs \in Nat /\ reach \in Nat
  /\ jobs = 0 => ctx = "IDLE" /\ ingest = NoLayer
  /\ ctx = "JOB" /\ why \in Before => ingest = NoLayer /\ reach = 0
  /\ ~ingest.first => ingest.trim = 0

Near(i) == Pos(ring[i + 1]) <= reach \/ Pos(ring[i + 1]) <= EndPos(ring[i])
AllNear  == \A i \in 1 .. (Len(ring) - 1) : Near(i)
HeadNear == /\ ring # <<>> => Pos(ring[1]) <= reach
            /\ Cutting => PathAt(ring[1].record, exec.along) <= reach
NextNear ==
  ~Stopping => \/ PathAt(ingest.next, NextTrim) <= reach
               \/ /\ NextTrim = 0 /\ ring # <<>>
                  /\ PathAt(ingest.next, 0) <= EndPos(ring[Len(ring)])
StopNear ==
  Stopping => IF jobResume.known THEN PathAt(jobResume.record, jobResume.s) <= reach
              ELSE PathAt(ingest.next, 0) <= reach
DutyNear ==
  dutyStop.cut /\ (\E i \in 1 .. Len(facts) : facts[i] = "DUTY_HELD") =>
    PathAt(dutyStop.record, dutyStop.s) <= reach

(* Each block starts where the path has got to, or where the one before it   *)
(* ends; so does what the host sends next, and where a pause or a duty stop  *)
(* resumes.                                                                 *)
Reached == Own => AllNear /\ HeadNear /\ NextNear /\ StopNear /\ DutyNear

LEMMA PathIs ==
  ASSUME NEW r \in Int, NEW a \in Int
  PROVE  /\ PathAt(r, a) \in Int /\ PathAt(r, a + 1) = PathAt(r, a) + 1
         /\ PathAt(r + 1, 0) = PathAt(r, RecLen)
         /\ \A b \in Int : a <= b => PathAt(r, a) <= PathAt(r, b)
<1>1. RecLen \in Int
  BY Constants
<1> DEFINE m == (r - 1) * RecLen
<1>2. m \in Int /\ r * RecLen = m + RecLen
  <2>1. \A k, l \in Int : k * l \in Int /\ k * l = (k - 1) * l + l
    OBVIOUS
  <2> QED BY <1>1, <2>1
<1>3. (r + 1) - 1 = r
  OBVIOUS
<1>4. PathAt(r, a) = m + a /\ PathAt(r, a + 1) = m + (a + 1) /\ PathAt(r, RecLen) = m + RecLen
      /\ \A b \in Int : PathAt(r, b) = m + b
  BY DEF PathAt
<1>5. PathAt(r + 1, 0) = r * RecLen + 0
  BY <1>3 DEF PathAt
<1> HIDE DEF m
<1> QED BY <1>1, <1>2, <1>4, <1>5

LEMMA PosIs ==
  ASSUME NEW b \in Blocks
  PROVE  Pos(b) \in Int /\ EndPos(b) \in Int /\ Pos(b) <= EndPos(b)
<1>1. b.record \in Int /\ b.s \in Int /\ RecLen \in Int /\ b.s <= RecLen
  BY Constants DEF Blocks, Tags, Parts
<1>2. /\ PathAt(b.record, b.s) \in Int /\ PathAt(b.record, RecLen) \in Int
      /\ PathAt(b.record, b.s) <= PathAt(b.record, RecLen)
  BY <1>1, PathIs
<1> QED BY <1>2 DEF Pos, EndPos

LEMMA BlocksIn ==
  ASSUME NEW q \in Seq(Blocks), NEW i \in 1 .. Len(q)
  PROVE  q[i] \in Blocks /\ Pos(q[i]) \in Int /\ EndPos(q[i]) \in Int /\ Pos(q[i]) <= EndPos(q[i])
<1>1. q[i] \in Blocks
  OBVIOUS
<1> QED BY <1>1, PosIs

LEMMA LiftPath == PathAt(0, 0) \in Int /\ PathAt(0, 0) <= 0
<1>1. RecLen \in Nat /\ PathAt(0, 0) = (0 - 1) * RecLen + 0
  BY Constants DEF PathAt
<1>2. \A l \in Nat : (0 - 1) * l + 0 \in Int /\ (0 - 1) * l + 0 <= 0
  OBVIOUS
<1> QED BY <1>1, <1>2

(* How far the path is cut only grows.                                      *)
LEMMA ReachGrows ==
  ASSUME Inv, Own, Lives \/ UNCHANGED vars, reach \in Nat,
         Cutting => PathAt(ring[1].record, exec.along) <= reach
  PROVE  /\ reach' \in Nat /\ reach <= reach'
         /\ Tick /\ Advance =>
              /\ ring' = ring /\ exec'.cur /\ exec'.along = exec.along + 1
              /\ PathAt(ring[1].record, exec.along + 1) <= reach'
         /\ ~(Tick /\ Advance) => reach' = reach
<1> USE DEF ctxVars, flagVars, ringVars, dutyVars, toolVars, core1Vars, core0Vars, settleVars,
            core1Untouched
<1>1. CASE Tick /\ Advance
  <2>1. ring # <<>> /\ exec.cur /\ Cutting
    BY <1>1 DEF Advance, Cutting, Inv, Types, RingTypes
  <2>2. Head(ring) = ring[1] /\ ring[1] \in Blocks /\ exec \in Execs
    BY <2>1, HeadIs DEF Inv, Types, RingTypes
  <2>3. ring[1].record \in Int /\ exec.along \in Int
    BY <2>2 DEF Blocks, Execs, Tags, Parts
  <2> DEFINE at == PathAt(ring[1].record, exec.along)
  <2>4. at \in Int /\ PathAt(ring[1].record, exec.along + 1) = at + 1
    BY <2>3, PathIs
  <2>5. reach' = IF at = reach THEN at + 1 ELSE reach
    BY <1>1, <2>2 DEF Advance
  <2>6. ring' = ring /\ exec'.cur /\ exec'.along = exec.along + 1
    BY <1>1, <2>1, <2>2 DEF Advance, Execs
  <2>7. at <= reach
    BY <2>1
  <2> HIDE DEF at
  <2> QED BY <1>1, <2>4, <2>5, <2>6, <2>7
<1>2. CASE ~(Tick /\ Advance)
  <2>1. Tick => reach' = reach
    BY <1>2 DEF Tick, Claim, Finish, HoldEnds, AbortFindsHeld, TickRests
  <2>2. Lives /\ ~Tick => reach' = reach
    BY DEF Lives, EnterLift, EnterHeld, EnterRun, Look, NotSettled, Drained, DrainedReports, RunsDry,
           LateRests, DutyRests, PauseRests, EventOff, EventDwell, EventSwitch, EventSettled, PassEnds,
           ObserveHeld, ObserveDrained, ObserveDutyHeld, DutyUnwaits, ObserveEnds, OpenLayer, Resume,
           QueueRecord, Pause
  <2>3. UNCHANGED vars => reach' = reach
    BY DEF vars
  <2> QED BY <1>2, <2>1, <2>2, <2>3
<1> QED BY <1>1, <1>2

LEMMA NoContour == [NoLayer EXCEPT !.inContour = FALSE] = NoLayer
<1> DEFINE f == [NoLayer EXCEPT !.inContour = FALSE]
           S == [open : BOOLEAN, next : Nat, inContour : BOOLEAN, first : BOOLEAN, trim : Nat]
<1>1. NoLayer \in S /\ NoLayer.inContour = FALSE
  BY DEF NoLayer
<1>2. /\ f \in S /\ f.open = NoLayer.open /\ f.next = NoLayer.next
      /\ f.inContour = NoLayer.inContour
      /\ f.first = NoLayer.first /\ f.trim = NoLayer.trim
  BY <1>1
<1> HIDE DEF f
<1>3. \A a, b \in S : a.open = b.open /\ a.next = b.next /\ a.inContour = b.inContour
                     /\ a.first = b.first /\ a.trim = b.trim => a = b
  OBVIOUS
<1>4. f = NoLayer
  BY <1>1, <1>2, <1>3
<1> QED BY <1>4 DEF f

LEMMA FirstJobKept == Jobs = 1 /\ JobTypes /\ NotOpen /\ FirstJob /\ [Next]_vars => FirstJob'
<1> SUFFICES ASSUME Jobs = 1 /\ JobTypes /\ NotOpen /\ FirstJob, [Next]_vars PROVE FirstJob'
  OBVIOUS
<1> USE DEF ctxVars, flagVars, ringVars, dutyVars, toolVars, core1Vars, core0Vars, settleVars,
            core1Untouched,
            FirstJob, Before
<1>1. CASE EnterLift
  BY <1>1 DEF EnterLift, MayEnter, Enters, NotOpen, AtTop
<1>2. CASE EnterHeld
  BY <1>2 DEF EnterHeld, MayEnter, LandHeld, NotOpen, AtTop
<1>3. CASE EnterRun
  BY <1>3 DEF EnterRun, MayEnter, Enters, NotOpen, AtTop
<1>4. CASE AbortDrops
  BY <1>4 DEF AbortDrops
<1>5. CASE AbortConsumed
  BY <1>5 DEF AbortConsumed
<1>6. CASE EstopSweep
  BY <1>6 DEF EstopSweep
<1>7. CASE EstopReturns
  BY <1>7 DEF EstopReturns, Returns
<1>8. CASE Look
  BY <1>8 DEF Look, NotOpen, AtTop
<1>9. CASE Tick
  <2>1. ctx = "JOB" => why \notin Before
    BY <1>9 DEF Tick, NotOpen, AtTop
  <2>2. reach' \in Nat
    <3>1. CASE Advance
      <4>1. LET at == PathAt(Head(ring).record, exec.along)
            IN reach' = IF at = reach THEN at + 1 ELSE reach
        BY <3>1 DEF Advance
      <4>2. reach' = reach + 1 \/ reach' = reach
        BY <4>1
      <4> QED BY <4>2
    <3>2. CASE ~Advance
      BY <1>9, <3>2 DEF Tick, Claim, Finish, HoldEnds, AbortFindsHeld, TickRests
    <3> QED BY <3>1, <3>2
  <2> QED BY <1>9, <2>1, <2>2 DEF Tick
<1>10. CASE NotSettled
  BY <1>10 DEF NotSettled
<1>11. CASE Drained
  BY <1>11 DEF Drained, AtSettle
<1>12. CASE RunsDry
  BY <1>12 DEF RunsDry, AtSettle, Returns, NotOpen, AtTop
<1>13. CASE LateRests
  BY <1>13 DEF LateRests, AtSettle, Returns, NotOpen, AtTop
<1>14. CASE DutyRests
  BY <1>14 DEF DutyRests, AtSettle
<1>15. CASE PauseRests
  BY <1>15 DEF PauseRests, AtSettle, Returns, LandHeld, NotOpen, AtTop
<1>16. CASE EventOff
  BY <1>16 DEF EventOff, EventWaits, AtSettle
<1>17. CASE EventDwell
  BY <1>17 DEF EventDwell, EventWaits, AtSettle, NotOpen, AtTop
<1>18. CASE EventSwitch
  BY <1>18 DEF EventSwitch, EventWaits, AtSettle
<1>19. CASE EventSettled
  BY <1>19 DEF EventSettled, EventWaits, AtSettle
<1>20. CASE DrainedReports
  BY <1>20 DEF DrainedReports, Returns
<1>21. CASE Publish
  BY <1>21 DEF Publish, AbortSettle, SettleDue, QueueLift, LiftDue
<1>22. CASE PassEnds
  BY <1>22 DEF PassEnds
<1>23. CASE ObserveHeld
  BY <1>23 DEF ObserveHeld, Observes, QueueLift, LandPaused, LiftDue
<1>24. CASE ObserveDrained
  BY <1>24 DEF ObserveDrained, Observes, LandPaused
<1>25. CASE ObserveToolFailed
  BY <1>25 DEF ObserveToolFailed, Observes, RaiseFault
<1>26. CASE ObserveDutyHeld
  BY <1>26 DEF ObserveDutyHeld, Observes, RaiseFault
<1>27. CASE DutyUnwaits
  BY <1>27 DEF DutyUnwaits
<1>28. CASE ObserveEnds
  BY <1>28 DEF ObserveEnds
<1>29. CASE OpenJob
  <2>1. jobs = 0 /\ jobs' = 1
    BY <1>29 DEF OpenJob
  <2>2. ingest = NoLayer /\ ingest' = [ingest EXCEPT !.open = FALSE, !.next = 1, !.inContour = FALSE]
    BY <1>29, <2>1 DEF OpenJob
  <2>3. ingest' = NoLayer /\ ~ingest'.first /\ ingest'.trim = 0
    BY <2>2 DEF NoLayer
  <2>4. reach' = 0
    BY <1>29 DEF OpenJob
  <2> QED BY <2>1, <2>3, <2>4
<1>30. CASE PreflightPasses
  BY <1>30 DEF PreflightPasses, Turn, InPreflight
<1>31. CASE PreflightFails
  BY <1>31 DEF PreflightFails, Serves, Turn
<1>32. CASE PlaceOk
  BY <1>32 DEF PlaceOk, Turn
<1>33. CASE OpenLayer
  <2>1. ctx = "JOB" /\ why \notin Before /\ ingest'.trim = ingest.trim /\ ingest'.first
    BY <1>33 DEF OpenLayer, Admits, JobTypes, Layers
  <2> QED BY <1>33, <2>1 DEF OpenLayer, Serves, Turn
<1>34. CASE Resume
  <2>1. ctx = "JOB" /\ why \notin Before /\ ingest'.first /\ why' = "BUFFERING"
    BY <1>34 DEF Resume
  <2> QED BY <1>34, <2>1 DEF Resume, Serves, Turn
<1>35. CASE QueueRecord
  <2>1. ctx = "JOB" /\ why \notin Before /\ ingest'.trim = 0
    BY <1>35 DEF QueueRecord, Admits
  <2> QED BY <1>35, <2>1 DEF QueueRecord, Serves, Turn
<1>36. CASE Pause
  BY <1>36 DEF Pause, Serves, Turn
<1>37. CASE Abort
  <2>1. ingest' = [ingest EXCEPT !.inContour = FALSE]
    BY <1>37 DEF Abort
  <2>2. ingest'.trim = ingest.trim /\ ingest'.first = ingest.first
    BY <2>1 DEF JobTypes, Layers
  <2>3. ingest = NoLayer => ingest' = NoLayer
    BY <2>1, NoContour
  <2>4. UNCHANGED <<jobs, reach>>
    BY <1>37 DEF Abort, Serves
  <2>5. jobs = 0 => ctx' = "IDLE"
    BY <1>37 DEF Abort
  <2>6. ctx' = "JOB" => ctx = "JOB" /\ why' = why
    BY <1>37 DEF Abort
  <2> HIDE DEF JobTypes, NotOpen
  <2> QED BY <2>2, <2>3, <2>4, <2>5, <2>6
<1>38. CASE Cancel
  <2>1. ingest' = [ingest EXCEPT !.inContour = FALSE]
    BY <1>38 DEF Cancel
  <2>2. ingest'.trim = ingest.trim /\ ingest'.first = ingest.first
    BY <2>1 DEF JobTypes, Layers
  <2>3. ingest = NoLayer => ingest' = NoLayer
    BY <2>1, NoContour
  <2>4. UNCHANGED <<jobs, reach>>
    BY <1>38 DEF Cancel, Serves
  <2>5. jobs = 0 => ctx' = "IDLE"
    BY <1>38 DEF Cancel
  <2>6. ctx' = "JOB" => ctx = "JOB" /\ why' = why
    BY <1>38 DEF Cancel
  <2> HIDE DEF JobTypes, NotOpen
  <2> QED BY <2>2, <2>3, <2>4, <2>5, <2>6
<1>39. CASE Stop
  BY <1>39 DEF Stop, Serves, Turn
<1>40. CASE Unstop
  BY <1>40 DEF Unstop, Serves, Turn
<1>41. CASE Unalarm
  BY <1>41 DEF Unalarm, Serves, Turn
<1>42. CASE Reset
  BY <1>42 DEF Reset, Serves, Turn
<1>43. CASE UNCHANGED vars
  BY <1>43 DEF vars
<1> QED BY <1>1, <1>2, <1>3, <1>4, <1>5, <1>6, <1>7, <1>8, <1>9, <1>10, <1>11, <1>12, <1>13,
          <1>14, <1>15, <1>16, <1>17, <1>18, <1>19, <1>20, <1>21, <1>22, <1>23, <1>24, <1>25,
          <1>26, <1>27, <1>28, <1>29, <1>30, <1>31, <1>32, <1>33, <1>34, <1>35, <1>36, <1>37,
          <1>38, <1>39, <1>40, <1>41, <1>42, <1>43
        DEF Next, Host, Pass, Core1, Observe, Settled


LEMMA NearSame ==
  ASSUME ring \in Seq(Blocks), Len(ring) \in Nat, ring' = ring, AllNear,
         reach \in Nat, reach' \in Nat, reach <= reach'
  PROVE  AllNear'
<1> SUFFICES ASSUME NEW i \in 1 .. (Len(ring) - 1) PROVE Near(i)'
  BY DEF AllNear
<1>1. i \in 1 .. Len(ring) /\ i + 1 \in 1 .. Len(ring)
  OBVIOUS
<1>2. Pos(ring[i + 1]) \in Int
  BY <1>1, BlocksIn
<1>3. Near(i)
  BY DEF AllNear
<1>4. Pos(ring[i + 1]) <= reach => Pos(ring[i + 1]) <= reach'
  BY <1>2
<1> QED BY <1>3, <1>4 DEF Near, Pos, EndPos

LEMMA ReleasedEnds ==
  ASSUME RingTypes, Release
  PROVE  /\ \A i \in 1 .. Len(ring) : EndPos(ring'[i]) = EndPos(ring[i])
         /\ \A i \in 2 .. Len(ring) : ring'[i] = ring[i]
         /\ Len(ring') = Len(ring) /\ (ring' = <<>> <=> ring = <<>>)
         /\ Len(ring) \in Nat /\ (ring # <<>> => Len(ring) > 0)
<1>1. /\ Len(ring') = Len(ring) /\ (ring' = <<>> <=> ring = <<>>)
      /\ \A i \in 1 .. Len(ring) :
           ring'[i].kind = ring[i].kind /\ ring'[i].record = ring[i].record
      /\ \A i \in 2 .. Len(ring) : ring'[i] = ring[i]
      /\ ring # <<>> => ring'[1].s = IF Cutting THEN exec.along ELSE ring[1].s
  BY ReleaseIs
<1>2. ring \in Seq(Blocks) /\ Len(ring) \in Nat /\ (ring # <<>> => Len(ring) > 0)
  BY DEF RingTypes
<1>3. ASSUME NEW i \in 1 .. Len(ring) PROVE EndPos(ring'[i]) = EndPos(ring[i])
  <2>1. CASE i # 1
    <3>1. i \in 2 .. Len(ring)
      BY <1>2, <2>1
    <3> QED BY <1>1, <3>1
  <2>2. CASE i = 1
    <3>1. ring # <<>>
      BY <1>2
    <3>2. Head(ring) = ring[1]
      BY <3>1, HeadIs
    <3>3. Cutting => ring[1].kind = "cut"
      BY <3>2 DEF Cutting
    <3> QED BY <1>1, <2>2, <3>1, <3>3 DEF EndPos, Pos
  <2> QED BY <2>1, <2>2
<1> QED BY <1>1, <1>2, <1>3

LEMMA ReleaseNear ==
  ASSUME RingTypes, AllNear, Release, reach' = reach
  PROVE  AllNear'
<1>1. /\ \A i \in 1 .. Len(ring) : EndPos(ring'[i]) = EndPos(ring[i])
      /\ \A i \in 2 .. Len(ring) : ring'[i] = ring[i]
      /\ Len(ring') = Len(ring) /\ Len(ring) \in Nat
  BY ReleasedEnds
<1> SUFFICES ASSUME NEW i \in 1 .. (Len(ring) - 1) PROVE Near(i)'
  BY <1>1 DEF AllNear
<1>2. i \in 1 .. Len(ring) /\ i + 1 \in 2 .. Len(ring)
  BY <1>1
<1>3. ring'[i + 1] = ring[i + 1] /\ EndPos(ring'[i]) = EndPos(ring[i])
  BY <1>1, <1>2
<1>4. Near(i)
  BY DEF AllNear
<1> QED BY <1>3, <1>4 DEF Near, Pos, EndPos

LEMMA DutyIsNear ==
  ASSUME Inv, Own, DutyNear, ObserveDutyHeld, ring' # ring
  PROVE  PathAt(dutyStop.record, dutyStop.s) <= reach
<1>1. Observes("DUTY_HELD") /\ dutyStop.cut
  BY DEF ObserveDutyHeld
<1>2. facts[1] = "DUTY_HELD" /\ 1 \in 1 .. Len(facts)
  BY <1>1, OldestIs
<1> QED BY <1>1, <1>2 DEF DutyNear

(* The blocks of the ring go on joining one another.                         *)
LEMMA NearKept ==
  ASSUME Inv, FirstJob, Reached, Own, Own', Lives \/ UNCHANGED vars
  PROVE  AllNear'
<1> USE DEF ctxVars, flagVars, ringVars, dutyVars, toolVars, core1Vars, core0Vars, settleVars,
            core1Untouched
<1>a. /\ ctx = "JOB" /\ ~jobAborted /\ ~abortRequested /\ mode # "abort" /\ estop = "clear"
      /\ why \notin Before /\ why # "ABORTING" /\ c1 \notin {"dropped", "consumed"}
      /\ why # "BUFFERING" => ingest.open
      /\ InLoop => active /\ why # "PAUSED"
      /\ InLoop => (OnPath <=> ~runsOn /\ ingest.open /\ ingest.inContour)
      /\ exec.cur => ring # <<>> /\ active
  BY OwnIs
<1>c. AllNear /\ HeadNear /\ NextNear /\ StopNear /\ DutyNear /\ reach \in Nat
  BY DEF Reached, FirstJob
<1>d. /\ RingTypes /\ ring \in Seq(Blocks) /\ Len(ring) \in Nat
      /\ ring # <<>> => Head(ring) = ring[1] /\ 1 \in 1 .. Len(ring)
  BY HeadIs DEF Inv, Types, RingTypes
<1>e. /\ reach' \in Nat /\ reach <= reach'
      /\ Tick /\ Advance =>
           /\ ring' = ring /\ exec'.cur /\ exec'.along = exec.along + 1
           /\ PathAt(ring[1].record, exec.along + 1) <= reach'
      /\ ~(Tick /\ Advance) => reach' = reach
  BY <1>c, ReachGrows DEF HeadNear
<1>1. CASE EnterHeld
  <2>1. ring' = <<>>
    BY <1>1, LandHeldIs DEF EnterHeld, Inv
  <2>2. Len(ring') = 0
    BY <2>1
  <2> QED BY <2>2 DEF AllNear
<1>2. CASE Tick
  <2>1. CASE Finish
    <3>1. ring # <<>> /\ ring' = Tail(ring) /\ reach' = reach
      BY <1>a, <2>1 DEF Finish
    <3>2. /\ Len(ring') = Len(ring) - 1
          /\ \A i \in 1 .. Len(ring') : ring'[i] = ring[i + 1] /\ i + 1 \in 1 .. Len(ring)
      BY <1>d, <3>1, Popped
    <3> SUFFICES ASSUME NEW i \in 1 .. (Len(ring') - 1) PROVE Near(i)'
      BY DEF AllNear
    <3>3. /\ i \in 1 .. Len(ring') /\ i + 1 \in 1 .. Len(ring') /\ i + 1 \in 1 .. (Len(ring) - 1)
      BY <1>d, <3>2
    <3>4. Near(i + 1)
      BY <1>c, <3>3 DEF AllNear
    <3> QED BY <3>1, <3>2, <3>3, <3>4 DEF Near, Pos, EndPos
  <2>2. CASE ~Finish
    <3>1. ring' = ring
      BY <1>2, <1>a, <2>2 DEF Tick, Claim, Advance, HoldEnds, AbortFindsHeld, TickRests
    <3> QED BY <1>c, <1>d, <1>e, <3>1, NearSame
  <2> QED BY <2>1, <2>2
<1>3. CASE LateRests
  <2>1. Release /\ reach' = reach
    BY <1>3, <1>e DEF LateRests, toolVars
  <2> QED BY <1>c, <1>d, <2>1, ReleaseNear
<1>4. CASE DutyRests
  <2>1. Release /\ reach' = reach
    BY <1>4, <1>e DEF DutyRests, toolVars
  <2> QED BY <1>c, <1>d, <2>1, ReleaseNear
<1>5. CASE PauseRests
  <2>1. ring' = <<>>
    BY <1>5, LandHeldIs DEF PauseRests, Inv
  <2>2. Len(ring') = 0
    BY <2>1
  <2> QED BY <2>2 DEF AllNear
<1>6. CASE ObserveHeld
  <2>1. ring' = ring \/ \E fits \in BOOLEAN : ring' = LiftBlocks(fits)
    BY <1>6 DEF ObserveHeld, QueueLift
  <2>2. CASE ring' = ring
    BY <1>c, <1>d, <1>e, <2>2, NearSame
  <2>3. CASE \E fits \in BOOLEAN : ring' = LiftBlocks(fits)
    <3>1. ring' \in Seq(Blocks) /\ \A i \in 1 .. Len(ring') : ring'[i].record = 0 /\ ring'[i].s = 0
      BY <2>3, LiftIs DEF Inv, Types
    <3> SUFFICES ASSUME NEW i \in 1 .. (Len(ring') - 1) PROVE Near(i)'
      BY DEF AllNear
    <3>2. i + 1 \in 1 .. Len(ring')
      BY <3>1
    <3>3. Pos(ring'[i + 1]) <= reach'
      BY <1>e, <3>1, <3>2, LiftPath DEF Pos
    <3> QED BY <3>3 DEF Near, Pos
  <2> QED BY <2>1, <2>2, <2>3
<1>7. CASE ObserveDutyHeld
  <2>1. CASE ring' = ring
    BY <1>c, <1>d, <1>e, <2>1, NearSame
  <2>2. CASE ring' # ring
    <3>1. /\ ring # <<>> /\ ring[1].kind = "cut" /\ Len(ring') = 4 + Len(ring)
          /\ ring' \in Seq(Blocks)
          /\ \A i \in {1, 2, 3, 4} :
                ring'[i].record = dutyStop.record /\ ring'[i].s = dutyStop.s
          /\ \A i \in 1 .. Len(ring) : ring'[4 + i] = ring[i]
      BY <1>7, <2>2, LiftedIs
    <3>2. PathAt(dutyStop.record, dutyStop.s) <= reach
      BY <1>7, <1>c, <2>2, DutyIsNear
    <3>3. reach' = reach
      BY <1>7, <1>e DEF ObserveDutyHeld, core1Untouched, toolVars
    <3> SUFFICES ASSUME NEW i \in 1 .. (Len(ring') - 1) PROVE Near(i)'
      BY DEF AllNear
    <3>4. CASE i \in {1, 2, 3}
      <4>1. i + 1 \in {1, 2, 3, 4}
        BY <3>4
      <4> QED BY <3>1, <3>2, <3>3, <4>1 DEF Near, Pos
    <3>5. CASE i = 4
      <4>1. 4 + 1 = i + 1 /\ ring'[4 + 1] = ring[1]
        BY <1>d, <3>1, <3>5
      <4>2. Pos(ring[1]) <= reach
        BY <1>c, <3>1 DEF HeadNear
      <4> QED BY <3>3, <4>1, <4>2 DEF Near, Pos
    <3>6. CASE i > 4
      <4>1. /\ i - 4 \in 1 .. (Len(ring) - 1) /\ i - 4 \in 1 .. Len(ring) /\ 4 + (i - 4) = i
            /\ (i - 4) + 1 \in 1 .. Len(ring) /\ 4 + ((i - 4) + 1) = i + 1
        BY <1>d, <3>1, <3>6
      <4>2. ring'[4 + (i - 4)] = ring[i - 4] /\ ring'[4 + ((i - 4) + 1)] = ring[(i - 4) + 1]
        BY <3>1, <4>1
      <4>3. ring'[i] = ring[i - 4] /\ ring'[i + 1] = ring[(i - 4) + 1]
        BY <4>1, <4>2
      <4>4. Near(i - 4)
        BY <1>c, <4>1 DEF AllNear
      <4> QED BY <3>3, <4>3, <4>4 DEF Near, Pos, EndPos
    <3> QED BY <1>d, <3>1, <3>4, <3>5, <3>6
  <2> QED BY <2>1, <2>2
<1>8. CASE QueueRecord
  <2> DEFINE k == Len(ring)
             t == Len(ring')
             at == PathAt(ingest.next, 0)
  <2>1. PICK n \in Nat :
           /\ k \in Nat /\ t \in Nat /\ n > 0 /\ k + n <= t
           /\ ring'[k + n].kind = "cut"
           /\ \A i \in 1 .. n - 1 : ring'[k + i].kind # "cut"
           /\ \A i \in k + n + 1 .. t : ring'[i].kind \in {"up", "off"}
           /\ ring' \in Seq(Blocks)
           /\ ring'[k + n].record = ingest.next /\ ring'[k + n].s = NextTrim
           /\ \A i \in 1 .. n - 1 : ring'[k + i].record = ingest.next /\ ring'[k + i].s = 0
           /\ \A i \in k + n + 1 .. t : ring'[i].record = ingest.next + 1 /\ ring'[i].s = 0
           /\ \A i \in 1 .. k : ring'[i] = ring[i]
    BY <1>8, AddedIs DEF Adds
  <2>2. reach' = reach /\ ~Stopping /\ ingest.next \in Int /\ NextTrim \in Parts
    <3>1. ingest.next \in Int /\ NextTrim \in Parts
      BY Constants DEF Inv, Types, JobTypes, Layers, Tags, NextTrim
    <3> QED BY <1>8, <1>e, <3>1 DEF QueueRecord, Admits, Stopping, toolVars
  <2>3. at \in Int /\ PathAt(ingest.next, NextTrim) \in Int /\ at <= PathAt(ingest.next, NextTrim)
        /\ PathAt(ingest.next + 1, 0) = PathAt(ingest.next, RecLen)
    <3>1. NextTrim \in Int /\ 0 \in Int /\ 0 <= NextTrim
      BY <2>2 DEF Parts
    <3>2. /\ PathAt(ingest.next, 0) \in Int
          /\ PathAt(ingest.next + 1, 0) = PathAt(ingest.next, RecLen)
          /\ \A b \in Int : 0 <= b => PathAt(ingest.next, 0) <= PathAt(ingest.next, b)
      BY <2>2, <3>1, PathIs
    <3>3. PathAt(ingest.next, NextTrim) \in Int
      BY <2>2, <3>1, PathIs
    <3> QED BY <3>1, <3>2, <3>3
  <2>4. /\ \/ at <= reach
           \/ k > 0 /\ at <= EndPos(ring[k])
        /\ PathAt(ingest.next, NextTrim) <= reach \/ NextTrim = 0
    <3>1. ring # <<>> => k > 0
      BY <1>d
    <3> QED BY <1>c, <2>2, <2>3, <3>1 DEF NextNear
  <2>5. \A i \in 1 .. n - 1 : Pos(ring'[k + i]) = at /\ EndPos(ring'[k + i]) = at
    BY <2>1 DEF Pos, EndPos
  <2>6. /\ Pos(ring'[k + n]) = PathAt(ingest.next, NextTrim)
        /\ EndPos(ring'[k + n]) = PathAt(ingest.next, RecLen)
    BY <2>1 DEF Pos, EndPos
  <2>7. \A i \in k + n + 1 .. t : Pos(ring'[i]) = PathAt(ingest.next, RecLen)
                                /\ EndPos(ring'[i]) = PathAt(ingest.next, RecLen)
    BY <2>1, <2>3 DEF Pos, EndPos
  <2>8. PathAt(ingest.next, RecLen) \in Int
    <3>1. RecLen \in Int
      BY Constants
    <3> QED BY <2>2, <3>1, PathIs
  <2> SUFFICES ASSUME NEW i \in 1 .. (Len(ring') - 1)
               PROVE  \/ Pos(ring'[i + 1]) <= reach
                      \/ Pos(ring'[i + 1]) <= EndPos(ring'[i])
    BY <2>2 DEF AllNear, Near, Pos, EndPos
  <2> HIDE DEF k, t, at
  <2>9. i \in 1 .. (t - 1)
    BY DEF t
  <2>10. CASE i + 1 <= k
    <3>1. i \in 1 .. (k - 1) /\ i \in 1 .. k /\ i + 1 \in 1 .. k
      BY <2>1, <2>9, <2>10
    <3>2. Near(i) /\ ring'[i] = ring[i] /\ ring'[i + 1] = ring[i + 1]
      BY <1>c, <2>1, <3>1 DEF k, AllNear
    <3> QED BY <3>2 DEF Near
  <2>11. CASE i = k
    <3>5. k > 0 /\ k \in 1 .. k
      BY <2>1, <2>9, <2>11
    <3>1. ring'[i] = ring[k] /\ k > 0
      BY <2>1, <2>11, <3>5
    <3>2. n > 1 => Pos(ring'[i + 1]) = at
      BY <2>1, <2>5, <2>11
    <3>3. n = 1 => Pos(ring'[i + 1]) = PathAt(ingest.next, NextTrim)
      BY <2>6, <2>11
    <3>4. NextTrim = 0 => PathAt(ingest.next, NextTrim) = at
      BY DEF at
    <3> QED BY <2>1, <2>4, <3>1, <3>2, <3>3, <3>4
  <2>12. CASE i > k /\ i < k + n
    <3>1. i - k \in 1 .. n - 1 /\ k + (i - k) = i
      BY <2>1, <2>9, <2>12
    <3>2. EndPos(ring'[i]) = at
      BY <2>5, <3>1
    <3>3. CASE i + 1 < k + n
      <4>1. (i - k) + 1 \in 1 .. n - 1 /\ k + ((i - k) + 1) = i + 1
        BY <2>1, <3>1, <3>3
      <4>2. Pos(ring'[i + 1]) = at
        BY <2>5, <4>1
      <4> QED BY <2>3, <3>2, <4>2
    <3>4. CASE i + 1 = k + n
      <4>1. Pos(ring'[i + 1]) = PathAt(ingest.next, NextTrim)
        BY <2>6, <3>4
      <4>2. NextTrim = 0 => PathAt(ingest.next, NextTrim) = at
        BY DEF at
      <4> QED BY <2>3, <2>4, <3>2, <4>1, <4>2
    <3> QED BY <2>1, <2>9, <2>12, <3>3, <3>4
  <2>13. CASE i >= k + n
    <3>1. i + 1 \in k + n + 1 .. t /\ (i = k + n \/ i \in k + n + 1 .. t)
      BY <2>1, <2>9, <2>13
    <3> QED BY <2>6, <2>7, <2>8, <3>1
  <2> QED BY <2>1, <2>9, <2>10, <2>11, <2>12, <2>13
<1>9. CASE \/ EnterLift \/ EnterRun \/ Look \/ NotSettled \/ Drained \/ DrainedReports
           \/ RunsDry \/ EventOff \/ EventDwell \/ EventSwitch \/ EventSettled \/ PassEnds
           \/ ObserveDrained \/ DutyUnwaits \/ ObserveEnds \/ OpenLayer \/ Resume \/ Pause
  BY <1>9, <1>c, <1>d, <1>e, NearSame
     DEF EnterLift, MayEnter, Enters, EnterRun, Look, NotSettled, Drained, AtSettle,
         DrainedReports, Returns, RunsDry, EventOff, EventWaits, EventDwell, EventSwitch,
         EventSettled, PassEnds, ObserveDrained, Observes, DutyUnwaits, ObserveEnds, OpenLayer,
         Serves, Turn, Resume, Pause
<1>10. CASE UNCHANGED vars
  BY <1>10, <1>c, <1>d, <1>e, NearSame DEF vars
<1> QED BY <1>1, <1>2, <1>3, <1>4, <1>5, <1>6, <1>7, <1>8, <1>9, <1>10
        DEF Lives


(* Where the run would stop, and where the block it finishes ends.          *)
LEMMA StopIsNear ==
  ASSUME Inv, HeadNear, ring # <<>>
  PROVE  PathAt(StopPoint.record, StopPoint.s) <= reach
<1>1. Head(ring) = ring[1]
  BY HeadIs DEF Inv, Types
<1>2. Pos(ring[1]) <= reach /\ (Cutting => PathAt(ring[1].record, exec.along) <= reach)
  BY DEF HeadNear
<1>3. CASE Cutting
  <2>1. StopPoint.record = ring[1].record /\ StopPoint.s = exec.along
    BY <1>1, <1>3 DEF StopPoint, Cutting
  <2> QED BY <1>2, <1>3, <2>1
<1>4. CASE ~Cutting
  <2>1. StopPoint.record = ring[1].record /\ StopPoint.s = ring[1].s
    BY <1>1, <1>4 DEF StopPoint, Cutting
  <2> QED BY <1>2, <2>1 DEF Pos
<1> QED BY <1>3, <1>4

LEMMA FinishIsNear ==
  ASSUME Inv, HeadNear, Finish
  PROVE  ring # <<>> /\ EndPos(ring[1]) <= reach
<1>1. ring # <<>>
  BY DEF Finish, Inv, Types, RingTypes
<1>2. Head(ring) = ring[1]
  BY <1>1, HeadIs DEF Inv, Types
<1>3. Pos(ring[1]) <= reach /\ (Cutting => PathAt(ring[1].record, exec.along) <= reach)
  BY <1>1 DEF HeadNear
<1>4. CASE ring[1].kind = "cut"
  <2>1. Cutting /\ exec.along = RecLen
    BY <1>2, <1>4 DEF Finish, Cutting
  <2> QED BY <1>1, <1>3, <1>4, <2>1 DEF EndPos
<1>5. CASE ring[1].kind # "cut"
  BY <1>1, <1>3, <1>5 DEF EndPos
<1> QED BY <1>4, <1>5

(* The steps that neither stop the path for a pause nor continue it.         *)
Steady == \/ EnterLift \/ EnterRun \/ Look \/ Tick \/ NotSettled \/ Drained
          \/ DrainedReports \/ RunsDry \/ LateRests \/ DutyRests \/ EventOff
          \/ EventDwell \/ EventSwitch \/ EventSettled \/ PassEnds \/ ObserveHeld
          \/ ObserveDrained \/ ObserveDutyHeld \/ DutyUnwaits \/ ObserveEnds \/ OpenLayer
          \/ QueueRecord \/ Pause

(* A pause stops the path, a resume continues it, and no other step does.    *)
LEMMA StopsKept ==
  ASSUME Inv, Own, Own', Steady \/ UNCHANGED vars
  PROVE  (Stopping' <=> Stopping) /\ jobResume' = jobResume
<1> USE DEF ctxVars, flagVars, ringVars, dutyVars, toolVars, core1Vars, core0Vars, settleVars,
            core1Untouched
<1>a. /\ ctx = "JOB" /\ ~jobAborted /\ ~abortRequested /\ mode # "abort" /\ estop = "clear"
      /\ why \notin Before /\ why # "ABORTING" /\ c1 \notin {"dropped", "consumed"}
      /\ why # "BUFFERING" => ingest.open
      /\ InLoop => active /\ why # "PAUSED"
      /\ InLoop => (OnPath <=> ~runsOn /\ ingest.open /\ ingest.inContour)
      /\ exec.cur => ring # <<>> /\ active
  BY OwnIs
<1>c. /\ InLoop => active /\ why # "PAUSED"
      /\ runsOn => why = "HOLDING" /\ (ring # <<>> => Head(ring).kind \in {"up", "off"})
      /\ AtTop => ~runsOn
      /\ c1 = "drained" => why = "HOLDING" /\ ~active
      /\ exec.cur => ring # <<>>
  <2>1. ring # <<>> => Head(ring) = ring[1] /\ 1 \in 1 .. Len(ring)
    BY HeadIs DEF Inv, Types, RingTypes
  <2>2. runsOn => why = "HOLDING" /\ (ring # <<>> => Head(ring).kind \in {"up", "off"})
    BY <2>1 DEF Inv, LiftTrue, Lifting, Lifts
  <2>3. AtTop => ~runsOn
    BY DEF Inv, Core1Place
  <2>4. c1 = "drained" => why = "HOLDING" /\ ~active
    BY DEF Inv, DrainedTrue, AtRest
  <2> QED BY <1>a, <2>2, <2>3, <2>4
<1>1. CASE EnterLift
  BY <1>1, <1>a, <1>c DEF EnterLift, MayEnter, Enters, Stopping, InLoop, AtTop
<1>2. CASE EnterRun
  BY <1>2, <1>a, <1>c DEF EnterRun, MayEnter, Enters, Stopping, InLoop, AtTop
<1>3. CASE Look
  BY <1>3, <1>a, <1>c DEF Look, Stopping, InLoop, AtTop
<1>4. CASE Drained
  BY <1>4, <1>a, <1>c DEF Drained, AtSettle, Stopping, InLoop, AtTop
<1>5. CASE DrainedReports
  BY <1>5, <1>a, <1>c DEF DrainedReports, Returns, Stopping, InLoop, AtTop
<1>6. CASE RunsDry
  BY <1>6, <1>a, <1>c DEF RunsDry, AtSettle, Returns, Stopping, InLoop, AtTop
<1>7. CASE LateRests
  BY <1>7, <1>a, <1>c DEF LateRests, AtSettle, Returns, Stopping, InLoop, AtTop
<1>8. CASE EventDwell
  BY <1>8, <1>a, <1>c DEF EventDwell, EventWaits, AtSettle, Stopping, InLoop, AtTop
<1>9. CASE ObserveHeld
  <2>1. ReportTrue(1) /\ facts[1] = "HELD"
    BY <1>9, OldestIs DEF ObserveHeld
  <2>2. why = "HOLDING" /\ ~active
    BY <2>1 DEF ReportTrue, AtRest
  <2>3. ~active' /\ runsOn' = runsOn /\ jobResume' = jobResume
    BY <1>9, <2>2 DEF ObserveHeld
  <2>4. why' \in {"HOLDING", "PAUSED"}
    BY <1>9, <2>2 DEF ObserveHeld, QueueLift, LandPaused
  <2> QED BY <2>2, <2>3, <2>4 DEF Stopping
<1>10. CASE ObserveDrained
  <2>1. ReportTrue(1) /\ facts[1] = "DRAINED"
    BY <1>10, OldestIs DEF ObserveDrained
  <2>2. why = "HOLDING" /\ ~active
    BY <2>1 DEF ReportTrue, AtRest
  <2>3. ~active' /\ runsOn' = runsOn /\ jobResume' = jobResume
    BY <1>10, <2>2 DEF ObserveDrained
  <2>4. why' \in {"HOLDING", "PAUSED"}
    BY <1>10, <2>2 DEF ObserveDrained, QueueLift, LandPaused
  <2> QED BY <2>2, <2>3, <2>4 DEF Stopping
<1>11. CASE QueueRecord
  BY <1>11, <1>a, <1>c DEF QueueRecord, Serves, Turn, Stopping, InLoop, AtTop
<1>12. CASE \/ Tick \/ NotSettled \/ DutyRests \/ EventOff \/ EventSwitch \/ EventSettled
            \/ PassEnds \/ ObserveDutyHeld \/ DutyUnwaits \/ ObserveEnds \/ OpenLayer
            \/ Pause
  BY <1>12
     DEF Tick, NotSettled, DutyRests, AtSettle, EventOff, EventWaits, EventSwitch, EventSettled,
         PassEnds, ObserveDutyHeld, Observes, DutyUnwaits, ObserveEnds, OpenLayer, Serves, Turn,
         Pause, Stopping, InLoop, AtTop
<1>13. CASE UNCHANGED vars
  BY <1>13 DEF vars, Stopping
<1> QED BY <1>1, <1>2, <1>3, <1>4, <1>5, <1>6, <1>7, <1>8, <1>9, <1>10, <1>11, <1>12, <1>13
        DEF Steady


(* The oldest block starts where the path has got to, and its cut has gone   *)
(* no further.                                                              *)
LEMMA HeadNearKept ==
  ASSUME Inv, FirstJob, Reached, Own, Own', Lives \/ UNCHANGED vars
  PROVE  HeadNear'
<1> USE DEF ctxVars, flagVars, ringVars, dutyVars, toolVars, core1Vars, core0Vars, settleVars,
            core1Untouched
<1>a. /\ ctx = "JOB" /\ ~jobAborted /\ ~abortRequested /\ mode # "abort" /\ estop = "clear"
      /\ why \notin Before /\ why # "ABORTING" /\ c1 \notin {"dropped", "consumed"}
      /\ why # "BUFFERING" => ingest.open
      /\ InLoop => active /\ why # "PAUSED"
      /\ InLoop => (OnPath <=> ~runsOn /\ ingest.open /\ ingest.inContour)
      /\ exec.cur => ring # <<>> /\ active
  BY OwnIs
<1>c. AllNear /\ HeadNear /\ NextNear /\ StopNear /\ DutyNear /\ reach \in Nat
  BY DEF Reached, FirstJob
<1>d. /\ RingTypes /\ ring \in Seq(Blocks) /\ Len(ring) \in Nat
      /\ ring # <<>> => Head(ring) = ring[1] /\ 1 \in 1 .. Len(ring)
  BY HeadIs DEF Inv, Types, RingTypes
<1>e. /\ reach' \in Nat /\ reach <= reach'
      /\ Tick /\ Advance =>
           /\ ring' = ring /\ exec'.cur /\ exec'.along = exec.along + 1
           /\ PathAt(ring[1].record, exec.along + 1) <= reach'
      /\ ~(Tick /\ Advance) => reach' = reach
  BY <1>c, ReachGrows DEF HeadNear
<1>1. CASE EnterHeld
  <2>1. ring' = <<>> /\ exec' = IdleExec
    BY <1>1, LandHeldIs DEF EnterHeld, Inv
  <2> QED BY <2>1 DEF HeadNear, Cutting, IdleExec
<1>2. CASE Look
  <2>1. Hold(exec).cur = exec.cur /\ Hold(exec).along = exec.along
    BY DEF Hold, Inv, Types, RingTypes, Execs
  <2>2. ring' = ring /\ reach' = reach /\ exec'.cur = exec.cur /\ exec'.along = exec.along
    BY <1>2, <2>1 DEF Look
  <2> QED BY <1>c, <2>2 DEF HeadNear, Cutting, Pos
<1>3. CASE Tick
  <2>1. CASE Claim
    <3>1. ring # <<>> /\ ring' = ring /\ reach' = reach
      BY <2>1 DEF Claim
    <3>2. Cutting' => exec'.along = ring[1].s
      BY <1>d, <2>1, <3>1 DEF Claim, Cutting, Inv, Types, RingTypes, Execs
    <3> QED BY <1>c, <3>1, <3>2 DEF HeadNear, Pos
  <2>2. CASE Finish
    <3>1. ring # <<>> /\ EndPos(ring[1]) <= reach
      BY <1>c, <2>2, FinishIsNear
    <3>2. ring' = Tail(ring) /\ reach' = reach /\ ~exec'.cur
      BY <2>2 DEF Finish, Inv, Types, RingTypes, Execs
    <3>3. ~Cutting'
      BY <3>2 DEF Cutting
    <3> SUFFICES ASSUME ring' # <<>> PROVE Pos(ring'[1]) <= reach
      BY <3>2, <3>3 DEF HeadNear, Pos
    <3>4. /\ Len(ring') = Len(ring) - 1
          /\ \A i \in 1 .. Len(ring') : ring'[i] = ring[i + 1]
          /\ ring' = <<>> <=> Len(ring) = 1
      BY <1>d, <3>1, <3>2, Popped
    <3>5. Len(ring) > 1
      BY <1>d, <3>1, <3>4
    <3>6. ring'[1] = ring[1 + 1] /\ 1 \in 1 .. (Len(ring) - 1) /\ 1 \in 1 .. Len(ring)
          /\ 1 + 1 \in 1 .. Len(ring)
      BY <1>d, <3>4, <3>5
    <3>7. Near(1)
      BY <1>c, <3>6 DEF AllNear
    <3>8. Pos(ring[1 + 1]) \in Int /\ EndPos(ring[1]) \in Int
      BY <1>d, <3>6, BlocksIn
    <3> QED BY <1>c, <3>1, <3>6, <3>7, <3>8 DEF Near
  <2>3. CASE Advance
    <3>1. /\ ring' = ring /\ exec'.along = exec.along + 1 /\ ring # <<>>
          /\ PathAt(ring[1].record, exec.along + 1) <= reach'
      BY <1>3, <1>a, <1>e, <2>3 DEF Advance, Cutting
    <3>2. Pos(ring[1]) \in Int /\ Pos(ring[1]) <= reach
      BY <1>c, <1>d, <3>1, BlocksIn DEF HeadNear
    <3>3. Pos(ring[1]) <= reach'
      BY <1>c, <1>e, <3>2
    <3> QED BY <3>1, <3>3 DEF HeadNear, Pos
  <2>4. CASE HoldEnds \/ AbortFindsHeld \/ TickRests
    <3>1. ring' = ring /\ reach' = reach /\ exec'.cur = exec.cur /\ exec'.along = exec.along
      BY <1>a, <2>4 DEF HoldEnds, AbortFindsHeld, TickRests, Inv, Types, RingTypes, Execs
    <3> QED BY <1>c, <3>1 DEF HeadNear, Cutting, Pos
  <2> QED BY <1>3, <2>1, <2>2, <2>3, <2>4 DEF Tick
<1>4. CASE LateRests
  <2>1. Release /\ reach' = reach
    BY <1>4, <1>e DEF LateRests, toolVars
  <2>2. /\ exec' = IdleExec /\ (ring' = <<>> <=> ring = <<>>)
        /\ ring # <<>> => /\ ring'[1].s = IF Cutting THEN exec.along ELSE ring[1].s
                         /\ ring'[1].record = ring[1].record
    BY <1>d, <2>1, ReleaseIs
  <2>3. ~Cutting'
    BY <2>2 DEF Cutting, IdleExec
  <2> QED BY <1>c, <2>1, <2>2, <2>3 DEF HeadNear, Pos
<1>5. CASE DutyRests
  <2>1. Release /\ reach' = reach
    BY <1>5, <1>e DEF DutyRests, toolVars
  <2>2. /\ exec' = IdleExec /\ (ring' = <<>> <=> ring = <<>>)
        /\ ring # <<>> => /\ ring'[1].s = IF Cutting THEN exec.along ELSE ring[1].s
                         /\ ring'[1].record = ring[1].record
    BY <1>d, <2>1, ReleaseIs
  <2>3. ~Cutting'
    BY <2>2 DEF Cutting, IdleExec
  <2> QED BY <1>c, <2>1, <2>2, <2>3 DEF HeadNear, Pos
<1>6. CASE PauseRests
  <2>1. ring' = <<>> /\ exec' = IdleExec
    BY <1>6, LandHeldIs DEF PauseRests, Inv
  <2> QED BY <2>1 DEF HeadNear, Cutting, IdleExec
<1>7. CASE EventOff
  <2>1. ring' = ring /\ reach' = reach /\ exec'.cur = exec.cur /\ exec'.along = exec.along
    BY <1>7 DEF EventOff, Inv, Types, RingTypes, Execs
  <2> QED BY <1>c, <2>1 DEF HeadNear, Cutting, Pos
<1>8. CASE EventSettled
  <2>1. ring' = ring /\ reach' = reach /\ exec'.cur = exec.cur /\ exec'.along = exec.along
    BY <1>8 DEF EventSettled, Inv, Types, RingTypes, Execs
  <2> QED BY <1>c, <2>1 DEF HeadNear, Cutting, Pos
<1>9. CASE ObserveHeld
  <2>1. /\ exec' = exec /\ reach' = reach
        /\ ring' = ring \/ (AtRest /\ \E fits \in BOOLEAN : ring' = LiftBlocks(fits))
    BY <1>9 DEF ObserveHeld, QueueLift, LiftDue
  <2>2. CASE ring' = ring
    BY <1>c, <2>1, <2>2 DEF HeadNear, Cutting, Pos
  <2>3. CASE AtRest /\ \E fits \in BOOLEAN : ring' = LiftBlocks(fits)
    <3>1. ~exec.cur
      BY <1>a, <2>3 DEF AtRest
    <3>2. /\ ring' \in Seq(Blocks)
          /\ \A i \in 1 .. Len(ring') : ring'[i].record = 0 /\ ring'[i].s = 0
      BY <2>3, LiftIs DEF Inv, Types
    <3>3. ring' # <<>> => Pos(ring'[1]) = PathAt(0, 0)
      BY <3>2 DEF Pos
    <3>4. ring' # <<>> => Pos(ring'[1]) <= reach
      BY <1>c, <3>3, LiftPath
    <3> QED BY <2>1, <3>1, <3>4 DEF HeadNear, Cutting, Pos
  <2> QED BY <2>1, <2>2, <2>3
<1>10. CASE ObserveDutyHeld
  <2>0. exec' = exec /\ reach' = reach
    BY <1>10 DEF ObserveDutyHeld
  <2>1. CASE ring' = ring
    BY <1>c, <2>0, <2>1 DEF HeadNear, Cutting, Pos
  <2>2. CASE ring' # ring
    <3>1. ring'[1].record = dutyStop.record /\ ring'[1].s = dutyStop.s
      BY <1>10, <2>2, LiftedIs
    <3>2. PathAt(dutyStop.record, dutyStop.s) <= reach
      BY <1>10, <1>c, <2>2, DutyIsNear
    <3>3. ~exec.cur
      <4>1. Observes("DUTY_HELD")
        BY <1>10 DEF ObserveDutyHeld
      <4> QED BY <4>1, OldestIs DEF ReportTrue
    <3> QED BY <2>0, <3>1, <3>2, <3>3 DEF HeadNear, Cutting, Pos
  <2> QED BY <2>1, <2>2
<1>11. CASE QueueRecord
  <2> DEFINE k == Len(ring)
             t == Len(ring')
             at == PathAt(ingest.next, 0)
  <2>1. PICK n \in Nat :
           /\ k \in Nat /\ t \in Nat /\ n > 0 /\ k + n <= t
           /\ ring'[k + n].kind = "cut"
           /\ \A i \in 1 .. n - 1 : ring'[k + i].kind # "cut"
           /\ \A i \in k + n + 1 .. t : ring'[i].kind \in {"up", "off"}
           /\ ring' \in Seq(Blocks)
           /\ ring'[k + n].record = ingest.next /\ ring'[k + n].s = NextTrim
           /\ \A i \in 1 .. n - 1 : ring'[k + i].record = ingest.next /\ ring'[k + i].s = 0
           /\ \A i \in k + n + 1 .. t : ring'[i].record = ingest.next + 1 /\ ring'[i].s = 0
           /\ \A i \in 1 .. k : ring'[i] = ring[i]
    BY <1>11, AddedIs DEF Adds
  <2>2. reach' = reach /\ ~Stopping /\ ingest.next \in Int /\ NextTrim \in Parts
    <3>1. ingest.next \in Int /\ NextTrim \in Parts
      BY Constants DEF Inv, Types, JobTypes, Layers, Tags, NextTrim
    <3> QED BY <1>11, <1>e, <3>1 DEF QueueRecord, Admits, Stopping, toolVars
  <2>3. at \in Int /\ PathAt(ingest.next, NextTrim) \in Int /\ at <= PathAt(ingest.next, NextTrim)
        /\ PathAt(ingest.next + 1, 0) = PathAt(ingest.next, RecLen)
    <3>1. NextTrim \in Int /\ 0 \in Int /\ 0 <= NextTrim
      BY <2>2 DEF Parts
    <3>2. /\ PathAt(ingest.next, 0) \in Int
          /\ PathAt(ingest.next + 1, 0) = PathAt(ingest.next, RecLen)
          /\ \A b \in Int : 0 <= b => PathAt(ingest.next, 0) <= PathAt(ingest.next, b)
      BY <2>2, <3>1, PathIs
    <3>3. PathAt(ingest.next, NextTrim) \in Int
      BY <2>2, <3>1, PathIs
    <3> QED BY <3>1, <3>2, <3>3
  <2>4. /\ \/ at <= reach
           \/ k > 0 /\ at <= EndPos(ring[k])
        /\ PathAt(ingest.next, NextTrim) <= reach \/ NextTrim = 0
    <3>1. ring # <<>> => k > 0
      BY <1>d
    <3> QED BY <1>c, <2>2, <2>3, <3>1 DEF NextNear
  <2>5. exec' = exec
    BY <1>11 DEF QueueRecord
  <2>6. CASE ring # <<>>
    <3>1. k > 0 /\ 1 \in 1 .. k
      BY <1>d, <2>6
    <3>2. ring'[1] = ring[1] /\ ring' # <<>> /\ Head(ring') = ring'[1] /\ Head(ring) = ring[1]
      BY <1>d, <2>1, <2>6, <3>1
    <3> QED BY <1>c, <2>2, <2>5, <2>6, <3>2 DEF HeadNear, Cutting, Pos
  <2>7. CASE ring = <<>>
    <3>1. k = 0 /\ ~exec.cur
      BY <1>a, <2>7
    <3>2. at <= reach /\ PathAt(ingest.next, NextTrim) <= reach
      <4>1. PathAt(ingest.next, NextTrim) <= reach
        BY <1>c, <2>2, <2>7 DEF NextNear
      <4> QED BY <1>c, <2>3, <4>1
    <3>3. n = 1 => Pos(ring'[1]) = PathAt(ingest.next, NextTrim)
      BY <2>1, <3>1 DEF Pos
    <3>4. n > 1 => Pos(ring'[1]) = at
      <4>1. n > 1 => 1 \in 1 .. n - 1 /\ k + 1 = 1
        BY <2>1, <3>1
      <4> QED BY <2>1, <4>1 DEF Pos
    <3>5. Pos(ring'[1]) <= reach
      BY <2>1, <3>2, <3>3, <3>4
    <3> QED BY <2>2, <2>5, <3>1, <3>5 DEF HeadNear, Cutting, Pos
  <2> QED BY <2>6, <2>7
<1>12. CASE \/ EnterLift \/ EnterRun \/ NotSettled \/ Drained \/ DrainedReports \/ RunsDry
            \/ EventDwell \/ EventSwitch \/ PassEnds \/ ObserveDrained \/ DutyUnwaits
            \/ ObserveEnds \/ OpenLayer \/ Resume \/ Pause
  BY <1>12, <1>c, <1>e
     DEF EnterLift, MayEnter, Enters, EnterRun, NotSettled, Drained, AtSettle, DrainedReports,
         Returns, RunsDry, EventDwell, EventWaits, EventSwitch, PassEnds, ObserveDrained,
         Observes, DutyUnwaits, ObserveEnds, OpenLayer, Serves, Turn, Resume, Pause, HeadNear,
         Cutting, Pos
<1>13. CASE UNCHANGED vars
  BY <1>13, <1>c DEF vars, HeadNear, Cutting, Pos
<1> QED BY <1>1, <1>2, <1>3, <1>4, <1>5, <1>6, <1>7, <1>8, <1>9, <1>10, <1>11, <1>12, <1>13
        DEF Lives


(* What the host sends next starts there too, or where the ring's last block *)
(* ends.                                                                    *)
LEMMA NextNearKept ==
  ASSUME Inv, FirstJob, Reached, Own, Own', Lives \/ UNCHANGED vars
  PROVE  NextNear'
<1> USE DEF ctxVars, flagVars, ringVars, dutyVars, toolVars, core1Vars, core0Vars, settleVars,
            core1Untouched
<1>a. /\ ctx = "JOB" /\ ~jobAborted /\ ~abortRequested /\ mode # "abort" /\ estop = "clear"
      /\ why \notin Before /\ why # "ABORTING" /\ c1 \notin {"dropped", "consumed"}
      /\ why # "BUFFERING" => ingest.open
      /\ InLoop => active /\ why # "PAUSED"
      /\ InLoop => (OnPath <=> ~runsOn /\ ingest.open /\ ingest.inContour)
      /\ exec.cur => ring # <<>> /\ active
  BY OwnIs
<1>c. AllNear /\ HeadNear /\ NextNear /\ StopNear /\ DutyNear /\ reach \in Nat
  BY DEF Reached, FirstJob
<1>d. /\ RingTypes /\ ring \in Seq(Blocks) /\ Len(ring) \in Nat
      /\ ring # <<>> => Head(ring) = ring[1] /\ 1 \in 1 .. Len(ring)
  BY HeadIs DEF Inv, Types, RingTypes
<1>e. /\ reach' \in Nat /\ reach <= reach'
      /\ Tick /\ Advance =>
           /\ ring' = ring /\ exec'.cur /\ exec'.along = exec.along + 1
           /\ PathAt(ring[1].record, exec.along + 1) <= reach'
      /\ ~(Tick /\ Advance) => reach' = reach
  BY <1>c, ReachGrows DEF HeadNear
<1>f. \A r, a \in Int : PathAt(r, a) \in Int
  BY PathIs
<1>g. /\ ingest.next \in Int /\ NextTrim \in Int /\ 0 <= NextTrim /\ (~ingest.first => ingest.trim = 0)
      /\ ingest.trim \in Int /\ jobResume.record \in Int /\ jobResume.s \in Int /\ 0 <= jobResume.s
  BY Constants DEF Inv, Types, JobTypes, Layers, Resumes, Tags, Parts, NextTrim, FirstJob
<1>h. /\ PathAt(ingest.next, NextTrim) \in Int /\ PathAt(ingest.next, 0) \in Int
      /\ PathAt(ingest.next, 0) <= PathAt(ingest.next, NextTrim)
      /\ PathAt(jobResume.record, jobResume.s) \in Int
  <2>1. 0 \in Int
    OBVIOUS
  <2>2. /\ PathAt(ingest.next, 0) \in Int
        /\ \A b \in Int : 0 <= b => PathAt(ingest.next, 0) <= PathAt(ingest.next, b)
    BY <1>g, <2>1, PathIs
  <2> QED BY <1>f, <1>g, <2>2
<1>i. Steady \/ UNCHANGED vars => (Stopping' <=> Stopping) /\ jobResume' = jobResume
  BY StopsKept
<1>1. CASE EnterHeld
  <2>1. ~active' /\ why' = "HOLDING"
    BY <1>1, LandHeldIs DEF EnterHeld, Inv
  <2> QED BY <2>1 DEF NextNear, Stopping
<1>2. CASE Tick
  <2>1. (Stopping' <=> Stopping) /\ ingest' = ingest
    BY <1>2, <1>i DEF Tick, Steady
  <2>2. CASE Finish
    <3>1. ring # <<>> /\ EndPos(ring[1]) <= reach
      BY <1>c, <2>2, FinishIsNear
    <3>2. ring' = Tail(ring) /\ reach' = reach
      BY <2>2 DEF Finish
    <3>3. /\ Len(ring') = Len(ring) - 1 /\ (ring' = <<>> <=> Len(ring) = 1)
          /\ \A i \in 1 .. Len(ring') : ring'[i] = ring[i + 1]
      BY <1>d, <3>1, <3>2, Popped
    <3>4. CASE Len(ring) = 1
      <4>1. EndPos(ring[1]) \in Int
        BY <1>d, <3>1, BlocksIn
      <4>2. CASE Stopping \/ PathAt(ingest.next, NextTrim) <= reach
        BY <2>1, <3>2, <4>2 DEF NextNear, NextTrim
      <4>3. CASE ~(Stopping \/ PathAt(ingest.next, NextTrim) <= reach)
        <5>1. NextTrim = 0 /\ PathAt(ingest.next, 0) <= EndPos(ring[1])
          BY <1>c, <3>4, <4>3 DEF NextNear
        <5>2. PathAt(ingest.next, 0) <= reach
          BY <1>c, <1>h, <3>1, <4>1, <5>1
        <5> QED BY <4>3, <5>1, <5>2
      <4> QED BY <4>2, <4>3
    <3>5. CASE Len(ring) # 1
      <4>1. Len(ring') \in 1 .. Len(ring') /\ Len(ring') + 1 = Len(ring) /\ ring' # <<>>
        BY <1>d, <3>1, <3>3, <3>5
      <4>2. ring'[Len(ring')] = ring[Len(ring)]
        BY <3>3, <4>1
      <4> QED BY <1>c, <2>1, <3>1, <3>2, <4>1, <4>2 DEF NextNear, NextTrim, EndPos, Pos
    <3> QED BY <3>4, <3>5
  <2>3. CASE ~Finish
    <3>1. ring' = ring
      BY <1>2, <1>a, <2>3 DEF Tick, Claim, Advance, HoldEnds, AbortFindsHeld, TickRests
    <3>2. PathAt(ingest.next, NextTrim) <= reach => PathAt(ingest.next, NextTrim) <= reach'
      BY <1>c, <1>e, <1>h
    <3> QED BY <1>c, <2>1, <3>1, <3>2 DEF NextNear, NextTrim, EndPos, Pos
  <2> QED BY <2>2, <2>3
<1>3. CASE LateRests
  <2>1. Release /\ reach' = reach /\ ingest' = ingest
    BY <1>3, <1>e DEF LateRests
  <2>2. /\ \A i \in 1 .. Len(ring) : EndPos(ring'[i]) = EndPos(ring[i])
        /\ Len(ring') = Len(ring) /\ (ring' = <<>> <=> ring = <<>>)
        /\ ring # <<>> => Len(ring) \in 1 .. Len(ring)
    BY <1>d, <2>1, ReleasedEnds
  <2>3. Stopping' <=> Stopping
    BY <1>3, <1>i DEF LateRests, Steady
  <2>4. ring # <<>> => EndPos(ring'[Len(ring')]) = EndPos(ring[Len(ring)])
    BY <2>2
  <2> QED BY <1>c, <2>1, <2>2, <2>3, <2>4 DEF NextNear, NextTrim, EndPos, Pos
<1>4. CASE DutyRests
  <2>1. Release /\ reach' = reach /\ ingest' = ingest
    BY <1>4, <1>e DEF DutyRests
  <2>2. /\ \A i \in 1 .. Len(ring) : EndPos(ring'[i]) = EndPos(ring[i])
        /\ Len(ring') = Len(ring) /\ (ring' = <<>> <=> ring = <<>>)
        /\ ring # <<>> => Len(ring) \in 1 .. Len(ring)
    BY <1>d, <2>1, ReleasedEnds
  <2>3. Stopping' <=> Stopping
    BY <1>4, <1>i DEF DutyRests, Steady
  <2>4. ring # <<>> => EndPos(ring'[Len(ring')]) = EndPos(ring[Len(ring)])
    BY <2>2
  <2> QED BY <1>c, <2>1, <2>2, <2>3, <2>4 DEF NextNear, NextTrim, EndPos, Pos
<1>5. CASE PauseRests
  <2>1. ~active' /\ why' = "HOLDING"
    BY <1>5, LandHeldIs DEF PauseRests, Inv
  <2> QED BY <2>1 DEF NextNear, Stopping
<1>6. CASE ObserveHeld
  <2>1. ReportTrue(1) /\ facts[1] = "HELD"
    BY <1>6, OldestIs DEF ObserveHeld
  <2>2. Stopping
    BY <2>1 DEF ReportTrue, AtRest, Stopping
  <2>3. Stopping'
    BY <1>6, <1>i, <2>2 DEF Steady
  <2> QED BY <2>3 DEF NextNear
<1>7. CASE ObserveDrained
  <2>1. ReportTrue(1) /\ facts[1] = "DRAINED"
    BY <1>7, OldestIs DEF ObserveDrained
  <2>2. Stopping
    BY <2>1 DEF ReportTrue, AtRest, Stopping
  <2>3. Stopping'
    BY <1>7, <1>i, <2>2 DEF Steady
  <2> QED BY <2>3 DEF NextNear
<1>8. CASE ObserveDutyHeld
  <2>1. reach' = reach /\ ingest' = ingest /\ (Stopping' <=> Stopping)
    BY <1>8, <1>i DEF ObserveDutyHeld, Steady
  <2>2. CASE ring' = ring
    BY <1>c, <2>1, <2>2 DEF NextNear, NextTrim, EndPos, Pos
  <2>3. CASE ring' # ring
    <3>1. /\ ring # <<>> /\ Len(ring') = 4 + Len(ring)
          /\ \A i \in 1 .. Len(ring) : ring'[4 + i] = ring[i]
      BY <1>8, <2>3, LiftedIs
    <3>2. Len(ring) \in 1 .. Len(ring)
      BY <1>d, <3>1
    <3>3. ring'[Len(ring')] = ring[Len(ring)]
      BY <3>1, <3>2
    <3>4. Len(ring') # 0
      BY <1>d, <3>1
    <3>5. ring' # <<>>
      BY <3>4
    <3> QED BY <1>c, <2>1, <3>1, <3>3, <3>5 DEF NextNear, NextTrim, EndPos, Pos
  <2> QED BY <2>2, <2>3
<1>9. CASE OpenLayer
  <2>1. /\ ring' = ring /\ reach' = reach /\ (Stopping' <=> Stopping)
        /\ ingest' = [ingest EXCEPT !.open = TRUE, !.first = TRUE]
    BY <1>9, <1>i DEF OpenLayer, Steady
  <2>2. ingest'.next = ingest.next /\ NextTrim' = NextTrim
    BY <1>g, <2>1 DEF NextTrim, Inv, Types, JobTypes, Layers
  <2> QED BY <1>c, <2>1, <2>2 DEF NextNear, EndPos, Pos
<1>10. CASE Resume
  <2>1. Stopping /\ reach' = reach
    BY <1>10 DEF Resume, Stopping
  <2>2. /\ ingest'.next = IF jobResume.known THEN jobResume.record ELSE ingest.next
        /\ NextTrim' = IF jobResume.known THEN Max0(jobResume.s - Margin) ELSE 0
    BY <1>10 DEF Resume, NextTrim
  <2>3. CASE jobResume.known
    <3>1. PathAt(jobResume.record, jobResume.s) <= reach
      BY <1>c, <2>1, <2>3 DEF StopNear
    <3>2. NextTrim' \in Int /\ NextTrim' <= jobResume.s
      BY <1>g, <2>2, <2>3, Constants DEF Max0
    <3>3. /\ PathAt(jobResume.record, NextTrim') \in Int
          /\ \A b \in Int : NextTrim' <= b =>
               PathAt(jobResume.record, NextTrim') <= PathAt(jobResume.record, b)
      BY <1>g, <3>2, PathIs
    <3>4. PathAt(jobResume.record, NextTrim') <= PathAt(jobResume.record, jobResume.s)
      BY <1>g, <3>2, <3>3
    <3>5. PathAt(jobResume.record, NextTrim') <= reach
      BY <1>c, <1>h, <3>1, <3>3, <3>4
    <3>6. ingest'.next = jobResume.record
      BY <2>2, <2>3
    <3> QED BY <2>1, <3>5, <3>6 DEF NextNear, PathAt
  <2>4. CASE ~jobResume.known
    <3>1. PathAt(ingest.next, 0) <= reach
      BY <1>c, <2>1, <2>4 DEF StopNear
    <3>2. ingest'.next = ingest.next /\ NextTrim' = 0
      BY <2>2, <2>4
    <3> QED BY <2>1, <3>1, <3>2 DEF NextNear, PathAt
  <2> QED BY <2>3, <2>4
<1>11. CASE QueueRecord
  <2> DEFINE k == Len(ring)
             t == Len(ring')
             at == PathAt(ingest.next, 0)
  <2>1. PICK n \in Nat :
           /\ k \in Nat /\ t \in Nat /\ n > 0 /\ k + n <= t
           /\ ring'[k + n].kind = "cut"
           /\ \A i \in 1 .. n - 1 : ring'[k + i].kind # "cut"
           /\ \A i \in k + n + 1 .. t : ring'[i].kind \in {"up", "off"}
           /\ ring' \in Seq(Blocks)
           /\ ring'[k + n].record = ingest.next /\ ring'[k + n].s = NextTrim
           /\ \A i \in 1 .. n - 1 : ring'[k + i].record = ingest.next /\ ring'[k + i].s = 0
           /\ \A i \in k + n + 1 .. t : ring'[i].record = ingest.next + 1 /\ ring'[i].s = 0
           /\ \A i \in 1 .. k : ring'[i] = ring[i]
    BY <1>11, AddedIs DEF Adds
  <2>2. reach' = reach /\ ~Stopping /\ ingest.next \in Int /\ NextTrim \in Parts
    <3>1. ingest.next \in Int /\ NextTrim \in Parts
      BY Constants DEF Inv, Types, JobTypes, Layers, Tags, NextTrim
    <3> QED BY <1>11, <1>e, <3>1 DEF QueueRecord, Admits, Stopping, toolVars
  <2>3. at \in Int /\ PathAt(ingest.next, NextTrim) \in Int /\ at <= PathAt(ingest.next, NextTrim)
        /\ PathAt(ingest.next + 1, 0) = PathAt(ingest.next, RecLen)
    <3>1. NextTrim \in Int /\ 0 \in Int /\ 0 <= NextTrim
      BY <2>2 DEF Parts
    <3>2. /\ PathAt(ingest.next, 0) \in Int
          /\ PathAt(ingest.next + 1, 0) = PathAt(ingest.next, RecLen)
          /\ \A b \in Int : 0 <= b => PathAt(ingest.next, 0) <= PathAt(ingest.next, b)
      BY <2>2, <3>1, PathIs
    <3>3. PathAt(ingest.next, NextTrim) \in Int
      BY <2>2, <3>1, PathIs
    <3> QED BY <3>1, <3>2, <3>3
  <2>4. /\ \/ at <= reach
           \/ k > 0 /\ at <= EndPos(ring[k])
        /\ PathAt(ingest.next, NextTrim) <= reach \/ NextTrim = 0
    <3>1. ring # <<>> => k > 0
      BY <1>d
    <3> QED BY <1>c, <2>2, <2>3, <3>1 DEF NextNear
  <2>5. ingest'.next = ingest.next + 1 /\ NextTrim' = 0
    BY <1>11 DEF QueueRecord, NextTrim
  <2>6. t > 0 /\ t >= k + n
    BY <2>1
  <2>7. ring' # <<>>
    BY <2>6
  <2>8. EndPos(ring'[t]) = PathAt(ingest.next, RecLen)
    <3>1. CASE t = k + n
      BY <2>1, <3>1 DEF EndPos
    <3>2. CASE t # k + n
      <4>1. t \in k + n + 1 .. t
        BY <2>1, <2>6, <3>2
      <4> QED BY <2>1, <2>3, <4>1 DEF EndPos, Pos
    <3> QED BY <3>1, <3>2
  <2>9. PathAt(ingest.next, RecLen) \in Int
    <3>1. RecLen \in Int
      BY Constants
    <3> QED BY <1>f, <2>2, <3>1
  <2>10. PathAt(ingest'.next, 0) = PathAt(ingest.next, RecLen)
    BY <2>3, <2>5
  <2>11. PathAt(ingest'.next, 0) <= EndPos(ring'[t])
    BY <2>8, <2>9, <2>10
  <2> QED BY <2>5, <2>7, <2>11 DEF NextNear, PathAt, EndPos, Pos
<1>12. CASE \/ EnterLift \/ EnterRun \/ Look \/ NotSettled \/ Drained \/ DrainedReports
            \/ RunsDry \/ EventOff \/ EventDwell \/ EventSwitch \/ EventSettled \/ PassEnds
            \/ DutyUnwaits \/ ObserveEnds \/ Pause
  BY <1>12, <1>c, <1>e, <1>i
     DEF EnterLift, MayEnter, Enters, EnterRun, Look, NotSettled, Drained, AtSettle,
         DrainedReports, Returns, RunsDry, EventOff, EventWaits, EventDwell, EventSwitch,
         EventSettled, PassEnds, DutyUnwaits, ObserveEnds, Pause, Serves, Turn, NextNear,
         NextTrim, EndPos, Pos, Steady
<1>13. CASE UNCHANGED vars
  BY <1>13, <1>c, <1>i DEF vars, NextNear, NextTrim, EndPos, Pos, Stopping
<1> QED BY <1>1, <1>2, <1>3, <1>4, <1>5, <1>6, <1>7, <1>8, <1>9, <1>10, <1>11, <1>12, <1>13
        DEF Lives


(* A pause is resumed where the path has got to, or before.                  *)
LEMMA StopNearKept ==
  ASSUME Inv, FirstJob, Reached, Own, Own', Lives \/ UNCHANGED vars
  PROVE  StopNear'
<1> USE DEF ctxVars, flagVars, ringVars, dutyVars, toolVars, core1Vars, core0Vars, settleVars,
            core1Untouched
<1>a. /\ ctx = "JOB" /\ ~jobAborted /\ ~abortRequested /\ mode # "abort" /\ estop = "clear"
      /\ why \notin Before /\ why # "ABORTING" /\ c1 \notin {"dropped", "consumed"}
      /\ why # "BUFFERING" => ingest.open
      /\ InLoop => active /\ why # "PAUSED"
      /\ InLoop => (OnPath <=> ~runsOn /\ ingest.open /\ ingest.inContour)
      /\ exec.cur => ring # <<>> /\ active
  BY OwnIs
<1>c. AllNear /\ HeadNear /\ NextNear /\ StopNear /\ DutyNear /\ reach \in Nat
  BY DEF Reached, FirstJob
<1>d. /\ RingTypes /\ ring \in Seq(Blocks) /\ Len(ring) \in Nat
      /\ ring # <<>> => Head(ring) = ring[1] /\ 1 \in 1 .. Len(ring)
  BY HeadIs DEF Inv, Types, RingTypes
<1>e. /\ reach' \in Nat /\ reach <= reach'
      /\ Tick /\ Advance =>
           /\ ring' = ring /\ exec'.cur /\ exec'.along = exec.along + 1
           /\ PathAt(ring[1].record, exec.along + 1) <= reach'
      /\ ~(Tick /\ Advance) => reach' = reach
  BY <1>c, ReachGrows DEF HeadNear
<1>f. \A r, a \in Int : PathAt(r, a) \in Int
  BY PathIs
<1>g. /\ ingest.next \in Int /\ NextTrim \in Int /\ 0 <= NextTrim /\ (~ingest.first => ingest.trim = 0)
      /\ ingest.trim \in Int /\ jobResume.record \in Int /\ jobResume.s \in Int /\ 0 <= jobResume.s
  BY Constants DEF Inv, Types, JobTypes, Layers, Resumes, Tags, Parts, NextTrim, FirstJob
<1>h. /\ PathAt(ingest.next, NextTrim) \in Int /\ PathAt(ingest.next, 0) \in Int
      /\ PathAt(ingest.next, 0) <= PathAt(ingest.next, NextTrim)
      /\ PathAt(jobResume.record, jobResume.s) \in Int
  <2>1. 0 \in Int
    OBVIOUS
  <2>2. /\ PathAt(ingest.next, 0) \in Int
        /\ \A b \in Int : 0 <= b => PathAt(ingest.next, 0) <= PathAt(ingest.next, b)
    BY <1>g, <2>1, PathIs
  <2> QED BY <1>f, <1>g, <2>2
<1>i. Steady \/ UNCHANGED vars => (Stopping' <=> Stopping) /\ jobResume' = jobResume
  BY StopsKept
<1>j. (mode = "pause" => ~runsOn) /\ (AtTop => ~runsOn)
  BY DEF Inv, Core1Place
<1>1. CASE EnterHeld
  <2>1. LandHeld /\ reach' = reach /\ ingest' = ingest /\ ~Stopping
    BY <1>1, <1>a, <1>j DEF EnterHeld, Stopping, AtSettle, InLoop, MayEnter
  <2>2. /\ jobResume'.known = (ring # <<>>) /\ jobResume'.record = StopPoint.record
        /\ jobResume'.s = StopPoint.s
    BY <2>1 DEF LandHeld
  <2>3. CASE ring # <<>>
    <3>1. PathAt(StopPoint.record, StopPoint.s) <= reach
      BY <1>c, <2>3, StopIsNear
    <3> QED BY <2>1, <2>2, <2>3, <3>1 DEF StopNear, PathAt
  <2>4. CASE ring = <<>>
    <3>1. PathAt(ingest.next, NextTrim) <= reach
      BY <1>c, <2>1, <2>4 DEF NextNear
    <3>2. PathAt(ingest.next, 0) <= reach
      BY <1>c, <1>h, <3>1
    <3> QED BY <2>1, <2>2, <2>4, <3>2 DEF StopNear, PathAt
  <2> QED BY <2>3, <2>4
<1>2. CASE Tick
  <2>1. (Stopping' <=> Stopping) /\ ingest' = ingest /\ jobResume' = jobResume
    BY <1>2, <1>i DEF Tick, Steady
  <2>2. /\ PathAt(jobResume.record, jobResume.s) <= reach =>
             PathAt(jobResume.record, jobResume.s) <= reach'
        /\ PathAt(ingest.next, 0) <= reach => PathAt(ingest.next, 0) <= reach'
    BY <1>c, <1>e, <1>h
  <2> QED BY <1>c, <2>1, <2>2 DEF StopNear
<1>3. CASE PauseRests
  <2>1. LandHeld /\ reach' = reach /\ ingest' = ingest /\ ~Stopping
    BY <1>3, <1>a, <1>j DEF PauseRests, Stopping, AtSettle, InLoop, MayEnter
  <2>2. /\ jobResume'.known = (ring # <<>>) /\ jobResume'.record = StopPoint.record
        /\ jobResume'.s = StopPoint.s
    BY <2>1 DEF LandHeld
  <2>3. CASE ring # <<>>
    <3>1. PathAt(StopPoint.record, StopPoint.s) <= reach
      BY <1>c, <2>3, StopIsNear
    <3> QED BY <2>1, <2>2, <2>3, <3>1 DEF StopNear, PathAt
  <2>4. CASE ring = <<>>
    <3>1. PathAt(ingest.next, NextTrim) <= reach
      BY <1>c, <2>1, <2>4 DEF NextNear
    <3>2. PathAt(ingest.next, 0) <= reach
      BY <1>c, <1>h, <3>1
    <3> QED BY <2>1, <2>2, <2>4, <3>2 DEF StopNear, PathAt
  <2> QED BY <2>3, <2>4
<1>4. CASE OpenLayer
  <2>1. ~Stopping'
    BY <1>4 DEF OpenLayer, Admits, Stopping
  <2> QED BY <2>1 DEF StopNear
<1>5. CASE Resume
  <2>1. ~Stopping'
    BY <1>5 DEF Resume, Admits, Stopping
  <2> QED BY <2>1 DEF StopNear
<1>6. CASE QueueRecord
  <2>1. ~Stopping'
    BY <1>6 DEF QueueRecord, Admits, Stopping
  <2> QED BY <2>1 DEF StopNear
<1>7. CASE \/ EnterLift \/ EnterRun \/ Look \/ NotSettled \/ Drained \/ DrainedReports
           \/ RunsDry \/ LateRests \/ DutyRests \/ EventOff \/ EventDwell \/ EventSwitch
           \/ EventSettled \/ PassEnds \/ ObserveHeld \/ ObserveDrained \/ ObserveDutyHeld
           \/ DutyUnwaits \/ ObserveEnds \/ Pause
  BY <1>7, <1>c, <1>e, <1>i
     DEF EnterLift, MayEnter, Enters, EnterRun, Look, NotSettled, Drained, AtSettle,
         DrainedReports, Returns, RunsDry, LateRests, DutyRests, EventOff, EventWaits,
         EventDwell, EventSwitch, EventSettled, PassEnds, ObserveHeld, Observes, ObserveDrained,
         ObserveDutyHeld, DutyUnwaits, ObserveEnds, Pause, Serves, Turn, StopNear, PathAt,
         Steady
<1>8. CASE UNCHANGED vars
  BY <1>8, <1>c, <1>i DEF vars, StopNear, PathAt, Stopping
<1> QED BY <1>1, <1>2, <1>3, <1>4, <1>5, <1>6, <1>7, <1>8
        DEF Lives


(* Any other report leaves the duty stop's where it was.                     *)
DutyDue == \E i \in 1 .. Len(facts) : facts[i] = "DUTY_HELD"

LEMMA DueBefore ==
  ASSUME Inv, NEW f \in FactNames, f # "DUTY_HELD", facts' = facts \/ Report(f)
  PROVE  DutyDue' => DutyDue
<1>1. CASE facts' = facts
  BY <1>1 DEF DutyDue
<1>2. CASE Report(f)
  <2>1. /\ Len(facts) \in Nat /\ Len(facts') = Len(facts) + 1 /\ facts'[Len(facts')] = f
        /\ \A i \in 1 .. Len(facts) : facts'[i] = facts[i]
    BY <1>2, ReportIs DEF Inv, Types, FactTypes
  <2>2. \A i \in 1 .. Len(facts') : i = Len(facts') \/ i \in 1 .. Len(facts)
    BY <2>1
  <2> QED BY <2>1, <2>2 DEF DutyDue
<1> QED BY <1>1, <1>2

(* And a duty stop too.                                                     *)
LEMMA DutyNearKept ==
  ASSUME Inv, FirstJob, Reached, Own, Own', Lives \/ UNCHANGED vars
  PROVE  DutyNear'
<1> USE DEF ctxVars, flagVars, ringVars, dutyVars, toolVars, core1Vars, core0Vars, settleVars,
            core1Untouched
<1>a. /\ ctx = "JOB" /\ ~jobAborted /\ ~abortRequested /\ mode # "abort" /\ estop = "clear"
      /\ why \notin Before /\ why # "ABORTING" /\ c1 \notin {"dropped", "consumed"}
      /\ why # "BUFFERING" => ingest.open
      /\ InLoop => active /\ why # "PAUSED"
      /\ InLoop => (OnPath <=> ~runsOn /\ ingest.open /\ ingest.inContour)
      /\ exec.cur => ring # <<>> /\ active
  BY OwnIs
<1>c. AllNear /\ HeadNear /\ NextNear /\ StopNear /\ DutyNear /\ reach \in Nat
  BY DEF Reached, FirstJob
<1>d. /\ RingTypes /\ ring \in Seq(Blocks) /\ Len(ring) \in Nat
      /\ ring # <<>> => Head(ring) = ring[1] /\ 1 \in 1 .. Len(ring)
  BY HeadIs DEF Inv, Types, RingTypes
<1>e. /\ reach' \in Nat /\ reach <= reach'
      /\ Tick /\ Advance =>
           /\ ring' = ring /\ exec'.cur /\ exec'.along = exec.along + 1
           /\ PathAt(ring[1].record, exec.along + 1) <= reach'
      /\ ~(Tick /\ Advance) => reach' = reach
  BY <1>c, ReachGrows DEF HeadNear
<1>f. PathAt(dutyStop.record, dutyStop.s) \in Int
  <2>1. dutyStop.record \in Int /\ dutyStop.s \in Int
    BY DEF Inv, Types, FactTypes, Stops, Tags, Parts
  <2> QED BY <2>1, PathIs
<1>1. CASE EnterHeld
  <2>1. dutyStop' = dutyStop /\ reach' = reach /\ (facts' = facts \/ Report("HELD"))
    BY <1>1, <1>e DEF EnterHeld, LandHeld
  <2>2. DutyDue' => DutyDue
    BY <2>1, DueBefore DEF FactNames
  <2> QED BY <1>c, <2>1, <2>2 DEF DutyNear, DutyDue, PathAt
<1>2. CASE Tick
  <2>1. dutyStop' = dutyStop /\ facts' = facts
    BY <1>2 DEF Tick
  <2>2. PathAt(dutyStop.record, dutyStop.s) <= reach =>
          PathAt(dutyStop.record, dutyStop.s) <= reach'
    BY <1>c, <1>e, <1>f
  <2> QED BY <1>c, <2>1, <2>2 DEF DutyNear, PathAt
<1>3. CASE DrainedReports
  <2>1. dutyStop' = dutyStop /\ reach' = reach /\ (facts' = facts \/ Report("DRAINED"))
    BY <1>3, <1>e DEF DrainedReports, LandHeld
  <2>2. DutyDue' => DutyDue
    BY <2>1, DueBefore DEF FactNames
  <2> QED BY <1>c, <2>1, <2>2 DEF DutyNear, DutyDue, PathAt
<1>4. CASE DutyRests
  <2>1. dutyStop' = StopPoint /\ reach' = reach
    BY <1>4, <1>e DEF DutyRests
  <2>2. StopPoint.cut => ring # <<>>
    BY DEF StopPoint, NoStop
  <2>3. ring # <<>> => PathAt(StopPoint.record, StopPoint.s) <= reach
    BY <1>c, StopIsNear
  <2> QED BY <2>1, <2>2, <2>3 DEF DutyNear, PathAt
<1>5. CASE PauseRests
  <2>1. dutyStop' = dutyStop /\ reach' = reach /\ (facts' = facts \/ Report("HELD"))
    BY <1>5, <1>e DEF PauseRests, LandHeld
  <2>2. DutyDue' => DutyDue
    BY <2>1, DueBefore DEF FactNames
  <2> QED BY <1>c, <2>1, <2>2 DEF DutyNear, DutyDue, PathAt
<1>6. CASE EventOff
  <2>1. dutyStop' = dutyStop /\ reach' = reach /\ (facts' = facts \/ Report("TOOL_FAILED"))
    BY <1>6, <1>e DEF EventOff, LandHeld
  <2>2. DutyDue' => DutyDue
    BY <2>1, DueBefore DEF FactNames
  <2> QED BY <1>c, <2>1, <2>2 DEF DutyNear, DutyDue, PathAt
<1>7. CASE EventSwitch
  <2>1. dutyStop' = dutyStop /\ reach' = reach /\ (facts' = facts \/ Report("TOOL_FAILED"))
    BY <1>7, <1>e DEF EventSwitch, LandHeld
  <2>2. DutyDue' => DutyDue
    BY <2>1, DueBefore DEF FactNames
  <2> QED BY <1>c, <2>1, <2>2 DEF DutyNear, DutyDue, PathAt
<1>8. CASE ObserveHeld
  <2>1. Failures' /\ reach' = reach
    BY <1>8, <1>e, OldestIs DEF ObserveHeld
  <2> QED BY <2>1 DEF DutyNear, Failures
<1>9. CASE ObserveDrained
  <2>1. Failures' /\ reach' = reach
    BY <1>9, <1>e, OldestIs DEF ObserveDrained
  <2> QED BY <2>1 DEF DutyNear, Failures
<1>10. CASE ObserveDutyHeld
  <2>1. Failures' /\ reach' = reach
    BY <1>10, <1>e, OldestIs DEF ObserveDutyHeld
  <2> QED BY <2>1 DEF DutyNear, Failures
<1>11. CASE DutyUnwaits
  BY <1>11 DEF DutyUnwaits, DutyNear, NoStop
<1>12. CASE \/ EnterLift \/ EnterRun \/ Look \/ NotSettled \/ Drained \/ RunsDry \/ LateRests
            \/ EventDwell \/ EventSettled \/ PassEnds \/ ObserveEnds \/ OpenLayer \/ Resume
            \/ QueueRecord \/ Pause
  BY <1>12, <1>c, <1>e
     DEF EnterLift, MayEnter, Enters, EnterRun, Look, NotSettled, Drained, AtSettle, RunsDry,
         Returns, LateRests, EventDwell, EventWaits, EventSettled, PassEnds, ObserveEnds,
         OpenLayer, Serves, Turn, Resume, QueueRecord, Pause, DutyNear, PathAt
<1>13. CASE UNCHANGED vars
  BY <1>13, <1>c DEF vars, DutyNear, PathAt
<1> QED BY <1>1, <1>2, <1>3, <1>4, <1>5, <1>6, <1>7, <1>8, <1>9, <1>10, <1>11, <1>12, <1>13
        DEF Lives


(* A job that is placed starts where its path does.                         *)
LEMMA PlacedReached ==
  ASSUME Inv, FirstJob, PlaceOk, why = "PLACE", ring = <<>>, ~active, facts = <<>>
  PROVE  Reached'
<1>1. /\ ring' = <<>> /\ facts' = <<>> /\ why' = "BUFFERING" /\ exec' = exec /\ reach' = reach
      /\ ingest' = ingest /\ ctx = "JOB"
  BY DEF PlaceOk, Turn, core1Untouched, toolVars
<1>2. ingest = NoLayer /\ reach = 0
  BY <1>1 DEF FirstJob, Before
<1>3. ~exec.cur
  BY DEF Inv, Types, RingTypes
<1>4. Len(ring') = 0 /\ Len(facts') = 0
  BY <1>1
<1>5. AllNear' /\ DutyNear'
  BY <1>4 DEF AllNear, DutyNear
<1>6. HeadNear' /\ StopNear'
  BY <1>1, <1>3 DEF HeadNear, Cutting, StopNear, Stopping
<1>7. NextNear'
  <2>1. ingest'.next = 1 /\ NextTrim' = 0
    BY <1>1, <1>2 DEF NoLayer, NextTrim
  <2>2. PathAt(1, 0) = 0
    <3>1. (1 - 1) * RecLen + 0 = 0
      BY Constants
    <3> QED BY <3>1 DEF PathAt
  <2>3. PathAt(ingest'.next, NextTrim') <= reach'
    BY <1>1, <1>2, <2>1, <2>2
  <2> QED BY <2>3 DEF NextNear, PathAt
<1> QED BY <1>5, <1>6, <1>7 DEF Reached

LEMMA ReachedInit == Init => FirstJob /\ Reached
  BY DEF Init, FirstJob, Reached, Own, Mine, NoLayer, Before

LEMMA ReachedKept ==
  ASSUME Jobs = 1, Inv, FirstJob, Reached, [Next]_vars
  PROVE  FirstJob' /\ Reached'
<1>1. FirstJob'
  BY FirstJobKept DEF Inv, Types
<1>2. CASE Own /\ Own' /\ (Lives \/ UNCHANGED vars)
  <2>1. AllNear' /\ HeadNear' /\ NextNear' /\ StopNear' /\ DutyNear'
    BY <1>2, NearKept, HeadNearKept, NextNearKept, StopNearKept, DutyNearKept
  <2> QED BY <1>1, <2>1 DEF Reached
<1>3. CASE PlaceOk /\ why = "PLACE" /\ ring = <<>> /\ ~active /\ facts = <<>>
  BY <1>1, <1>3, PlacedReached
<1>4. CASE ~Own'
  BY <1>1, <1>4 DEF Reached
<1> QED BY <1>1, <1>2, <1>3, <1>4, OwnStep

(* A job's path is cut without a gap: through pauses, duty holds and late    *)
(* blocks (landHeld, dutyHeld, Executor::release) a resumed record starts    *)
(* where the blade stopped or before it (plannerOpenLayer), for paths and    *)
(* records of any length and any margin.  For the first job of a run only:   *)
(* a resume's trim can outlive its job (plannerOpenJob leaves it).           *)
THEOREM PathIsWhole ==
  ASSUME Jobs = 1
  PROVE  Spec => NoGap
<1>1. Init => Inv /\ FirstJob /\ Reached
  BY InvInit, ReachedInit
<1>2. Inv /\ FirstJob /\ Reached /\ [Next]_vars => (Inv /\ FirstJob /\ Reached)'
  BY InvKept, ReachedKept
<1>3. Inv /\ FirstJob /\ Reached /\ [Next]_vars =>
        [(Cuts /\ ~jobAborted) => PathAt(Head(ring).record, exec.along) <= reach]_vars
  <2> SUFFICES ASSUME Inv, Reached, [Next]_vars, Cuts, ~jobAborted
               PROVE  PathAt(Head(ring).record, exec.along) <= reach
    OBVIOUS
  <2>1. Own /\ ring # <<>> /\ Cutting /\ Head(ring) = ring[1]
    BY CutsOwn
  <2> QED BY <2>1 DEF Reached, HeadNear
<1> QED BY <1>1, <1>2, <1>3, PTL DEF Spec, NoGap

----------------------------------------------------------------------------
(* Who waits is answered.                                                   *)

(* A job that runs has the ring, one that has come to a hold has said so or   *)
(* is about to, one that is paused has been let off the request, and a duty  *)
(* hold is reported or answered, or a reset has wiped its report.            *)
RunsIt      == Own /\ why \in {"RUNNING", "DWELL"} => active
HeldDue     == \E i \in 1 .. Len(facts) : facts[i] \in {"HELD", "DRAINED"}
HoldIsSaid  == Own /\ why = "HOLDING" /\ AtRest => c1 = "drained" \/ HeldDue
PauseIsOver == Own /\ why = "PAUSED" => ~pauseRequested
JobOwed     == RunsIt /\ HoldIsSaid /\ PauseIsOver
DutyOwed    == dutyWait => c0 = "unwait" \/ DutyDue \/ forgotten

(* A report that follows loses none, nor does reading one of another kind.   *)
LEMMA StillDue ==
  ASSUME FactTypes, NEW S, \E i \in 1 .. Len(facts) : facts[i] \in S,
         \/ facts' = facts
         \/ \E f \in FactNames : Report(f)
         \/ facts # <<>> /\ facts' = Tail(facts) /\ facts[1] \notin S
  PROVE  \E i \in 1 .. Len(facts') : facts'[i] \in S
<1> PICK i \in 1 .. Len(facts) : facts[i] \in S
  OBVIOUS
<1>1. CASE facts' = facts
  BY <1>1
<1>2. CASE \E f \in FactNames : Report(f)
  <2>1. Len(facts) \in Nat /\ Len(facts') = Len(facts) + 1 /\ facts'[i] = facts[i]
    BY <1>2, ReportIs DEF FactTypes
  <2> QED BY <2>1
<1>3. CASE facts # <<>> /\ facts' = Tail(facts) /\ facts[1] \notin S
  <2>1. /\ Len(facts) \in Nat /\ Len(facts') = Len(facts) - 1
        /\ \A j \in 1 .. Len(facts') : facts'[j] = facts[j + 1]
    BY <1>3, Popped DEF FactTypes
  <2>2. i # 1
    BY <1>3
  <2>3. i - 1 \in 1 .. Len(facts') /\ (i - 1) + 1 = i
    BY <2>1, <2>2
  <2>4. facts'[i - 1] = facts[i]
    BY <2>1, <2>3
  <2> QED BY <2>3, <2>4
<1> QED BY <1>1, <1>2, <1>3

LEMMA DueReported ==
  ASSUME FactTypes, DutyDue, facts' = facts \/ \E f \in FactNames : Report(f)
  PROVE  DutyDue'
<1>1. \E i \in 1 .. Len(facts') : facts'[i] \in {"DUTY_HELD"}
  <2>1. \E i \in 1 .. Len(facts) : facts[i] \in {"DUTY_HELD"}
    BY DEF DutyDue
  <2> QED BY <2>1, StillDue
<1> QED BY <1>1 DEF DutyDue

LEMMA DueRead ==
  ASSUME FactTypes, DutyDue, facts # <<>>, facts' = Tail(facts), facts[1] # "DUTY_HELD"
  PROVE  DutyDue'
<1>1. \E i \in 1 .. Len(facts') : facts'[i] \in {"DUTY_HELD"}
  <2>1. \E i \in 1 .. Len(facts) : facts[i] \in {"DUTY_HELD"}
    BY DEF DutyDue
  <2> QED BY <2>1, StillDue
<1> QED BY <1>1 DEF DutyDue

(* A soft reset drops the reports and keeps the wait (core0.cpp): what it     *)
(* forgets stays so.                                                        *)
LEMMA DutyOwedKept == FactTypes /\ DutyOwed /\ [Next]_vars => DutyOwed'
<1> SUFFICES ASSUME FactTypes, DutyOwed, [Next]_vars PROVE DutyOwed'
  OBVIOUS
<1> USE DEF ctxVars, flagVars, ringVars, dutyVars, toolVars, core1Vars, core0Vars, settleVars,
            core1Untouched, DutyOwed, FactTypes
<1>1. CASE EnterLift
  BY <1>1 DEF EnterLift, DutyDue
<1>2. CASE EnterHeld
  BY <1>2, DueReported DEF EnterHeld, LandHeld, FactNames
<1>3. CASE EnterRun
  BY <1>3 DEF EnterRun, DutyDue
<1>4. CASE AbortDrops
  BY <1>4 DEF AbortDrops, DutyDue
<1>5. CASE AbortConsumed
  BY <1>5, DueReported DEF AbortConsumed, FactNames
<1>6. CASE EstopSweep
  BY <1>6 DEF EstopSweep, DutyDue
<1>7. CASE EstopReturns
  BY <1>7 DEF EstopReturns, DutyDue
<1>8. CASE Look
  BY <1>8 DEF Look, DutyDue
<1>9. CASE Tick
  BY <1>9 DEF Tick, DutyDue
<1>10. CASE NotSettled
  BY <1>10 DEF NotSettled, DutyDue
<1>11. CASE Drained
  BY <1>11 DEF Drained, DutyDue
<1>12. CASE RunsDry
  BY <1>12 DEF RunsDry, DutyDue
<1>13. CASE LateRests
  BY <1>13 DEF LateRests, DutyDue
<1>14. CASE DutyRests
  <2>1. facts'[Len(facts')] = "DUTY_HELD" /\ Len(facts') \in 1 .. Len(facts')
    BY <1>14, ReportIs DEF DutyRests, FactNames
  <2> QED BY <2>1 DEF DutyDue
<1>15. CASE PauseRests
  BY <1>15, DueReported DEF PauseRests, LandHeld, FactNames
<1>16. CASE EventOff
  BY <1>16, DueReported DEF EventOff, FactNames
<1>17. CASE EventDwell
  BY <1>17 DEF EventDwell, DutyDue
<1>18. CASE EventSwitch
  BY <1>18, DueReported DEF EventSwitch, FactNames
<1>19. CASE EventSettled
  BY <1>19 DEF EventSettled, DutyDue
<1>20. CASE DrainedReports
  BY <1>20, DueReported DEF DrainedReports, FactNames
<1>21. CASE Publish
  BY <1>21 DEF Publish, DutyDue
<1>22. CASE PassEnds
  BY <1>22 DEF PassEnds, DutyDue
<1>23. CASE ObserveHeld
  BY <1>23, DueRead, HeadFact DEF ObserveHeld, Observes
<1>24. CASE ObserveDrained
  BY <1>24, DueRead, HeadFact DEF ObserveDrained, Observes
<1>25. CASE ObserveToolFailed
  BY <1>25, DueRead, HeadFact DEF ObserveToolFailed, Observes
<1>26. CASE ObserveDutyHeld
  BY <1>26 DEF ObserveDutyHeld
<1>27. CASE DutyUnwaits
  BY <1>27 DEF DutyUnwaits, DutyDue
<1>28. CASE ObserveEnds
  BY <1>28 DEF ObserveEnds, DutyDue
<1>29. CASE OpenJob
  BY <1>29 DEF OpenJob, Turn, DutyDue
<1>30. CASE PreflightPasses
  BY <1>30 DEF PreflightPasses, Turn, DutyDue
<1>31. CASE PreflightFails
  BY <1>31 DEF PreflightFails, Serves, Turn, DutyDue
<1>32. CASE PlaceOk
  BY <1>32 DEF PlaceOk, Turn, DutyDue
<1>33. CASE OpenLayer
  BY <1>33 DEF OpenLayer, Serves, Turn, DutyDue
<1>34. CASE Resume
  BY <1>34 DEF Resume, Serves, Turn, DutyDue
<1>35. CASE QueueRecord
  BY <1>35 DEF QueueRecord, Serves, Turn, DutyDue
<1>36. CASE Pause
  BY <1>36 DEF Pause, Serves, Turn, DutyDue
<1>37. CASE Abort
  BY <1>37 DEF Abort, Serves, Turn, DutyDue
<1>38. CASE Cancel
  BY <1>38 DEF Cancel, Serves, Turn, DutyDue
<1>39. CASE Stop
  BY <1>39 DEF Stop, Serves, Turn, DutyDue
<1>40. CASE Unstop
  BY <1>40 DEF Unstop, Serves, Turn, DutyDue
<1>41. CASE Unalarm
  BY <1>41 DEF Unalarm, Serves, Turn, DutyDue
<1>42. CASE Reset
  BY <1>42 DEF Reset
<1>43. CASE UNCHANGED vars
  BY <1>43 DEF vars, DutyDue
<1> QED BY <1>1, <1>2, <1>3, <1>4, <1>5, <1>6, <1>7, <1>8, <1>9, <1>10, <1>11, <1>12,
          <1>13, <1>14, <1>15, <1>16, <1>17, <1>18, <1>19, <1>20, <1>21, <1>22, <1>23,
          <1>24, <1>25, <1>26, <1>27, <1>28, <1>29, <1>30, <1>31, <1>32, <1>33, <1>34,
          <1>35, <1>36, <1>37, <1>38, <1>39, <1>40, <1>41, <1>42, <1>43
        DEF Next, Host, Pass, Core1, Observe, Settled

(* A lift ahead of the ring makes it no shorter.                             *)
LEMMA DutyLonger ==
  ASSUME Inv, ObserveDutyHeld
  PROVE  (ring' = <<>> => ring = <<>>) /\ active' = active
<1>1. CASE ring' = ring
  BY <1>1 DEF ObserveDutyHeld
<1>2. CASE ring' = DutyBlocks(dutyStop) \o ring
  <2>1. DutyBlocks(dutyStop) \in Seq(Blocks) /\ Len(DutyBlocks(dutyStop)) = 4
    BY DutyIs DEF Inv, Types, FactTypes
  <2>2. ring \in Seq(Blocks)
    BY DEF Inv, Types, RingTypes
  <2>3. \A p \in Seq(Blocks) : Len(p) = 4 => p \o ring # <<>>
    <3> SUFFICES ASSUME NEW p \in Seq(Blocks), Len(p) = 4 PROVE p \o ring # <<>>
      OBVIOUS
    <3>1. Len(p \o ring) = Len(p) + Len(ring)
      BY <2>2, Joined, Zenon
    <3>2. Len(ring) \in Nat
      BY <2>2
    <3> QED BY <3>1, <3>2
  <2>4. ring' # <<>>
    BY <1>2, <2>1, <2>3
  <2> QED BY <2>4 DEF ObserveDutyHeld
<1> QED BY <1>1, <1>2 DEF ObserveDutyHeld

LEMMA RunsItKept ==
  ASSUME Inv, JobOwed, Own, Own', Lives \/ UNCHANGED vars
  PROVE  RunsIt'
<1> USE DEF ctxVars, flagVars, ringVars, dutyVars, toolVars, core1Vars, core0Vars, settleVars,
            core1Untouched, JobOwed, RunsIt
<1>a. /\ ctx = "JOB" /\ ~jobAborted /\ ~abortRequested /\ mode # "abort" /\ estop = "clear"
      /\ why \notin Before /\ why # "ABORTING" /\ c1 \notin {"dropped", "consumed"}
      /\ why # "BUFFERING" => ingest.open
      /\ InLoop => active /\ why # "PAUSED"
      /\ InLoop => (OnPath <=> ~runsOn /\ ingest.open /\ ingest.inContour)
      /\ exec.cur => ring # <<>> /\ active
  BY OwnIs
<1>1. CASE EnterLift
  BY <1>1, <1>a DEF EnterLift, MayEnter, Enters
<1>2. CASE EnterHeld
  BY <1>2, <1>a DEF EnterHeld, MayEnter, LandHeld
<1>3. CASE EnterRun
  BY <1>3, <1>a DEF EnterRun, MayEnter, Enters
<1>4. CASE Look
  BY <1>4, <1>a DEF Look
<1>5. CASE Tick
  BY <1>5, <1>a DEF Tick
<1>6. CASE NotSettled
  BY <1>6, <1>a DEF NotSettled
<1>7. CASE Drained
  BY <1>7, <1>a DEF Drained, AtSettle, Inv, LiftTrue, Lifting, Lifts
<1>8. CASE DrainedReports
  BY <1>8, <1>a DEF DrainedReports, Returns
<1>9. CASE RunsDry
  BY <1>9, <1>a DEF RunsDry, AtSettle, Returns
<1>10. CASE LateRests
  BY <1>10, <1>a DEF LateRests, AtSettle, Returns
<1>11. CASE DutyRests
  BY <1>11, <1>a DEF DutyRests, AtSettle
<1>12. CASE PauseRests
  BY <1>12, <1>a DEF PauseRests, AtSettle, Returns, LandHeld
<1>13. CASE EventOff
  BY <1>13, <1>a DEF EventOff, EventWaits, AtSettle
<1>14. CASE EventDwell
  BY <1>14, <1>a DEF EventDwell, EventWaits, AtSettle, InLoop
<1>15. CASE EventSwitch
  BY <1>15, <1>a DEF EventSwitch, EventWaits, AtSettle
<1>16. CASE EventSettled
  BY <1>16, <1>a DEF EventSettled, EventWaits, AtSettle
<1>17. CASE PassEnds
  BY <1>17, <1>a DEF PassEnds
<1>18. CASE ObserveHeld
  BY <1>18, <1>a DEF ObserveHeld, Observes, QueueLift, LandPaused
<1>19. CASE ObserveDrained
  BY <1>19, <1>a DEF ObserveDrained, Observes, LandPaused
<1>20. CASE ObserveDutyHeld
  BY <1>20, <1>a DEF ObserveDutyHeld, Observes, RaiseFault
<1>21. CASE DutyUnwaits
  BY <1>21, <1>a DEF DutyUnwaits
<1>22. CASE ObserveEnds
  BY <1>22, <1>a DEF ObserveEnds
<1>23. CASE OpenLayer
  BY <1>23, <1>a DEF OpenLayer, Serves, Turn
<1>24. CASE Resume
  BY <1>24, <1>a DEF Resume, Serves, Turn
<1>25. CASE QueueRecord
  BY <1>25, <1>a DEF QueueRecord, Serves, Turn
<1>26. CASE Pause
  BY <1>26, <1>a DEF Pause, Serves, Turn
<1>27. CASE UNCHANGED vars
  BY <1>27 DEF vars, AtRest, HeldDue
<1> QED BY <1>1, <1>2, <1>3, <1>4, <1>5, <1>6, <1>7, <1>8, <1>9, <1>10, <1>11, <1>12,
          <1>13, <1>14, <1>15, <1>16, <1>17, <1>18, <1>19, <1>20, <1>21, <1>22, <1>23,
          <1>24, <1>25, <1>26, <1>27
        DEF Lives

LEMMA PauseIsOverKept ==
  ASSUME Inv, JobOwed, Own, Own', Lives \/ UNCHANGED vars
  PROVE  PauseIsOver'
<1> USE DEF ctxVars, flagVars, ringVars, dutyVars, toolVars, core1Vars, core0Vars, settleVars,
            core1Untouched, JobOwed, PauseIsOver
<1>a. /\ ctx = "JOB" /\ ~jobAborted /\ ~abortRequested /\ mode # "abort" /\ estop = "clear"
      /\ why \notin Before /\ why # "ABORTING" /\ c1 \notin {"dropped", "consumed"}
      /\ why # "BUFFERING" => ingest.open
      /\ InLoop => active /\ why # "PAUSED"
      /\ InLoop => (OnPath <=> ~runsOn /\ ingest.open /\ ingest.inContour)
      /\ exec.cur => ring # <<>> /\ active
  BY OwnIs
<1>1. CASE EnterLift
  BY <1>1, <1>a DEF EnterLift, MayEnter, Enters
<1>2. CASE EnterHeld
  BY <1>2, <1>a DEF EnterHeld, MayEnter, LandHeld
<1>3. CASE EnterRun
  BY <1>3, <1>a DEF EnterRun, MayEnter, Enters
<1>4. CASE Look
  BY <1>4, <1>a DEF Look
<1>5. CASE Tick
  BY <1>5, <1>a DEF Tick
<1>6. CASE NotSettled
  BY <1>6, <1>a DEF NotSettled
<1>7. CASE Drained
  BY <1>7, <1>a DEF Drained, AtSettle
<1>8. CASE DrainedReports
  BY <1>8, <1>a DEF DrainedReports, Returns
<1>9. CASE RunsDry
  BY <1>9, <1>a DEF RunsDry, AtSettle, Returns
<1>10. CASE LateRests
  BY <1>10, <1>a DEF LateRests, AtSettle, Returns
<1>11. CASE DutyRests
  BY <1>11, <1>a DEF DutyRests, AtSettle
<1>12. CASE PauseRests
  BY <1>12, <1>a DEF PauseRests, AtSettle, Returns, LandHeld
<1>13. CASE EventOff
  BY <1>13, <1>a DEF EventOff, EventWaits, AtSettle
<1>14. CASE EventDwell
  BY <1>14, <1>a DEF EventDwell, EventWaits, AtSettle
<1>15. CASE EventSwitch
  BY <1>15, <1>a DEF EventSwitch, EventWaits, AtSettle
<1>16. CASE EventSettled
  BY <1>16, <1>a DEF EventSettled, EventWaits, AtSettle
<1>17. CASE PassEnds
  BY <1>17, <1>a DEF PassEnds
<1>18. CASE ObserveHeld
  BY <1>18, <1>a DEF ObserveHeld, Observes, QueueLift, LandPaused
<1>19. CASE ObserveDrained
  BY <1>19, <1>a DEF ObserveDrained, Observes, LandPaused
<1>20. CASE ObserveDutyHeld
  BY <1>20, <1>a DEF ObserveDutyHeld, Observes, RaiseFault
<1>21. CASE DutyUnwaits
  BY <1>21, <1>a DEF DutyUnwaits
<1>22. CASE ObserveEnds
  BY <1>22, <1>a DEF ObserveEnds
<1>23. CASE OpenLayer
  BY <1>23, <1>a DEF OpenLayer, Serves, Turn
<1>24. CASE Resume
  BY <1>24, <1>a DEF Resume, Serves, Turn
<1>25. CASE QueueRecord
  BY <1>25, <1>a DEF QueueRecord, Serves, Turn
<1>26. CASE Pause
  BY <1>26, <1>a DEF Pause, Serves, Turn
<1>27. CASE UNCHANGED vars
  BY <1>27 DEF vars, AtRest, HeldDue
<1> QED BY <1>1, <1>2, <1>3, <1>4, <1>5, <1>6, <1>7, <1>8, <1>9, <1>10, <1>11, <1>12,
          <1>13, <1>14, <1>15, <1>16, <1>17, <1>18, <1>19, <1>20, <1>21, <1>22, <1>23,
          <1>24, <1>25, <1>26, <1>27
        DEF Lives

LEMMA HoldIsSaidKept ==
  ASSUME Inv, JobOwed, Own, Own', Lives \/ UNCHANGED vars
  PROVE  HoldIsSaid'
<1> USE DEF ctxVars, flagVars, ringVars, dutyVars, toolVars, core1Vars, core0Vars, settleVars,
            core1Untouched, JobOwed, HoldIsSaid
<1>a. /\ ctx = "JOB" /\ ~jobAborted /\ ~abortRequested /\ mode # "abort" /\ estop = "clear"
      /\ why \notin Before /\ why # "ABORTING" /\ c1 \notin {"dropped", "consumed"}
      /\ why # "BUFFERING" => ingest.open
      /\ InLoop => active /\ why # "PAUSED"
      /\ InLoop => (OnPath <=> ~runsOn /\ ingest.open /\ ingest.inContour)
      /\ exec.cur => ring # <<>> /\ active
  BY OwnIs
<1>f. FactTypes
  BY DEF Inv, Types
<1>h. Report("HELD") \/ Report("DRAINED") => HeldDue'
  <2> SUFFICES ASSUME Report("HELD") \/ Report("DRAINED") PROVE HeldDue'
    OBVIOUS
  <2>1. Len(facts') \in 1 .. Len(facts') /\ facts'[Len(facts')] \in {"HELD", "DRAINED"}
    BY <1>f, ReportIs DEF FactTypes, FactNames
  <2> QED BY <2>1 DEF HeldDue
<1>1. CASE EnterLift
  BY <1>1, <1>a DEF EnterLift, MayEnter, Enters, AtRest, HeldDue
<1>2. CASE EnterHeld
  BY <1>2, <1>h DEF EnterHeld, LandHeld
<1>3. CASE EnterRun
  BY <1>3, <1>a DEF EnterRun, MayEnter, Enters
<1>4. CASE Look
  BY <1>4, <1>a DEF Look, AtRest, InLoop
<1>5. CASE Tick
  BY <1>5, <1>a DEF Tick, AtRest, InLoop
<1>6. CASE NotSettled
  BY <1>6, <1>a DEF NotSettled, AtRest, InLoop
<1>7. CASE Drained
  BY <1>7, <1>a DEF Drained, AtSettle
<1>8. CASE DrainedReports
  BY <1>8, <1>h DEF DrainedReports
<1>9. CASE RunsDry
  BY <1>9, <1>a DEF RunsDry, AtSettle, Returns
<1>10. CASE LateRests
  BY <1>10, <1>a DEF LateRests, AtSettle, Returns, AtRest, InLoop
<1>11. CASE DutyRests
  BY <1>11, <1>a DEF DutyRests, AtSettle, AtRest, InLoop
<1>12. CASE PauseRests
  BY <1>12, <1>h DEF PauseRests, LandHeld
<1>13. CASE EventOff
  BY <1>13, <1>a DEF EventOff, EventWaits, AtSettle, AtRest, InLoop
<1>14. CASE EventDwell
  BY <1>14, <1>a DEF EventDwell, EventWaits, AtSettle, AtRest, InLoop
<1>15. CASE EventSwitch
  BY <1>15, <1>a DEF EventSwitch, EventWaits, AtSettle, AtRest, InLoop
<1>16. CASE EventSettled
  BY <1>16, <1>a DEF EventSettled, EventWaits, AtSettle, AtRest, InLoop
<1>17. CASE PassEnds
  BY <1>17 DEF PassEnds, AtRest, HeldDue
<1>18. CASE ObserveHeld
  <2>3. PICK fits \in BOOLEAN :
          IF LiftDue(fits) THEN QueueLift("HOLDING", fits) ELSE LandPaused /\ UNCHANGED ring
    BY <1>18 DEF ObserveHeld
  <2>1. CASE LiftDue(fits)
    <3>1. LiftBlocks(fits) # <<>> /\ ring' = LiftBlocks(fits)
      BY <2>1, <2>3 DEF QueueLift, LiftDue
    <3> QED BY <3>1 DEF AtRest
  <2>2. CASE ~LiftDue(fits)
    <3>1. LandPaused /\ UNCHANGED <<ring, active>>
      BY <1>18, <2>2, <2>3 DEF ObserveHeld
    <3>2. why' = "HOLDING" => why = "HOLDING" /\ ~AtRest
      BY <3>1, <1>a DEF LandPaused
    <3> QED BY <3>1, <3>2 DEF AtRest
  <2> QED BY <2>1, <2>2
<1>19. CASE ObserveDrained
  <2>1. UNCHANGED <<ring, active>>
    BY <1>19 DEF ObserveDrained
  <2>2. CASE AtRest
    <3>1. LandPaused
      BY <1>19, <2>2 DEF ObserveDrained
    <3>2. why' # "HOLDING"
      BY <2>2, <3>1, <1>a DEF LandPaused
    <3> QED BY <3>2
  <2> QED BY <2>1, <2>2 DEF AtRest
<1>20. CASE ObserveDutyHeld
  <2>1. AtRest' => AtRest
    BY <1>20, DutyLonger DEF ObserveDutyHeld, AtRest
  <2>2. HeldDue => HeldDue'
    BY <1>20, <1>f, StillDue, HeadFact DEF ObserveDutyHeld, Observes, HeldDue
  <2> QED BY <1>20, <2>1, <2>2 DEF ObserveDutyHeld
<1>21. CASE DutyUnwaits
  BY <1>21 DEF DutyUnwaits, AtRest, HeldDue
<1>22. CASE ObserveEnds
  BY <1>22 DEF ObserveEnds, AtRest, HeldDue
<1>23. CASE OpenLayer
  BY <1>23 DEF OpenLayer, Serves, Turn, AtRest, HeldDue
<1>24. CASE Resume
  BY <1>24 DEF Resume
<1>25. CASE QueueRecord
  <2>1. ring' # <<>> \/ why # "HOLDING"
    BY <1>25 DEF QueueRecord, Admits
  <2> QED BY <1>25, <2>1 DEF QueueRecord, Admits
<1>26. CASE Pause
  BY <1>26 DEF Pause
<1>27. CASE UNCHANGED vars
  BY <1>27 DEF vars, AtRest, HeldDue
<1> QED BY <1>1, <1>2, <1>3, <1>4, <1>5, <1>6, <1>7, <1>8, <1>9, <1>10, <1>11, <1>12,
          <1>13, <1>14, <1>15, <1>16, <1>17, <1>18, <1>19, <1>20, <1>21, <1>22, <1>23,
          <1>24, <1>25, <1>26, <1>27
        DEF Lives

LEMMA JobOwedKept == Inv /\ JobOwed /\ [Next]_vars => JobOwed'
<1> SUFFICES ASSUME Inv, JobOwed, [Next]_vars PROVE JobOwed'
  OBVIOUS
<1>1. CASE Own /\ Own' /\ (Lives \/ UNCHANGED vars)
  BY <1>1, RunsItKept, HoldIsSaidKept, PauseIsOverKept DEF JobOwed
<1>2. CASE PlaceOk
  BY <1>2 DEF PlaceOk, JobOwed, RunsIt, HoldIsSaid, PauseIsOver
<1>3. CASE ~Own'
  BY <1>3 DEF JobOwed, RunsIt, HoldIsSaid, PauseIsOver
<1> QED BY <1>1, <1>2, <1>3, OwnStep

LEMMA OwedInit == Init => JobOwed /\ DutyOwed
  BY DEF Init, JobOwed, RunsIt, HoldIsSaid, PauseIsOver, DutyOwed, Own, Mine

LEMMA AnsweredIs ==
  ASSUME FactTypes
  PROVE  DutyIsAnswered <=> c0 = "unwait" \/ DutyDue
<1>1. DOMAIN facts = 1 .. Len(facts)
  BY DEF FactTypes
<1> QED BY <1>1 DEF DutyIsAnswered, DutyDue

LEMMA OwedIs == Inv /\ JobOwed /\ DutyOwed => WaitIsOwed
<1> SUFFICES ASSUME Inv, JobOwed, DutyOwed PROVE WaitIsOwed
  OBVIOUS
<1>1. ASSUME ctx = "JOB", ~jobAborted, why \notin AtHost \/ pauseRequested
      PROVE  \/ active \/ c1 # "top" \/ facts # <<>> \/ estop # "clear" \/ abortRequested
             \/ why = "BUFFERING"
             \/ why = "HOLDING" /\ ring # <<>>
  <2>1. Mine
    BY <1>1 DEF Mine
  <2>2. why \notin Before
    <3> SUFFICES ASSUME why \in Before PROVE FALSE
      OBVIOUS
    <3>1. ~ingest.open
      BY <1>1 DEF Inv, NotOpen
    <3>2. ~pauseRequested
      BY <2>1, <3>1 DEF Inv, NotOpen
    <3> QED BY <1>1, <3>2 DEF AtHost, Before
  <2>3. Own /\ why # "ABORTING"
    BY <1>1, <2>1, <2>2 DEF Own, Inv, Aborts
  <2>4. why \in Reasons
    BY DEF Inv, Types, JobTypes
  <2>5. why \in {"RUNNING", "DWELL"} => active
    BY <2>3 DEF JobOwed, RunsIt
  <2>6. why # "PAUSED"
    BY <1>1, <2>3 DEF JobOwed, PauseIsOver, AtHost
  <2>7. why = "HOLDING" => active \/ ring # <<>> \/ c1 # "top" \/ facts # <<>>
    <3>1. HeldDue => facts # <<>>
      BY DEF HeldDue
    <3> QED BY <2>3, <3>1 DEF JobOwed, HoldIsSaid, AtRest
  <2> QED BY <2>2, <2>3, <2>4, <2>5, <2>6, <2>7 DEF Reasons, Before
<1>2. dutyWait => DutyIsAnswered \/ forgotten
  BY AnsweredIs DEF Inv, Types, DutyOwed
<1> QED BY <1>1, <1>2 DEF WaitIsOwed

(* Who waits is answered, for jobs of any length, any order of commands,     *)
(* faults and reports, and any number of commands a pass of Core 0: a job    *)
(* that is to move or to stop is somebody's next step (enter, observeTick),  *)
(* and a duty hold's report reaches plannerDutyLift unless a reset wipes it   *)
(* (core1FactsReset).                                                       *)
THEOREM WaitIsAnswered == Spec => []WaitIsOwed
<1>1. Init => Inv /\ JobOwed /\ DutyOwed
  BY InvInit, OwedInit
<1>2. Inv /\ JobOwed /\ DutyOwed /\ [Next]_vars => (Inv /\ JobOwed /\ DutyOwed)'
  <2> SUFFICES ASSUME Inv, JobOwed, DutyOwed, [Next]_vars PROVE (Inv /\ JobOwed /\ DutyOwed)'
    OBVIOUS
  <2> QED BY InvKept, JobOwedKept, DutyOwedKept DEF Inv, Types
<1> QED BY <1>1, <1>2, OwedIs, PTL DEF Spec

(* Only a reset forgets.                                                    *)
LEMMA OnlyResetForgets == [Next]_vars => Reset \/ forgotten' = forgotten
<1> SUFFICES ASSUME [Next]_vars PROVE Reset \/ forgotten' = forgotten
  OBVIOUS
<1> USE DEF core1Untouched, dutyVars
<1>1. CASE Core1
  BY <1>1 DEF Core1, Settled, EnterLift, EnterHeld, EnterRun, AbortDrops, AbortConsumed, EstopSweep,
              EstopReturns, Look, Tick, NotSettled, Drained, RunsDry, LateRests, DutyRests,
              PauseRests, EventOff, EventDwell, EventSwitch, EventSettled, DrainedReports
<1>2. CASE Observe \/ Publish \/ PassEnds
  BY <1>2 DEF Observe, Publish, PassEnds, ObserveHeld, ObserveDrained, ObserveToolFailed,
              ObserveDutyHeld, DutyUnwaits, ObserveEnds
<1>3. CASE \/ OpenJob \/ PreflightPasses \/ PreflightFails \/ PlaceOk \/ OpenLayer \/ Resume
           \/ QueueRecord \/ Pause \/ Abort \/ Cancel \/ Stop \/ Unstop \/ Unalarm
  BY <1>3 DEF OpenJob, PreflightPasses, PreflightFails, PlaceOk, OpenLayer, Resume, QueueRecord,
              Pause, Abort, Cancel, Stop, Unstop, Unalarm, Serves
<1>4. CASE UNCHANGED vars
  BY <1>4 DEF vars
<1> QED BY <1>1, <1>2, <1>3, <1>4 DEF Next, Host, Pass

(* Where no reset is sent Core 1 is never left in its wait: the answer of a  *)
(* duty hold is due for as long as it waits.                                *)
THEOREM WaitIsAlwaysAnswered ==
  ASSUME "reset" \notin Commands
  PROVE  Spec => []DutyIsOwed
<1> DEFINE I == Inv /\ DutyOwed /\ ~forgotten
<1>1. Init => I
  BY InvInit, OwedInit DEF Init
<1>2. I /\ [Next]_vars => I'
  <2> SUFFICES ASSUME Inv, DutyOwed, ~forgotten, [Next]_vars PROVE I'
    OBVIOUS
  <2>1. ~Reset
    BY DEF Reset
  <2>2. Inv' /\ DutyOwed'
    BY InvKept, DutyOwedKept DEF Inv, Types
  <2> QED BY <2>1, <2>2, OnlyResetForgets
<1>3. I => DutyIsOwed
  BY AnsweredIs DEF Inv, Types, DutyOwed, DutyIsOwed
<1> QED BY <1>1, <1>2, <1>3, PTL DEF Spec

=============================================================================
