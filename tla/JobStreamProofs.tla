-------------------------- MODULE JobStreamProofs ---------------------------
(***************************************************************************)
(* Proofs about JobStream: for every job, every modulus and window, every  *)
(* ring and any number of faults, pauses and mounts.                       *)
(***************************************************************************)
EXTENDS JobStream, SequenceTheorems, WellFoundedInduction, TLAPS

Points     == [layer : 0 .. Len(LayerTool), record : Int]
PreFrames  == {JobHdr} \cup [kind : {"tool"}, tool : Nat]
Frames     == PreFrames \cup [kind : {"layer"}, at : Points] \cup [kind : {"bezier"}, record : Int]
Packets    == [kind : {"frame"}, seq : Int, bad : BOOLEAN, frame : Frames]
Controls   == [kind : {"pause", "abort", "cancel", "seqreset"}]
Acks       == [kind : {"ack"}, e : Int]
Refusals   == {"CRC", "ABORTING", "TOOL_CHANGE", "PAUSED", "BAD_STATE", "JOB", "BAD_CURVE", "FULL"}
Nacks      == [kind : {"nack"}, why : Refusals]
Blocks     == [record : Int, tag : Points]

(* Core 0's job state: what the steps ask of its fields.                    *)
PicoFields == {"ctx", "why", "pause", "abort", "aborted", "fault", "ring", "active", "c1", "late", "wasLate",
               "held", "resume", "cur", "first", "opened", "inContour", "endAt", "preSeen", "heldLayer",
               "tcPending", "tcActive", "tcStarted", "want", "backTo", "seq", "mounted"}
Typed(p) ==
  /\ PicoFields \subseteq DOMAIN p
  /\ p.ctx \in {"IDLE", "JOB"} /\ p.why \in Reasons /\ p.backTo \in {"BUFFERING", "PAUSED"}
  /\ p.ring \in Seq(Blocks) /\ Len(p.ring) <= RingSize
  /\ p.resume \in Points /\ p.cur \in Points /\ p.heldLayer \in Points

(* Core 1 is in its run only over an active ring.                           *)
Running1(p) ==
  /\ p.c1 \in {"rest", "look", "tick"}
  /\ p.c1 # "rest" => p.active /\ p.why \in {"RUNNING", "HOLDING", "TOOL_WAIT"}

PicoInv == Typed(pico) /\ Running1(pico)

RxInv  == /\ rx \in [expectedSeq : 0 .. SeqMod - 1, pendingAcks : 0 .. AckMax - 1]
          /\ accepted \in Nat /\ rx.expectedSeq = accepted % SeqMod
InType  == toPico \in Seq(Packets \cup Controls)
OutType == toHost \in Seq(Acks \cup Nacks)

HostFields == {"stream", "base", "next", "placed", "hold", "settled", "go", "pauseAsked", "ending",
               "restart", "end"}
HostInv ==
  /\ HostFields \subseteq DOMAIN host
  /\ host.stream \in Seq(Frames) /\ host.restart \in Points
  /\ host.base \in Nat /\ host.next \in Nat
  /\ host.base <= host.next /\ host.next <= Len(host.stream)

(* Until the placement is signed off only the preflight is under way, and   *)
(* nothing of the job has begun.                                            *)
Unbegun(p) ==
  /\ p.why \in {"BUFFERING", "PREFLIGHT", "PLACE"} /\ p.ring = <<>> /\ p.c1 = "rest"
  /\ ~p.pause /\ ~p.opened /\ p.heldLayer = NoPoint
  /\ ~p.tcPending /\ ~p.tcActive /\ ~p.seq /\ ~p.held

OnlyPreflight(q) == \A i \in 1 .. Len(q) : q[i].kind = "frame" => q[i].frame \in PreFrames

PlaceInv ==
  ~host.placed =>
    /\ host.stream = FullStream /\ host.next <= Len(Preflight) /\ host.restart = NoPoint
    /\ OnlyPreflight(toPico)
    /\ Unbegun(pico)

(* A session held at rest: it waits for the operator, then for the answer   *)
(* to its seqreset.                                                         *)
Resting == host.hold \in {"paused", "refused"} /\ host.settled

NoFrame(q)  == \A i \in 1 .. Len(q) : q[i].kind # "frame"
NoReset(q)  == \A i \in 1 .. Len(q) : q[i].kind # "seqreset"
OneReset(q) == \A i, j \in 1 .. Len(q) : q[i].kind = "seqreset" /\ q[j].kind = "seqreset" => i = j

(* Then no frame and no ACK of the old stream is under way any more.        *)
RestInv ==
  Resting =>
    /\ rx.pendingAcks = 0 /\ NoFrame(toPico) /\ OneReset(toPico)
    /\ \A i \in 1 .. Len(toHost) : toHost[i] = Ack(0)
    /\ toHost # <<>> => accepted = 0 /\ NoReset(toPico)

(* Every ACK under way in q is the count of the frames taken when it was    *)
(* sent, w[i]: the counts only grow, up to the n taken by now, and the      *)
(* host's base b is no later than the first.                                *)
Counts(w, q, b, n) ==
  /\ w \in [1 .. Len(q) -> Nat]
  /\ \A i \in 1 .. Len(q) : b <= w[i] /\ w[i] <= n
  /\ \A i, j \in 1 .. Len(q) : i <= j => w[i] <= w[j]
  /\ \A i \in 1 .. Len(q) : q[i].kind = "ack" => q[i].e = w[i] % SeqMod
Counted(q, b, n) == b <= n /\ \E w : Counts(w, q, b, n)

AckInv == ~Resting => NoReset(toPico) /\ Counted(toHost, host.base, accepted)

IInv == /\ PicoInv /\ RxInv /\ InType /\ OutType /\ HostInv
        /\ PlaceInv /\ RestInv /\ AckInv

----------------------------------------------------------------------------
(* Sequences.                                                              *)

(* What is appended to a queue, and what is left of it.                    *)
LEMMA Appended ==
  ASSUME NEW S, NEW q \in Seq(S), NEW x \in S
  PROVE  /\ Append(q, x) \in Seq(S) /\ Len(Append(q, x)) = Len(q) + 1
         /\ \A i \in 1 .. Len(q) : Append(q, x)[i] = q[i]
         /\ Append(q, x)[Len(q) + 1] = x
  OBVIOUS

LEMMA Popped ==
  ASSUME NEW S, NEW q \in Seq(S), q # <<>>
  PROVE  /\ Head(q) \in S /\ Tail(q) \in Seq(S) /\ Len(q) > 0
         /\ Len(Tail(q)) = Len(q) - 1 /\ Head(q) = q[1]
         /\ \A i \in 1 .. Len(Tail(q)) : Tail(q)[i] = q[i + 1] /\ i + 1 \in 1 .. Len(q)
  OBVIOUS

LEMMA Listed ==
  ASSUME NEW S, NEW n \in Int, NEW q \in [1 .. n -> S]
  PROVE  q \in Seq(S) /\ Len(q) = IF n > 0 THEN n ELSE 0
<1>1. CASE n >= 0
  <2>1. q \in Seq(S)
    BY <1>1
  <2>2. Len(q) \in Nat /\ DOMAIN q = 1 .. Len(q) /\ DOMAIN q = 1 .. n
    BY <2>1
  <2>3. Len(q) = n
    BY <1>1, <2>2
  <2> QED BY <1>1, <2>1, <2>3
<1>2. CASE n < 0
  <2>1. 1 .. n = 1 .. 0
    BY <1>2
  <2>2. q \in [1 .. 0 -> S]
    BY <2>1
  <2>3. q \in Seq(S)
    BY <2>2
  <2>4. Len(q) \in Nat /\ DOMAIN q = 1 .. Len(q) /\ DOMAIN q = 1 .. 0
    BY <2>2, <2>3
  <2>5. Len(q) = 0
    BY <2>4
  <2> QED BY <1>2, <2>3, <2>5
<1> QED BY <1>1, <1>2

LEMMA Joined ==
  ASSUME NEW S, NEW p \in Seq(S), NEW q \in Seq(S)
  PROVE  /\ p \o q \in Seq(S) /\ Len(p \o q) = Len(p) + Len(q)
         /\ \A i \in 1 .. Len(p \o q) : (p \o q)[i] = IF i <= Len(p) THEN p[i] ELSE q[i - Len(p)]
  OBVIOUS

(* A set of naturals has a least member.                                   *)
LEMMA LeastExists ==
  ASSUME NEW S \in SUBSET Nat, S # {}
  PROVE  \E m \in S : \A k \in S : m <= k
<1> DEFINE R == OpToRel(<, Nat)
<1>1. IsWellFoundedOn(R, Nat)
  BY NatLessThanWellFounded
<1>2. \A x, y \in Nat : x < y => <<x, y>> \in R
  BY DEF OpToRel
<1> HIDE DEF R
<1>3. PICK m \in S : \A y \in S : ~(<<y, m>> \in R)
  BY <1>1, WFMin
<1>4. ASSUME NEW k \in S PROVE m <= k
  <2>1. ~(k < m)
    BY <1>2, <1>3
  <2>2. k \in Int /\ m \in Int
    OBVIOUS
  <2> QED BY <2>1, <2>2
<1> QED BY <1>4

----------------------------------------------------------------------------
(* The job's frames.                                                       *)

LEMMA JobIs ==
  /\ LayerTool \in Seq(Nat) /\ LayerLen \in Seq(Nat) /\ Tools \in Seq(Nat)
  /\ Len(LayerTool) \in Nat /\ Len(LayerLen) = Len(LayerTool)
  /\ Tools[1] \in Nat /\ NoPoint \in Points /\ Layers \subseteq 0 .. Len(LayerTool)
  /\ \A l \in Layers : LayerTool[l] \in Nat /\ LayerLen[l] \in Nat
  /\ SeqMod \in Nat \ {0} /\ AckMax \in Nat \ {0} /\ RingSize \in Nat \ {0}
<1>1. \A q \in Seq(Nat \ {0}) : q \in Seq(Nat) /\ Len(q) \in Nat /\ \A i \in 1 .. Len(q) : q[i] \in Nat
  OBVIOUS
<1>2. LayerTool \in Seq(Nat \ {0}) /\ LayerLen \in Seq(Nat \ {0}) /\ Tools \in Seq(Nat \ {0})
  BY JobStreamAssumption
<1>3. 1 \in 1 .. Len(Tools)
  BY <1>2, JobStreamAssumption
<1>4. NoPoint \in Points /\ Layers \subseteq 0 .. Len(LayerTool)
  BY <1>1, <1>2 DEF NoPoint, Point, Points, Layers
<1>5. SeqMod > 0
  BY JobStreamAssumption
<1> QED BY <1>1, <1>2, <1>3, <1>4, <1>5, JobStreamAssumption DEF Layers

(* Before is what its recursion says: there is such a function.            *)
LEMMA BeforeUnfolds ==
  \A l \in 1 .. Len(LayerTool) + 1 :
    Before[l] = IF l = 1 THEN 0 ELSE Before[l - 1] + LayerLen[l - 1]
<1> DEFINE N == Len(LayerTool)
           Fills(g, n) == \A l \in 1 .. n : g[l] = IF l = 1 THEN 0 ELSE g[l - 1] + LayerLen[l - 1]
           Empty == {n \in Nat : n \in 1 .. N + 1 /\ ~\E g \in [1 .. n -> Nat] : Fills(g, n)}
<1>1. N \in Nat /\ \A l \in 1 .. N : LayerLen[l] \in Nat
  BY JobIs DEF Layers
<1>2. Empty = {}
  <2>1. SUFFICES ASSUME Empty # {} PROVE FALSE
    OBVIOUS
  <2>2. PICK m \in Empty : \A k \in Empty : m <= k
    BY <2>1, LeastExists
  <2>3. m \in 1 .. N + 1 /\ m \in Nat
    OBVIOUS
  <2>4. m # 1
    <3>1. [i \in 1 .. 1 |-> 0] \in [1 .. 1 -> Nat] /\ Fills([i \in 1 .. 1 |-> 0], 1)
      OBVIOUS
    <3> QED BY <3>1
  <2>5. PICK g \in [1 .. m - 1 -> Nat] : Fills(g, m - 1)
    <3>1. m - 1 \in Nat /\ m - 1 \in 1 .. N + 1 /\ ~(m <= m - 1)
      BY <1>1, <2>3, <2>4
    <3> QED BY <2>2, <3>1
  <2>6. LayerLen[m - 1] \in Nat /\ g[m - 1] \in Nat
    BY <1>1, <2>3, <2>4
  <2> DEFINE h == [l \in 1 .. m |-> IF l = m THEN g[m - 1] + LayerLen[m - 1] ELSE g[l]]
  <2>7. h \in [1 .. m -> Nat]
    BY <2>3, <2>6
  <2>8. ASSUME NEW l \in 1 .. m
        PROVE  h[l] = IF l = 1 THEN 0 ELSE h[l - 1] + LayerLen[l - 1]
    BY <2>3, <2>4, <2>5
  <2>9. Fills(h, m)
    BY <2>8
  <2> QED BY <2>2, <2>7, <2>9
<1>3. PICK g \in [1 .. N + 1 -> Nat] : Fills(g, N + 1)
  BY <1>1, <1>2
<1>4. g = [l \in 1 .. N + 1 |-> IF l = 1 THEN 0 ELSE g[l - 1] + LayerLen[l - 1]]
  BY <1>3
<1>5. Before = [l \in 1 .. N + 1 |-> IF l = 1 THEN 0 ELSE Before[l - 1] + LayerLen[l - 1]]
  BY <1>4 DEF Before
<1> QED BY <1>5

LEMMA BeforeIs == \A l \in 1 .. Len(LayerTool) + 1 : Before[l] \in Nat
<1> DEFINE N == Len(LayerTool)
<1>1. N \in Nat /\ \A l \in 1 .. N : LayerLen[l] \in Nat
  BY JobIs DEF Layers
<1> DEFINE Odd == {n \in Nat : n \in 1 .. N + 1 /\ Before[n] \notin Nat}
<1>6. Odd = {}
  <2>1. SUFFICES ASSUME Odd # {} PROVE FALSE
    OBVIOUS
  <2>2. PICK m \in Odd : \A k \in Odd : m <= k
    BY <2>1, LeastExists
  <2>3. m # 1 /\ m \in 1 .. N + 1
    BY BeforeUnfolds
  <2>4. Before[m - 1] \in Nat /\ LayerLen[m - 1] \in Nat
    <3>1. m - 1 \in Nat /\ m - 1 \in 1 .. N + 1 /\ m - 1 \in 1 .. N /\ ~(m <= m - 1)
      BY <1>1, <2>3
    <3> QED BY <1>1, <2>2, <3>1
  <2> QED BY BeforeUnfolds, <2>3, <2>4
<1> QED BY <1>1, <1>6

LEMMA RecordsAre ==
  ASSUME NEW l \in 0 .. Len(LayerTool), NEW n \in Int
  PROVE  RecordsFrom(l, n) \in Seq(Frames)
<1>1. l + 1 \in 1 .. Len(LayerTool) + 1
  BY JobIs
<1>2. Last(l) - n + 1 \in Int
  BY <1>1, BeforeIs DEF Last
<1>3. \A i \in 1 .. Last(l) - n + 1 : Bezier(n + i - 1) \in Frames
  BY <1>2 DEF Bezier, Frames
<1>4. RecordsFrom(l, n) \in [1 .. Last(l) - n + 1 -> Frames]
  BY <1>3 DEF RecordsFrom
<1> QED BY <1>2, <1>4, Listed

LEMMA HeadersAre ==
  /\ \A l \in 0 .. Len(LayerTool), n \in Int : LayerHdr(l, n) \in Frames
  /\ \A t \in Nat : ToolHdr(t) \in PreFrames
  /\ JobHdr \in PreFrames /\ PreFrames \subseteq Frames
  BY DEF LayerHdr, Point, Points, ToolHdr, JobHdr, PreFrames, Frames

LEMMA NewLayerIs ==
  ASSUME NEW l \in Layers
  PROVE  NewLayer(l) \in Seq(Frames)
<1>1. First(l) \in Int
  <2>1. l \in 1 .. Len(LayerTool) + 1
    BY JobIs DEF Layers
  <2> QED BY <2>1, BeforeIs DEF First
<1>2. LayerHdr(l, First(l)) \in Frames /\ ToolHdr(LayerTool[l]) \in Frames
  BY <1>1, HeadersAre, JobIs
<1>3. <<LayerHdr(l, First(l)), ToolHdr(LayerTool[l])>> \in Seq(Frames)
  BY <1>2
<1>4. l \in 0 .. Len(LayerTool)
  BY JobIs
<1> QED BY <1>1, <1>3, <1>4, RecordsAre, Joined DEF NewLayer

(* LayersFrom is what its recursion says: there is such a function, built  *)
(* from the last layer back.                                               *)
LEMMA LayersFromUnfolds ==
  \A l \in 1 .. Len(LayerTool) + 1 :
    LayersFrom[l] = IF l > Len(LayerTool) THEN <<>> ELSE NewLayer(l) \o LayersFrom[l + 1]
<1> DEFINE N == Len(LayerTool)
           S == Seq(Frames)
           z == <<>>
           step == [l \in 1 .. N |-> [q \in S |-> NewLayer(l) \o q]]
<1>1. N \in Nat /\ Layers = 1 .. N /\ z \in S
  BY JobIs DEF Layers
<1>2. step \in [1 .. N -> [S -> S]] /\ \A l \in 1 .. N, q \in S : step[l][q] = NewLayer(l) \o q
  <2>1. ASSUME NEW l \in 1 .. N, NEW q \in Seq(Frames) PROVE NewLayer(l) \o q \in Seq(Frames)
    BY <1>1, NewLayerIs, Joined
  <2> QED BY <2>1
<1> HIDE DEF N, S, z, step
<1> DEFINE Fills(g, n) == \A l \in n .. N + 1 : g[l] = IF l > N THEN z ELSE step[l][g[l + 1]]
           Has(n) == \E g \in [n .. N + 1 -> S] : Fills(g, n)
           Empty == {n \in Nat : n <= N /\ ~Has(N + 1 - n)}
<1>3. Has(N + 1)
  <2>1. [i \in N + 1 .. N + 1 |-> z] \in [N + 1 .. N + 1 -> S]
    BY <1>1
  <2>2. Fills([i \in N + 1 .. N + 1 |-> z], N + 1)
    BY <1>1
  <2> QED BY <2>1, <2>2
<1>4. ASSUME NEW b \in 1 .. N, Has(b + 1) PROVE Has(b)
  <2>1. PICK g \in [b + 1 .. N + 1 -> S] : Fills(g, b + 1)
    BY <1>4
  <2>2. step[b][g[b + 1]] \in S
    BY <1>1, <1>2
  <2> DEFINE h == [l \in b .. N + 1 |-> IF l = b THEN step[b][g[b + 1]] ELSE g[l]]
  <2>3. h \in [b .. N + 1 -> S]
    BY <1>1, <2>2
  <2>4. Fills(h, b)
    <3>1. ASSUME NEW l \in b .. N + 1 PROVE h[l] = IF l > N THEN z ELSE step[l][h[l + 1]]
      BY <1>1, <2>1
    <3> QED BY <3>1
  <2> QED BY <2>3, <2>4
<1> HIDE DEF Has
<1>5. Empty = {}
  <2>1. SUFFICES ASSUME Empty # {} PROVE FALSE
    OBVIOUS
  <2>2. PICK m \in Empty : \A k \in Empty : m <= k
    BY <2>1, LeastExists
  <2>3. m \in Nat /\ m <= N /\ ~Has(N + 1 - m)
    OBVIOUS
  <2>4. m # 0
    <3>1. N + 1 - 0 = N + 1
      BY <1>1
    <3> QED BY <1>3, <2>3, <3>1
  <2>5. m - 1 \in Nat /\ m - 1 <= N /\ ~(m <= m - 1)
    BY <1>1, <2>3, <2>4
  <2>6. Has(N + 1 - (m - 1))
    BY <2>2, <2>5
  <2>7. N + 1 - m \in 1 .. N /\ N + 1 - (m - 1) = (N + 1 - m) + 1
    BY <1>1, <2>3, <2>4
  <2> QED BY <1>4, <2>3, <2>6, <2>7
<1>6. PICK g \in [1 .. N + 1 -> S] : \A l \in 1 .. N + 1 : g[l] = IF l > N THEN z ELSE step[l][g[l + 1]]
  <2>1. N \in Nat /\ N <= N /\ N + 1 - N = 1
    BY <1>1
  <2>2. Has(1)
    BY <1>5, <2>1
  <2> QED BY <2>2 DEF Has
<1>7. ASSUME NEW l \in 1 .. N + 1 PROVE g[l] = IF l > N THEN z ELSE NewLayer(l) \o g[l + 1]
  <2>1. CASE l > N
    BY <1>6, <2>1
  <2>2. CASE ~(l > N)
    <3>1. l \in 1 .. N /\ l + 1 \in 1 .. N + 1 /\ g[l + 1] \in S
      BY <1>1, <2>2
    <3> QED BY <1>2, <1>6, <2>2, <3>1
  <2> QED BY <2>1, <2>2
<1>8. g = [l \in 1 .. N + 1 |-> IF l > N THEN z ELSE NewLayer(l) \o g[l + 1]]
  <2>1. g = [l \in 1 .. N + 1 |-> g[l]]
    OBVIOUS
  <2> QED BY <1>7, <2>1, Zenon
<1>9. LayersFrom = [l \in 1 .. N + 1 |-> IF l > N THEN z ELSE NewLayer(l) \o LayersFrom[l + 1]]
  BY <1>8, Zenon DEF LayersFrom, N, z
<1>10. \A l \in 1 .. N + 1 : LayersFrom[l] = IF l > N THEN z ELSE NewLayer(l) \o LayersFrom[l + 1]
  BY <1>9, Zenon
<1> QED BY <1>10 DEF N, z

(* And a sequence of frames.                                               *)
LEMMA LayersFromIs == \A l \in 1 .. Len(LayerTool) + 1 : LayersFrom[l] \in Seq(Frames)
<1> DEFINE N == Len(LayerTool)
           S == Seq(Frames)
           z == <<>>
<1>1. N \in Nat /\ z \in S
  BY JobIs
<1>2. \A l \in 1 .. N, q \in S : NewLayer(l) \o q \in S
  <2>1. ASSUME NEW l \in 1 .. N, NEW q \in Seq(Frames) PROVE NewLayer(l) \o q \in Seq(Frames)
    BY NewLayerIs, Joined DEF Layers
  <2> QED BY <2>1
<1>10. \A l \in 1 .. N + 1 : LayersFrom[l] = IF l > N THEN z ELSE NewLayer(l) \o LayersFrom[l + 1]
  BY LayersFromUnfolds
<1> HIDE DEF N, S, z
<1> DEFINE Odd == {n \in Nat : n <= N /\ LayersFrom[N + 1 - n] \notin S}
<1>11. Odd = {}
  <2>1. SUFFICES ASSUME Odd # {} PROVE FALSE
    OBVIOUS
  <2>2. PICK m \in Odd : \A k \in Odd : m <= k
    BY <2>1, LeastExists
  <2>3. m \in Nat /\ m <= N /\ LayersFrom[N + 1 - m] \notin S
    OBVIOUS
  <2>4. N + 1 - m \in 1 .. N + 1
    BY <1>1, <2>3
  <2>5. m # 0
    <3>1. N + 1 - 0 = N + 1 /\ N + 1 > N
      BY <1>1
    <3> QED BY <1>1, <1>10, <2>3, <2>4, <3>1
  <2>6. m - 1 \in Nat /\ m - 1 <= N /\ ~(m <= m - 1)
    BY <1>1, <2>3, <2>5
  <2>7. LayersFrom[N + 1 - (m - 1)] \in S
    BY <2>2, <2>6
  <2>8. N + 1 - m \in 1 .. N /\ N + 1 - (m - 1) = (N + 1 - m) + 1 /\ ~(N + 1 - m > N)
    BY <1>1, <2>3, <2>5
  <2>9. ASSUME NEW b \in 1 .. N, LayersFrom[b + 1] \in S
        PROVE  NewLayer(b) \o LayersFrom[b + 1] \in S
    BY <1>2, <2>9, Zenon
  <2>10. NewLayer(N + 1 - m) \o LayersFrom[(N + 1 - m) + 1] \in S
    BY <2>7, <2>8, <2>9, Zenon
  <2> QED BY <1>10, <2>3, <2>4, <2>8, <2>10
<1>12. ASSUME NEW l \in 1 .. N + 1 PROVE LayersFrom[l] \in S
  <2>1. N + 1 - l \in Nat /\ N + 1 - l <= N /\ N + 1 - (N + 1 - l) = l
    BY <1>1
  <2> QED BY <1>11, <2>1
<1> QED BY <1>12 DEF N, S

LEMMA StreamsAre ==
  /\ Preflight \in Seq(PreFrames) /\ Preflight \in Seq(Frames) /\ Len(Preflight) \in Nat
  /\ FullStream \in Seq(Frames) /\ Len(Preflight) <= Len(FullStream)
  /\ \A i \in 1 .. Len(Preflight) : FullStream[i] \in PreFrames
  /\ \A p \in Points : StreamFrom(p) \in Seq(Frames)
<1>1. Preflight \in Seq(PreFrames) /\ Preflight \in Seq(Frames)
  <2> DEFINE q == [i \in 1 .. Len(Tools) |-> ToolHdr(Tools[i])]
  <2>1. Len(Tools) \in Int /\ \A i \in 1 .. Len(Tools) : Tools[i] \in Nat
    BY JobIs
  <2>2. q \in [1 .. Len(Tools) -> PreFrames] /\ q \in [1 .. Len(Tools) -> Frames]
    BY <2>1, HeadersAre
  <2>3. q \in Seq(PreFrames) /\ q \in Seq(Frames)
    BY <2>1, <2>2, Listed
  <2>4. <<JobHdr>> \in Seq(PreFrames) /\ <<JobHdr>> \in Seq(Frames)
    BY HeadersAre
  <2> QED BY <2>3, <2>4, Joined DEF Preflight
<1>2. LayersFrom[1] \in Seq(Frames)
  BY LayersFromIs, JobIs
<1>3. Len(Preflight) \in Nat /\ Len(LayersFrom[1]) \in Nat /\ \A i \in 1 .. Len(Preflight) : Preflight[i] \in PreFrames
  BY <1>1, <1>2
<1>4. /\ FullStream \in Seq(Frames) /\ Len(FullStream) = Len(Preflight) + Len(LayersFrom[1])
      /\ \A i \in 1 .. Len(FullStream) : i <= Len(Preflight) => FullStream[i] = Preflight[i]
  BY <1>1, <1>2, Joined DEF FullStream
<1>5. ASSUME NEW p \in Points PROVE StreamFrom(p) \in Seq(Frames)
  <2>1. p.layer \in 0 .. Len(LayerTool) /\ p.record \in Int
    BY DEF Points
  <2>2. <<LayerHdr(p.layer, p.record)>> \in Seq(Frames)
    BY <2>1, HeadersAre
  <2>3. RecordsFrom(p.layer, p.record) \in Seq(Frames)
    BY <2>1, RecordsAre
  <2>4. LayersFrom[p.layer + 1] \in Seq(Frames)
    BY <2>1, JobIs, LayersFromIs
  <2> QED BY <2>2, <2>3, <2>4, Joined DEF StreamFrom
<1> QED BY <1>1, <1>3, <1>4, <1>5

----------------------------------------------------------------------------
(* The data plane: what Core 0 makes of a frame.                           *)

LEMMA ModIs ==
  ASSUME NEW n \in Int
  PROVE  n % SeqMod \in 0 .. SeqMod - 1 /\ n % SeqMod \in Nat
<1>1. SeqMod \in Nat \ {0}
  BY JobIs
<1> QED BY <1>1

(* A remainder is what is left of any whole number of turns.              *)
LEMMA Remainder ==
  ASSUME NEW n \in Nat \ {0}, NEW a \in Int, NEW q \in Int, NEW r \in 0 .. n - 1, a = n * q + r
  PROVE  a % n = r
<1>1. a = n * (a \div n) + (a % n) /\ a % n \in 0 .. n - 1 /\ a \div n \in Int
  BY SMT
<1>2. PICK p \in Int, s \in 0 .. n - 1 : n * q + r = n * p + s /\ s = a % n
  BY <1>1
<1>3. CASE q < p
  <2>1. n * (p - q) >= n
    BY <1>3, SMT
  <2>2. n * (p - q) = n * p - n * q
    BY SMT
  <2> QED BY <2>1, <2>2, <1>2, SMT
<1>4. CASE p < q
  <2>1. n * (q - p) >= n
    BY <1>4, SMT
  <2>2. n * (q - p) = n * q - n * p
    BY SMT
  <2> QED BY <2>1, <2>2, <1>2, SMT
<1>5. CASE p = q
  BY <1>5, <1>2, SMT
<1> QED BY <1>3, <1>4, <1>5, SMT

LEMMA Turns ==
  ASSUME NEW n \in Nat \ {0}, NEW a \in Int
  PROVE  \E q \in Int, r \in 0 .. n - 1 : a = n * q + r /\ a % n = r
<1>1. a = n * (a \div n) + (a % n) /\ a % n \in 0 .. n - 1 /\ a \div n \in Int
  BY SMT
<1> QED BY <1>1

(* What is added to a remainder is added to the number.                    *)
LEMMA ModAdds ==
  ASSUME NEW n \in Nat \ {0}, NEW a \in Int, NEW d \in Int
  PROVE  ((a % n) + d) % n = (a + d) % n
<1>1. PICK q \in Int, r \in 0 .. n - 1 : a = n * q + r /\ a % n = r
  BY Turns
<1>2. r + d \in Int
  OBVIOUS
<1>3. PICK p \in Int, s \in 0 .. n - 1 : r + d = n * p + s /\ (r + d) % n = s
  BY <1>2, Turns
<1>4. n * (q + p) = n * q + n * p
  BY SMT
<1>5. a + d = n * (q + p) + s /\ a + d \in Int /\ q + p \in Int
  BY <1>1, <1>3, <1>4
<1>6. (a + d) % n = s
  BY <1>5, Remainder
<1> QED BY <1>1, <1>3, <1>6

LEMMA ModBelow ==
  ASSUME NEW n \in Nat \ {0}, NEW a \in Nat
  PROVE  a % n <= a
<1>0. a \in Int
  OBVIOUS
<1>1. PICK q \in Int, r \in 0 .. n - 1 : a = n * q + r /\ a % n = r
  BY <1>0, Turns
<1>2. CASE q < 0
  <2>1. n * (q + 1) <= 0
    BY <1>2, SMT
  <2>2. n * (q + 1) = n * q + n /\ n * q \in Int
    BY SMT
  <2>3. n * q + r < 0
    BY <2>1, <2>2
  <2> QED BY <1>1, <2>3
<1>3. CASE q >= 0
  <2>1. n * q >= 0
    BY <1>3, SMT
  <2> QED BY <1>1, <2>1
<1> QED BY <1>2, <1>3

LEMMA AcksAre ==
  /\ \A e \in Int : Ack(e) \in Acks \cup Nacks
  /\ \A r \in Refusals : Nack(r) \in Acks \cup Nacks
  BY DEF Ack, Nack, Acks, Nacks

LEMMA FlushType ==
  ASSUME RxInv, OutType
  PROVE  FlushAck(toHost) \in Seq(Acks \cup Nacks) /\ [rx EXCEPT !.pendingAcks = 0].expectedSeq = rx.expectedSeq
         /\ [rx EXCEPT !.pendingAcks = 0] \in [expectedSeq : 0 .. SeqMod - 1, pendingAcks : 0 .. AckMax - 1]
<1>1. rx.expectedSeq \in Int /\ 0 \in 0 .. AckMax - 1
  BY JobIs DEF RxInv
<1>2. Ack(rx.expectedSeq) \in Acks \cup Nacks
  BY <1>1, AcksAre
<1> QED BY <1>1, <1>2, Appended DEF FlushAck, OutType, RxInv

LEMMA NackType ==
  ASSUME RxInv, OutType, NEW r \in Refusals, SendNack(r)
  PROVE  RxInv' /\ OutType'
<1>1. FlushAck(toHost) \in Seq(Acks \cup Nacks)
  BY FlushType
<1>2. Nack(r) \in Acks \cup Nacks
  BY AcksAre
<1>3. OutType'
  BY <1>1, <1>2, Appended DEF SendNack, OutType
<1>4. RxInv'
  BY FlushType DEF SendNack, RxInv
<1> QED BY <1>3, <1>4

LEMMA TakeType ==
  ASSUME RxInv, OutType, Take
  PROVE  RxInv' /\ OutType' /\ accepted' = accepted + 1
<1> DEFINE e == (rx.expectedSeq + 1) % SeqMod
<1>1. /\ rx.expectedSeq \in 0 .. SeqMod - 1 /\ rx.pendingAcks \in 0 .. AckMax - 1 /\ accepted \in Nat
      /\ rx.expectedSeq = accepted % SeqMod
  BY DEF RxInv
<1>2. e \in 0 .. SeqMod - 1 /\ e \in Int
  <2>1. rx.expectedSeq + 1 \in Int
    BY <1>1, JobIs
  <2> QED BY <2>1, ModIs
<1>3. e = (accepted + 1) % SeqMod
  <2>1. SeqMod \in Nat \ {0} /\ accepted \in Int /\ 1 \in Int
    BY <1>1, JobIs
  <2>2. ((accepted % SeqMod) + 1) % SeqMod = (accepted + 1) % SeqMod
    BY <2>1, ModAdds
  <2> QED BY <1>1, <2>2
<1>4. accepted' = accepted + 1
  BY DEF Take
<1>5. RxInv'
  <2>1. /\ rx' = [expectedSeq |-> e,
                  pendingAcks |-> IF rx.pendingAcks + 1 >= AckMax THEN 0 ELSE rx.pendingAcks + 1]
    BY DEF Take
  <2>2. (IF rx.pendingAcks + 1 >= AckMax THEN 0 ELSE rx.pendingAcks + 1) \in 0 .. AckMax - 1
    BY <1>1, JobIs
  <2>3. accepted' \in Nat
    BY <1>1, <1>4
  <2> HIDE DEF e
  <2> QED BY <1>2, <1>3, <1>4, <2>1, <2>2, <2>3 DEF RxInv
<1>6. OutType'
  BY <1>2, AcksAre, Appended DEF Take, OutType
<1> QED BY <1>4, <1>5, <1>6

(* The operators on Core 0's job state.                                    *)
LEMMA HoldType ==
  ASSUME NEW p, Typed(p), NEW w \in Reasons, NEW t
  PROVE  Typed(HoldForTool(p, w, t))
  BY DEF HoldForTool, Typed, PicoFields, Reasons

LEMMA OpenType ==
  ASSUME NEW p, Typed(p), NEW w \in Reasons, NEW at \in Points
  PROVE  Typed(OpenLayer(p, w, at))
  BY JobIs DEF OpenLayer, Typed, PicoFields, Reasons

LEMMA LandType ==
  ASSUME NEW p, Typed(p)
  PROVE  Typed(LandHeld(p)) /\ Running1(LandHeld(p))
<1>1. <<>> \in Seq(Blocks) /\ Len(<<>>) = 0 /\ RingSize > 0 /\ Len(<<>>) <= RingSize
  BY JobIs
<1>2. p.ring # <<>> => Head(p.ring).tag \in Points
  <2>1. p.ring \in Seq(Blocks)
    BY DEF Typed
  <2>2. p.ring # <<>> => Head(p.ring) \in Blocks
    BY <2>1, Popped
  <2> QED BY <2>2 DEF Blocks
<1> QED BY <1>1, <1>2, JobIs DEF LandHeld, Typed, Running1, PicoFields, Reasons

(* Every frame is answered: refused, its ACK sent, or taken.               *)
Flushed  == toHost' = FlushAck(toHost) /\ rx' = [rx EXCEPT !.pendingAcks = 0] /\ UNCHANGED accepted
Refused  == \E r \in Refusals : SendNack(r)
Answered == Refused \/ Flushed \/ Take

LEMMA TakeLayerStep ==
  ASSUME PicoInv, NEW p, Typed(p), p.why = pico.why, p.c1 = pico.c1, p.active = pico.active,
         NEW at \in Points, NEW t, TakeLayer(p, at, t)
  PROVE  PicoInv' /\ Answered
<1> DEFINE w == IF Waiting THEN pico.backTo ELSE pico.why
           check == LayerCheck(w, at)
<1>1. w \in Reasons
  BY DEF PicoInv, Typed, Reasons
<1>2. (Waiting /\ ~Idle) \/ (pico.c1 # "rest" => w = pico.why /\ pico.active)
  BY DEF PicoInv, Running1, Idle
<1>3. check \in Refusals \cup {"ok"}
  BY DEF LayerCheck, Refusals
<1>4. CASE Waiting /\ (pico.seq \/ ~Ready(t) \/ ~Idle)
  <2>1. pico' = p /\ SendNack("TOOL_CHANGE")
    BY <1>4 DEF TakeLayer
  <2> QED BY <2>1 DEF PicoInv, Running1, Answered, Refused, Refusals
<1>5. CASE ~(Waiting /\ (pico.seq \/ ~Ready(t) \/ ~Idle)) /\ check # "ok"
  <2>1. pico' = [p EXCEPT !.why = w] /\ SendNack(check)
    BY <1>5 DEF TakeLayer
  <2>2. Typed(pico')
    BY <1>1, <2>1 DEF Typed, PicoFields
  <2>3. Running1(pico')
    BY <1>2, <1>5, <2>1 DEF PicoInv, Running1, Typed, PicoFields
  <2> QED BY <1>3, <1>5, <2>1, <2>2, <2>3 DEF PicoInv, Answered, Refused
<1>6. CASE ~(Waiting /\ (pico.seq \/ ~Ready(t) \/ ~Idle)) /\ check = "ok" /\ ~Ready(t)
  <2>1. pico' = HoldForTool(p, w, t) /\ SendNack("TOOL_CHANGE")
    BY <1>6 DEF TakeLayer
  <2>2. Typed(pico')
    BY <1>1, <2>1, HoldType
  <2>3. Running1(pico')
    BY <1>2, <1>6, <2>1 DEF PicoInv, Running1, Typed, PicoFields, HoldForTool, Idle
  <2> QED BY <2>1, <2>2, <2>3 DEF PicoInv, Answered, Refused, Refusals
<1>7. CASE ~(Waiting /\ (pico.seq \/ ~Ready(t) \/ ~Idle)) /\ check = "ok" /\ Ready(t)
  <2>1. pico' = OpenLayer(p, w, at) /\ Take
    BY <1>7 DEF TakeLayer
  <2>2. Typed(pico')
    BY <1>1, <2>1, OpenType
  <2>3. Running1(pico')
    BY <1>2, <1>7, <2>1 DEF PicoInv, Running1, Typed, PicoFields, OpenLayer
  <2> QED BY <2>1, <2>2, <2>3 DEF PicoInv, Answered
<1> QED BY <1>4, <1>5, <1>6, <1>7

LEMMA RefuseStep ==
  ASSUME PicoInv, NEW r \in Refusals, Refuse(r)
  PROVE  PicoInv' /\ Answered
  BY DEF Refuse, Answered, Refused, PicoInv

LEMMA PreflightFailStep ==
  ASSUME PicoInv, NEW r \in Refusals, PreflightFail(r)
  PROVE  PicoInv' /\ Answered
<1>1. PicoInv'
  BY DEF PreflightFail, PicoInv, Typed, Running1, PicoFields
<1> QED BY <1>1 DEF PreflightFail, Answered, Refused

LEMMA JobHdrStep ==
  ASSUME PicoInv, AcceptJobHdr
  PROVE  PicoInv' /\ Answered
<1>1. CASE View # "IDLE" \/ pico.pause \/ ~Idle
  <2>1. Refuse("BAD_STATE") /\ "BAD_STATE" \in Refusals
    BY <1>1 DEF AcceptJobHdr, Refusals
  <2> QED BY <2>1, RefuseStep
<1>2. CASE ~(View # "IDLE" \/ pico.pause \/ ~Idle)
  <2>1. Take /\ pico' = [pico EXCEPT !.ctx = "JOB", !.why = "PREFLIGHT", !.resume = NoPoint,
                                     !.cur = NoPoint, !.opened = FALSE, !.inContour = FALSE,
                                     !.preSeen = 0, !.heldLayer = NoPoint]
    BY <1>2 DEF AcceptJobHdr
  <2>2. NoPoint \in Points /\ ~pico.active
    BY <1>2, JobIs DEF Idle
  <2>3. Typed(pico')
    BY <2>1, <2>2 DEF PicoInv, Typed, PicoFields, Reasons
  <2>4. Running1(pico')
    BY <2>1, <2>2 DEF PicoInv, Typed, Running1, PicoFields
  <2> QED BY <2>1, <2>3, <2>4 DEF PicoInv, Answered
<1> QED BY <1>1, <1>2

LEMMA ToolHdrStep ==
  ASSUME PicoInv, NEW t, AcceptToolHdr(t)
  PROVE  PicoInv' /\ Answered
<1>1. {"PAUSED", "JOB"} \subseteq Refusals
  BY DEF Refusals
<1>2. CASE PreflightTool(t) /\ InPreflight
  <2>1. CASE t # Tools[pico.preSeen + 1]
    BY <1>1, <1>2, <2>1, PreflightFailStep DEF PreflightTool
  <2>2. CASE t = Tools[pico.preSeen + 1]
    BY <1>2, <2>2 DEF PreflightTool, InPreflight, PicoInv, Typed, Running1, PicoFields, Reasons, Answered
  <2> QED BY <2>1, <2>2
<1>3. CASE LayerToolHdr(t)
  <2>1. CASE pico.heldLayer = NoPoint
    BY <1>1, <1>3, <2>1, RefuseStep DEF LayerToolHdr
  <2>2. CASE pico.heldLayer # NoPoint
    <3>1. TakeLayer(pico, pico.heldLayer, t)
      BY <1>3, <2>2 DEF LayerToolHdr
    <3>2. Typed(pico) /\ pico.heldLayer \in Points
      BY DEF PicoInv, Typed
    <3> QED BY <3>1, <3>2, TakeLayerStep
  <2> QED BY <2>1, <2>2
<1>4. CASE Refuse("PAUSED") \/ Refuse("JOB")
  BY <1>1, <1>4, RefuseStep
<1> QED BY <1>2, <1>3, <1>4 DEF AcceptToolHdr

LEMMA LayerStep ==
  ASSUME PicoInv, NEW at \in Points, AcceptLayer(at)
  PROVE  PicoInv' /\ Answered
<1>1. {"PAUSED", "JOB"} \subseteq Refusals
  BY DEF Refusals
<1>2. CASE Refuse("PAUSED") \/ Refuse("JOB")
  BY <1>1, <1>2, RefuseStep
<1>3. CASE PreflightFail("JOB")
  BY <1>1, <1>3, PreflightFailStep
<1>4. CASE TakeLayer([pico EXCEPT !.heldLayer = NoPoint], at, CurTool)
  <2> DEFINE p == [pico EXCEPT !.heldLayer = NoPoint]
  <2>1. Typed(p) /\ p.why = pico.why /\ p.c1 = pico.c1 /\ p.active = pico.active
    BY JobIs DEF PicoInv, Typed, PicoFields
  <2> HIDE DEF p
  <2>2. TakeLayer(p, at, CurTool)
    BY <1>4 DEF p
  <2> QED BY <2>1, <2>2, TakeLayerStep
<1>5. CASE pico' = [pico EXCEPT !.heldLayer = at] /\ Take
  BY <1>5 DEF PicoInv, Typed, Running1, PicoFields, Answered
<1> QED BY <1>2, <1>3, <1>4, <1>5 DEF AcceptLayer

LEMMA BezierStep ==
  ASSUME PicoInv, NEW n \in Int, AcceptBezier(n)
  PROVE  PicoInv' /\ Answered
<1>1. {"PAUSED", "JOB"} \subseteq Refusals /\ RecordRefusal(n) \in Refusals \cup {"ok"}
  BY DEF Refusals, RecordRefusal
<1>2. CASE Refuse("PAUSED") \/ Refuse("JOB")
  BY <1>1, <1>2, RefuseStep
<1>3. CASE PreflightFail("JOB")
  BY <1>1, <1>3, PreflightFailStep
<1>4. CASE Refuse(RecordRefusal(n)) /\ RecordRefusal(n) # "ok"
  BY <1>1, <1>4, RefuseStep
<1>5. CASE /\ RecordRefusal(n) = "ok" /\ Take
           /\ pico' = [pico EXCEPT !.ring = Append(@, [record |-> n, tag |-> pico.cur]),
                                   !.cur.record = @ + 1, !.first = FALSE, !.endAt = n,
                                   !.inContour = n # Last(LayerOf(n))]
  <2> DEFINE r == Append(pico.ring, [record |-> n, tag |-> pico.cur])
  <2>1. pico.cur \in Points /\ pico.ring \in Seq(Blocks) /\ Len(pico.ring) < RingSize
    <3>1. ~(Len(pico.ring) >= RingSize)
      BY <1>5 DEF RecordRefusal
    <3> QED BY <3>1, JobIs DEF PicoInv, Typed
  <2>2. [record |-> n, tag |-> pico.cur] \in Blocks
    BY <2>1 DEF Blocks
  <2>3. r \in Seq(Blocks) /\ Len(r) <= RingSize
    BY <2>1, <2>2, Appended, JobIs
  <2>4. [pico.cur EXCEPT !.record = @ + 1] \in Points
    BY <2>1 DEF Points
  <2> HIDE DEF r
  <2>5. pico' = [pico EXCEPT !.ring = r, !.cur = [pico.cur EXCEPT !.record = @ + 1], !.first = FALSE,
                             !.endAt = n, !.inContour = n # Last(LayerOf(n))]
    BY <1>5 DEF r
  <2> DEFINE c == [pico.cur EXCEPT !.record = @ + 1]
             b == n # Last(LayerOf(n))
  <2> HIDE DEF c, b
  <2>6. pico' = [pico EXCEPT !.ring = r, !.cur = c, !.first = FALSE, !.endAt = n, !.inContour = b]
        /\ c \in Points
    BY <2>4, <2>5 DEF b, c
  <2>7. PicoInv'
    BY <2>3, <2>6 DEF PicoInv, Typed, Running1, PicoFields
  <2> QED BY <1>5, <2>7 DEF Answered
<1> QED BY <1>2, <1>3, <1>4, <1>5 DEF AcceptBezier

LEMMA AcceptStep ==
  ASSUME PicoInv, NEW f \in Frames, Accept(f)
  PROVE  PicoInv' /\ Answered
<1>1. CASE f.kind = "job"
  BY <1>1, JobHdrStep DEF Accept
<1>2. CASE f.kind = "tool"
  BY <1>2, ToolHdrStep DEF Accept
<1>3. CASE f.kind = "layer"
  <2>1. f.at \in Points
    BY <1>3 DEF Frames, PreFrames, JobHdr
  <2> QED BY <1>3, <2>1, LayerStep DEF Accept
<1>4. CASE f.kind = "bezier"
  <2>1. f.record \in Int
    BY <1>4 DEF Frames, PreFrames, JobHdr
  <2> QED BY <1>4, <2>1, BezierStep DEF Accept
<1>5. f.kind \in {"job", "tool", "layer", "bezier"}
  BY DEF Frames, PreFrames, JobHdr
<1> QED BY <1>1, <1>2, <1>3, <1>4, <1>5

(* The preflight leaves the job unbegun.                                   *)
LEMMA PreflightStep ==
  ASSUME PicoInv, Unbegun(pico), NEW f \in PreFrames, Accept(f)
  PROVE  Unbegun(pico')
<1>1. CASE f.kind = "job"
  <2>1. AcceptJobHdr
    BY <1>1 DEF Accept
  <2> QED BY <2>1 DEF AcceptJobHdr, Refuse, Unbegun, PicoInv, Typed, PicoFields
<1>2. CASE f.kind = "tool"
  <2>1. AcceptToolHdr(f.tool)
    BY <1>2 DEF Accept
  <2>2. CASE Refuse("PAUSED") \/ Refuse("JOB")
    BY <2>2 DEF Refuse
  <2>3. CASE PreflightTool(f.tool) /\ InPreflight
    BY <2>3 DEF PreflightTool, PreflightFail, InPreflight, Unbegun, PicoInv, Typed, PicoFields
  <2>4. CASE LayerToolHdr(f.tool)
    BY <2>4 DEF LayerToolHdr, Refuse, Unbegun
  <2> QED BY <2>1, <2>2, <2>3, <2>4 DEF AcceptToolHdr
<1>3. f.kind \in {"job", "tool"}
  BY DEF PreFrames, JobHdr
<1> QED BY <1>1, <1>2, <1>3

(* The byte, the frame or the command that arrives, and what is left.      *)
LEMMA ArrivesIs ==
  ASSUME InType, NEW k, Arrives(k)
  PROVE  /\ InType' /\ Head(toPico) \in Packets \cup Controls /\ Head(toPico).kind = k
         /\ (k = "frame" => Head(toPico) \in Packets)
         /\ Len(toPico) > 0 /\ Head(toPico) = toPico[1] /\ toPico' = Tail(toPico)
         /\ Len(toPico') = Len(toPico) - 1 /\ Len(toPico) \in Nat
         /\ \A i \in 1 .. Len(toPico') : toPico'[i] = toPico[i + 1] /\ i + 1 \in 1 .. Len(toPico)
<1>1. toPico \in Seq(Packets \cup Controls) /\ toPico # <<>> /\ toPico' = Tail(toPico)
  BY DEF InType, Arrives
<1>2. /\ Head(toPico) \in Packets \cup Controls /\ Tail(toPico) \in Seq(Packets \cup Controls)
      /\ Len(toPico) > 0 /\ Len(Tail(toPico)) = Len(toPico) - 1 /\ Head(toPico) = toPico[1]
      /\ \A i \in 1 .. Len(Tail(toPico)) : Tail(toPico)[i] = toPico[i + 1] /\ i + 1 \in 1 .. Len(toPico)
      /\ Len(toPico) \in Nat
  BY <1>1, Popped
<1>3. Head(toPico).kind = k
  BY DEF Arrives
<1>4. k = "frame" => Head(toPico) \in Packets
  BY <1>2, <1>3 DEF Packets, Controls
<1> QED BY <1>1, <1>2, <1>3, <1>4 DEF InType

LEMMA GateIs == \A m : Gate(m) \in Refusals \cup {"ok"}
  BY DEF Gate, Refusals

LEMMA FeedStep ==
  ASSUME PicoInv, InType, PlaceInv, FeedPacket
  PROVE  PicoInv' /\ Answered /\ InType' /\ (~host.placed => Unbegun(pico'))
<1> DEFINE m == Head(toPico)
<1>1. Arrives("frame") /\ UNCHANGED <<host, left>>
  BY DEF FeedPacket
<1>2. m \in Packets /\ InType' /\ m = toPico[1] /\ Len(toPico) > 0 /\ Len(toPico) \in Nat /\ m.kind = "frame"
  BY <1>1, ArrivesIs
<1>3. CASE Gate(m) # "ok" /\ Refuse(Gate(m))
  <2>1. Gate(m) \in Refusals
    BY <1>3, GateIs
  <2>2. PicoInv' /\ Answered
    BY <1>3, <2>1, RefuseStep
  <2> QED BY <1>2, <1>3, <2>2 DEF Refuse, PlaceInv
<1>4. CASE toHost' = FlushAck(toHost) /\ rx' = [rx EXCEPT !.pendingAcks = 0] /\ UNCHANGED <<pico, accepted, ran>>
  BY <1>2, <1>4 DEF Answered, Flushed, PicoInv, PlaceInv
<1>5. CASE Accept(m.frame)
  <2>1. m.frame \in Frames
    BY <1>2 DEF Packets
  <2>2. PicoInv' /\ Answered
    BY <1>5, <2>1, AcceptStep
  <2>3. ASSUME ~host.placed PROVE Unbegun(pico')
    <3>1. 1 \in 1 .. Len(toPico)
      BY <1>2
    <3>2. m.frame \in PreFrames
      BY <1>2, <2>3, <3>1 DEF PlaceInv, OnlyPreflight
    <3> QED BY <1>5, <2>3, <3>2, PreflightStep DEF PlaceInv
  <2> QED BY <1>2, <2>2, <2>3
<1> QED BY <1>3, <1>4, <1>5 DEF FeedPacket

(* Core 0's other commands, its pass and Core 1: none begins a job that    *)
(* its host has not placed.                                                *)
LEMMA CommandStep ==
  ASSUME PicoInv, SeqReset \/ Abort \/ CmdPause \/ CmdCancel
  PROVE  PicoInv' /\ (Unbegun(pico) => Unbegun(pico'))
<1>1. <<>> \in Seq(Blocks) /\ Len(<<>>) = 0 /\ RingSize > 0 /\ Len(<<>>) <= RingSize
  BY JobIs
<1>2. CASE SeqReset
  BY <1>2 DEF SeqReset, PicoInv, Typed, Running1, PicoFields, Unbegun
<1>3. CASE Abort
  BY <1>3 DEF Abort, JobAbort, PicoInv, Typed, Running1, PicoFields, Unbegun
<1>4. CASE CmdPause
  BY <1>4 DEF CmdPause, PicoInv, Typed, Running1, PicoFields, Unbegun
<1>5. CASE CmdCancel
  <2>1. CASE UNCHANGED pico
    BY <2>1 DEF PicoInv
  <2>2. CASE /\ pico' = [pico EXCEPT !.ctx = "IDLE", !.ring = <<>>, !.active = FALSE,
                                     !.pause = FALSE, !.inContour = FALSE]
             /\ \/ pico.why \in {"PAUSED", "BUFFERING", "PREFLIGHT", "PLACE"}
                \/ Idle
    BY <1>1, <2>2 DEF PicoInv, Typed, Running1, PicoFields, Unbegun, Idle
  <2> QED BY <1>5, <2>1, <2>2 DEF CmdCancel
<1> QED BY <1>2, <1>3, <1>4, <1>5

LEMMA Core1Step ==
  ASSUME PicoInv, Core1
  PROVE  PicoInv' /\ (Unbegun(pico) => Unbegun(pico'))
<1>1. <<>> \in Seq(Blocks) /\ Len(<<>>) = 0 /\ RingSize > 0 /\ Len(<<>>) <= RingSize
  BY JobIs
<1>2. Typed(LandHeld(pico)) /\ Running1(LandHeld(pico))
  BY LandType DEF PicoInv
<1>3. CASE Enter
  <2>1. CASE pico.pause /\ pico' = LandHeld(pico)
    BY <1>2, <2>1 DEF PicoInv, Unbegun
  <2>2. CASE pico.ring # <<>> /\ pico' = [pico EXCEPT !.c1 = "look", !.active = TRUE, !.why = "RUNNING"]
    BY <2>2 DEF PicoInv, Typed, Running1, PicoFields, Unbegun, Reasons
  <2> QED BY <1>3, <2>1, <2>2 DEF Enter
<1>4. CASE Look
  <2>1. CASE pico' = [pico EXCEPT !.why = "ABORTING", !.ring = <<>>, !.active = FALSE,
                                  !.pause = FALSE, !.abort = FALSE, !.c1 = "rest", !.late = FALSE]
    BY <1>1, <1>4, <2>1 DEF Look, PicoInv, Typed, Running1, PicoFields, Unbegun, Reasons
  <2>2. CASE pico' = LandHeld(pico)
    BY <1>2, <1>4, <2>2 DEF Look, PicoInv, Unbegun
  <2>3. CASE pico' = [pico EXCEPT !.c1 = "tick"]
    BY <1>4, <2>3 DEF Look, PicoInv, Typed, Running1, PicoFields, Unbegun
  <2> QED BY <1>4, <2>1, <2>2, <2>3 DEF Look
<1>5. CASE FoundLate
  BY <1>5 DEF FoundLate, PicoInv, Typed, Running1, PicoFields, Unbegun, Reasons
<1>6. CASE Rebuffer
  BY <1>6 DEF Rebuffer, PicoInv, Typed, Running1, PicoFields, Unbegun, Reasons
<1>7. CASE RunRecord
  <2>1. pico.ring \in Seq(Blocks) /\ pico.ring # <<>> /\ Len(pico.ring) <= RingSize
    BY <1>7 DEF RunRecord, PicoInv, Typed
  <2> DEFINE r == Tail(pico.ring)
  <2>2. r \in Seq(Blocks) /\ Len(r) = Len(pico.ring) - 1 /\ Len(pico.ring) \in Nat
    BY <2>1, Popped
  <2>3. Len(r) <= RingSize
    BY <2>1, <2>2, JobIs
  <2> HIDE DEF r
  <2>4. pico' = [pico EXCEPT !.ring = r, !.c1 = "look"]
    BY <1>7 DEF RunRecord, r
  <2> QED BY <1>7, <2>2, <2>3, <2>4 DEF RunRecord, PicoInv, Typed, Running1, PicoFields, Unbegun
<1>8. CASE LeaveDry
  BY <1>8 DEF LeaveDry, PicoInv, Typed, Running1, PicoFields, Unbegun, Reasons
<1>9. CASE AbortConsumed
  BY <1>1, <1>9 DEF AbortConsumed, PicoInv, Typed, Running1, PicoFields, Unbegun
<1> QED BY <1>3, <1>4, <1>5, <1>6, <1>7, <1>8, <1>9 DEF Core1

LEMMA Core0Step ==
  ASSUME PicoInv, LandPaused \/ AbortSettle \/ ToolChangeTick \/ ToolChangeEnds \/ Mount \/ PlaceOk
  PROVE  PicoInv' /\ (Unbegun(pico) => Unbegun(pico'))
<1>1. CASE LandPaused
  BY <1>1 DEF LandPaused, PicoInv, Typed, Running1, PicoFields, Unbegun, Reasons, Idle
<1>2. CASE AbortSettle
  BY <1>2 DEF AbortSettle, PicoInv, Typed, Running1, PicoFields, Unbegun
<1>3. CASE ToolChangeTick
  <2>1. CASE pico' = [pico EXCEPT !.tcPending = FALSE, !.tcActive = FALSE, !.tcStarted = FALSE]
    BY <2>1 DEF PicoInv, Typed, Running1, PicoFields, Unbegun
  <2>2. CASE /\ pico.tcActive /\ pico.why = "TOOL_CHANGE"
             /\ \/ pico' = [[pico EXCEPT !.tcStarted = TRUE, !.tcPending = FALSE] EXCEPT !.why = pico.backTo]
                \/ pico' = [[pico EXCEPT !.tcStarted = TRUE, !.tcPending = FALSE] EXCEPT !.mounted = 0, !.seq = TRUE]
    BY <2>2 DEF PicoInv, Typed, Running1, PicoFields, Unbegun, Reasons
  <2>3. CASE pico.tcActive /\ pico' = [pico EXCEPT !.tcActive = FALSE, !.tcStarted = FALSE]
    BY <2>3 DEF PicoInv, Typed, Running1, PicoFields, Unbegun
  <2> QED BY <1>3, <2>1, <2>2, <2>3 DEF ToolChangeTick
<1>4. CASE ToolChangeEnds
  <2>1. CASE pico' = [pico EXCEPT !.seq = FALSE, !.why = "TOOL_WAIT"]
    <3>1. Typed(pico')
      BY <2>1 DEF PicoInv, Typed, PicoFields, Reasons
    <3>2. Running1(pico')
      BY <2>1 DEF PicoInv, Typed, PicoFields, Running1
    <3>3. Unbegun(pico) => Unbegun(pico')
      BY <1>4 DEF ToolChangeEnds, Unbegun
    <3> QED BY <3>1, <3>2, <3>3 DEF PicoInv
  <2>2. CASE pico' = [JobAbort(pico) EXCEPT !.fault = TRUE]
    <3> DEFINE a == pico.aborted \/ pico.ctx = "JOB"
               b == IF pico.ctx = "JOB" THEN FALSE ELSE pico.seq
    <3>1. pico' = [[pico EXCEPT !.abort = TRUE, !.aborted = a, !.seq = b] EXCEPT !.fault = TRUE]
      BY <2>2 DEF JobAbort
    <3> HIDE DEF a, b
    <3>2. Typed(pico')
      BY <3>1 DEF PicoInv, Typed, PicoFields
    <3>3. Running1(pico')
      BY <3>1 DEF PicoInv, Typed, PicoFields, Running1
    <3>4. Unbegun(pico) => Unbegun(pico')
      BY <1>4 DEF ToolChangeEnds, Unbegun
    <3> QED BY <3>2, <3>3, <3>4 DEF PicoInv
  <2> QED BY <1>4, <2>1, <2>2 DEF ToolChangeEnds
<1>5. CASE Mount
  BY <1>5 DEF Mount, PicoInv, Typed, Running1, PicoFields, Unbegun
<1>6. CASE PlaceOk
  BY <1>6 DEF PlaceOk, PicoInv, Typed, Running1, PicoFields, Unbegun, Reasons, Idle
<1> QED BY <1>1, <1>2, <1>3, <1>4, <1>5, <1>6

----------------------------------------------------------------------------
(* What is under way to the Pico.                                          *)

LEMMA TailKeeps ==
  ASSUME NEW S, NEW q \in Seq(S), q # <<>>
  PROVE  /\ NoFrame(q) => NoFrame(Tail(q))
         /\ NoReset(q) => NoReset(Tail(q))
         /\ OneReset(q) => OneReset(Tail(q))
         /\ OneReset(q) /\ Head(q).kind = "seqreset" => NoReset(Tail(q))
         /\ OnlyPreflight(q) => OnlyPreflight(Tail(q))
<1>1. /\ Len(q) > 0 /\ Len(q) \in Nat /\ Len(Tail(q)) = Len(q) - 1 /\ Head(q) = q[1]
      /\ \A i \in 1 .. Len(Tail(q)) : Tail(q)[i] = q[i + 1] /\ i + 1 \in 1 .. Len(q)
  BY Popped
<1>2. 1 \in 1 .. Len(q) /\ \A i \in 1 .. Len(Tail(q)) : i + 1 # 1
  BY <1>1
<1>3. \A i, j \in 1 .. Len(Tail(q)) : i + 1 = j + 1 => i = j
  OBVIOUS
<1> QED BY <1>1, <1>2, <1>3 DEF NoFrame, NoReset, OneReset, OnlyPreflight

LEMMA AppendKeeps ==
  ASSUME NEW S, NEW q \in Seq(S), NEW x \in S, x.kind # "frame", x.kind # "seqreset"
  PROVE  /\ NoFrame(q) => NoFrame(Append(q, x))
         /\ NoReset(q) => NoReset(Append(q, x))
         /\ OneReset(q) => OneReset(Append(q, x))
         /\ OnlyPreflight(q) => OnlyPreflight(Append(q, x))
<1>1. /\ Len(Append(q, x)) = Len(q) + 1 /\ Len(q) \in Nat
      /\ \A i \in 1 .. Len(q) : Append(q, x)[i] = q[i]
      /\ Append(q, x)[Len(q) + 1] = x
  BY Appended
<1>2. \A i \in 1 .. Len(Append(q, x)) : i \in 1 .. Len(q) \/ i = Len(q) + 1
  BY <1>1
<1> QED BY <1>1, <1>2 DEF NoFrame, NoReset, OneReset, OnlyPreflight

----------------------------------------------------------------------------
(* The counts of the ACKs under way to the host.                           *)

LEMMA CountAppend ==
  ASSUME NEW q \in Seq(Acks \cup Nacks), NEW b \in Nat, NEW n \in Nat, Counted(q, b, n),
         NEW m \in Nat, n <= m, NEW x \in Acks \cup Nacks, x.kind = "ack" => x.e = m % SeqMod
  PROVE  Counted(Append(q, x), b, m)
<1>1. /\ Len(Append(q, x)) = Len(q) + 1 /\ Len(q) \in Nat
      /\ \A i \in 1 .. Len(q) : Append(q, x)[i] = q[i]
      /\ Append(q, x)[Len(q) + 1] = x
  BY Appended
<1>2. PICK w : Counts(w, q, b, n)
  BY DEF Counted
<1> DEFINE v == [i \in 1 .. Len(q) + 1 |-> IF i <= Len(q) THEN w[i] ELSE m]
<1>3. b <= m
  BY DEF Counted
<1>4. ASSUME NEW i \in 1 .. Len(q) + 1
      PROVE  \/ i \in 1 .. Len(q) /\ v[i] = w[i] /\ v[i] \in Nat /\ Append(q, x)[i] = q[i]
             \/ i = Len(q) + 1 /\ v[i] = m /\ Append(q, x)[i] = x
  BY <1>1, <1>2 DEF Counts
<1>5. v \in [1 .. Len(q) + 1 -> Nat]
  BY <1>4
<1> HIDE DEF v
<1>6. \A i \in 1 .. Len(q) + 1 : b <= v[i] /\ v[i] <= m
  BY <1>2, <1>3, <1>4 DEF Counts
<1>7. \A i, j \in 1 .. Len(q) + 1 : i <= j => v[i] <= v[j]
  BY <1>1, <1>2, <1>4, <1>6 DEF Counts
<1>8. \A i \in 1 .. Len(q) + 1 : Append(q, x)[i].kind = "ack" => Append(q, x)[i].e = v[i] % SeqMod
  BY <1>2, <1>4 DEF Counts
<1>9. Counts(v, Append(q, x), b, m)
  BY <1>1, <1>5, <1>6, <1>7, <1>8 DEF Counts
<1> QED BY <1>3, <1>9 DEF Counted

LEMMA CountLater ==
  ASSUME NEW q \in Seq(Acks \cup Nacks), NEW b \in Nat, NEW n \in Nat, Counted(q, b, n),
         NEW m \in Nat, n <= m
  PROVE  Counted(q, b, m)
<1>1. PICK w : Counts(w, q, b, n)
  BY DEF Counted
<1>2. Counts(w, q, b, m)
  BY <1>1 DEF Counts
<1> QED BY <1>2 DEF Counted

(* Reading an ACK moves the base no further than its count.                *)
LEMMA CountPop ==
  ASSUME NEW q \in Seq(Acks \cup Nacks), q # <<>>, NEW b \in Nat, NEW n \in Nat, Counted(q, b, n)
  PROVE  /\ Counted(Tail(q), b, n)
         /\ Head(q).kind = "ack" =>
              /\ (Head(q).e - b) % SeqMod \in Nat
              /\ Counted(Tail(q), b + ((Head(q).e - b) % SeqMod), n)
<1>1. /\ Len(q) > 0 /\ Len(q) \in Nat /\ Len(Tail(q)) = Len(q) - 1 /\ Head(q) = q[1]
      /\ \A i \in 1 .. Len(Tail(q)) : Tail(q)[i] = q[i + 1] /\ i + 1 \in 1 .. Len(q)
      /\ 1 \in 1 .. Len(q)
  BY Popped
<1>2. PICK w : Counts(w, q, b, n)
  BY DEF Counted
<1>3. w \in [1 .. Len(q) -> Nat] /\ w[1] \in Nat /\ b <= w[1] /\ w[1] <= n
  BY <1>1, <1>2 DEF Counts
<1> DEFINE v == [i \in 1 .. Len(Tail(q)) |-> w[i + 1]]
<1>4. ASSUME NEW c \in Nat, c <= w[1] PROVE Counted(Tail(q), c, n)
  <2>1. v \in [1 .. Len(Tail(q)) -> Nat]
    BY <1>1, <1>3
  <2>2. \A i \in 1 .. Len(Tail(q)) : c <= v[i] /\ v[i] <= n
    <3>1. ASSUME NEW i \in 1 .. Len(Tail(q)) PROVE c <= v[i] /\ v[i] <= n
      <4>1. i + 1 \in 1 .. Len(q) /\ 1 <= i + 1 /\ w[i + 1] \in Nat
        BY <1>1, <1>3
      <4>2. w[1] <= w[i + 1] /\ w[i + 1] <= n
        BY <1>1, <1>2, <4>1 DEF Counts
      <4> QED BY <1>3, <1>4, <4>1, <4>2
    <3> QED BY <3>1
  <2>3. \A i, j \in 1 .. Len(Tail(q)) : i <= j => v[i] <= v[j]
    <3>1. ASSUME NEW i \in 1 .. Len(Tail(q)), NEW j \in 1 .. Len(Tail(q)), i <= j PROVE v[i] <= v[j]
      <4>1. i + 1 \in 1 .. Len(q) /\ j + 1 \in 1 .. Len(q) /\ i + 1 <= j + 1
        BY <1>1, <3>1
      <4> QED BY <1>2, <4>1 DEF Counts
    <3> QED BY <3>1
  <2>4. \A i \in 1 .. Len(Tail(q)) : Tail(q)[i].kind = "ack" => Tail(q)[i].e = v[i] % SeqMod
    BY <1>1, <1>2 DEF Counts
  <2> HIDE DEF v
  <2>5. Counts(v, Tail(q), c, n)
    BY <2>1, <2>2, <2>3, <2>4 DEF Counts
  <2>6. c <= n
    BY <1>3, <1>4
  <2> QED BY <2>5, <2>6 DEF Counted
<1>5. ASSUME Head(q).kind = "ack"
      PROVE  LET d == (Head(q).e - b) % SeqMod IN d \in Nat /\ b + d <= w[1]
  <2>1. Head(q).e = w[1] % SeqMod
    BY <1>1, <1>2, <1>5 DEF Counts
  <2>2. -b \in Int /\ w[1] \in Int /\ SeqMod \in Nat \ {0} /\ w[1] - b \in Nat /\ w[1] - b \in Int
    BY <1>3, JobIs
  <2>0. w[1] % SeqMod \in Nat /\ (w[1] - b) % SeqMod \in Nat
    BY <2>2, ModIs
  <2>3. ((w[1] % SeqMod) + (-b)) % SeqMod = (w[1] + (-b)) % SeqMod
    BY <2>2, ModAdds
  <2>4. (w[1] % SeqMod) + (-b) = (w[1] % SeqMod) - b /\ w[1] + (-b) = w[1] - b
    BY <2>0, <2>2
  <2>5. (Head(q).e - b) % SeqMod = (w[1] - b) % SeqMod
    BY <2>1, <2>3, <2>4
  <2>6. (w[1] - b) % SeqMod <= w[1] - b
    BY <2>2, ModBelow
  <2>7. (w[1] - b) % SeqMod \in Nat
    BY <2>0, <2>2
  <2> QED BY <1>3, <2>5, <2>6, <2>7
<1>6. Counted(Tail(q), b, n)
  BY <1>3, <1>4
<1>7. Head(q).kind = "ack" => LET d == (Head(q).e - b) % SeqMod IN d \in Nat /\ Counted(Tail(q), b + d, n)
  BY <1>4, <1>5
<1> QED BY <1>6, <1>7

(* An answer to a frame: the numbering holds and the counts with it.       *)
LEMMA AnsweredStep ==
  ASSUME RxInv, OutType, Answered
  PROVE  /\ RxInv' /\ OutType'
         /\ \A b \in Nat : Counted(toHost, b, accepted) => Counted(toHost', b, accepted')
<1>1. /\ rx.expectedSeq = accepted % SeqMod /\ accepted \in Nat /\ accepted <= accepted
      /\ accepted + 1 \in Nat /\ accepted <= accepted + 1 /\ toHost \in Seq(Acks \cup Nacks)
  BY DEF RxInv, OutType
<1>2. rx.expectedSeq \in Int /\ (rx.expectedSeq + 1) % SeqMod = (accepted + 1) % SeqMod
  <2>1. SeqMod \in Nat \ {0} /\ accepted \in Int /\ 1 \in Int
    BY <1>1, JobIs
  <2>2. ((accepted % SeqMod) + 1) % SeqMod = (accepted + 1) % SeqMod
    BY <2>1, ModAdds
  <2>3. accepted % SeqMod \in Nat
    BY <2>1, ModIs
  <2> QED BY <1>1, <2>2, <2>3
<1>3. ASSUME NEW b \in Nat, Counted(toHost, b, accepted)
      PROVE  Counted(FlushAck(toHost), b, accepted) /\ FlushAck(toHost) \in Seq(Acks \cup Nacks)
  <2>1. Ack(rx.expectedSeq) \in Acks \cup Nacks
    BY <1>2, AcksAre
  <2>2. Ack(rx.expectedSeq).kind = "ack" => Ack(rx.expectedSeq).e = accepted % SeqMod
    BY <1>1 DEF Ack
  <2>3. Counted(Append(toHost, Ack(rx.expectedSeq)), b, accepted)
    BY <1>1, <1>3, <2>1, <2>2, CountAppend
  <2>4. Append(toHost, Ack(rx.expectedSeq)) \in Seq(Acks \cup Nacks)
    BY <1>1, <2>1, Appended
  <2> QED BY <2>3, <2>4 DEF FlushAck
<1>4. CASE Flushed
  <2>1. RxInv'
    BY <1>4, FlushType DEF Flushed, RxInv
  <2>2. OutType'
    BY <1>4, FlushType DEF Flushed, OutType
  <2> QED BY <1>3, <1>4, <2>1, <2>2 DEF Flushed
<1>5. CASE Refused
  <2>1. PICK r \in Refusals : SendNack(r)
    BY <1>5 DEF Refused
  <2>2. RxInv' /\ OutType'
    BY <2>1, NackType
  <2>3. ASSUME NEW b \in Nat, Counted(toHost, b, accepted) PROVE Counted(toHost', b, accepted')
    <3> DEFINE q == IF rx.pendingAcks > 0 THEN FlushAck(toHost) ELSE toHost
    <3>1. q \in Seq(Acks \cup Nacks) /\ Counted(q, b, accepted)
      BY <1>1, <1>3, <2>3
    <3>2. Nack(r) \in Acks \cup Nacks /\ Nack(r).kind # "ack"
      BY AcksAre DEF Nack
    <3>3. toHost' = Append(q, Nack(r)) /\ accepted' = accepted
      BY <2>1 DEF SendNack
    <3> HIDE DEF q
    <3>4. Counted(Append(q, Nack(r)), b, accepted)
      BY <1>1, <3>1, <3>2, CountAppend
    <3> QED BY <3>3, <3>4
  <2> QED BY <2>2, <2>3
<1>6. CASE Take
  <2>1. RxInv' /\ OutType' /\ accepted' = accepted + 1
    BY <1>6, TakeType
  <2>2. ASSUME NEW b \in Nat, Counted(toHost, b, accepted) PROVE Counted(toHost', b, accepted')
    <3> DEFINE e == (rx.expectedSeq + 1) % SeqMod
    <3>1. Ack(e) \in Acks \cup Nacks /\ Ack(e).kind = "ack" /\ Ack(e).e = (accepted + 1) % SeqMod
      <4>1. e \in Int
        <5>1. accepted + 1 \in Int
          BY <1>1
        <5>2. (accepted + 1) % SeqMod \in Nat
          BY <5>1, ModIs
        <5> QED BY <1>2, <5>2
      <4> QED BY <1>2, <4>1, AcksAre DEF Ack
    <3>2. toHost' = Append(toHost, Ack(e)) \/ toHost' = toHost
      BY <1>6 DEF Take
    <3> HIDE DEF e
    <3>3. Counted(Append(toHost, Ack(e)), b, accepted + 1)
      BY <1>1, <2>2, <3>1, CountAppend
    <3>4. Counted(toHost, b, accepted + 1)
      BY <1>1, <2>2, CountLater
    <3> QED BY <2>1, <3>2, <3>3, <3>4
  <2> QED BY <2>1, <2>2
<1> QED BY <1>4, <1>5, <1>6 DEF Answered

----------------------------------------------------------------------------
(* One lemma for each kind of step: what it keeps.                         *)

LEMMA FeedKeeps ==
  ASSUME IInv, FeedPacket
  PROVE  IInv'
<1>1. PicoInv' /\ Answered /\ InType' /\ (~host.placed => Unbegun(pico'))
  BY FeedStep DEF IInv
<1>2. Arrives("frame") /\ host' = host
  BY DEF FeedPacket
<1>3. /\ RxInv' /\ OutType'
      /\ \A b \in Nat : Counted(toHost, b, accepted) => Counted(toHost', b, accepted')
  BY <1>1, AnsweredStep DEF IInv
<1>4. toPico \in Seq(Packets \cup Controls) /\ toPico # <<>> /\ toPico' = Tail(toPico)
  BY <1>2 DEF IInv, InType, Arrives
<1>5. (NoReset(toPico) => NoReset(toPico')) /\ (OnlyPreflight(toPico) => OnlyPreflight(toPico'))
  BY <1>4, TailKeeps
<1>6. ~Resting
  <2>1. Head(toPico).kind = "frame" /\ Head(toPico) = toPico[1] /\ 1 \in 1 .. Len(toPico)
    BY <1>2, ArrivesIs DEF IInv
  <2> QED BY <2>1 DEF IInv, RestInv, NoFrame
<1>7. HostInv' /\ ~Resting'
  BY <1>2, <1>6 DEF IInv, HostInv, Resting
<1>8. PlaceInv'
  BY <1>1, <1>2, <1>5 DEF IInv, PlaceInv
<1>9. AckInv'
  BY <1>2, <1>3, <1>5, <1>6 DEF IInv, AckInv, HostInv
<1> QED BY <1>1, <1>3, <1>7, <1>8, <1>9 DEF IInv, RestInv

LEMMA TickKeeps ==
  ASSUME IInv, DataPlaneTick
  PROVE  IInv'
<1>1. Answered /\ rx.pendingAcks > 0 /\ UNCHANGED <<pico, toPico, host>>
  BY DEF DataPlaneTick, Answered, Flushed
<1>2. /\ RxInv' /\ OutType'
      /\ \A b \in Nat : Counted(toHost, b, accepted) => Counted(toHost', b, accepted')
  BY <1>1, AnsweredStep DEF IInv
<1>3. ~Resting /\ ~Resting'
  <2>1. rx.pendingAcks # 0
    BY <1>1 DEF IInv, RxInv
  <2> QED BY <1>1, <2>1 DEF IInv, RestInv, Resting
<1>4. PicoInv' /\ InType' /\ HostInv' /\ PlaceInv'
  BY <1>1 DEF IInv, PicoInv, InType, HostInv, PlaceInv
<1>5. AckInv'
  BY <1>1, <1>2, <1>3 DEF IInv, AckInv, HostInv
<1> QED BY <1>2, <1>3, <1>4, <1>5 DEF IInv, RestInv

LEMMA ResetKeeps ==
  ASSUME IInv, SeqReset
  PROVE  IInv'
<1>1. Arrives("seqreset") /\ host' = host /\ accepted' = 0 /\ toHost' = Append(toHost, Ack(0))
      /\ rx' = [expectedSeq |-> 0, pendingAcks |-> 0]
  BY DEF SeqReset
<1>2. PicoInv' /\ (Unbegun(pico) => Unbegun(pico'))
  BY CommandStep DEF IInv
<1>3. toPico \in Seq(Packets \cup Controls) /\ toPico # <<>> /\ toPico' = Tail(toPico)
      /\ Head(toPico).kind = "seqreset" /\ InType' /\ Head(toPico) = toPico[1] /\ 1 \in 1 .. Len(toPico)
  BY <1>1, ArrivesIs DEF IInv, InType, Arrives
<1>4. /\ NoFrame(toPico) => NoFrame(toPico')
      /\ OneReset(toPico) => OneReset(toPico') /\ NoReset(toPico')
      /\ OnlyPreflight(toPico) => OnlyPreflight(toPico')
  BY <1>3, TailKeeps
<1>5. Resting /\ ~NoReset(toPico)
  BY <1>3 DEF IInv, AckInv, NoReset
<1>6. toHost = <<>>
  BY <1>5 DEF IInv, RestInv
<1>7. RxInv'
  BY <1>1, JobIs DEF RxInv
<1>8. Ack(0) \in Acks \cup Nacks /\ toHost' = <<Ack(0)>>
  BY <1>1, <1>6, AcksAre
<1>9. OutType' /\ \A i \in 1 .. Len(toHost') : toHost'[i] = Ack(0)
  <2>1. toHost' \in Seq(Acks \cup Nacks) /\ Len(toHost') = 1 /\ toHost'[1] = Ack(0)
    BY <1>8
  <2> QED BY <2>1 DEF OutType
<1>10. HostInv' /\ Resting'
  BY <1>1, <1>5 DEF IInv, HostInv, Resting
<1>11. RestInv'
  BY <1>1, <1>4, <1>5, <1>9 DEF IInv, RestInv
<1>12. PlaceInv'
  BY <1>1, <1>2, <1>4 DEF IInv, PlaceInv
<1> QED BY <1>2, <1>3, <1>7, <1>9, <1>10, <1>11, <1>12 DEF IInv, AckInv

(* The commands and the steps that leave the ACKs alone.                   *)
LEMMA CommandKeeps ==
  ASSUME IInv, Abort \/ CmdPause \/ CmdCancel
  PROVE  IInv'
<1>1. PicoInv' /\ (Unbegun(pico) => Unbegun(pico'))
  BY CommandStep DEF IInv
<1>2. /\ Arrives("abort") \/ Arrives("pause") \/ Arrives("cancel")
      /\ UNCHANGED <<rx, toHost, accepted>>
  BY DEF Abort, CmdPause, CmdCancel
<1>3. InType' /\ toPico \in Seq(Packets \cup Controls) /\ toPico # <<>> /\ toPico' = Tail(toPico)
  BY <1>2, ArrivesIs DEF IInv, InType, Arrives
<1>4. /\ NoFrame(toPico) => NoFrame(toPico')
      /\ NoReset(toPico) => NoReset(toPico')
      /\ OneReset(toPico) => OneReset(toPico')
      /\ OnlyPreflight(toPico) => OnlyPreflight(toPico')
  BY <1>3, TailKeeps
<1>5. \/ host' = host
      \/ \E x : host' = [host EXCEPT !.pauseAsked = x]
      \/ \E x : host' = [host EXCEPT !.ending = x]
  BY DEF Abort, CmdPause, CmdCancel
<1>6. /\ HostInv' /\ host'.base = host.base /\ host'.hold = host.hold /\ host'.settled = host.settled
      /\ host'.placed = host.placed /\ host'.stream = host.stream /\ host'.next = host.next
      /\ host'.restart = host.restart
  BY <1>5 DEF IInv, HostInv, HostFields
<1>7. Resting' <=> Resting
  BY <1>6 DEF Resting
<1>8. RxInv' /\ OutType'
  BY <1>2 DEF IInv, RxInv, OutType
<1>9. PlaceInv'
  BY <1>1, <1>4, <1>6 DEF IInv, PlaceInv
<1>10. RestInv'
  BY <1>2, <1>4, <1>7 DEF IInv, RestInv
<1>11. AckInv'
  BY <1>2, <1>4, <1>6, <1>7 DEF IInv, AckInv
<1> QED BY <1>1, <1>3, <1>6, <1>8, <1>9, <1>10, <1>11 DEF IInv

LEMMA PicoKeeps ==
  ASSUME IInv, Core1 \/ LandPaused \/ AbortSettle \/ ToolChangeTick \/ ToolChangeEnds \/ Mount \/ PlaceOk
  PROVE  IInv'
<1>1. PicoInv' /\ (Unbegun(pico) => Unbegun(pico'))
  BY Core0Step, Core1Step DEF IInv
<1>2. UNCHANGED <<rx, toPico, toHost, host, accepted>>
  BY DEF Core1, Enter, Look, FoundLate, Rebuffer, RunRecord, LeaveDry, AbortConsumed, LandPaused,
         AbortSettle, ToolChangeTick, ToolChangeEnds, Mount, PlaceOk
<1>3. RxInv' /\ InType' /\ OutType' /\ HostInv' /\ (Resting' <=> Resting)
  BY <1>2 DEF IInv, RxInv, InType, OutType, HostInv, Resting
<1>4. PlaceInv'
  BY <1>1, <1>2 DEF IInv, PlaceInv
<1>5. RestInv' /\ AckInv'
  BY <1>2, <1>3 DEF IInv, RestInv, AckInv
<1> QED BY <1>1, <1>3, <1>4, <1>5 DEF IInv

(* The operator's asks: a control byte or a command goes out.              *)
LEMMA AskKeeps ==
  ASSUME IInv, AskPause \/ AskEnd \/ AskResume
  PROVE  IInv'
<1>1. UNCHANGED <<pico, rx, toHost, accepted>>
  BY DEF AskPause, AskEnd, AskResume
<1>2. /\ InType'
      /\ NoFrame(toPico) => NoFrame(toPico')
      /\ NoReset(toPico) => NoReset(toPico')
      /\ OneReset(toPico) => OneReset(toPico')
      /\ OnlyPreflight(toPico) => OnlyPreflight(toPico')
  <2>1. CASE toPico' = toPico
    BY <2>1 DEF IInv, InType
  <2>2. CASE toPico' # toPico
    <3>1. PICK x \in Controls : x.kind # "seqreset" /\ toPico' = Append(toPico, x)
      BY <2>2 DEF AskPause, AskEnd, AskResume, Sends, Controls
    <3>2. x \in Packets \cup Controls /\ x.kind # "frame" /\ x.kind # "seqreset"
      BY <3>1 DEF Controls
    <3>3. toPico \in Seq(Packets \cup Controls)
      BY DEF IInv, InType
    <3>4. Append(toPico, x) \in Seq(Packets \cup Controls)
      BY <3>2, <3>3, Appended
    <3> QED BY <3>1, <3>2, <3>3, <3>4, AppendKeeps DEF InType
  <2> QED BY <2>1, <2>2
<1>3. \/ host' = host
      \/ host' = [host EXCEPT !.ending = TRUE]
      \/ host' = [host EXCEPT !.go = TRUE]
  BY DEF AskPause, AskEnd, AskResume
<1>4. /\ HostInv' /\ host'.base = host.base /\ host'.hold = host.hold /\ host'.settled = host.settled
      /\ host'.placed = host.placed /\ host'.stream = host.stream /\ host'.next = host.next
      /\ host'.restart = host.restart
  BY <1>3 DEF IInv, HostInv, HostFields
<1>5. Resting' <=> Resting
  BY <1>4 DEF Resting
<1>6. PicoInv' /\ RxInv' /\ OutType'
  BY <1>1 DEF IInv, PicoInv, RxInv, OutType
<1>7. PlaceInv'
  BY <1>1, <1>2, <1>4 DEF IInv, PlaceInv
<1>8. RestInv' /\ AckInv'
  BY <1>1, <1>2, <1>4, <1>5 DEF IInv, RestInv, AckInv
<1> QED BY <1>2, <1>4, <1>6, <1>7, <1>8 DEF IInv

LEMMA PacketIs ==
  ASSUME NEW n \in Int, NEW f \in Frames
  PROVE  Packet(n, f) \in Packets /\ Packet(n, f).kind = "frame" /\ Packet(n, f).frame = f
<1>1. n % SeqMod \in Int
  <2>1. n % SeqMod \in Nat
    BY ModIs
  <2> QED BY <2>1
<1> QED BY <1>1 DEF Packet, Packets

LEMMA FillKeeps ==
  ASSUME IInv, FillWindow
  PROVE  IInv'
<1> DEFINE end == IF host.placed THEN Len(host.stream) ELSE Len(Preflight)
           n == IF end - host.next < Window - (host.next - host.base) THEN end - host.next
                ELSE Window - (host.next - host.base)
           q == [i \in 1 .. n |-> Packet(host.next + i - 1, host.stream[host.next + i])]
<1>1. /\ n > 0 /\ toPico' = toPico \o q /\ host' = [host EXCEPT !.next = @ + n]
      /\ UNCHANGED <<pico, rx, toHost, accepted>> /\ host.hold = "none"
  BY DEF FillWindow, Running
<1>2. /\ host.stream \in Seq(Frames) /\ Len(host.stream) \in Nat /\ host.base \in Nat /\ host.next \in Nat
      /\ Window \in Nat
  BY JobStreamAssumption DEF IInv, HostInv
<1>3. end \in Nat /\ end <= Len(host.stream)
  <2>1. CASE host.placed
    BY <1>2, <2>1
  <2>2. CASE ~host.placed
    BY <2>2, StreamsAre DEF IInv, PlaceInv
  <2> QED BY <2>1, <2>2
<1>4. n \in Nat /\ host.next + n <= end
  <2>1. n > 0
    BY <1>1
  <2>2. n \in Int /\ n <= end - host.next
    <3> HIDE DEF end
    <3> QED BY <1>2, <1>3
  <2> HIDE DEF n, end
  <2> QED BY <1>2, <1>3, <2>1, <2>2
<1>5. ASSUME NEW i \in 1 .. n
      PROVE  /\ host.next + i \in 1 .. Len(host.stream) /\ host.next + i - 1 \in Int
             /\ host.stream[host.next + i] \in Frames
             /\ ~host.placed => host.stream[host.next + i] \in PreFrames
  <2>1. host.next + i \in 1 .. Len(host.stream) /\ host.next + i \in 1 .. end /\ host.next + i - 1 \in Int
    <3> HIDE DEF n, end
    <3> QED BY <1>2, <1>3, <1>4
  <2>2. host.stream[host.next + i] \in Frames
    BY <1>2, <2>1
  <2>3. ~host.placed => host.stream[host.next + i] \in PreFrames
    BY <2>1, StreamsAre DEF IInv, PlaceInv
  <2> QED BY <2>1, <2>2, <2>3
<1> HIDE DEF n, end
<1>6. q \in [1 .. n -> Packets \cup Controls] /\ \A i \in 1 .. n : q[i].kind = "frame" /\ q[i].frame = host.stream[host.next + i]
  BY <1>5, PacketIs
<1> HIDE DEF q
<1>7. q \in Seq(Packets \cup Controls) /\ Len(q) = n
  BY <1>1, <1>4, <1>6, Listed
<1>8. /\ toPico' \in Seq(Packets \cup Controls) /\ Len(toPico') = Len(toPico) + Len(q)
      /\ Len(toPico) \in Nat
      /\ \A i \in 1 .. Len(toPico') : toPico'[i] = IF i <= Len(toPico) THEN toPico[i] ELSE q[i - Len(toPico)]
  <2>1. toPico \in Seq(Packets \cup Controls)
    BY DEF IInv, InType
  <2>2. /\ toPico \o q \in Seq(Packets \cup Controls) /\ Len(toPico \o q) = Len(toPico) + Len(q)
        /\ \A i \in 1 .. Len(toPico \o q) : (toPico \o q)[i] = IF i <= Len(toPico) THEN toPico[i] ELSE q[i - Len(toPico)]
    BY <1>7, <2>1, Joined
  <2>3. toPico' = toPico \o q /\ Len(toPico) \in Nat
    BY <1>1, <2>1
  <2> QED BY <2>2, <2>3
<1>9. ASSUME NEW i \in 1 .. Len(toPico')
      PROVE  \/ i \in 1 .. Len(toPico) /\ toPico'[i] = toPico[i]
             \/ i - Len(toPico) \in 1 .. n /\ toPico'[i] = q[i - Len(toPico)]
  BY <1>4, <1>7, <1>8
<1>10. NoReset(toPico) => NoReset(toPico')
  BY <1>6, <1>9 DEF NoReset
<1>11. ~host.placed /\ OnlyPreflight(toPico) => OnlyPreflight(toPico')
  BY <1>5, <1>6, <1>9 DEF OnlyPreflight
<1>12. /\ host'.next = host.next + n /\ HostFields \subseteq DOMAIN host'
       /\ host'.base = host.base /\ host'.hold = host.hold /\ host'.settled = host.settled
       /\ host'.placed = host.placed /\ host'.stream = host.stream /\ host'.restart = host.restart
  BY <1>1 DEF IInv, HostInv, HostFields
<1>13. HostInv'
  BY <1>2, <1>3, <1>4, <1>12 DEF IInv, HostInv
<1>14. ~Resting /\ ~Resting'
  BY <1>1, <1>12 DEF Resting
<1>15. PlaceInv'
  <2>1. ~host.placed => host.next + n <= Len(Preflight)
    BY <1>4 DEF end
  <2> QED BY <1>1, <1>11, <1>12, <2>1 DEF IInv, PlaceInv
<1>16. AckInv'
  BY <1>1, <1>10, <1>12, <1>14 DEF IInv, AckInv
<1>17. PicoInv' /\ RxInv' /\ InType' /\ OutType'
  BY <1>1, <1>8 DEF IInv, PicoInv, RxInv, InType, OutType
<1> QED BY <1>13, <1>14, <1>15, <1>16, <1>17 DEF IInv, RestInv

(* What an ACK does to the host.                                           *)
LEMMA ApplyIs ==
  ASSUME HostInv, OutType, toHost # <<>>, Head(toHost).kind = "ack", NEW n \in Nat, Counted(toHost, host.base, n)
  PROVE  LET h == ApplyAck(host, Head(toHost).e)
         IN /\ HostFields \subseteq DOMAIN h
            /\ h.base \in Nat /\ h.base <= h.next /\ Counted(Tail(toHost), h.base, n)
            /\ h.stream = host.stream /\ h.next = host.next /\ h.restart = host.restart
            /\ h.placed = host.placed /\ h.hold = host.hold /\ h.settled = host.settled
<1> DEFINE d == (Head(toHost).e - host.base) % SeqMod
<1>1. toHost \in Seq(Acks \cup Nacks) /\ host.base \in Nat /\ host.next \in Nat /\ host.base <= host.next
  BY DEF OutType, HostInv
<1>2. d \in Nat /\ Counted(Tail(toHost), host.base + d, n) /\ Counted(Tail(toHost), host.base, n)
  BY <1>1, CountPop
<1> HIDE DEF d
<1>3. ApplyAck(host, Head(toHost).e) = IF d > 0 /\ d <= host.next - host.base
                                       THEN [host EXCEPT !.base = host.base + d] ELSE host
  BY DEF ApplyAck, d
<1>4. CASE d > 0 /\ d <= host.next - host.base
  <2>1. ApplyAck(host, Head(toHost).e) = [host EXCEPT !.base = host.base + d]
    BY <1>3, <1>4
  <2>2. host.base + d \in Nat /\ host.base + d <= host.next
    BY <1>1, <1>2, <1>4
  <2> QED BY <1>2, <2>1, <2>2 DEF HostInv, HostFields
<1>5. CASE ~(d > 0 /\ d <= host.next - host.base)
  <2>1. ApplyAck(host, Head(toHost).e) = host
    BY <1>3, <1>5
  <2> QED BY <1>1, <1>2, <2>1 DEF HostInv, HostFields
<1> QED BY <1>4, <1>5

LEMMA ReadKeeps ==
  ASSUME IInv, ReadReply
  PROVE  IInv'
<1>1. /\ toHost # <<>> /\ toHost' = Tail(toHost) /\ host.hold = "none"
      /\ UNCHANGED <<pico, rx, toPico, accepted>>
  BY DEF ReadReply, Running
<1>2. toHost \in Seq(Acks \cup Nacks) /\ accepted \in Nat /\ host.base \in Nat
  BY DEF IInv, OutType, RxInv, HostInv
<1>3. ~Resting /\ NoReset(toPico) /\ Counted(toHost, host.base, accepted)
  BY <1>1 DEF IInv, Resting, AckInv
<1>4. OutType'
  BY <1>1, <1>2, Popped DEF OutType
<1>5. Counted(Tail(toHost), host.base, accepted)
  BY <1>1, <1>2, <1>3, CountPop
<1>6. /\ HostInv' /\ Counted(Tail(toHost), host'.base, accepted)
      /\ host'.stream = host.stream /\ host'.next <= host.next /\ host'.restart = host.restart
      /\ host'.placed = host.placed /\ (host'.hold = host.hold \/ host'.settled = FALSE)
  <2>1. CASE Head(toHost).kind = "ack"
    <3>1. host' = ApplyAck(host, Head(toHost).e)
      BY <2>1 DEF ReadReply
    <3>2. /\ HostFields \subseteq DOMAIN host'
          /\ host'.base \in Nat /\ host'.base <= host'.next /\ Counted(Tail(toHost), host'.base, accepted)
          /\ host'.stream = host.stream /\ host'.next = host.next /\ host'.restart = host.restart
          /\ host'.placed = host.placed /\ host'.hold = host.hold /\ host'.settled = host.settled
      BY <1>1, <1>2, <1>3, <2>1, <3>1, ApplyIs DEF IInv
    <3> QED BY <3>2 DEF IInv, HostInv
  <2>2. CASE Head(toHost).kind # "ack"
    <3>1. host' = OnNack(Head(toHost).why)
      BY <2>2 DEF ReadReply
    <3>2. \/ \E x : host' = [host EXCEPT !.end = x]
          \/ \E x : host' = [host EXCEPT !.hold = x, !.settled = FALSE, !.go = FALSE, !.pauseAsked = FALSE]
          \/ host' = [host EXCEPT !.next = host.base]
      BY <3>1 DEF OnNack, HoldFor, GoBack
    <3>3. CASE \E x : host' = [host EXCEPT !.end = x]
      BY <1>5, <3>3 DEF IInv, HostInv, HostFields
    <3>4. CASE \E x : host' = [host EXCEPT !.hold = x, !.settled = FALSE, !.go = FALSE, !.pauseAsked = FALSE]
      BY <1>5, <3>4 DEF IInv, HostInv, HostFields
    <3>5. CASE host' = [host EXCEPT !.next = host.base]
      BY <1>5, <3>5 DEF IInv, HostInv, HostFields
    <3> QED BY <3>2, <3>3, <3>4, <3>5
  <2> QED BY <2>1, <2>2
<1>7. ~Resting'
  BY <1>1, <1>6 DEF Resting
<1>8. PlaceInv'
  BY <1>1, <1>6, StreamsAre DEF IInv, PlaceInv, HostInv
<1>9. AckInv'
  BY <1>1, <1>3, <1>6 DEF AckInv
<1>10. PicoInv' /\ RxInv' /\ InType'
  BY <1>1 DEF IInv, PicoInv, RxInv, InType
<1> QED BY <1>4, <1>6, <1>7, <1>8, <1>9, <1>10 DEF IInv, RestInv

(* Silence and the holds the session enters: the base stays where it is.   *)
LEMMA HoldKeeps ==
  ASSUME IInv, Silence \/ HoldBegins
  PROVE  IInv'
<1>1. host.hold = "none" /\ UNCHANGED <<pico, rx, toPico, toHost, accepted>>
  BY DEF Silence, HoldBegins, Running
<1>2. \/ host' = [host EXCEPT !.next = host.base]
      \/ \E x : host' = [host EXCEPT !.hold = x, !.settled = FALSE, !.go = FALSE, !.pauseAsked = FALSE]
  BY DEF Silence, HoldBegins, GoBack, HoldFor
<1>3. /\ HostInv' /\ host'.base = host.base /\ host'.stream = host.stream /\ host'.next <= host.next
      /\ host'.restart = host.restart /\ host'.placed = host.placed
      /\ (host'.hold = host.hold \/ host'.settled = FALSE)
  <2>1. CASE host' = [host EXCEPT !.next = host.base]
    BY <2>1 DEF IInv, HostInv, HostFields
  <2>2. CASE \E x : host' = [host EXCEPT !.hold = x, !.settled = FALSE, !.go = FALSE, !.pauseAsked = FALSE]
    BY <2>2 DEF IInv, HostInv, HostFields
  <2> QED BY <1>2, <2>1, <2>2
<1>4. ~Resting /\ ~Resting'
  BY <1>1, <1>3 DEF Resting
<1>5. PlaceInv'
  BY <1>1, <1>3, StreamsAre DEF IInv, PlaceInv, HostInv
<1>6. AckInv'
  BY <1>1, <1>3, <1>4 DEF IInv, AckInv
<1>7. PicoInv' /\ RxInv' /\ InType' /\ OutType'
  BY <1>1 DEF IInv, PicoInv, RxInv, InType, OutType
<1> QED BY <1>3, <1>4, <1>5, <1>6, <1>7 DEF IInv, RestInv

LEMMA SettleKeeps ==
  ASSUME IInv, Settle
  PROVE  IInv'
<1>1. host.hold # "none" /\ ~host.settled /\ ~Resting /\ UNCHANGED <<pico, rx, toPico, accepted>>
  BY DEF Settle, Resting
<1>2. toHost \in Seq(Acks \cup Nacks) /\ accepted \in Nat /\ host.base \in Nat
  BY DEF IInv, OutType, RxInv, HostInv
<1>3. NoReset(toPico) /\ Counted(toHost, host.base, accepted)
  BY <1>1 DEF IInv, AckInv
<1>4. PicoInv' /\ RxInv' /\ InType'
  BY <1>1 DEF IInv, PicoInv, RxInv, InType
<1>5. CASE toHost # <<>>
  <2>1. toHost' = Tail(toHost)
    BY <1>5 DEF Settle
  <2>2. OutType' /\ Counted(Tail(toHost), host.base, accepted)
    BY <1>2, <1>3, <1>5, <2>1, Popped, CountPop DEF OutType
  <2>3. /\ HostInv' /\ Counted(Tail(toHost), host'.base, accepted)
        /\ host'.stream = host.stream /\ host'.next = host.next /\ host'.restart = host.restart
        /\ host'.placed = host.placed /\ host'.hold = host.hold /\ host'.settled = host.settled
    <3>1. CASE Head(toHost).kind = "ack"
      <4>1. host' = ApplyAck(host, Head(toHost).e)
        BY <1>5, <3>1 DEF Settle
      <4>2. /\ HostFields \subseteq DOMAIN host'
            /\ host'.base \in Nat /\ host'.base <= host'.next /\ Counted(Tail(toHost), host'.base, accepted)
            /\ host'.stream = host.stream /\ host'.next = host.next /\ host'.restart = host.restart
            /\ host'.placed = host.placed /\ host'.hold = host.hold /\ host'.settled = host.settled
        BY <1>2, <1>3, <1>5, <3>1, <4>1, ApplyIs DEF IInv
      <4> QED BY <4>2 DEF IInv, HostInv
    <3>2. CASE Head(toHost).kind # "ack"
      <4>1. host' = host
        BY <1>5, <3>2 DEF Settle
      <4> QED BY <2>2, <4>1 DEF IInv, HostInv
    <3> QED BY <3>1, <3>2
  <2>4. ~Resting'
    BY <1>1, <2>3 DEF Resting
  <2>5. PlaceInv'
    BY <1>1, <2>3 DEF IInv, PlaceInv
  <2>6. AckInv'
    BY <1>1, <1>3, <2>1, <2>3 DEF AckInv
  <2> QED BY <1>4, <2>2, <2>3, <2>4, <2>5, <2>6 DEF IInv, RestInv
<1>6. CASE toHost = <<>>
  <2>1. /\ toPico = <<>> /\ rx.pendingAcks = 0 /\ toHost' = toHost
        /\ host' = [host EXCEPT !.settled = TRUE]
    BY <1>6 DEF Settle
  <2>2. OutType' /\ HostInv' /\ PlaceInv'
    BY <1>1, <2>1 DEF IInv, OutType, HostInv, HostFields, PlaceInv
  <2>3. RestInv'
    BY <1>1, <1>6, <2>1 DEF RestInv, NoFrame, OneReset
  <2>4. host'.base = host.base
    BY <2>1
  <2>5. AckInv'
    BY <1>1, <1>3, <2>1, <2>4 DEF AckInv
  <2> QED BY <1>4, <2>2, <2>3, <2>5 DEF IInv
<1> QED BY <1>5, <1>6

LEMMA LeaveKeeps ==
  ASSUME IInv, Leave
  PROVE  IInv'
<1>1. /\ host.settled /\ host.restart = NoPoint /\ toPico = <<>> /\ UNCHANGED <<pico, rx, accepted>>
  BY DEF Leave, StatusRead
<1>2. PicoInv' /\ RxInv'
  BY <1>1 DEF IInv, PicoInv, RxInv
<1>3. CASE /\ host.hold = "place" /\ UNCHANGED <<toPico, toHost>>
           /\ host' = [Left(host) EXCEPT !.placed = TRUE]
  <2>1. /\ HostInv' /\ host'.base = host.base /\ host'.hold = "none" /\ host'.placed = TRUE
    BY <1>3 DEF Left, IInv, HostInv, HostFields
  <2>2. ~Resting /\ ~Resting'
    BY <1>3, <2>1 DEF Resting
  <2>3. AckInv'
    BY <1>1, <1>3, <2>1, <2>2 DEF IInv, AckInv
  <2>4. PlaceInv' /\ InType' /\ OutType'
    BY <1>3, <2>1 DEF IInv, PlaceInv, InType, OutType
  <2> QED BY <1>2, <2>1, <2>2, <2>3, <2>4 DEF IInv, RestInv
<1>4. CASE /\ host.hold = "tool" /\ UNCHANGED <<toPico, toHost>>
           /\ host' = GoBack(Left(host))
  <2>1. /\ HostInv' /\ host'.base = host.base /\ host'.hold = "none" /\ host'.placed = host.placed
        /\ host'.stream = host.stream /\ host'.next <= host.next /\ host'.restart = host.restart
    BY <1>4 DEF Left, GoBack, IInv, HostInv, HostFields
  <2>2. ~Resting /\ ~Resting'
    BY <1>4, <2>1 DEF Resting
  <2>3. AckInv'
    BY <1>1, <1>4, <2>1, <2>2 DEF IInv, AckInv
  <2>4. PlaceInv' /\ InType' /\ OutType'
    BY <1>1, <1>4, <2>1, StreamsAre DEF IInv, PlaceInv, InType, OutType, HostInv
  <2> QED BY <1>2, <2>1, <2>2, <2>3, <2>4 DEF IInv, RestInv
<1>5. CASE /\ host.hold \in {"paused", "refused"} /\ pico.why = "PAUSED"
           /\ host' = [host EXCEPT !.go = FALSE, !.restart = ResumePoint]
           /\ toHost' = <<>> /\ Sends([kind |-> "seqreset"])
  <2>1. ResumePoint \in Points
    BY DEF ResumePoint, IInv, PicoInv, Typed
  <2>2. /\ HostInv' /\ host'.hold = host.hold /\ host'.placed = host.placed /\ host'.settled = host.settled
    BY <1>5, <2>1 DEF IInv, HostInv, HostFields
  <2>3. Resting /\ Resting'
    BY <1>1, <1>5, <2>2 DEF Resting
  <2>4. host.placed
    BY <1>5 DEF IInv, PlaceInv, Unbegun
  <2>5. toPico' = <<[kind |-> "seqreset"]>>
    BY <1>1, <1>5 DEF Sends
  <2>6. InType' /\ NoFrame(toPico') /\ OneReset(toPico')
    <3>1. [kind |-> "seqreset"] \in Packets \cup Controls
      BY DEF Controls
    <3>2. Len(toPico') = 1 /\ toPico'[1].kind = "seqreset" /\ toPico' \in Seq(Packets \cup Controls)
      BY <2>5, <3>1
    <3> QED BY <3>2 DEF InType, NoFrame, OneReset
  <2>7. OutType' /\ RestInv'
    BY <1>1, <1>5, <2>3, <2>6 DEF IInv, OutType, RestInv
  <2> QED BY <1>2, <2>2, <2>3, <2>4, <2>6, <2>7 DEF IInv, PlaceInv, AckInv
<1>6. CASE host' = [host EXCEPT !.go = FALSE] /\ UNCHANGED <<toPico, toHost>>
  <2>1. /\ HostInv' /\ host'.base = host.base /\ host'.hold = host.hold /\ host'.placed = host.placed
        /\ host'.stream = host.stream /\ host'.next = host.next /\ host'.restart = host.restart
        /\ host'.settled = host.settled
    BY <1>6 DEF IInv, HostInv, HostFields
  <2>2. Resting' <=> Resting
    BY <2>1 DEF Resting
  <2>3. AckInv' /\ RestInv'
    BY <1>1, <1>6, <2>1, <2>2 DEF IInv, AckInv, RestInv
  <2>4. PlaceInv' /\ InType' /\ OutType'
    BY <1>1, <1>6, <2>1 DEF IInv, PlaceInv, InType, OutType
  <2> QED BY <1>2, <2>1, <2>3, <2>4 DEF IInv
<1> QED BY <1>3, <1>4, <1>5, <1>6 DEF Leave

LEMMA RestartKeeps ==
  ASSUME IInv, Restart
  PROVE  IInv'
<1>1. host.restart # NoPoint /\ UNCHANGED <<pico, rx, toPico, accepted>>
  BY DEF Restart
<1>2. PicoInv' /\ RxInv' /\ InType'
  BY <1>1 DEF IInv, PicoInv, RxInv, InType
<1>3. toHost \in Seq(Acks \cup Nacks) /\ accepted \in Nat /\ host.base \in Nat /\ host.placed
  BY <1>1 DEF IInv, OutType, RxInv, HostInv, PlaceInv
<1>4. CASE /\ toHost # <<>> /\ Head(toHost) = Ack(0) /\ toHost' = Tail(toHost)
           /\ host' = [Left(host) EXCEPT !.stream = StreamFrom(host.restart), !.base = 0,
                                         !.next = 0, !.restart = NoPoint]
  <2>1. StreamFrom(host.restart) \in Seq(Frames)
    BY StreamsAre DEF IInv, HostInv
  <2>2. /\ HostInv' /\ host'.base = 0 /\ host'.hold = "none" /\ host'.placed = host.placed
    <3> DEFINE r == StreamFrom(host.restart)
    <3>1. r \in Seq(Frames) /\ Len(r) \in Nat
      BY <2>1
    <3> HIDE DEF r
    <3>2. host' = [Left(host) EXCEPT !.stream = r, !.base = 0, !.next = 0, !.restart = NoPoint]
      BY <1>4 DEF r
    <3> QED BY <3>1, <3>2, JobIs DEF Left, IInv, HostInv, HostFields
  <2>3. ~Resting' /\ OutType'
    BY <1>3, <1>4, <2>2, Popped DEF Resting, OutType
  <2>4. NoReset(toPico) /\ Counted(Tail(toHost), 0, accepted)
    <3>1. CASE Resting
      <4>1. NoReset(toPico) /\ accepted = 0 /\ \A i \in 1 .. Len(toHost) : toHost[i] = Ack(0)
        BY <1>4, <3>1 DEF IInv, RestInv
      <4>2. \A i \in 1 .. Len(Tail(toHost)) : Tail(toHost)[i] = Ack(0)
        BY <1>3, <1>4, <4>1, Popped
      <4>3. 0 % SeqMod = 0 /\ Ack(0).e = 0
        BY JobIs DEF Ack
      <4>4. Counts([i \in 1 .. Len(Tail(toHost)) |-> 0], Tail(toHost), 0, 0)
        BY <4>2, <4>3 DEF Counts
      <4> QED BY <4>1, <4>4 DEF Counted
    <3>2. CASE ~Resting
      <4>1. NoReset(toPico) /\ Counted(toHost, host.base, accepted)
        BY <3>2 DEF IInv, AckInv
      <4>2. Counted(Tail(toHost), host.base, accepted)
        BY <1>3, <1>4, <4>1, CountPop
      <4>3. PICK w : Counts(w, Tail(toHost), host.base, accepted)
        BY <4>2 DEF Counted
      <4>4. Counts(w, Tail(toHost), 0, accepted)
        <5> DEFINE n == Len(Tail(toHost))
        <5>0. w \in [1 .. n -> Nat]
          BY <4>3 DEF Counts
        <5> HIDE DEF n
        <5>1. \A i \in 1 .. n : w[i] \in Nat /\ 0 <= w[i]
          BY <5>0
        <5> QED BY <1>3, <4>3, <5>1 DEF Counts, n
      <4> QED BY <1>3, <4>1, <4>4 DEF Counted
    <3> QED BY <3>1, <3>2
  <2>5. AckInv'
    BY <1>1, <1>4, <2>2, <2>4 DEF AckInv
  <2> QED BY <1>2, <1>3, <2>2, <2>3, <2>5 DEF IInv, RestInv, PlaceInv
<1>5. CASE /\ host' = [host EXCEPT !.restart = NoPoint]
           /\ \/ toHost # <<>> /\ toHost' = Tail(toHost)
              \/ toHost' = toHost
  <2>1. /\ HostInv' /\ host'.base = host.base /\ host'.hold = host.hold /\ host'.placed = host.placed
        /\ host'.settled = host.settled
    BY <1>5, JobIs DEF IInv, HostInv, HostFields
  <2>2. Resting' <=> Resting
    BY <2>1 DEF Resting
  <2>3. OutType' /\ (~Resting => Counted(toHost', host.base, accepted))
        /\ (Resting => \A i \in 1 .. Len(toHost') : toHost'[i] = Ack(0))
        /\ (toHost' # <<>> => toHost # <<>>)
    <3>1. CASE toHost' = toHost
      BY <3>1 DEF IInv, OutType, AckInv, RestInv
    <3>2. CASE toHost # <<>> /\ toHost' = Tail(toHost)
      BY <1>3, <3>2, Popped, CountPop DEF IInv, OutType, AckInv, RestInv
    <3> QED BY <1>5, <3>1, <3>2
  <2>4. RestInv' /\ AckInv'
    BY <1>1, <2>1, <2>2, <2>3 DEF IInv, RestInv, AckInv
  <2> QED BY <1>2, <1>3, <2>1, <2>3, <2>4 DEF IInv, PlaceInv
<1> QED BY <1>4, <1>5 DEF Restart

LEMMA EndedKeeps ==
  ASSUME IInv, Ended
  PROVE  IInv'
<1>1. UNCHANGED <<pico, rx, toPico, toHost, accepted>> /\ \E x : host' = [host EXCEPT !.end = x]
  BY DEF Ended
<1>2. /\ HostInv' /\ host'.base = host.base /\ host'.hold = host.hold /\ host'.placed = host.placed
      /\ host'.stream = host.stream /\ host'.next = host.next /\ host'.restart = host.restart
      /\ host'.settled = host.settled
  BY <1>1 DEF IInv, HostInv, HostFields
<1>3. Resting' <=> Resting
  BY <1>2 DEF Resting
<1>4. AckInv' /\ RestInv' /\ PlaceInv'
  BY <1>1, <1>2, <1>3 DEF IInv, AckInv, RestInv, PlaceInv
<1>5. PicoInv' /\ RxInv' /\ InType' /\ OutType'
  BY <1>1 DEF IInv, PicoInv, RxInv, InType, OutType
<1> QED BY <1>2, <1>4, <1>5 DEF IInv

LEMMA FaultKeeps ==
  ASSUME IInv, LinkFault
  PROVE  IInv'
<1>1. UNCHANGED <<pico, rx, host, accepted>>
  BY DEF LinkFault
<1>2. /\ PicoInv' /\ RxInv' /\ HostInv' /\ (Resting' <=> Resting)
      /\ toPico \in Seq(Packets \cup Controls) /\ toHost \in Seq(Acks \cup Nacks)
      /\ accepted \in Nat /\ host.base \in Nat
  BY <1>1 DEF IInv, PicoInv, RxInv, HostInv, Resting, InType, OutType
<1>3. CASE /\ toHost' = toHost /\ toPico # <<>> /\ Head(toPico).kind = "frame"
           /\ \/ toPico' = [toPico EXCEPT ![1].bad = TRUE]
              \/ toPico' = Tail(toPico)
  <2>1. /\ InType'
        /\ NoFrame(toPico) => NoFrame(toPico')
        /\ NoReset(toPico) => NoReset(toPico')
        /\ OneReset(toPico) => OneReset(toPico')
        /\ OnlyPreflight(toPico) => OnlyPreflight(toPico')
    <3>1. CASE toPico' = Tail(toPico)
      BY <1>2, <1>3, <3>1, TailKeeps, Popped DEF InType
    <3>2. CASE toPico' = [toPico EXCEPT ![1].bad = TRUE]
      <4>1. Len(toPico) \in Nat /\ 1 \in 1 .. Len(toPico) /\ Head(toPico) = toPico[1]
        BY <1>2, <1>3, Popped
      <4>2. toPico[1] \in Packets
        <5>1. toPico[1] \in Packets \cup Controls /\ toPico[1].kind = "frame"
          BY <1>2, <1>3, <4>1
        <5> QED BY <5>1 DEF Packets, Controls
      <4> DEFINE m == [toPico[1] EXCEPT !.bad = TRUE]
      <4>3. m \in Packets /\ m.kind = toPico[1].kind /\ m.frame = toPico[1].frame
        BY <4>2 DEF Packets
      <4> HIDE DEF m
      <4>4. toPico' = [toPico EXCEPT ![1] = m]
        BY <3>2 DEF m
      <4>5. /\ toPico' \in Seq(Packets \cup Controls) /\ Len(toPico') = Len(toPico)
            /\ \A i \in 1 .. Len(toPico) : toPico'[i] = IF i = 1 THEN m ELSE toPico[i]
        BY <1>2, <4>1, <4>3, <4>4
      <4> QED BY <4>3, <4>5 DEF InType, NoFrame, NoReset, OneReset, OnlyPreflight
    <3> QED BY <1>3, <3>1, <3>2
  <2>2. OutType'
    BY <1>2, <1>3 DEF OutType
  <2>3. RestInv' /\ AckInv' /\ PlaceInv'
    BY <1>1, <1>2, <1>3, <2>1 DEF IInv, RestInv, AckInv, PlaceInv
  <2> QED BY <1>2, <2>1, <2>2, <2>3 DEF IInv
<1>4. CASE toPico' = toPico /\ toHost # <<>> /\ toHost' = Tail(toHost)
  <2>1. InType' /\ OutType' /\ PlaceInv'
    BY <1>1, <1>2, <1>4, Popped DEF IInv, InType, OutType, PlaceInv
  <2>2. (~Resting => Counted(toHost', host.base, accepted))
        /\ (Resting => \A i \in 1 .. Len(toHost') : toHost'[i] = Ack(0))
    BY <1>2, <1>4, Popped, CountPop DEF IInv, AckInv, RestInv
  <2>3. RestInv' /\ AckInv'
    BY <1>1, <1>2, <1>4, <2>2 DEF IInv, RestInv, AckInv
  <2> QED BY <1>2, <2>1, <2>3 DEF IInv
<1> QED BY <1>3, <1>4 DEF LinkFault

LEMMA InitHolds == Init => IInv
<1> SUFFICES ASSUME Init PROVE IInv
  OBVIOUS
<1>1. /\ <<>> \in Seq(Blocks) /\ Len(<<>>) <= RingSize /\ Len(<<>>) = 0
      /\ <<>> \in Seq(Packets \cup Controls) /\ <<>> \in Seq(Acks \cup Nacks)
  BY JobIs
<1>2. PicoInv /\ Unbegun(pico)
  BY <1>1, JobIs DEF Init, PicoInv, Typed, Running1, PicoFields, Unbegun, Reasons
<1>3. RxInv
  BY JobIs DEF Init, RxInv
<1>4. InType /\ OutType
  BY <1>1 DEF Init, InType, OutType
<1>5. /\ HostInv /\ host.base = 0 /\ host.next = 0 /\ host.stream = FullStream /\ host.restart = NoPoint
      /\ ~Resting
  BY StreamsAre, JobIs DEF Init, HostInv, HostFields, Resting
<1>6. PlaceInv
  BY <1>1, <1>2, <1>5, StreamsAre DEF Init, PlaceInv, OnlyPreflight
<1>7. AckInv
  <2>1. Counts(<<>>, <<>>, 0, 0)
    BY <1>1 DEF Counts
  <2> QED BY <1>1, <1>5, <2>1 DEF Init, AckInv, NoReset, Counted
<1> QED BY <1>2, <1>3, <1>4, <1>5, <1>6, <1>7 DEF IInv, RestInv

LEMMA NextKeeps == IInv /\ [Next]_vars => IInv'
<1> SUFFICES ASSUME IInv, [Next]_vars PROVE IInv'
  OBVIOUS
<1>1. CASE Receive
  BY <1>1, FeedKeeps, ResetKeeps, CommandKeeps DEF Receive
<1>2. CASE Core0
  BY <1>2, PicoKeeps, TickKeeps DEF Core0
<1>3. CASE Core1
  BY <1>3, PicoKeeps
<1>4. CASE Session
  BY <1>4, FillKeeps, ReadKeeps, HoldKeeps, SettleKeeps, LeaveKeeps, RestartKeeps, EndedKeeps DEF Session
<1>5. CASE Operator
  BY <1>5, PicoKeeps, AskKeeps DEF Operator
<1>6. CASE LinkFault
  BY <1>6, FaultKeeps
<1>7. CASE UNCHANGED vars
  <2>1. UNCHANGED <<pico, rx, toPico, toHost, host, accepted>>
    BY <1>7 DEF vars
  <2>2. PicoInv' /\ RxInv' /\ InType' /\ OutType' /\ HostInv' /\ (Resting' <=> Resting)
    BY <2>1 DEF IInv, PicoInv, RxInv, InType, OutType, HostInv, Resting
  <2>3. PlaceInv' /\ RestInv' /\ AckInv'
    BY <2>1, <2>2 DEF IInv, PlaceInv, RestInv, AckInv
  <2> QED BY <2>2, <2>3 DEF IInv
<1> QED BY <1>1, <1>2, <1>3, <1>4, <1>5, <1>6, <1>7 DEF Next

LEMMA StreamInvariant == Spec => []IInv
  BY InitHolds, NextKeeps, PTL DEF Spec

(* The rolling number stays in its byte and is always the count of the     *)
(* frames taken; the ACKs pending and the ring stay in their limits; Core  *)
(* 1 runs only an active ring; the host never sends past its stream.       *)
THEOREM StreamTypes == Spec => []TypeOK
<1>1. IInv => TypeOK
  BY DEF IInv, PicoInv, Typed, Running1, RxInv, HostInv, TypeOK
<1> QED BY <1>1, StreamInvariant, PTL

(* data_plane.cpp's duplicate guard and session.ts's cumulative ACK: for   *)
(* every job, window and modulus and any number of faults, resends, pauses *)
(* and restarts, the host counts no frame that the Pico has not taken in   *)
(* this stream.                                                            *)
THEOREM HostCountsTrue == Spec => []AckIsTrue
<1>1. IInv => AckIsTrue
  BY DEF IInv, AckInv, Counted, Resting, Running, AckIsTrue
<1> QED BY <1>1, StreamInvariant, PTL

(* The records of a layer follow those of the layers before it.            *)
LEMMA LayerIs ==
  ASSUME NEW l \in Layers
  PROVE  /\ l \in Nat /\ l >= 1 /\ l <= Len(LayerTool) /\ l + 1 \in 1 .. Len(LayerTool) + 1
         /\ First(l) \in Nat /\ Last(l) \in Nat /\ 1 <= First(l) /\ First(l) <= Last(l)
         /\ First(l + 1) = Last(l) + 1
         /\ l = 1 => First(l) = 1
<1>1. l \in Nat /\ l >= 1 /\ l <= Len(LayerTool) /\ Len(LayerTool) \in Nat
  BY JobIs DEF Layers
<1>2. l \in 1 .. Len(LayerTool) + 1 /\ l + 1 \in 1 .. Len(LayerTool) + 1 /\ l + 1 # 1 /\ (l + 1) - 1 = l
  BY <1>1
<1>3. Before[l] \in Nat /\ Before[l + 1] \in Nat
  BY <1>2, BeforeIs
<1>4. Before[l + 1] = Before[l] + LayerLen[l] /\ (l = 1 => Before[l] = 0)
  BY <1>2, BeforeUnfolds
<1>5. LayerLen[l] \in Nat /\ LayerLen[l] >= 1
  <2>1. LayerLen \in Seq(Nat \ {0}) /\ Len(LayerLen) = Len(LayerTool)
    BY JobStreamAssumption
  <2>2. LayerLen[l] \in Nat \ {0}
    BY <2>1 DEF Layers
  <2> QED BY <2>2
<1> QED BY <1>1, <1>2, <1>3, <1>4, <1>5 DEF First, Last

LEMMA BeforeGrows == \A l, m \in 1 .. Len(LayerTool) + 1 : l <= m => Before[l] <= Before[m]
<1> SUFFICES ASSUME NEW l \in 1 .. Len(LayerTool) + 1
             PROVE  \A m \in 1 .. Len(LayerTool) + 1 : l <= m => Before[l] <= Before[m]
  OBVIOUS
<1> DEFINE Odd == {m \in Nat : m \in 1 .. Len(LayerTool) + 1 /\ l <= m /\ ~(Before[l] <= Before[m])}
<1>1. Odd = {}
  <2>1. SUFFICES ASSUME Odd # {} PROVE FALSE
    OBVIOUS
  <2>2. PICK m \in Odd : \A k \in Odd : m <= k
    BY <2>1, LeastExists
  <2>3. m \in 1 .. Len(LayerTool) + 1 /\ m \in Nat /\ l <= m /\ ~(Before[l] <= Before[m]) /\ Len(LayerTool) \in Nat
    BY JobIs
  <2>4. Before[l] \in Nat /\ Before[m] \in Nat
    BY <2>3, BeforeIs
  <2>5. l # m
    BY <2>3, <2>4
  <2>6. m - 1 \in Layers /\ m - 1 \in 1 .. Len(LayerTool) + 1 /\ l <= m - 1 /\ m - 1 \in Nat /\ ~(m <= m - 1)
        /\ (m - 1) + 1 = m
    BY <2>3, <2>5 DEF Layers
  <2>7. Before[l] <= Before[m - 1]
    BY <2>2, <2>6
  <2>8. Before[m - 1] <= Before[m] /\ Before[m - 1] \in Nat
    BY <2>6, LayerIs, BeforeIs DEF First, Last
  <2> QED BY <2>3, <2>4, <2>7, <2>8
<1> QED BY <1>1, JobIs

(* A record is in one layer.                                               *)
LEMMA LayerOfIs ==
  ASSUME NEW l \in Layers, NEW n \in Int, First(l) <= n, n <= Last(l)
  PROVE  LayerOf(n) = l
<1>1. ASSUME NEW k \in Layers, First(k) <= n, n <= Last(k) PROVE k = l
  <2>1. /\ k \in Nat /\ k \in 1 .. Len(LayerTool) + 1 /\ k + 1 \in 1 .. Len(LayerTool) + 1
        /\ l \in Nat /\ l \in 1 .. Len(LayerTool) + 1 /\ l + 1 \in 1 .. Len(LayerTool) + 1
    <3>1. Len(LayerTool) \in Nat
      BY JobIs
    <3> QED BY <3>1 DEF Layers
  <2>2. Before[k] \in Nat /\ Before[l] \in Nat /\ Before[k + 1] \in Nat /\ Before[l + 1] \in Nat
    BY <2>1, BeforeIs
  <2>3. ~(k + 1 <= l)
    <3>1. ASSUME k + 1 <= l PROVE FALSE
      <4>1. Before[k + 1] <= Before[l]
        BY <2>1, <3>1, BeforeGrows
      <4> QED BY <1>1, <2>2, <4>1 DEF First, Last
    <3> QED BY <3>1
  <2>4. ~(l + 1 <= k)
    <3>1. ASSUME l + 1 <= k PROVE FALSE
      <4>1. Before[l + 1] <= Before[k]
        BY <2>1, <3>1, BeforeGrows
      <4> QED BY <1>1, <2>2, <4>1 DEF First, Last
    <3> QED BY <3>1
  <2> QED BY <2>1, <2>3, <2>4
<1> QED BY <1>1 DEF LayerOf

----------------------------------------------------------------------------
(* What is still to come of a stream: t, after its first k frames.         *)
Ahead(s, k, t) == Len(s) = k + Len(t) /\ \A i \in 1 .. Len(t) : s[k + i] = t[i]

(* Within layer l, from its record n; and at the tool header of layer l.   *)
InLayer(l, n) == RecordsFrom(l, n) \o LayersFrom[l + 1]
AtTool(l)     == <<ToolHdr(LayerTool[l])>> \o InLayer(l, First(l))

LEMMA AheadNext ==
  ASSUME NEW s \in Seq(Frames), NEW k \in Nat, NEW x \in Frames, NEW t \in Seq(Frames),
         Ahead(s, k, <<x>> \o t)
  PROVE  k < Len(s) /\ s[k + 1] = x /\ Ahead(s, k + 1, t)
<1>1. <<x>> \in Seq(Frames) /\ Len(<<x>>) = 1 /\ <<x>>[1] = x
  OBVIOUS
<1> DEFINE u == <<x>> \o t
<1>2. /\ u \in Seq(Frames) /\ Len(u) = 1 + Len(t)
      /\ \A i \in 1 .. Len(u) : u[i] = IF i <= 1 THEN <<x>>[i] ELSE t[i - 1]
  BY <1>1, Joined
<1> HIDE DEF u
<1>3. Len(s) = k + Len(u) /\ \A i \in 1 .. Len(u) : s[k + i] = u[i]
  BY DEF Ahead, u
<1>4. Len(t) \in Nat /\ Len(s) \in Nat
  OBVIOUS
<1>5. 1 \in 1 .. Len(u) /\ u[1] = x
  BY <1>1, <1>2, <1>4
<1>6. ASSUME NEW i \in 1 .. Len(t) PROVE s[(k + 1) + i] = t[i]
  <2>1. i + 1 \in 1 .. Len(u) /\ ~(i + 1 <= 1) /\ (i + 1) - 1 = i /\ k + (i + 1) = (k + 1) + i
    BY <1>2, <1>4
  <2> QED BY <1>2, <1>3, <2>1
<1> QED BY <1>2, <1>3, <1>4, <1>5, <1>6 DEF Ahead

LEMMA AheadAll ==
  ASSUME NEW s \in Seq(Frames)
  PROVE  Ahead(s, 0, s)
  BY DEF Ahead

LEMMA AheadJoined ==
  ASSUME NEW p \in Seq(Frames), NEW q \in Seq(Frames)
  PROVE  Ahead(p \o q, Len(p), q)
<1>1. /\ Len(p \o q) = Len(p) + Len(q) /\ Len(p) \in Nat /\ Len(q) \in Nat
      /\ \A i \in 1 .. Len(p \o q) : (p \o q)[i] = IF i <= Len(p) THEN p[i] ELSE q[i - Len(p)]
  BY Joined
<1>2. ASSUME NEW i \in 1 .. Len(q) PROVE (p \o q)[Len(p) + i] = q[i]
  <2>1. Len(p) + i \in 1 .. Len(p \o q) /\ ~(Len(p) + i <= Len(p)) /\ (Len(p) + i) - Len(p) = i
    BY <1>1
  <2> QED BY <1>1, <2>1
<1> QED BY <1>1, <1>2 DEF Ahead

LEMMA InLayerIs ==
  ASSUME NEW l \in Layers, NEW n \in Int
  PROVE  /\ InLayer(l, n) \in Seq(Frames)
         /\ n <= Last(l) => InLayer(l, n) = <<Bezier(n)>> \o InLayer(l, n + 1) /\ Bezier(n) \in Frames
         /\ n = Last(l) + 1 => InLayer(l, n) = LayersFrom[l + 1]
<1>1. l \in 0 .. Len(LayerTool) /\ l + 1 \in 1 .. Len(LayerTool) + 1 /\ Last(l) \in Nat
  BY LayerIs, JobIs
<1>2. /\ RecordsFrom(l, n) \in Seq(Frames) /\ RecordsFrom(l, n + 1) \in Seq(Frames)
      /\ LayersFrom[l + 1] \in Seq(Frames)
  <2>1. n + 1 \in Int
    OBVIOUS
  <2> QED BY <1>1, <2>1, RecordsAre, LayersFromIs
<1>3. InLayer(l, n) \in Seq(Frames)
  BY <1>2, Joined DEF InLayer
<1>4. Bezier(n) \in Frames
  BY DEF Bezier, Frames
<1>5. ASSUME n <= Last(l) PROVE InLayer(l, n) = <<Bezier(n)>> \o InLayer(l, n + 1)
  <2>1. <<Bezier(n)>> \in Seq(Frames) /\ Len(<<Bezier(n)>>) = 1 /\ <<Bezier(n)>>[1] = Bezier(n)
    BY <1>4
  <2> DEFINE m == Last(l) - n + 1
             u == <<Bezier(n)>> \o RecordsFrom(l, n + 1)
  <2>2. m \in Nat /\ m >= 1 /\ Last(l) - (n + 1) + 1 = m - 1
    BY <1>1, <1>5
  <2>3. RecordsFrom(l, n) = [i \in 1 .. m |-> Bezier(n + i - 1)] /\ Len(RecordsFrom(l, n)) = m
    <3>1. RecordsFrom(l, n) = [i \in 1 .. m |-> Bezier(n + i - 1)]
      BY DEF RecordsFrom
    <3> HIDE DEF m
    <3> QED BY <2>2, <3>1
  <2>4. RecordsFrom(l, n + 1) = [i \in 1 .. m - 1 |-> Bezier((n + 1) + i - 1)] /\ Len(RecordsFrom(l, n + 1)) = m - 1
    <3>1. RecordsFrom(l, n + 1) = [i \in 1 .. m - 1 |-> Bezier((n + 1) + i - 1)]
      BY <2>2 DEF RecordsFrom
    <3> HIDE DEF m
    <3> QED BY <2>2, <3>1
  <2>5. /\ u \in Seq(Frames) /\ Len(u) = 1 + (m - 1)
        /\ \A i \in 1 .. Len(u) : u[i] = IF i <= 1 THEN <<Bezier(n)>>[i] ELSE RecordsFrom(l, n + 1)[i - 1]
    BY <1>2, <2>1, <2>4, Joined
  <2> HIDE DEF u, m
  <2>6. ASSUME NEW i \in 1 .. m PROVE RecordsFrom(l, n)[i] = u[i]
    <3>1. i \in 1 .. Len(u)
      BY <2>2, <2>5
    <3>2. CASE i = 1
      BY <2>1, <2>3, <2>5, <3>1, <3>2
    <3>3. CASE i # 1
      <4>1. ~(i <= 1) /\ i - 1 \in 1 .. m - 1 /\ (n + 1) + (i - 1) - 1 = n + i - 1
        BY <2>2, <3>3
      <4> QED BY <2>3, <2>4, <2>5, <3>1, <4>1
    <3> QED BY <3>2, <3>3
  <2>7. RecordsFrom(l, n) = u
    <3>1. Len(u) = Len(RecordsFrom(l, n))
      BY <2>2, <2>3, <2>5
    <3> QED BY <1>2, <2>3, <2>5, <2>6, <3>1, SeqEqual
  <2>8. (<<Bezier(n)>> \o RecordsFrom(l, n + 1)) \o LayersFrom[l + 1]
          = <<Bezier(n)>> \o (RecordsFrom(l, n + 1) \o LayersFrom[l + 1])
    <3> DEFINE a == <<Bezier(n)>>
               b == RecordsFrom(l, n + 1)
               c == LayersFrom[l + 1]
    <3>1. a \in Seq(Frames) /\ b \in Seq(Frames) /\ c \in Seq(Frames)
      BY <1>2, <2>1
    <3> HIDE DEF a, b, c
    <3>2. (a \o b) \o c = a \o (b \o c)
      BY <3>1, ConcatAssociative
    <3> QED BY <3>2 DEF a, b, c
  <2> QED BY <2>7, <2>8, Zenon DEF InLayer, u
<1>6. ASSUME n = Last(l) + 1 PROVE InLayer(l, n) = LayersFrom[l + 1]
  <2>1. RecordsFrom(l, n) = <<>>
    <3>1. Last(l) - n + 1 = 0
      BY <1>1, <1>6
    <3>2. RecordsFrom(l, n) = [i \in 1 .. 0 |-> Bezier(n + i - 1)]
      BY <3>1 DEF RecordsFrom
    <3>3. Len(RecordsFrom(l, n)) = 0
      BY <3>2
    <3> QED BY <1>2, <3>3
  <2> QED BY <1>2, <2>1, ConcatEmptySeq DEF InLayer
<1> QED BY <1>3, <1>4, <1>5, <1>6

LEMMA AtToolIs ==
  ASSUME NEW l \in Layers
  PROVE  /\ AtTool(l) = <<ToolHdr(LayerTool[l])>> \o InLayer(l, First(l))
         /\ ToolHdr(LayerTool[l]) \in Frames /\ InLayer(l, First(l)) \in Seq(Frames)
         /\ AtTool(l) \in Seq(Frames) /\ LayerHdr(l, First(l)) \in Frames
         /\ LayersFrom[l] = <<LayerHdr(l, First(l))>> \o AtTool(l)
<1> DEFINE h == LayerHdr(l, First(l))
           t == ToolHdr(LayerTool[l])
           r == RecordsFrom(l, First(l))
           m == LayersFrom[l + 1]
<1>1. /\ l \in 0 .. Len(LayerTool) /\ l \in 1 .. Len(LayerTool) + 1 /\ l + 1 \in 1 .. Len(LayerTool) + 1
      /\ ~(l > Len(LayerTool)) /\ First(l) \in Int /\ LayerTool[l] \in Nat
  BY LayerIs, JobIs
<1>2. h \in Frames /\ t \in Frames
  BY <1>1, HeadersAre
<1>3. r \in Seq(Frames) /\ m \in Seq(Frames)
  BY <1>1, RecordsAre, LayersFromIs
<1>4. InLayer(l, First(l)) \in Seq(Frames)
  BY <1>1, InLayerIs
<1>5. LayersFrom[l] = NewLayer(l) \o m
  BY <1>1, LayersFromUnfolds
<1>6. NewLayer(l) = <<h, t>> \o r /\ InLayer(l, First(l)) = r \o m
      /\ AtTool(l) = <<t>> \o InLayer(l, First(l))
  BY DEF NewLayer, InLayer, AtTool
<1> HIDE DEF h, t, r, m
<1>7. <<h, t>> \in Seq(Frames) /\ <<h>> \in Seq(Frames) /\ <<t>> \in Seq(Frames) /\ <<h, t>> = <<h>> \o <<t>>
  <2>1. <<h, t>> \in Seq(Frames) /\ Len(<<h, t>>) = 2 /\ <<h, t>>[1] = h /\ <<h, t>>[2] = t
    BY <1>2
  <2>2. <<h>> \in Seq(Frames) /\ Len(<<h>>) = 1 /\ <<h>>[1] = h
    BY <1>2
  <2>3. <<t>> \in Seq(Frames) /\ Len(<<t>>) = 1 /\ <<t>>[1] = t
    BY <1>2
  <2> DEFINE u == <<h>> \o <<t>>
  <2>4. /\ u \in Seq(Frames) /\ Len(u) = 1 + 1
        /\ \A i \in 1 .. Len(u) : u[i] = IF i <= 1 THEN <<h>>[i] ELSE <<t>>[i - 1]
    BY <2>2, <2>3, Joined
  <2> HIDE DEF u
  <2>5. Len(u) = 2 /\ u[1] = h /\ u[2] = t
    BY <2>2, <2>3, <2>4
  <2>6. <<h, t>> = u
    BY <2>1, <2>4, <2>5, SeqEqual
  <2> QED BY <2>1, <2>2, <2>3, <2>6 DEF u
<1>8. (<<h, t>> \o r) \o m = <<h, t>> \o (r \o m)
  BY <1>3, <1>7, ConcatAssociative
<1>9. (<<h>> \o <<t>>) \o (r \o m) = <<h>> \o (<<t>> \o (r \o m))
  BY <1>4, <1>6, <1>7, ConcatAssociative
<1>10. AtTool(l) \in Seq(Frames)
  BY <1>4, <1>6, <1>7, Joined
<1>11. LayersFrom[l] = <<h>> \o AtTool(l)
  BY <1>5, <1>6, <1>7, <1>8, <1>9, Zenon
<1> QED BY <1>2, <1>4, <1>6, <1>10, <1>11 DEF h, t

LEMMA LastLayerIs == \A l : l = Len(LayerTool) + 1 => LayersFrom[l] = <<>>
<1>1. Len(LayerTool) + 1 \in 1 .. Len(LayerTool) + 1 /\ Len(LayerTool) + 1 > Len(LayerTool)
  BY JobIs
<1> QED BY <1>1, LayersFromUnfolds

LEMMA PreflightIs ==
  /\ Len(Preflight) = Len(Tools) + 1 /\ Len(Tools) \in Nat /\ Len(Tools) >= 1
  /\ Preflight[1] = JobHdr
  /\ \A i \in 1 .. Len(Tools) : Preflight[i + 1] = ToolHdr(Tools[i])
  /\ \A i \in 1 .. Len(Preflight) : FullStream[i] = Preflight[i]
  /\ Ahead(FullStream, Len(Preflight), LayersFrom[1])
<1> DEFINE q == [i \in 1 .. Len(Tools) |-> ToolHdr(Tools[i])]
<1>1. Len(Tools) \in Nat /\ Len(Tools) >= 1 /\ \A i \in 1 .. Len(Tools) : Tools[i] \in Nat
  <2>1. Tools \in Seq(Nat) /\ Tools # <<>>
    BY JobIs, JobStreamAssumption
  <2> QED BY <2>1
<1>2. q \in [1 .. Len(Tools) -> Frames] /\ \A i \in 1 .. Len(Tools) : q[i] = ToolHdr(Tools[i])
  BY <1>1, HeadersAre
<1>3. Preflight = <<JobHdr>> \o q
  BY DEF Preflight
<1> HIDE DEF q
<1>4. q \in Seq(Frames) /\ Len(q) = Len(Tools)
  BY <1>1, <1>2, Listed
<1>5. <<JobHdr>> \in Seq(Frames) /\ Len(<<JobHdr>>) = 1 /\ <<JobHdr>>[1] = JobHdr
  BY HeadersAre
<1>6. /\ Len(Preflight) = 1 + Len(Tools)
      /\ \A i \in 1 .. Len(Preflight) : Preflight[i] = IF i <= 1 THEN <<JobHdr>>[i] ELSE q[i - 1]
  BY <1>3, <1>4, <1>5, Joined
<1>7. Preflight[1] = JobHdr
  BY <1>1, <1>5, <1>6
<1>8. ASSUME NEW i \in 1 .. Len(Tools) PROVE Preflight[i + 1] = ToolHdr(Tools[i])
  <2>1. i + 1 \in 1 .. Len(Preflight) /\ ~(i + 1 <= 1) /\ (i + 1) - 1 = i
    BY <1>1, <1>6
  <2> QED BY <1>2, <1>6, <2>1
<1>9. Preflight \in Seq(Frames) /\ LayersFrom[1] \in Seq(Frames)
  BY StreamsAre, LayersFromIs, JobIs
<1>10. Ahead(FullStream, Len(Preflight), LayersFrom[1])
  BY <1>9, AheadJoined DEF FullStream
<1>11. ASSUME NEW i \in 1 .. Len(Preflight) PROVE FullStream[i] = Preflight[i]
  <2>1. i <= Len(Preflight) /\ i \in 1 .. Len(Preflight \o LayersFrom[1])
    BY <1>9, Joined
  <2> QED BY <1>9, <2>1, Joined DEF FullStream
<1> QED BY <1>1, <1>6, <1>7, <1>8, <1>10, <1>11

----------------------------------------------------------------------------
(* Core 0's job state by itself.                                           *)

(* A place in the job: a record of a layer, or the end of that layer.      *)
Good(pt) == pt.layer \in Layers /\ First(pt.layer) <= pt.record /\ pt.record <= Last(pt.layer) + 1

(* The job waits for a tool; or it was paused, and what comes next starts  *)
(* from the resume point.                                                  *)
Stops(p)   == p.ctx = "JOB" /\ p.why \in {"TOOL_CHANGE", "TOOL_WAIT"}
Dropped(p) == /\ p.ctx = "JOB"
              /\ \/ p.why = "PAUSED"
                 \/ p.why = "HOLDING" /\ p.held
                 \/ Stops(p) /\ p.backTo = "PAUSED"
Still(p)   == p.ring = <<>> /\ ~p.active /\ p.c1 = "rest"
Point0(p)  == IF p.resume # NoPoint THEN p.resume ELSE p.cur

(* At a stop nothing runs; Core 1 runs a job that is not held; a hold is   *)
(* for a job in HOLDING until the lift is done.                            *)
StopInv(p) ==
  /\ Stops(p) \/ Dropped(p) => Still(p)
  /\ p.seq => p.why = "TOOL_CHANGE" /\ ~p.tcPending /\ Still(p) /\ (p.ctx = "JOB" => p.tcStarted)
  /\ p.ctx = "JOB" /\ p.why = "TOOL_WAIT" => ~p.tcPending
  /\ p.c1 # "rest" => p.ctx = "JOB" /\ ~p.held /\ p.why \in {"RUNNING", "HOLDING"}
  /\ p.held /\ p.ctx = "JOB" => p.why = "HOLDING"

(* A tool change under way holds a layer, unless it is a paused job's.     *)
HeldInv(p) ==
  /\ p.pause => p.opened
  /\ p.tcPending => p.backTo = "BUFFERING" /\ p.heldLayer # NoPoint
  /\ Stops(p) => (p.backTo = "BUFFERING" <=> p.heldLayer # NoPoint)
  /\ p.ctx = "JOB" /\ p.why = "PREFLIGHT" => p.heldLayer = NoPoint

(* The place Core 0 counts is one of the job, and a paused job resumes no  *)
(* later than it, under the same tool.                                     *)
PointInv(p) ==
  /\ p.opened => Good(p.cur)
  /\ Dropped(p) => /\ p.opened /\ Good(Point0(p)) /\ Point0(p).layer <= p.cur.layer
                   /\ LayerTool[Point0(p).layer] = LayerTool[p.cur.layer]

(* Every record in the ring is tagged with its own layer and number, and   *)
(* that layer's tool is mounted while the job is on.                       *)
RingInv(p) ==
  /\ p.opened \/ p.ring = <<>>
  /\ \A i \in 1 .. Len(p.ring) :
       /\ Good(p.ring[i].tag) /\ p.ring[i].tag.layer <= p.cur.layer
       /\ p.ring[i].tag.record = p.ring[i].record /\ p.ring[i].record <= Last(p.ring[i].tag.layer)
       /\ p.ctx = "JOB" => p.mounted = LayerTool[p.ring[i].tag.layer]

(* The tool mounted is the open layer's, but at a stop, after a pause, and *)
(* with the next layer held over an empty ring.                            *)
MountInv(p) ==
  p.ctx = "JOB" /\ p.opened /\ ~Dropped(p) /\ ~Stops(p) /\ (p.ring # <<>> \/ p.heldLayer = NoPoint)
    => p.mounted = LayerTool[p.cur.layer]

KInv(p) == StopInv(p) /\ HeldInv(p) /\ PointInv(p) /\ RingInv(p) /\ MountInv(p)

----------------------------------------------------------------------------
(* Where the stream stands: what Core 0 takes next fits the state it is in. *)

Fresh(p) == ~p.opened /\ p.heldLayer = NoPoint /\ p.ring = <<>>
Clear(p) == ~p.held /\ ~p.tcPending /\ ~p.seq
(* Put down: a job still on was paused and waits for its layer again.      *)
PutDown(p) == p.ctx = "JOB" => Dropped(p) /\ p.why # "HOLDING"

AtPreflight(p, s, k) == s = FullStream /\ k <= Len(Preflight) /\ Fresh(p) /\ (k = 0 => Clear(p))
AtToolHdr(p, s, k) ==
  \E l \in Layers : /\ Ahead(s, k, AtTool(l)) /\ p.heldLayer = Point(l, First(l))
                    /\ IF p.opened THEN p.cur.layer = l - 1 /\ p.cur.record = First(l) ELSE l = 1
AtRecord(p, s, k) ==
  /\ p.opened /\ p.heldLayer = NoPoint
  /\ Ahead(s, k, InLayer(p.cur.layer, p.cur.record))
AtRestart(p, s, k) ==
  /\ k = 0 /\ PutDown(p)
  /\ \E pt \in Points : Good(pt) /\ s = StreamFrom(pt) /\ (p.ctx = "JOB" => Point0(p) = pt)
Parse(p, s, k) == AtPreflight(p, s, k) \/ AtToolHdr(p, s, k) \/ AtRecord(p, s, k) \/ AtRestart(p, s, k)

(* What every step but the taking of a frame does to the job state.        *)
Moves(p, q) ==
  /\ q.opened = p.opened /\ q.cur = p.cur /\ q.heldLayer = p.heldLayer
  /\ p.ring = <<>> => q.ring = <<>>
  /\ Fresh(p) /\ Clear(p) => Clear(q)
  /\ q.ctx = "JOB" => p.ctx = "JOB"
  /\ q.ctx = "JOB" /\ Dropped(p) => Dropped(q) /\ q.resume = p.resume
  /\ q.ctx = "JOB" /\ Dropped(p) /\ p.why # "HOLDING" => q.why # "HOLDING"

LEMMA MovesParse ==
  ASSUME NEW p, NEW q, NEW s, NEW k, Moves(p, q), Parse(p, s, k)
  PROVE  Parse(q, s, k)
<1>1. CASE AtPreflight(p, s, k)
  BY <1>1 DEF Moves, AtPreflight, Fresh, Parse
<1>2. CASE AtToolHdr(p, s, k)
  BY <1>2 DEF Moves, AtToolHdr, Parse
<1>3. CASE AtRecord(p, s, k)
  BY <1>3 DEF Moves, AtRecord, Parse
<1>4. CASE AtRestart(p, s, k)
  BY <1>4 DEF Moves, AtRestart, PutDown, Point0, Parse
<1> QED BY <1>1, <1>2, <1>3, <1>4 DEF Parse

(* The steps of Core 1.                                                    *)
LEMMA LandRight ==
  ASSUME NEW p, NEW q, Typed(p), KInv(p), q = LandHeld(p), p.ctx = "JOB", p.pause, ~Stops(p), ~Dropped(p)
  PROVE  KInv(q) /\ Moves(p, q)
<1>1. p.ring # <<>> => 1 \in 1 .. Len(p.ring) /\ Head(p.ring) = p.ring[1]
  <2>1. p.ring \in Seq(Blocks)
    BY DEF Typed
  <2> QED BY <2>1
<1> DEFINE r == IF p.ring = <<>> THEN NoPoint ELSE Head(p.ring).tag
<1>2. /\ PicoFields \subseteq DOMAIN p
      /\ q = [p EXCEPT !.resume = r, !.ring = <<>>, !.active = FALSE, !.tcPending = FALSE, !.why = "HOLDING",
                 !.held = TRUE, !.c1 = "rest", !.late = FALSE]
  BY DEF LandHeld, Typed
<1>r. r = IF p.ring = <<>> THEN NoPoint ELSE p.ring[1].tag
  BY <1>1
<1> HIDE DEF r
<1>3. /\ q.ring = <<>> /\ ~q.active /\ ~q.tcPending /\ q.why = "HOLDING" /\ q.held /\ q.c1 = "rest"
      /\ q.resume = IF p.ring = <<>> THEN NoPoint ELSE p.ring[1].tag
      /\ q.ctx = p.ctx /\ q.pause = p.pause /\ q.cur = p.cur /\ q.opened = p.opened
      /\ q.heldLayer = p.heldLayer /\ q.backTo = p.backTo /\ q.seq = p.seq /\ q.mounted = p.mounted
  <2>1. q.ring = <<>> /\ ~q.active /\ ~q.tcPending /\ q.why = "HOLDING" /\ q.held /\ q.c1 = "rest"
    BY <1>2 DEF PicoFields
  <2>2. q.resume = r
    BY <1>2 DEF PicoFields
  <2>3. q.ctx = p.ctx /\ q.pause = p.pause /\ q.cur = p.cur /\ q.opened = p.opened
    BY <1>2 DEF PicoFields
  <2>4. q.heldLayer = p.heldLayer /\ q.backTo = p.backTo /\ q.seq = p.seq /\ q.mounted = p.mounted
    BY <1>2 DEF PicoFields
  <2> QED BY <1>r, <2>1, <2>2, <2>3, <2>4
<1>4. Len(q.ring) = 0
  BY <1>3
<1>5. p.opened
  BY DEF KInv, HeldInv
<1>6. ~p.seq
  BY DEF KInv, StopInv, Stops
<1>7. StopInv(q)
  BY <1>3, <1>6 DEF StopInv, Stops, Dropped, Still
<1>8. HeldInv(q)
  BY <1>3, <1>5 DEF HeldInv, Stops
<1>9. Good(p.cur)
  BY <1>5 DEF KInv, PointInv
<1>10. PointInv(q)
  <2>1. CASE p.ring = <<>>
    <3>1. Point0(q) = p.cur
      BY <1>3, <2>1 DEF Point0
    <3>2. p.cur.layer \in Nat
      BY <1>9, LayerIs DEF Good
    <3> QED BY <1>3, <1>5, <1>9, <3>1, <3>2 DEF PointInv
  <2>2. CASE p.ring # <<>>
    <3>1. /\ Good(p.ring[1].tag) /\ p.ring[1].tag.layer <= p.cur.layer
          /\ p.mounted = LayerTool[p.ring[1].tag.layer]
      BY <1>1, <2>2 DEF KInv, RingInv
    <3>2. p.mounted = LayerTool[p.cur.layer]
      BY <1>5, <2>2 DEF KInv, MountInv
    <3>3. p.ring[1].tag # NoPoint
      BY <3>1, LayerIs DEF Good, NoPoint, Point
    <3>4. Point0(q) = p.ring[1].tag
      BY <1>3, <2>2, <3>3 DEF Point0
    <3> QED BY <1>3, <1>5, <1>9, <3>1, <3>2, <3>4 DEF PointInv
  <2> QED BY <2>1, <2>2
<1>11. RingInv(q)
  BY <1>3, <1>4 DEF RingInv
<1>12. MountInv(q)
  BY <1>3 DEF MountInv, Dropped
<1>13. Moves(p, q)
  BY <1>3, <1>5 DEF Moves, Fresh
<1> QED BY <1>7, <1>8, <1>10, <1>11, <1>12, <1>13 DEF KInv

LEMMA Core1Right ==
  ASSUME PicoInv, KInv(pico), Core1
  PROVE  KInv(pico') /\ Moves(pico, pico')
<1>1. PicoFields \subseteq DOMAIN pico /\ Typed(pico) /\ Running1(pico)
  BY DEF PicoInv, Typed
<1>2. Len(<<>>) = 0
  OBVIOUS
<1>3. CASE Enter
  <2>1. CASE pico.pause /\ pico' = LandHeld(pico)
    <3>1. ~Stops(pico) /\ ~Dropped(pico) /\ pico.ctx = "JOB"
      BY <1>3 DEF Enter, Stops, Dropped
    <3> QED BY <1>1, <2>1, <3>1, LandRight
  <2>2. CASE pico.ring # <<>> /\ pico' = [pico EXCEPT !.c1 = "look", !.active = TRUE, !.why = "RUNNING"]
    BY <1>1, <1>3, <2>2 DEF Enter, KInv, StopInv, HeldInv, PointInv, RingInv, MountInv, Moves, Stops, Dropped,
                            Still, Point0, Fresh, Clear, PicoFields
  <2> QED BY <1>3, <2>1, <2>2 DEF Enter
<1>4. CASE Look
  <2>1. CASE pico' = [pico EXCEPT !.why = "ABORTING", !.ring = <<>>, !.active = FALSE,
                                  !.pause = FALSE, !.abort = FALSE, !.c1 = "rest", !.late = FALSE]
    BY <1>1, <1>2, <1>4, <2>1 DEF Look, KInv, StopInv, HeldInv, PointInv, RingInv, MountInv, Moves, Stops, Dropped,
                            Still, Point0, Fresh, Clear, PicoFields
  <2>2. CASE pico' = LandHeld(pico) /\ pico.pause
    <3>1. ~Stops(pico) /\ ~Dropped(pico) /\ pico.ctx = "JOB"
      BY <1>4 DEF Look, Stops, Dropped, KInv, StopInv
    <3> QED BY <1>1, <2>2, <3>1, LandRight
  <2>3. CASE pico' = [pico EXCEPT !.c1 = "tick"]
    BY <1>1, <1>4, <2>3 DEF Look, KInv, StopInv, HeldInv, PointInv, RingInv, MountInv, Moves, Stops, Dropped,
                            Still, Point0, Fresh, Clear, PicoFields
  <2> QED BY <1>4, <2>1, <2>2, <2>3 DEF Look
<1>5. CASE FoundLate
  BY <1>1, <1>5 DEF FoundLate, KInv, StopInv, HeldInv, PointInv, RingInv, MountInv, Moves, Stops, Dropped,
                            Still, Point0, Fresh, Clear, PicoFields
<1>6. CASE Rebuffer
  BY <1>1, <1>6 DEF Rebuffer, KInv, StopInv, HeldInv, PointInv, RingInv, MountInv, Moves, Stops, Dropped,
                            Still, Point0, Fresh, Clear, PicoFields
<1>7. CASE RunRecord
  <2>1. pico.ring \in Seq(Blocks) /\ pico.ring # <<>>
    BY <1>1, <1>7 DEF RunRecord, Typed
  <2> DEFINE r == Tail(pico.ring)
  <2>2. /\ r # <<>> => pico.ring # <<>>
        /\ \A i \in 1 .. Len(r) : r[i] = pico.ring[i + 1] /\ i + 1 \in 1 .. Len(pico.ring)
    BY <2>1, Popped
  <2> HIDE DEF r
  <2>3. pico' = [pico EXCEPT !.ring = r, !.c1 = "look"]
    BY <1>7 DEF RunRecord, r
  <2>4. pico.c1 = "tick" /\ pico.ring # <<>>
    BY <1>7 DEF RunRecord
  <2> QED BY <1>1, <2>2, <2>3, <2>4 DEF KInv, StopInv, HeldInv, PointInv, RingInv, MountInv, Moves, Stops, Dropped,
                            Still, Point0, Fresh, Clear, PicoFields
<1>8. CASE LeaveDry
  BY <1>1, <1>8 DEF LeaveDry, KInv, StopInv, HeldInv, PointInv, RingInv, MountInv, Moves, Stops, Dropped,
                            Still, Point0, Fresh, Clear, PicoFields
<1>9. CASE AbortConsumed
  BY <1>1, <1>2, <1>9 DEF AbortConsumed, KInv, StopInv, HeldInv, PointInv, RingInv, MountInv, Moves, Stops, Dropped,
                            Still, Point0, Fresh, Clear, PicoFields
<1> QED BY <1>3, <1>4, <1>5, <1>6, <1>7, <1>8, <1>9 DEF Core1

(* Core 0's pass, the operator's hand and the host's commands.             *)
LEMMA Core0Right ==
  ASSUME PicoInv, KInv(pico), LandPaused \/ AbortSettle \/ ToolChangeTick \/ ToolChangeEnds \/ Mount \/ PlaceOk
  PROVE  KInv(pico') /\ Moves(pico, pico')
<1> USE DEF KInv, StopInv, HeldInv, PointInv, RingInv, MountInv, Moves, Stops, Dropped,
            Still, Point0, Fresh, Clear
<1>1. PicoFields \subseteq DOMAIN pico /\ Typed(pico) /\ Running1(pico)
  BY DEF PicoInv, Typed
<1>2. CASE LandPaused
  BY <1>1, <1>2 DEF LandPaused, Idle, PicoFields
<1>3. CASE AbortSettle
  BY <1>1, <1>3 DEF AbortSettle, Idle, Running1, PicoFields
<1>4. CASE ToolChangeTick
  <2>1. CASE pico.ctx # "JOB" /\ pico' = [pico EXCEPT !.tcPending = FALSE, !.tcActive = FALSE, !.tcStarted = FALSE]
    BY <1>1, <2>1 DEF PicoFields
  <2>2. CASE /\ pico.ctx = "JOB" /\ pico.why = "TOOL_CHANGE" /\ ~pico.tcStarted
             /\ pico' = [[pico EXCEPT !.tcStarted = TRUE, !.tcPending = FALSE] EXCEPT !.why = pico.backTo]
    <3>1. /\ pico'.ctx = pico.ctx /\ pico'.ring = pico.ring /\ pico'.active = pico.active /\ pico'.c1 = pico.c1
          /\ pico'.held = pico.held /\ pico'.pause = pico.pause /\ pico'.opened = pico.opened
          /\ pico'.cur = pico.cur /\ pico'.resume = pico.resume /\ pico'.heldLayer = pico.heldLayer
          /\ pico'.backTo = pico.backTo /\ ~pico'.tcPending /\ pico'.tcStarted
          /\ pico'.why = pico.backTo /\ pico'.seq = pico.seq /\ pico'.mounted = pico.mounted
      BY <1>1, <2>2 DEF PicoFields
    <3>2. pico.backTo \in {"BUFFERING", "PAUSED"}
      BY <1>1 DEF Typed
    <3>3. Stops(pico) /\ Still(pico) /\ ~pico.seq
      BY <2>2
    <3>4. StopInv(pico')
      BY <2>2, <3>1, <3>2, <3>3
    <3>5. HeldInv(pico')
      BY <2>2, <3>1, <3>2, <3>3
    <3>6. PointInv(pico')
      BY <2>2, <3>1, <3>2, <3>3
    <3>7. RingInv(pico')
      BY <2>2, <3>1, <3>2, <3>3
    <3>8. MountInv(pico')
      BY <2>2, <3>1, <3>2, <3>3
    <3>9. Moves(pico, pico')
      BY <2>2, <3>1, <3>2, <3>3
    <3> QED BY <3>4, <3>5, <3>6, <3>7, <3>8, <3>9
  <2>3. CASE /\ pico.ctx = "JOB" /\ pico.why = "TOOL_CHANGE" /\ ~pico.tcStarted
             /\ pico' = [[pico EXCEPT !.tcStarted = TRUE, !.tcPending = FALSE] EXCEPT !.mounted = 0, !.seq = TRUE]
    <3>1. /\ pico'.ctx = pico.ctx /\ pico'.ring = pico.ring /\ pico'.active = pico.active /\ pico'.c1 = pico.c1
          /\ pico'.held = pico.held /\ pico'.pause = pico.pause /\ pico'.opened = pico.opened
          /\ pico'.cur = pico.cur /\ pico'.resume = pico.resume /\ pico'.heldLayer = pico.heldLayer
          /\ pico'.backTo = pico.backTo /\ ~pico'.tcPending /\ pico'.tcStarted
          /\ pico'.why = pico.why /\ pico'.seq /\ pico'.mounted = 0
      BY <1>1, <2>3 DEF PicoFields
    <3>3. Stops(pico) /\ Still(pico) /\ ~pico.seq
      BY <2>3
    <3>4. StopInv(pico')
      BY <2>3, <3>1, <3>3
    <3>5. HeldInv(pico')
      BY <2>3, <3>1, <3>3
    <3>6. PointInv(pico')
      BY <2>3, <3>1, <3>3
    <3>7. RingInv(pico')
      BY <2>3, <3>1, <3>3
    <3>8. MountInv(pico')
      BY <2>3, <3>1, <3>3
    <3>10. ~Fresh(pico)
      BY <1>1, <3>3 DEF Typed
    <3>9. Moves(pico, pico')
      BY <2>3, <3>1, <3>3, <3>10
    <3> QED BY <3>4, <3>5, <3>6, <3>7, <3>8, <3>9
  <2>4. CASE /\ pico.why \notin {"TOOL_CHANGE", "TOOL_WAIT"}
             /\ pico' = [pico EXCEPT !.tcActive = FALSE, !.tcStarted = FALSE]
    BY <1>1, <2>4 DEF PicoFields
  <2> QED BY <1>4, <2>1, <2>2, <2>3, <2>4 DEF ToolChangeTick
<1>5. CASE ToolChangeEnds
  <2>1. CASE pico' = [pico EXCEPT !.seq = FALSE, !.why = "TOOL_WAIT"]
    BY <1>1, <1>5, <2>1 DEF ToolChangeEnds, PicoFields
  <2>2. CASE pico' = [JobAbort(pico) EXCEPT !.fault = TRUE]
    BY <1>1, <2>2 DEF JobAbort, PicoFields
  <2> QED BY <1>5, <2>1, <2>2 DEF ToolChangeEnds
<1>6. CASE Mount
  BY <1>1, <1>6 DEF Mount, Waiting, PicoFields
<1>7. CASE PlaceOk
  BY <1>1, <1>7 DEF PlaceOk, PicoFields
<1> QED BY <1>2, <1>3, <1>4, <1>5, <1>6, <1>7

LEMMA CommandRight ==
  ASSUME PicoInv, KInv(pico), SeqReset \/ Abort \/ CmdPause \/ CmdCancel
  PROVE  KInv(pico') /\ Moves(pico, pico')
<1> USE DEF KInv, StopInv, HeldInv, PointInv, RingInv, MountInv, Moves, Stops, Dropped,
            Still, Point0, Fresh, Clear
<1>1. PicoFields \subseteq DOMAIN pico /\ Typed(pico) /\ Running1(pico)
  BY DEF PicoInv, Typed
<1>2. Len(<<>>) = 0
  OBVIOUS
<1>3. CASE SeqReset
  BY <1>1, <1>3 DEF SeqReset, PicoFields
<1>4. CASE Abort
  BY <1>1, <1>4 DEF Abort, JobAbort, PicoFields
<1>5. CASE CmdPause
  <2> DEFINE b == pico.pause \/ (pico.ctx = "JOB" /\ pico.opened /\ pico.why \in {"BUFFERING", "RUNNING"})
  <2>1. pico' = [pico EXCEPT !.pause = b] /\ (b => pico.pause \/ pico.opened)
    BY <1>5 DEF CmdPause
  <2> HIDE DEF b
  <2>2. /\ pico'.ctx = pico.ctx /\ pico'.why = pico.why /\ pico'.held = pico.held /\ pico'.backTo = pico.backTo
        /\ pico'.ring = pico.ring /\ pico'.active = pico.active /\ pico'.c1 = pico.c1
        /\ pico'.resume = pico.resume /\ pico'.cur = pico.cur /\ pico'.seq = pico.seq
    BY <1>1, <2>1 DEF PicoFields
  <2>3. /\ pico'.tcPending = pico.tcPending /\ pico'.tcStarted = pico.tcStarted /\ pico'.abort = pico.abort
        /\ pico'.opened = pico.opened /\ pico'.heldLayer = pico.heldLayer /\ pico'.mounted = pico.mounted
        /\ pico'.pause = b
    BY <1>1, <2>1 DEF PicoFields
  <2>4. StopInv(pico')
    BY <2>2, <2>3
  <2>8. HeldInv(pico')
    BY <2>1, <2>2, <2>3
  <2>5. PointInv(pico') /\ MountInv(pico')
    BY <2>2, <2>3
  <2>6. RingInv(pico')
    BY <2>2, <2>3
  <2>7. Moves(pico, pico')
    BY <2>2, <2>3
  <2> QED BY <2>4, <2>5, <2>6, <2>7, <2>8
<1>6. CASE CmdCancel
  <2>1. CASE UNCHANGED pico
    BY <2>1
  <2>2. CASE /\ pico' = [pico EXCEPT !.ctx = "IDLE", !.ring = <<>>, !.active = FALSE,
                                     !.pause = FALSE, !.inContour = FALSE]
             /\ pico.ctx = "JOB" /\ pico.why \in {"PAUSED", "BUFFERING", "PREFLIGHT", "PLACE", "TOOL_WAIT"}
    BY <1>1, <1>2, <2>2 DEF PicoFields
  <2> QED BY <1>6, <2>1, <2>2 DEF CmdCancel, Waiting
<1> QED BY <1>3, <1>4, <1>5, <1>6

(* The next frame of the stream, and what it leaves.                       *)
Before1(p, l) == IF p.opened THEN p.cur.layer = l - 1 /\ p.cur.record = First(l) ELSE l = 1
NextJob(p, s, k)   == s = FullStream /\ k = 0 /\ Fresh(p) /\ Clear(p) /\ s[k + 1] = JobHdr
NextTool(p, s, k)  == /\ s = FullStream /\ k >= 1 /\ k < Len(Preflight) /\ Fresh(p)
                      /\ s[k + 1] = ToolHdr(Tools[k])
NextLayer(p, s, k) ==
  \E l \in Layers : /\ s[k + 1] = LayerHdr(l, First(l)) /\ Ahead(s, k + 1, AtTool(l))
                    /\ p.heldLayer = NoPoint /\ Before1(p, l)
NextLayerTool(p, s, k) ==
  \E l \in Layers : /\ s[k + 1] = ToolHdr(LayerTool[l]) /\ Ahead(s, k + 1, InLayer(l, First(l)))
                    /\ p.heldLayer = Point(l, First(l)) /\ Before1(p, l)
NextRecord(p, s, k) ==
  /\ p.opened /\ p.heldLayer = NoPoint /\ p.cur.record <= Last(p.cur.layer)
  /\ s[k + 1] = Bezier(p.cur.record) /\ Ahead(s, k + 1, InLayer(p.cur.layer, p.cur.record + 1))
NextResume(p, s, k) ==
  /\ k = 0 /\ PutDown(p)
  /\ \E pt \in Points : /\ Good(pt) /\ s = StreamFrom(pt) /\ (p.ctx = "JOB" => Point0(p) = pt)
                        /\ s[k + 1] = LayerHdr(pt.layer, pt.record)
                        /\ Ahead(s, k + 1, InLayer(pt.layer, pt.record))

LEMMA LayerNext ==
  ASSUME NEW s \in Seq(Frames), NEW k \in Nat, NEW l \in Layers, Ahead(s, k, LayersFrom[l])
  PROVE  s[k + 1] = LayerHdr(l, First(l)) /\ Ahead(s, k + 1, AtTool(l))
<1> DEFINE h == LayerHdr(l, First(l))
           t == AtTool(l)
<1>1. h \in Frames /\ t \in Seq(Frames) /\ Ahead(s, k, <<h>> \o t)
  BY AtToolIs
<1> HIDE DEF h, t
<1>2. s[k + 1] = h /\ Ahead(s, k + 1, t)
  BY <1>1, AheadNext
<1> QED BY <1>2 DEF h, t

LEMMA NextFrameIs ==
  ASSUME NEW p, Typed(p), PointInv(p), NEW s \in Seq(Frames), NEW k \in Nat, k < Len(s), Parse(p, s, k)
  PROVE  \/ NextJob(p, s, k) \/ NextTool(p, s, k) \/ NextLayer(p, s, k)
         \/ NextLayerTool(p, s, k) \/ NextRecord(p, s, k) \/ NextResume(p, s, k)
<1>1. CASE AtPreflight(p, s, k)
  <2>1. s = FullStream /\ k <= Len(Preflight) /\ Fresh(p) /\ (k = 0 => Clear(p))
    BY <1>1 DEF AtPreflight
  <2>2. CASE k = 0
    <3>1. 1 \in 1 .. Len(Preflight) /\ 0 + 1 = 1
      BY PreflightIs
    <3> QED BY <2>1, <2>2, <3>1, PreflightIs DEF NextJob
  <2>3. CASE k # 0 /\ k < Len(Preflight)
    <3>1. k >= 1 /\ k \in 1 .. Len(Tools) /\ k + 1 \in 1 .. Len(Preflight)
      BY <2>3, PreflightIs
    <3> QED BY <2>1, <2>3, <3>1, PreflightIs DEF NextTool
  <2>4. CASE k = Len(Preflight)
    <3>1. Ahead(s, k, LayersFrom[1])
      BY <2>1, <2>4, PreflightIs
    <3>2. 1 \in Layers
      <4>1. Len(LayersFrom[1]) # 0
        BY <3>1 DEF Ahead
      <4>2. Len(LayerTool) + 1 # 1
        BY <4>1, LastLayerIs
      <4> QED BY <4>2, JobIs DEF Layers
    <3>4. s[k + 1] = LayerHdr(1, First(1)) /\ Ahead(s, k + 1, AtTool(1))
      BY <3>1, <3>2, LayerNext
    <3> QED BY <2>1, <3>2, <3>4 DEF NextLayer, Fresh, Before1
  <2> QED BY <2>1, <2>2, <2>3, <2>4, PreflightIs
<1>2. CASE AtToolHdr(p, s, k)
  <2>1. PICK l \in Layers : Ahead(s, k, AtTool(l)) /\ p.heldLayer = Point(l, First(l)) /\ Before1(p, l)
    BY <1>2 DEF AtToolHdr, Before1
  <2>2. AtTool(l) = <<ToolHdr(LayerTool[l])>> \o InLayer(l, First(l))
        /\ ToolHdr(LayerTool[l]) \in Frames /\ InLayer(l, First(l)) \in Seq(Frames)
    BY AtToolIs
  <2>3. s[k + 1] = ToolHdr(LayerTool[l]) /\ Ahead(s, k + 1, InLayer(l, First(l)))
    BY <2>1, <2>2, AheadNext
  <2> QED BY <2>1, <2>3 DEF NextLayerTool
<1>3. CASE AtRecord(p, s, k)
  <2> DEFINE l == p.cur.layer
             n == p.cur.record
  <2>1. p.opened /\ p.heldLayer = NoPoint /\ Ahead(s, k, InLayer(l, n))
    BY <1>3 DEF AtRecord
  <2>2. l \in Layers /\ n \in Int /\ n <= Last(l) + 1 /\ Last(l) \in Nat
    <3>1. Good(p.cur) /\ p.cur \in Points
      BY <2>1 DEF PointInv, Typed
    <3> QED BY <3>1, LayerIs DEF Good, Points
  <2> HIDE DEF l, n
  <2>3. CASE n <= Last(l)
    <3>1. /\ InLayer(l, n) = <<Bezier(n)>> \o InLayer(l, n + 1) /\ Bezier(n) \in Frames
          /\ InLayer(l, n + 1) \in Seq(Frames)
      <4>1. n + 1 \in Int
        BY <2>2
      <4> QED BY <2>2, <2>3, <4>1, InLayerIs
    <3>2. s[k + 1] = Bezier(n) /\ Ahead(s, k + 1, InLayer(l, n + 1))
      BY <2>1, <3>1, AheadNext
    <3> QED BY <2>1, <2>3, <3>2 DEF NextRecord, l, n
  <2>4. CASE n = Last(l) + 1
    <3>1. Ahead(s, k, LayersFrom[l + 1])
      BY <2>1, <2>2, <2>4, InLayerIs
    <3>2. l + 1 \in Layers
      <4>1. Len(LayersFrom[l + 1]) # 0
        BY <3>1 DEF Ahead
      <4>2. l + 1 # Len(LayerTool) + 1
        BY <4>1, LastLayerIs
      <4> QED BY <2>2, <4>2, LayerIs, JobIs DEF Layers
    <3>3. s[k + 1] = LayerHdr(l + 1, First(l + 1)) /\ Ahead(s, k + 1, AtTool(l + 1))
      <4> DEFINE m == l + 1
      <4> HIDE DEF m
      <4>1. m \in Layers /\ Ahead(s, k, LayersFrom[m])
        BY <3>1, <3>2 DEF m
      <4>2. s[k + 1] = LayerHdr(m, First(m)) /\ Ahead(s, k + 1, AtTool(m))
        BY <4>1, LayerNext
      <4> QED BY <4>2 DEF m
    <3>4. Before1(p, l + 1)
      BY <2>1, <2>2, <2>4, LayerIs DEF Before1, l, n
    <3> QED BY <2>1, <3>2, <3>3, <3>4 DEF NextLayer
  <2> QED BY <2>2, <2>3, <2>4
<1>4. CASE AtRestart(p, s, k)
  <2>1. PICK pt \in Points : Good(pt) /\ s = StreamFrom(pt) /\ (p.ctx = "JOB" => Point0(p) = pt)
    BY <1>4 DEF AtRestart
  <2>2. k = 0 /\ PutDown(p)
    BY <1>4 DEF AtRestart
  <2> DEFINE h == LayerHdr(pt.layer, pt.record)
             r == RecordsFrom(pt.layer, pt.record)
             m == LayersFrom[pt.layer + 1]
  <2>3. pt.layer \in Layers /\ pt.record \in Int
    BY <2>1 DEF Good, Points
  <2>4. h \in Frames /\ r \in Seq(Frames) /\ m \in Seq(Frames)
    BY <2>3, HeadersAre, RecordsAre, LayersFromIs, LayerIs, JobIs
  <2>5. InLayer(pt.layer, pt.record) = r \o m /\ s = <<h>> \o r \o m
    BY <2>1 DEF InLayer, StreamFrom
  <2> HIDE DEF r, m, h
  <2>6. <<h>> \in Seq(Frames)
    BY <2>4
  <2>7. s = <<h>> \o (r \o m) /\ r \o m \in Seq(Frames)
    BY <2>4, <2>5, <2>6, ConcatAssociative, Joined
  <2>8. Ahead(s, 0, <<h>> \o (r \o m))
    BY <2>7, AheadAll
  <2>9. s[0 + 1] = h /\ Ahead(s, 0 + 1, r \o m)
    BY <2>4, <2>7, <2>8, AheadNext
  <2> QED BY <2>1, <2>2, <2>5, <2>9 DEF NextResume, h
<1> QED BY <1>1, <1>2, <1>3, <1>4 DEF Parse

----------------------------------------------------------------------------
(* What has run and what the ring holds are the job's records in order;    *)
(* the place Core 0 counts, or the resume point of a paused job, is the    *)
(* next one.  An abort that the host did not send finds the ring empty.    *)
Order(p, r) ==
  /\ r \in Seq(Int) /\ \A i \in 1 .. Len(r) : r[i] = i
  /\ \A i \in 1 .. Len(p.ring) : p.ring[i].record = Len(r) + i
  /\ ~p.opened => Len(r) = 0 /\ p.ring = <<>>
  /\ Dropped(p) => Point0(p).record = Len(r) + 1
  /\ p.ctx = "JOB" /\ p.opened /\ ~Dropped(p) => p.cur.record = Len(r) + Len(p.ring) + 1
  /\ p.abort => p.ring = <<>> /\ p.c1 = "rest"

(* A step that leaves the ring and the open layer keeps the order.         *)
LEMMA SameOrder ==
  ASSUME NEW p, NEW q, NEW r, Order(p, r), ~Dropped(q), ~Dropped(p), q.ring = p.ring, q.opened = p.opened,
         q.ctx = "JOB" => p.ctx = "JOB", q.cur = p.cur, q.abort = p.abort, q.c1 = p.c1
  PROVE  Order(q, r)
BY DEF Order

(* What Core 0 knows of a frame it takes up, feedPacket's returns passed.   *)
Passed(kind) ==
  /\ ~pico.abort /\ ~(pico.ctx = "JOB" /\ pico.why = "ABORTING")
  /\ pico.ctx = "JOB" => /\ ~pico.tcPending /\ pico.why # "TOOL_CHANGE"
                         /\ pico.why = "TOOL_WAIT" => kind \in {"layer", "tool"}
                         /\ pico.why = "PAUSED" => kind = "layer"

LEMMA PassedIs ==
  ASSUME KInv(pico), NEW m, Gate(m) = "ok"
  PROVE  Passed(m.frame.kind)
<1>1. ~m.bad /\ ~(~m.bad /\ (pico.abort \/ (pico.ctx = "JOB" /\ pico.why = "ABORTING")))
  BY DEF Gate
<1>2. /\ ~(Holding /\ ~(m.frame.kind \in {"layer", "tool"} /\ Waiting))
      /\ ~(View = "JOB" /\ pico.why = "PAUSED" /\ m.frame.kind # "layer")
  BY <1>1 DEF Gate
<1> QED BY <1>1, <1>2 DEF Holding, Waiting, View, KInv, StopInv, Passed

(* A frame refused leaves the job as it was, and preflight's failure ends it. *)
Kept(s) == /\ KInv(pico') /\ Parse(pico', s, accepted')
           /\ Order(pico, ran) => Order(pico', ran')

LEMMA RefuseRight ==
  ASSUME KInv(pico), NEW s, Parse(pico, s, accepted), NEW r, Refuse(r)
  PROVE  Kept(s)
<1>1. UNCHANGED <<pico, accepted, ran>>
  BY DEF Refuse, SendNack
<1> QED BY <1>1 DEF Kept

LEMMA FailRight ==
  ASSUME PicoInv, KInv(pico), NEW s, Parse(pico, s, accepted), NEW r, PreflightFail(r), InPreflight
  PROVE  Kept(s)
<1>1. accepted' = accepted /\ ran' = ran /\ pico' = [pico EXCEPT !.ctx = "IDLE"] /\ PicoFields \subseteq DOMAIN pico
  BY DEF PreflightFail, SendNack, PicoInv, Typed
<1>2. KInv(pico') /\ Moves(pico, pico')
  BY <1>1 DEF InPreflight, KInv, StopInv, HeldInv, PointInv, RingInv, MountInv, Moves, Stops, Dropped,
              Still, Point0, Fresh, Clear, PicoFields
<1>3. Order(pico, ran) => Order(pico', ran')
  BY <1>1 DEF Order, Dropped, Stops, PicoFields
<1> QED BY <1>1, <1>2, <1>3, MovesParse DEF Kept

LEMMA JobHdrRight ==
  ASSUME PicoInv, RxInv, KInv(pico), NEW s, Parse(pico, s, accepted), NextJob(pico, s, accepted), AcceptJobHdr
  PROVE  Kept(s)
<1>1. CASE Refuse("BAD_STATE")
  BY <1>1, RefuseRight
<1>2. CASE /\ Take /\ UNCHANGED ran /\ Idle /\ ~pico.pause
           /\ pico' = [pico EXCEPT !.ctx = "JOB", !.why = "PREFLIGHT", !.resume = NoPoint,
                                   !.cur = NoPoint, !.opened = FALSE, !.inContour = FALSE,
                                   !.preSeen = 0, !.heldLayer = NoPoint]
  <2>1. /\ s = FullStream /\ accepted = 0 /\ Fresh(pico) /\ Clear(pico) /\ accepted' = accepted + 1
        /\ PicoFields \subseteq DOMAIN pico /\ Running1(pico)
    BY <1>2 DEF NextJob, Take, PicoInv, Typed
  <2>2. /\ pico'.ctx = "JOB" /\ pico'.why = "PREFLIGHT" /\ ~pico'.opened /\ pico'.heldLayer = NoPoint
        /\ pico'.ring = <<>> /\ ~pico'.pause /\ ~pico'.held /\ ~pico'.tcPending /\ ~pico'.seq
        /\ pico'.c1 = "rest" /\ pico'.abort = pico.abort
    BY <1>2, <2>1 DEF Fresh, Clear, Idle, Running1, PicoFields
  <2>3. KInv(pico')
    BY <2>2 DEF KInv, StopInv, HeldInv, PointInv, RingInv, MountInv, Stops, Dropped
  <2>4. Parse(pico', s, accepted')
    <3>1. 1 <= Len(Preflight) /\ accepted' = 1
      BY <2>1, PreflightIs
    <3> QED BY <2>1, <2>2, <3>1 DEF Parse, AtPreflight, Fresh
  <2>5. Order(pico, ran) => Order(pico', ran')
    BY <1>2, <2>1, <2>2 DEF Order, Dropped, Stops, Fresh
  <2> QED BY <2>3, <2>4, <2>5 DEF Kept
<1> QED BY <1>1, <1>2 DEF AcceptJobHdr

LEMMA PreToolRight ==
  ASSUME PicoInv, RxInv, KInv(pico), NEW s, Parse(pico, s, accepted), NextTool(pico, s, accepted),
         NEW t, AcceptToolHdr(t)
  PROVE  Kept(s)
<1>1. s = FullStream /\ accepted >= 1 /\ accepted < Len(Preflight) /\ Fresh(pico) /\ accepted \in Nat
  BY DEF NextTool, RxInv
<1>2. CASE Refuse("PAUSED") \/ Refuse("JOB")
  BY <1>2, RefuseRight
<1>3. CASE PreflightTool(t) /\ InPreflight
  <2>1. CASE PreflightFail("JOB")
    BY <1>3, <2>1, FailRight
  <2>2. CASE /\ Take /\ UNCHANGED ran
             /\ pico' = [pico EXCEPT !.preSeen = @ + 1,
                                     !.why = IF pico.preSeen + 1 = Len(Tools) THEN "PLACE" ELSE @]
    <3>1. /\ accepted' = accepted + 1 /\ PicoFields \subseteq DOMAIN pico
      BY <2>2 DEF Take, PicoInv, Typed
    <3>2. KInv(pico') /\ Fresh(pico')
      BY <1>1, <1>3, <2>2, <3>1 DEF InPreflight, KInv, StopInv, HeldInv, PointInv, RingInv, MountInv, Stops, Dropped,
                   Still, Point0, Fresh, PicoFields
    <3>3. Parse(pico', s, accepted')
      <4>1. accepted' <= Len(Preflight) /\ accepted' # 0
        BY <1>1, <3>1, PreflightIs
      <4> QED BY <1>1, <3>2, <4>1 DEF Parse, AtPreflight
    <3>4. Order(pico, ran) => Order(pico', ran')
      BY <1>1, <1>3, <2>2, <3>1 DEF InPreflight, Order, Dropped, Stops, Fresh, PicoFields
    <3> QED BY <3>2, <3>3, <3>4 DEF Kept
  <2> QED BY <1>3, <2>1, <2>2 DEF PreflightTool
<1>4. CASE LayerToolHdr(t)
  BY <1>1, <1>4, RefuseRight DEF LayerToolHdr, Fresh
<1> QED BY <1>2, <1>3, <1>4 DEF AcceptToolHdr

(* The tool header of a layer held: refused, it leaves the wait for a tool, *)
(* it begins one, or it opens its layer.                                    *)
LEMMA LayerToolRight ==
  ASSUME PicoInv, RxInv, KInv(pico), NEW s, Parse(pico, s, accepted), NEW l \in Layers,
         Ahead(s, accepted + 1, InLayer(l, First(l))), pico.heldLayer = Point(l, First(l)), Before1(pico, l),
         Passed("tool"), ~pico.pause, pico.ctx = "JOB", ~InPreflight,
         TakeLayer(pico, pico.heldLayer, LayerTool[l])
  PROVE  Kept(s)
<1> DEFINE w == IF Waiting THEN pico.backTo ELSE pico.why
           check == LayerCheck(w, pico.heldLayer)
           t == LayerTool[l]
<1>1. /\ PicoFields \subseteq DOMAIN pico /\ Running1(pico) /\ Typed(pico)
      /\ pico.backTo \in {"BUFFERING", "PAUSED"}
  BY DEF PicoInv, Typed
<1>2. l \in Nat /\ l >= 1 /\ pico.heldLayer # NoPoint
  BY LayerIs DEF Point, NoPoint
<1>3. w # "PAUSED" /\ (Waiting => w = "BUFFERING" /\ Still(pico) /\ ~Dropped(pico))
  BY <1>1, <1>2 DEF Passed, Waiting, KInv, StopInv, HeldInv, Stops, Dropped
<1>4. ~pico.tcPending /\ pico.why # "TOOL_CHANGE" /\ ~pico.seq
  BY DEF Passed, KInv, StopInv
<1>5. (~Dropped(pico) /\ ~pico.held) \/ (w = "HOLDING" /\ ~Waiting)
  BY <1>3, <1>4 DEF Waiting, Dropped, Stops, KInv, StopInv
<1>6. CASE pico' = pico /\ SendNack("TOOL_CHANGE") /\ UNCHANGED ran
  BY <1>6, RefuseRight DEF Refuse
<1>7. CASE SendNack(check) /\ pico' = [pico EXCEPT !.why = w] /\ UNCHANGED ran
  <2>1. accepted' = accepted
    BY <1>7 DEF SendNack
  <2>2. CASE ~Waiting
    <3>1. pico' = [pico EXCEPT !.why = pico.why] /\ pico' = [pico EXCEPT !.why = @]
      BY <1>7, <2>2
    <3>2. KInv(pico') /\ Moves(pico, pico')
      BY <1>1, <3>1 DEF KInv, StopInv, HeldInv, PointInv, RingInv, MountInv, Moves, Stops, Dropped,
                   Still, Point0, Fresh, Clear, PicoFields
    <3>3. Order(pico, ran) => Order(pico', ran')
      BY <1>1, <1>7, <3>1 DEF Order, Dropped, Stops, Point0, PicoFields
    <3> QED BY <2>1, <3>2, <3>3, MovesParse DEF Kept
  <2>3. CASE Waiting
    <3>1. pico' = [pico EXCEPT !.why = "BUFFERING"] /\ Still(pico) /\ ~Dropped(pico) /\ Stops(pico)
      BY <1>3, <1>7, <2>3 DEF Waiting, Stops
    <3>2. KInv(pico') /\ Moves(pico, pico')
      BY <1>1, <1>2, <1>4, <3>1 DEF KInv, StopInv, HeldInv, PointInv, RingInv, MountInv, Moves, Stops, Dropped,
                   Still, Point0, Fresh, Clear, PicoFields
    <3>3. Order(pico, ran) => Order(pico', ran')
      BY <1>1, <1>7, <3>1 DEF Order, Dropped, Stops, PicoFields
    <3> QED BY <2>1, <3>2, <3>3, MovesParse DEF Kept
  <2> QED BY <2>2, <2>3
<1>8. CASE /\ SendNack("TOOL_CHANGE") /\ pico' = HoldForTool(pico, w, t) /\ UNCHANGED ran
           /\ ~Waiting /\ check = "ok"
  <2>1. accepted' = accepted
    BY <1>8 DEF SendNack
  <2>2. w = pico.why /\ w \in {"BUFFERING", "RUNNING"}
    BY <1>3, <1>8 DEF LayerCheck, Admits
  <2> DEFINE now == w = "BUFFERING" /\ Idle
  <2>3. /\ pico' = [pico EXCEPT !.why = IF now THEN "TOOL_CHANGE" ELSE w, !.tcPending = @ \/ ~now,
                      !.tcActive = TRUE, !.tcStarted = FALSE, !.want = t, !.backTo = "BUFFERING"]
    BY <1>3, <1>8 DEF HoldForTool
  <2>4. CASE now
    <3>1. Still(pico)
      BY <1>1, <2>4 DEF Idle, Still, Running1
    <3>2. /\ pico'.why = "TOOL_CHANGE" /\ ~pico'.tcPending /\ pico'.backTo = "BUFFERING" /\ pico'.ctx = "JOB"
          /\ pico'.ring = pico.ring /\ pico'.active = pico.active /\ pico'.c1 = pico.c1 /\ pico'.held = pico.held
          /\ pico'.pause = pico.pause /\ pico'.opened = pico.opened /\ pico'.cur = pico.cur
          /\ pico'.resume = pico.resume /\ pico'.heldLayer = pico.heldLayer /\ pico'.seq = pico.seq
          /\ pico'.mounted = pico.mounted /\ pico'.abort = pico.abort
      BY <1>1, <1>4, <2>3, <2>4 DEF PicoFields
    <3>3. KInv(pico') /\ Moves(pico, pico')
      BY <1>2, <1>4, <2>2, <3>1, <3>2 DEF KInv, StopInv, HeldInv, PointInv, RingInv, MountInv, Moves, Stops, Dropped,
                   Still, Point0, Fresh, Clear
    <3>4. Order(pico, ran) => Order(pico', ran')
      BY <1>8, <2>2, <3>2 DEF Order, Dropped, Stops
    <3> QED BY <2>1, <3>3, <3>4, MovesParse DEF Kept
  <2>5. CASE ~now
    <3>2. /\ pico'.why = pico.why /\ pico'.tcPending /\ pico'.backTo = "BUFFERING" /\ pico'.ctx = "JOB"
          /\ pico'.ring = pico.ring /\ pico'.active = pico.active /\ pico'.c1 = pico.c1 /\ pico'.held = pico.held
          /\ pico'.pause = pico.pause /\ pico'.opened = pico.opened /\ pico'.cur = pico.cur
          /\ pico'.resume = pico.resume /\ pico'.heldLayer = pico.heldLayer /\ pico'.seq = pico.seq
          /\ pico'.mounted = pico.mounted /\ pico'.abort = pico.abort
      BY <1>1, <1>4, <2>2, <2>3, <2>5 DEF PicoFields
    <3>3. KInv(pico') /\ Moves(pico, pico')
      BY <1>2, <1>4, <2>2, <3>2 DEF KInv, StopInv, HeldInv, PointInv, RingInv, MountInv, Moves, Stops, Dropped,
                   Still, Point0, Fresh, Clear
    <3>4. Order(pico, ran) => Order(pico', ran')
      <4>1. ~Dropped(pico) /\ ~Dropped(pico')
        BY <2>2, <3>2 DEF Dropped, Stops
      <4>2. ran' = ran
        BY <1>8
      <4> QED BY <3>2, <4>1, <4>2, SameOrder
    <3> QED BY <2>1, <3>3, <3>4, MovesParse DEF Kept
  <2> QED BY <2>4, <2>5
<1>9. CASE Take /\ pico' = OpenLayer(pico, w, pico.heldLayer) /\ UNCHANGED ran /\ check = "ok" /\ pico.mounted = t
  <2>1. accepted' = accepted + 1 /\ accepted \in Nat
    BY <1>9 DEF Take, RxInv
  <2>2. w \in {"BUFFERING", "RUNNING"}
    BY <1>3, <1>9 DEF LayerCheck, Admits
  <2>3. pico' = [pico EXCEPT !.why = w, !.resume = pico.resume, !.inContour = FALSE, !.opened = TRUE,
                             !.first = TRUE, !.heldLayer = NoPoint, !.cur = Point(l, First(l))]
    <3>1. pico' = OpenLayer(pico, w, Point(l, First(l))) /\ w # "PAUSED"
      BY <1>3, <1>9
    <3> HIDE DEF w
    <3> QED BY <3>1 DEF OpenLayer
  <2>4. ~pico.held /\ ~Dropped(pico) /\ (Stops(pico) => Still(pico))
    BY <1>3, <1>4, <2>2 DEF Waiting, KInv, StopInv, Stops, Dropped
  <2> HIDE DEF w
  <2>5. /\ pico'.why = w /\ pico'.opened /\ pico'.heldLayer = NoPoint /\ pico'.cur = Point(l, First(l))
        /\ pico'.ctx = "JOB" /\ pico'.tcPending = pico.tcPending /\ pico'.backTo = pico.backTo
        /\ pico'.ring = pico.ring /\ pico'.active = pico.active /\ pico'.c1 = pico.c1 /\ pico'.held = pico.held
        /\ pico'.pause = pico.pause /\ pico'.seq = pico.seq /\ pico'.mounted = t /\ pico'.abort = pico.abort
    BY <1>1, <1>9, <2>3 DEF PicoFields
  <2>6. Point(l, First(l)).layer = l /\ Point(l, First(l)).record = First(l) /\ Good(Point(l, First(l)))
    BY LayerIs DEF Point, Good
  <2>7. ~Dropped(pico') /\ ~Stops(pico')
    BY <2>2, <2>4, <2>5 DEF Dropped, Stops
  <2>8. StopInv(pico') /\ HeldInv(pico') /\ PointInv(pico') /\ MountInv(pico')
    <3>1. StopInv(pico')
      <4>1. pico.c1 # "rest" => w \in {"RUNNING", "HOLDING"}
        BY <1>3, <1>4, <2>2 DEF w, Waiting, KInv, StopInv, Still
      <4> QED BY <1>4, <2>2, <2>4, <2>5, <2>7, <4>1 DEF KInv, StopInv, Dropped, Stops
    <3>2. HeldInv(pico')
      BY <1>4, <2>2, <2>5, <2>7 DEF HeldInv
    <3>3. PointInv(pico')
      BY <2>5, <2>6, <2>7 DEF PointInv
    <3>4. MountInv(pico')
      BY <2>5, <2>6, <1>9 DEF MountInv
    <3> QED BY <3>1, <3>2, <3>3, <3>4
  <2>9. RingInv(pico')
    <3>1. CASE pico.ring = <<>>
      <4>1. Len(pico'.ring) = 0
        BY <2>5, <3>1
      <4> QED BY <2>5, <4>1 DEF RingInv
    <3>2. CASE pico.ring # <<>>
      <4>1. pico.opened /\ pico.cur.layer = l - 1
        BY <3>2 DEF KInv, RingInv, Before1
      <4>2. ASSUME NEW i \in 1 .. Len(pico.ring) PROVE pico.ring[i].tag.layer <= l
        <5>2. pico.ring[i].tag.layer <= pico.cur.layer /\ pico.ring[i].tag.layer \in Layers
          BY DEF KInv, RingInv, Good
        <5>1. pico.ring[i].tag.layer <= l - 1 /\ pico.ring[i].tag.layer \in Nat
          BY <4>1, <5>2, LayerIs
        <5> QED BY <1>2, <5>1
      <4> QED BY <1>9, <2>5, <2>6, <4>2 DEF KInv, RingInv
    <3> QED BY <3>1, <3>2
  <2>10. Parse(pico', s, accepted')
    BY <2>1, <2>5, <2>6 DEF Parse, AtRecord
  <2>11. ASSUME Order(pico, ran) PROVE Order(pico', ran')
    <3>1. pico.opened => pico.cur.record = Len(ran) + Len(pico.ring) + 1 /\ pico.cur.record = First(l)
      BY <2>4, <2>11 DEF Order, Before1
    <3>2. ~pico.opened => Len(ran) = 0 /\ pico.ring = <<>> /\ Len(<<>>) = 0 /\ First(l) = 1
      BY <2>11, LayerIs DEF Order, Before1
    <3>3. First(l) = Len(ran) + Len(pico.ring) + 1
      BY <3>1, <3>2
    <3>4. ran' = ran
      BY <1>9
    <3>5. ~Dropped(pico')
      BY <2>2, <2>5 DEF Dropped, Stops
    <3>6. pico'.cur.record = Len(ran) + Len(pico.ring) + 1
      BY <2>5, <2>6, <3>3
    <3>7. /\ ran \in Seq(Int) /\ (\A i \in 1 .. Len(ran) : ran[i] = i)
          /\ \A i \in 1 .. Len(pico.ring) : pico.ring[i].record = Len(ran) + i
          /\ pico.abort => pico.ring = <<>> /\ pico.c1 = "rest"
      BY <2>11 DEF Order
    <3> QED BY <2>5, <3>4, <3>5, <3>6, <3>7 DEF Order
  <2> QED BY <2>8, <2>9, <2>10, <2>11 DEF Kept, KInv
<1> QED BY <1>6, <1>7, <1>8, <1>9 DEF TakeLayer, Ready

(* The header of the next layer: held for its tool header; on a stop or    *)
(* after a pause it is not the layer awaited, and refused.                 *)
LEMMA LayerRight ==
  ASSUME PicoInv, RxInv, KInv(pico), NEW s, Parse(pico, s, accepted), NEW l \in Layers,
         Ahead(s, accepted + 1, AtTool(l)), pico.heldLayer = NoPoint, Before1(pico, l),
         Passed("layer"), AcceptLayer(Point(l, First(l)))
  PROVE  Kept(s)
<1> DEFINE at == Point(l, First(l))
           p == [pico EXCEPT !.heldLayer = NoPoint]
           w == IF Waiting THEN pico.backTo ELSE pico.why
           check == LayerCheck(w, at)
<1>1. /\ PicoFields \subseteq DOMAIN pico /\ Running1(pico) /\ Typed(pico)
      /\ pico.backTo \in {"BUFFERING", "PAUSED"}
  BY DEF PicoInv, Typed
<1>2. at.layer = l /\ l \in Nat /\ l >= 1 /\ at # NoPoint
  BY LayerIs DEF Point, NoPoint
<1>3. CASE Refuse("PAUSED") \/ Refuse("JOB")
  BY <1>3, RefuseRight
<1>4. CASE PreflightFail("JOB") /\ InPreflight
  BY <1>4, FailRight
<1>5. CASE TakeLayer(p, at, CurTool) /\ ~pico.pause /\ pico.ctx = "JOB" /\ (pico.why = "PAUSED" \/ Waiting)
  <2>1. w = "PAUSED" /\ Dropped(pico)
    BY <1>1, <1>5 DEF Waiting, KInv, HeldInv, Dropped, Stops
  <2>2. at # ResumePoint
    <3>1. Point0(pico).layer <= pico.cur.layer /\ Good(Point0(pico)) /\ pico.opened
      BY <2>1 DEF KInv, PointInv
    <3>2. pico.cur.layer = l - 1 /\ Point0(pico).layer \in Nat
      BY <3>1, LayerIs DEF Before1, Good
    <3>3. Point0(pico).layer # l
      BY <1>2, <3>1, <3>2
    <3> QED BY <1>2, <3>3 DEF Point0, ResumePoint
  <2>3. check = "JOB"
    BY <2>1, <2>2 DEF LayerCheck
  <2>4. \/ pico' = p
        \/ pico' = [p EXCEPT !.why = "PAUSED"]
    <3> HIDE DEF p, at
    <3> QED BY <1>5, <2>1, <2>3 DEF TakeLayer
  <2>5. SendNack("TOOL_CHANGE") \/ SendNack("JOB")
    BY <1>5, <2>3 DEF TakeLayer
  <2>6. ran' = ran /\ accepted' = accepted
    BY <1>5, <2>5 DEF TakeLayer, SendNack
  <2>7. /\ pico'.why \in {pico.why, "PAUSED"} /\ pico'.ctx = pico.ctx /\ pico'.heldLayer = pico.heldLayer
        /\ pico'.tcPending = pico.tcPending /\ pico'.tcStarted = pico.tcStarted
        /\ pico'.backTo = pico.backTo /\ pico'.ring = pico.ring /\ pico'.active = pico.active
        /\ pico'.c1 = pico.c1 /\ pico'.held = pico.held /\ pico'.pause = pico.pause /\ pico'.seq = pico.seq
        /\ pico'.mounted = pico.mounted /\ pico'.abort = pico.abort /\ pico'.opened = pico.opened
        /\ pico'.cur = pico.cur /\ pico'.resume = pico.resume
    BY <1>1, <2>4 DEF PicoFields
  <2>8. Still(pico) /\ ~pico.seq /\ ~pico.held /\ pico.why # "HOLDING"
    BY <1>5, <2>1 DEF Waiting, KInv, StopInv
  <2>9. KInv(pico') /\ Moves(pico, pico')
    BY <2>1, <2>7, <2>8 DEF KInv, StopInv, HeldInv, PointInv, RingInv, MountInv, Moves, Stops, Dropped,
                   Still, Point0, Fresh, Clear
  <2>10. Order(pico, ran) => Order(pico', ran')
    BY <2>1, <2>6, <2>7 DEF Order, Dropped, Stops, Point0
  <2> QED BY <2>6, <2>9, <2>10, MovesParse DEF Kept
<1>6. CASE /\ pico' = [pico EXCEPT !.heldLayer = at] /\ Take /\ UNCHANGED ran
           /\ pico.ctx = "JOB" /\ ~InPreflight /\ pico.why # "PAUSED" /\ ~Waiting
  <2>1. accepted' = accepted + 1
    BY <1>6 DEF Take
  <2> HIDE DEF at
  <2>2. ~Stops(pico) /\ pico.why # "PREFLIGHT"
    BY <1>6 DEF Stops, Passed, Waiting, InPreflight
  <2>3. KInv(pico')
    BY <1>1, <1>2, <1>6, <2>2 DEF KInv, StopInv, HeldInv, PointInv, RingInv, MountInv, Stops, Dropped,
                   Still, Point0, PicoFields
  <2>4. Parse(pico', s, accepted')
    <3>1. pico'.heldLayer = Point(l, First(l)) /\ pico'.opened = pico.opened /\ pico'.cur = pico.cur
      BY <1>1, <1>6 DEF at, PicoFields
    <3> QED BY <2>1, <3>1 DEF Parse, AtToolHdr, Before1
  <2>5. Order(pico, ran) => Order(pico', ran')
    BY <1>1, <1>6 DEF Order, Dropped, Stops, Point0, PicoFields
  <2> QED BY <2>3, <2>4, <2>5 DEF Kept
<1> QED BY <1>3, <1>4, <1>5, <1>6 DEF AcceptLayer

(* The next record of the open layer: it is the one Core 0 counts.         *)
LEMMA RecordRight ==
  ASSUME PicoInv, RxInv, KInv(pico), NEW s, Parse(pico, s, accepted), NextRecord(pico, s, accepted),
         Passed("bezier"), AcceptBezier(pico.cur.record)
  PROVE  Kept(s)
<1> DEFINE n == pico.cur.record
<1>1. /\ PicoFields \subseteq DOMAIN pico /\ Running1(pico) /\ Typed(pico)
      /\ pico.cur \in Points /\ pico.ring \in Seq(Blocks) /\ n \in Int
  BY DEF PicoInv, Typed, Points
<1>2. CASE Refuse("PAUSED") \/ Refuse("JOB")
  BY <1>2, RefuseRight
<1>3. CASE PreflightFail("JOB") /\ InPreflight
  BY <1>3, FailRight
<1>4. CASE Refuse(RecordRefusal(n))
  BY <1>4, RefuseRight
<1>5. CASE /\ pico.ctx = "JOB" /\ pico.heldLayer = NoPoint /\ pico.opened /\ RecordRefusal(n) = "ok"
           /\ Take /\ UNCHANGED ran
           /\ pico' = [pico EXCEPT !.ring = Append(@, [record |-> n, tag |-> pico.cur]),
                                   !.cur.record = @ + 1, !.first = FALSE, !.endAt = n,
                                   !.inContour = n # Last(LayerOf(n))]
  <2> DEFINE b == [record |-> n, tag |-> pico.cur]
             r == Append(pico.ring, b)
             c == [pico.cur EXCEPT !.record = @ + 1]
             e == n # Last(LayerOf(n))
  <2>1. Admits(pico.why)
    BY <1>5 DEF RecordRefusal
  <2>2. pico.why \in {"BUFFERING", "RUNNING"} /\ ~pico.pause /\ ~pico.abort /\ ~Dropped(pico) /\ ~Stops(pico)
        /\ ~pico.held
    BY <1>5, <2>1 DEF Admits, Dropped, Stops, KInv, StopInv
  <2>3. b.record = n /\ b.tag = pico.cur /\ b \in Blocks
    BY <1>1 DEF Blocks
  <2>4. c.layer = pico.cur.layer /\ c.record = n + 1
    BY <1>1 DEF Points
  <2>5. Good(pico.cur) /\ n <= Last(pico.cur.layer) /\ pico.mounted = LayerTool[pico.cur.layer]
        /\ pico.cur.layer \in Nat /\ Last(pico.cur.layer) \in Nat
    BY <1>5, <2>2, LayerIs DEF NextRecord, KInv, PointInv, MountInv, Good
  <2> HIDE DEF b
  <2>6. /\ Len(r) = Len(pico.ring) + 1 /\ \A i \in 1 .. Len(pico.ring) : r[i] = pico.ring[i]
        /\ r[Len(pico.ring) + 1] = b /\ Len(pico.ring) \in Nat
    BY <1>1, <2>3, Appended
  <2> HIDE DEF r, c, e
  <2>7. pico' = [pico EXCEPT !.ring = r, !.cur = c, !.first = FALSE, !.endAt = n, !.inContour = e]
    BY <1>5 DEF b, r, c, e
  <2>8. /\ pico'.why = pico.why /\ pico'.ctx = "JOB" /\ pico'.heldLayer = NoPoint
        /\ pico'.tcPending = pico.tcPending /\ pico'.tcStarted = pico.tcStarted
        /\ pico'.backTo = pico.backTo /\ pico'.ring = r /\ pico'.active = pico.active
        /\ pico'.c1 = pico.c1 /\ pico'.held = pico.held /\ pico'.pause = pico.pause /\ pico'.seq = pico.seq
        /\ pico'.mounted = pico.mounted /\ pico'.abort = pico.abort /\ pico'.opened
        /\ pico'.cur = c /\ pico'.resume = pico.resume
    BY <1>1, <1>5, <2>7 DEF PicoFields
  <2>9. ~Dropped(pico') /\ ~Stops(pico')
    BY <2>2, <2>8 DEF Dropped, Stops
  <2>10. Good(c)
    BY <1>1, <2>4, <2>5, LayerIs DEF Good
  <2>11. StopInv(pico') /\ HeldInv(pico')
    BY <1>5, <2>2, <2>8, <2>9 DEF KInv, StopInv, HeldInv
  <2>12. PointInv(pico') /\ MountInv(pico')
    BY <2>4, <2>5, <2>8, <2>9, <2>10 DEF PointInv, MountInv
  <2>13. RingInv(pico')
    <3>1. ASSUME NEW i \in 1 .. Len(r)
          PROVE  /\ Good(r[i].tag) /\ r[i].tag.layer <= c.layer /\ r[i].tag.record = r[i].record
                 /\ r[i].record <= Last(r[i].tag.layer) /\ pico.mounted = LayerTool[r[i].tag.layer]
      <4>1. CASE i \in 1 .. Len(pico.ring)
        BY <1>5, <2>4, <2>6, <4>1 DEF KInv, RingInv
      <4>2. CASE i = Len(pico.ring) + 1
        BY <2>3, <2>4, <2>5, <2>6, <4>2
      <4> QED BY <2>6, <4>1, <4>2
    <3> QED BY <2>8, <3>1 DEF RingInv
  <2>14. Parse(pico', s, accepted')
    <3>1. accepted' = accepted + 1 /\ Ahead(s, accepted + 1, InLayer(pico.cur.layer, n + 1))
      BY <1>5 DEF Take, NextRecord
    <3> QED BY <2>4, <2>8, <3>1 DEF Parse, AtRecord
  <2>15. ASSUME Order(pico, ran) PROVE Order(pico', ran')
    <3>1. n = Len(ran) + Len(pico.ring) + 1
      BY <1>5, <2>2, <2>15 DEF Order
    <3>2. \A i \in 1 .. Len(r) : r[i].record = Len(ran) + i
      <4>1. ASSUME NEW i \in 1 .. Len(r) PROVE r[i].record = Len(ran) + i
        <5>1. CASE i \in 1 .. Len(pico.ring)
          BY <2>6, <2>15, <5>1 DEF Order
        <5>2. CASE i = Len(pico.ring) + 1
          <6>1. r[i].record = n
            BY <2>3, <2>6, <5>2
          <6>2. Len(ran) \in Nat /\ Len(pico.ring) \in Nat
            BY <1>1, <2>15 DEF Order
          <6> QED BY <3>1, <5>2, <6>1, <6>2
        <5> QED BY <2>6, <5>1, <5>2
      <4> QED BY <4>1
    <3>3. n + 1 = Len(ran) + Len(r) + 1
      <4>1. Len(ran) \in Nat /\ Len(pico.ring) \in Nat
        BY <1>1, <2>15 DEF Order
      <4> QED BY <2>6, <3>1, <4>1
    <3>4. ran' = ran
      BY <1>5
    <3> QED BY <2>2, <2>4, <2>8, <2>9, <2>15, <3>2, <3>3, <3>4 DEF Order
  <2> QED BY <2>11, <2>12, <2>13, <2>14, <2>15 DEF Kept, KInv
<1> QED BY <1>2, <1>3, <1>4, <1>5 DEF AcceptBezier

(* The header a paused job resumes with: it names the resume point, so the *)
(* layer opens under its own tool, or the job holds for it.                *)
LEMMA ResumeRight ==
  ASSUME PicoInv, RxInv, KInv(pico), NEW s, Parse(pico, s, accepted), accepted = 0, PutDown(pico),
         NEW pt \in Points, Good(pt), s = StreamFrom(pt), pico.ctx = "JOB" => Point0(pico) = pt,
         Ahead(s, accepted + 1, InLayer(pt.layer, pt.record)),
         Passed("layer"), AcceptLayer(Point(pt.layer, pt.record))
  PROVE  Kept(s)
<1> DEFINE p == [pico EXCEPT !.heldLayer = NoPoint]
           t == CurTool
<1>1. /\ PicoFields \subseteq DOMAIN pico /\ Running1(pico) /\ Typed(pico)
  BY DEF PicoInv, Typed
<1>2. Point(pt.layer, pt.record) = pt
  BY DEF Point, Points
<1>3. CASE Refuse("PAUSED") \/ Refuse("JOB")
  BY <1>3, RefuseRight
<1>4. CASE PreflightFail("JOB") /\ InPreflight
  BY <1>4, FailRight
<1>5. CASE pico.ctx = "JOB" /\ pico.why # "PAUSED" /\ ~(Waiting /\ pico.heldLayer = NoPoint)
  <2>1. Stops(pico) /\ pico.why = "TOOL_WAIT" /\ pico.backTo = "PAUSED"
    BY <1>5 DEF PutDown, Dropped, Stops, Passed
  <2>2. pico.heldLayer = NoPoint
    BY <2>1 DEF KInv, HeldInv
  <2> QED BY <1>5, <2>1, <2>2 DEF Waiting
<1>6. CASE TakeLayer(p, pt, t) /\ pico.ctx = "JOB" /\ (pico.why = "PAUSED" \/ Waiting) /\ ~pico.pause
  <2> DEFINE w == IF Waiting THEN pico.backTo ELSE pico.why
  <2>1. w = "PAUSED" /\ Dropped(pico) /\ Still(pico) /\ ~pico.held /\ ~pico.seq /\ ~pico.tcPending
    BY <1>6 DEF PutDown, Waiting, KInv, StopInv, Dropped, Stops, Passed
  <2>2. pico.opened /\ Good(pico.cur) /\ Point0(pico) = pt /\ LayerTool[pt.layer] = LayerTool[pico.cur.layer]
    BY <1>6, <2>1 DEF KInv, PointInv
  <2>3. LayerCheck("PAUSED", pt) = "ok"
    BY <2>2 DEF LayerCheck, ResumePoint, Point0
  <2>4. t = LayerTool[pt.layer]
    <3>1. pico.cur # NoPoint
      BY <2>2, LayerIs DEF Good, NoPoint, Point
    <3> QED BY <2>2, <3>1 DEF CurTool
  <2>5. pt.layer \in Layers /\ pt.layer <= pt.layer
    BY LayerIs DEF Good
  <2> HIDE DEF p, t
  <2>6. \/ pico' = p /\ SendNack("TOOL_CHANGE") /\ UNCHANGED ran
        \/ SendNack("TOOL_CHANGE") /\ pico' = HoldForTool(p, "PAUSED", t) /\ UNCHANGED ran
        \/ pico' = OpenLayer(p, "PAUSED", pt) /\ Take /\ UNCHANGED ran /\ pico.mounted = t
    BY <1>6, <2>1, <2>3 DEF TakeLayer, Ready
  <2>7. CASE \/ pico' = p /\ SendNack("TOOL_CHANGE") /\ UNCHANGED ran
             \/ SendNack("TOOL_CHANGE") /\ pico' = HoldForTool(p, "PAUSED", t) /\ UNCHANGED ran
    <3>1. accepted' = accepted /\ ran' = ran
      BY <2>7 DEF SendNack
    <3>2. /\ \/ pico'.why = pico.why /\ pico'.backTo = pico.backTo
             \/ pico'.why = "TOOL_CHANGE" /\ pico'.backTo = "PAUSED"
          /\ pico'.ctx = pico.ctx /\ pico'.heldLayer = NoPoint
          /\ pico'.tcPending = pico.tcPending
          /\ pico'.ring = pico.ring /\ pico'.active = pico.active
          /\ pico'.c1 = pico.c1 /\ pico'.held = pico.held /\ pico'.pause = pico.pause /\ pico'.seq = pico.seq
          /\ pico'.mounted = pico.mounted /\ pico'.abort = pico.abort /\ pico'.opened = pico.opened
          /\ pico'.cur = pico.cur /\ pico'.resume = pico.resume
      <4>1. CASE pico' = p
        BY <1>1, <4>1 DEF p, PicoFields
      <4>2. CASE pico' = HoldForTool(p, "PAUSED", t)
        <5>1. p = [pico EXCEPT !.heldLayer = NoPoint] /\ PicoFields \subseteq DOMAIN p
          BY <1>1 DEF p
        <5>2. pico' = [p EXCEPT !.why = "TOOL_CHANGE", !.tcPending = @ \/ ~TRUE,
                         !.tcActive = TRUE, !.tcStarted = FALSE, !.want = t, !.backTo = "PAUSED"]
          BY <4>2 DEF HoldForTool
        <5>3. p.tcPending = FALSE
          BY <1>1, <2>1, <5>1 DEF PicoFields
        <5> QED BY <1>1, <2>1, <5>1, <5>2, <5>3 DEF PicoFields
      <4> QED BY <2>7, <4>1, <4>2
    <3>3. Dropped(pico') /\ Still(pico') /\ Point0(pico') = pt /\ pico'.why # "HOLDING"
          /\ (Stops(pico') => pico'.backTo = "PAUSED") /\ ~pico'.seq /\ ~pico'.tcPending /\ ~pico'.held
      BY <1>6, <2>1, <2>2, <3>2 DEF Dropped, Stops, Still, Point0, Waiting
    <3>4. KInv(pico')
      <4>1. Len(pico'.ring) = 0
        BY <3>3 DEF Still
      <4>2. StopInv(pico')
        BY <3>3 DEF StopInv, Still
      <4>3. HeldInv(pico')
        BY <1>6, <2>2, <3>2, <3>3 DEF HeldInv
      <4>4. PointInv(pico')
        BY <2>1, <2>2, <3>2, <3>3 DEF KInv, PointInv
      <4>5. RingInv(pico') /\ MountInv(pico')
        BY <3>3, <4>1 DEF RingInv, MountInv, Still
      <4> QED BY <4>2, <4>3, <4>4, <4>5 DEF KInv
    <3>5. Parse(pico', s, accepted')
      BY <3>1, <3>3 DEF Parse, AtRestart, PutDown
    <3>6. Order(pico, ran) => Order(pico', ran')
      BY <2>1, <2>2, <3>1, <3>2, <3>3 DEF Order
    <3> QED BY <3>4, <3>5, <3>6 DEF Kept
  <2>8. CASE pico' = OpenLayer(p, "PAUSED", pt) /\ Take /\ UNCHANGED ran /\ pico.mounted = t
    <3>1. accepted' = accepted + 1 /\ ran' = ran
      BY <2>8 DEF Take
    <3>2. /\ pico'.why = "BUFFERING" /\ pico'.opened /\ pico'.heldLayer = NoPoint /\ pico'.cur = pt
          /\ pico'.ctx = pico.ctx /\ pico'.tcPending = pico.tcPending /\ pico'.backTo = pico.backTo
          /\ pico'.ring = pico.ring /\ pico'.active = pico.active /\ pico'.c1 = pico.c1
          /\ pico'.held = pico.held /\ pico'.pause = pico.pause /\ pico'.seq = pico.seq
          /\ pico'.mounted = pico.mounted /\ pico'.abort = pico.abort
      <4>1. p = [pico EXCEPT !.heldLayer = NoPoint] /\ PicoFields \subseteq DOMAIN p
        BY <1>1 DEF p
      <4>2. pico' = [p EXCEPT !.why = "BUFFERING", !.resume = NoPoint, !.inContour = FALSE,
                       !.opened = TRUE, !.first = TRUE, !.heldLayer = NoPoint, !.cur = pt]
        BY <2>8 DEF OpenLayer
      <4> QED BY <1>1, <4>1, <4>2 DEF PicoFields
    <3>3. ~Dropped(pico') /\ ~Stops(pico') /\ Still(pico')
      BY <2>1, <3>2 DEF Dropped, Stops, Still
    <3>4. KInv(pico')
      <4>1. Len(pico'.ring) = 0 /\ pico'.c1 = "rest"
        BY <3>3 DEF Still
      <4>2. StopInv(pico') /\ HeldInv(pico') /\ PointInv(pico')
        BY <2>1, <3>2, <3>3, <4>1 DEF StopInv, HeldInv, PointInv
      <4>3. RingInv(pico') /\ MountInv(pico')
        BY <2>4, <2>8, <3>2, <3>3, <4>1 DEF RingInv, MountInv, Still
      <4> QED BY <4>2, <4>3 DEF KInv
    <3>5. Parse(pico', s, accepted')
      BY <3>1, <3>2 DEF Parse, AtRecord
    <3>6. ASSUME Order(pico, ran) PROVE Order(pico', ran')
      <4>1. pt.record = Len(ran) + 1 /\ Len(ran) \in Nat /\ pico'.ring = <<>> /\ Len(<<>>) = 0
        BY <2>1, <2>2, <3>2, <3>6 DEF Order, Still
      <4> QED BY <2>1, <3>1, <3>2, <3>3, <3>6, <4>1 DEF Order, Still
    <3> QED BY <3>4, <3>5, <3>6 DEF Kept
  <2> QED BY <2>6, <2>7, <2>8
<1> QED BY <1>2, <1>3, <1>4, <1>5, <1>6 DEF AcceptLayer

(* A frame in its turn: the job, its tool, layer and record counted, stays *)
(* where the stream stands.                                                *)
LEMMA FrameRight ==
  ASSUME PicoInv, RxInv, KInv(pico), NEW s \in Seq(Frames), Parse(pico, s, accepted), accepted < Len(s),
         Passed(s[accepted + 1].kind), Accept(s[accepted + 1])
  PROVE  Kept(s)
<1>1. Typed(pico) /\ PointInv(pico) /\ accepted \in Nat
  BY DEF PicoInv, KInv, RxInv
<1>2. \/ NextJob(pico, s, accepted) \/ NextTool(pico, s, accepted) \/ NextLayer(pico, s, accepted)
      \/ NextLayerTool(pico, s, accepted) \/ NextRecord(pico, s, accepted) \/ NextResume(pico, s, accepted)
  BY <1>1, NextFrameIs
<1>3. CASE NextJob(pico, s, accepted)
  <2>1. AcceptJobHdr
    BY <1>3 DEF NextJob, Accept, JobHdr
  <2> QED BY <1>3, <2>1, JobHdrRight
<1>4. CASE NextTool(pico, s, accepted)
  <2>1. AcceptToolHdr(Tools[accepted])
    BY <1>4 DEF NextTool, Accept, ToolHdr
  <2> QED BY <1>4, <2>1, PreToolRight
<1>5. CASE NextLayer(pico, s, accepted)
  <2>1. PICK l \in Layers : /\ s[accepted + 1] = LayerHdr(l, First(l)) /\ Ahead(s, accepted + 1, AtTool(l))
                            /\ pico.heldLayer = NoPoint /\ Before1(pico, l)
    BY <1>5 DEF NextLayer
  <2>2. AcceptLayer(Point(l, First(l))) /\ Passed("layer")
    BY <2>1 DEF Accept, LayerHdr
  <2> QED BY <2>1, <2>2, LayerRight
<1>6. CASE NextLayerTool(pico, s, accepted)
  <2>1. PICK l \in Layers : /\ s[accepted + 1] = ToolHdr(LayerTool[l])
                            /\ Ahead(s, accepted + 1, InLayer(l, First(l)))
                            /\ pico.heldLayer = Point(l, First(l)) /\ Before1(pico, l)
    BY <1>6 DEF NextLayerTool
  <2>2. AcceptToolHdr(LayerTool[l]) /\ Passed("tool")
    BY <2>1 DEF Accept, ToolHdr
  <2>3. pico.heldLayer # NoPoint
    BY <2>1, LayerIs DEF Point, NoPoint
  <2>4. CASE Refuse("PAUSED") \/ Refuse("JOB")
    BY <2>4, RefuseRight
  <2>5. ~(PreflightTool(LayerTool[l]) /\ InPreflight)
    BY <2>3 DEF InPreflight, KInv, HeldInv
  <2>6. CASE LayerToolHdr(LayerTool[l]) /\ ~pico.pause /\ pico.ctx = "JOB" /\ ~InPreflight
    <3>1. TakeLayer(pico, pico.heldLayer, LayerTool[l])
      BY <2>3, <2>6 DEF LayerToolHdr
    <3> QED BY <2>1, <2>2, <2>6, <3>1, LayerToolRight
  <2> QED BY <2>2, <2>4, <2>5, <2>6 DEF AcceptToolHdr
<1>7. CASE NextRecord(pico, s, accepted)
  <2>1. AcceptBezier(pico.cur.record) /\ Passed("bezier")
    BY <1>7 DEF NextRecord, Accept, Bezier
  <2> QED BY <1>7, <2>1, RecordRight
<1>8. CASE NextResume(pico, s, accepted)
  <2>1. PICK pt \in Points : /\ Good(pt) /\ s = StreamFrom(pt) /\ (pico.ctx = "JOB" => Point0(pico) = pt)
                             /\ s[accepted + 1] = LayerHdr(pt.layer, pt.record)
                             /\ Ahead(s, accepted + 1, InLayer(pt.layer, pt.record))
    BY <1>8 DEF NextResume
  <2>2. accepted = 0 /\ PutDown(pico)
    BY <1>8 DEF NextResume
  <2>3. AcceptLayer(Point(pt.layer, pt.record)) /\ Passed("layer")
    BY <2>1 DEF Accept, LayerHdr
  <2> QED BY <2>1, <2>2, <2>3, ResumeRight
<1> QED BY <1>2, <1>3, <1>4, <1>5, <1>6, <1>7, <1>8

----------------------------------------------------------------------------
(* Go-Back-N: every frame under way in q is frame w[i] + 1 of the stream s, *)
(* and no two counts there, nor one of them and the n frames taken, are    *)
(* further apart than the window, resends included.                        *)
Names(w, q, s, b, n) ==
  /\ w \in [1 .. Len(q) -> Nat]
  /\ \A i \in 1 .. Len(q) : q[i].kind = "frame" =>
       /\ w[i] < Len(s) /\ w[i] < b + Window /\ n <= w[i] + Window
       /\ q[i].seq = w[i] % SeqMod /\ q[i].frame = s[w[i] + 1]
  /\ \A i, j \in 1 .. Len(q) :
       i < j /\ q[i].kind = "frame" /\ q[j].kind = "frame" => w[i] < w[j] + Window
Named(q, s, b, n) == n <= b + Window /\ \E w : Names(w, q, s, b, n)

SentInv == ~Resting => /\ host.next <= host.base + Window
                       /\ Named(toPico, host.stream, host.base, accepted)

(* The window is smaller than the modulus, so a number names one frame.    *)
LEMMA ModEqual ==
  ASSUME NEW n \in Nat \ {0}, NEW a \in Int, NEW b \in Int, a % n = b % n, a - b < n, b - a < n
  PROVE  a = b
<1>1. PICK q \in Int, r \in 0 .. n - 1 : a = n * q + r /\ a % n = r
  BY Turns
<1>2. PICK p \in Int, t \in 0 .. n - 1 : b = n * p + t /\ b % n = t
  BY Turns
<1>3. CASE q < p
  <2>1. n * (p - q) >= n
    BY <1>3, SMT
  <2>2. n * (p - q) = n * p - n * q
    BY SMT
  <2> QED BY <1>1, <1>2, <2>1, <2>2, SMT
<1>4. CASE p < q
  <2>1. n * (q - p) >= n
    BY <1>4, SMT
  <2>2. n * (q - p) = n * q - n * p
    BY SMT
  <2> QED BY <1>1, <1>2, <2>1, <2>2, SMT
<1>5. CASE p = q
  BY <1>1, <1>2, <1>5
<1> QED BY <1>3, <1>4, <1>5

LEMMA NamedPop ==
  ASSUME NEW S, NEW q \in Seq(S), q # <<>>, NEW s, NEW b \in Nat, NEW n \in Nat, Named(q, s, b, n), b <= n
  PROVE  /\ Named(Tail(q), s, b, n)
         /\ Head(q).kind = "frame" /\ Head(q).seq = n % SeqMod =>
              n < Len(s) /\ Head(q).frame = s[n + 1] /\ Named(Tail(q), s, b, n + 1)
<1>1. /\ Len(q) > 0 /\ Len(q) \in Nat /\ Len(Tail(q)) = Len(q) - 1 /\ Head(q) = q[1]
      /\ \A i \in 1 .. Len(Tail(q)) : Tail(q)[i] = q[i + 1] /\ i + 1 \in 1 .. Len(q)
      /\ 1 \in 1 .. Len(q)
  BY Popped
<1>2. PICK w : Names(w, q, s, b, n)
  BY DEF Named
<1>3. w \in [1 .. Len(q) -> Nat] /\ w[1] \in Nat
  BY <1>1, <1>2 DEF Names
<1>4. Window \in Nat /\ Window > 0 /\ Window < SeqMod /\ SeqMod \in Nat \ {0}
  BY JobStreamAssumption, JobIs
<1> DEFINE v == [i \in 1 .. Len(Tail(q)) |-> w[i + 1]]
<1>5. v \in [1 .. Len(Tail(q)) -> Nat] /\ \A i \in 1 .. Len(Tail(q)) : v[i] = w[i + 1] /\ v[i] \in Nat
  BY <1>1, <1>3
<1> HIDE DEF v
<1>6. ASSUME NEW m \in Nat, m <= b + Window,
             \A i \in 1 .. Len(Tail(q)) : Tail(q)[i].kind = "frame" => m <= v[i] + Window
      PROVE  Named(Tail(q), s, b, m)
  <2>1. \A i \in 1 .. Len(Tail(q)) : Tail(q)[i].kind = "frame" =>
          /\ v[i] < Len(s) /\ v[i] < b + Window /\ m <= v[i] + Window
          /\ Tail(q)[i].seq = v[i] % SeqMod /\ Tail(q)[i].frame = s[v[i] + 1]
    BY <1>1, <1>2, <1>5, <1>6 DEF Names
  <2>2. \A i, j \in 1 .. Len(Tail(q)) :
          i < j /\ Tail(q)[i].kind = "frame" /\ Tail(q)[j].kind = "frame" => v[i] < v[j] + Window
    <3>1. \A i, j \in 1 .. Len(Tail(q)) : i < j => i + 1 < j + 1
      OBVIOUS
    <3> QED BY <1>1, <1>2, <1>5, <3>1 DEF Names
  <2>3. Names(v, Tail(q), s, b, m)
    BY <1>5, <2>1, <2>2 DEF Names
  <2> QED BY <1>6, <2>3 DEF Named
<1>7. Named(Tail(q), s, b, n)
  <2>1. \A i \in 1 .. Len(Tail(q)) : Tail(q)[i].kind = "frame" => n <= v[i] + Window
    BY <1>1, <1>2, <1>5 DEF Names
  <2> QED BY <1>6, <2>1 DEF Named
<1>8. ASSUME Head(q).kind = "frame", Head(q).seq = n % SeqMod
      PROVE  n < Len(s) /\ Head(q).frame = s[n + 1] /\ Named(Tail(q), s, b, n + 1)
  <2>1. /\ w[1] < Len(s) /\ w[1] < b + Window /\ n <= w[1] + Window
        /\ w[1] % SeqMod = n % SeqMod /\ Head(q).frame = s[w[1] + 1]
    BY <1>1, <1>2, <1>8 DEF Names
  <2>2. w[1] = n
    <3>1. w[1] - n < SeqMod /\ n - w[1] < SeqMod /\ w[1] \in Int /\ n \in Int
      BY <1>3, <1>4, <2>1
    <3> QED BY <1>4, <2>1, <3>1, ModEqual
  <2>3. \A i \in 1 .. Len(Tail(q)) : Tail(q)[i].kind = "frame" => n + 1 <= v[i] + Window
    <3>1. ASSUME NEW i \in 1 .. Len(Tail(q)), Tail(q)[i].kind = "frame" PROVE n + 1 <= v[i] + Window
      <4>1. q[i + 1].kind = "frame" /\ i + 1 \in 1 .. Len(q) /\ 1 < i + 1 /\ v[i] = w[i + 1] /\ v[i] \in Nat
        BY <1>1, <1>5, <3>1
      <4>2. w[1] < w[i + 1] + Window
        BY <1>1, <1>2, <1>8, <4>1 DEF Names
      <4> QED BY <1>4, <2>2, <4>1, <4>2
    <3> QED BY <3>1
  <2>4. n + 1 \in Nat /\ n + 1 <= b + Window
    BY <1>4, <2>1, <2>2
  <2> QED BY <1>6, <2>1, <2>2, <2>3, <2>4
<1> QED BY <1>7, <1>8

LEMMA NamedAppend ==
  ASSUME NEW S, NEW q \in Seq(S), NEW x \in S, x.kind # "frame", NEW s, NEW b, NEW n, Named(q, s, b, n)
  PROVE  Named(Append(q, x), s, b, n)
<1> DEFINE r == Append(q, x)
<1>1. /\ Len(r) = Len(q) + 1 /\ Len(q) \in Nat
      /\ \A i \in 1 .. Len(q) : r[i] = q[i]
      /\ r[Len(q) + 1] = x
  BY Appended
<1> HIDE DEF r
<1>2. PICK w : Names(w, q, s, b, n)
  BY DEF Named
<1> DEFINE v == [i \in 1 .. Len(r) |-> IF i <= Len(q) THEN w[i] ELSE 0]
<1>3. w \in [1 .. Len(q) -> Nat]
  BY <1>2 DEF Names
<1>4. v \in [1 .. Len(r) -> Nat] /\ \A i \in 1 .. Len(r) : r[i].kind = "frame" => i \in 1 .. Len(q) /\ v[i] = w[i] /\ r[i] = q[i]
  BY <1>1, <1>3
<1> HIDE DEF v
<1>5. Names(v, r, s, b, n)
  BY <1>2, <1>4 DEF Names
<1> QED BY <1>5 DEF Named, r

LEMMA NamedLater ==
  ASSUME NEW q, NEW s, NEW b \in Nat, NEW n \in Nat, Named(q, s, b, n), NEW c \in Nat, b <= c
  PROVE  Named(q, s, c, n)
<1>1. PICK w : Names(w, q, s, b, n)
  BY DEF Named
<1>2. Window \in Nat
  BY JobStreamAssumption
<1>3. w \in [1 .. Len(q) -> Nat]
  BY <1>1 DEF Names
<1>4. \A i \in 1 .. Len(q) : w[i] < b + Window => w[i] < c + Window
  <2>1. \A i \in 1 .. Len(q) : w[i] \in Nat
    BY <1>3
  <2> QED BY <1>2, <2>1
<1>5. Names(w, q, s, c, n)
  BY <1>1, <1>4 DEF Names
<1>6. n <= c + Window
  BY <1>2 DEF Named
<1> QED BY <1>5, <1>6 DEF Named

(* Nothing under way.                                                      *)
LEMMA NamedNone ==
  ASSUME NEW q, NoFrame(q), NEW s, NEW b \in Nat, NEW n \in Nat, n <= b
  PROVE  Named(q, s, b, n)
<1>1. Names([i \in 1 .. Len(q) |-> 0], q, s, b, n)
  BY DEF Names, NoFrame
<1>2. n <= b + Window
  BY JobStreamAssumption
<1> QED BY <1>1, <1>2 DEF Named

(* A damaged frame keeps its number.                                       *)
LEMMA NamedSame ==
  ASSUME NEW q, NEW r, Len(r) = Len(q), NEW s, NEW b, NEW n, Named(q, s, b, n),
         \A i \in 1 .. Len(q) : r[i].kind = q[i].kind /\ r[i].seq = q[i].seq /\ r[i].frame = q[i].frame
  PROVE  Named(r, s, b, n)
<1>1. PICK w : Names(w, q, s, b, n)
  BY DEF Named
<1>2. Names(w, r, s, b, n)
  BY <1>1 DEF Names
<1> QED BY <1>2 DEF Named

(* A batch goes out, from the next frame up to the window's end.           *)
Filled(r, q, s, d, k) ==
  /\ Len(r) = Len(q) + k
  /\ \A i \in 1 .. Len(q) : r[i] = q[i]
  /\ \A i \in 1 .. k : /\ r[Len(q) + i].kind = "frame" /\ r[Len(q) + i].seq = (d + i - 1) % SeqMod
                        /\ r[Len(q) + i].frame = s[d + i]

LEMMA NamedFill ==
  ASSUME NEW S, NEW q \in Seq(S), NEW s, NEW b \in Nat, NEW n \in Nat, Named(q, s, b, n), b <= n,
         NEW d \in Nat, b <= d, NEW k \in Nat, d + k <= b + Window, d + k <= Len(s), Len(s) \in Nat,
         NEW r, Filled(r, q, s, d, k)
  PROVE  Named(r, s, b, n)
<1>0. /\ Len(r) = Len(q) + k /\ \A i \in 1 .. Len(q) : r[i] = q[i]
      /\ \A i \in 1 .. k : /\ r[Len(q) + i].kind = "frame" /\ r[Len(q) + i].seq = (d + i - 1) % SeqMod
                            /\ r[Len(q) + i].frame = s[d + i]
  BY DEF Filled
<1>1. PICK w : Names(w, q, s, b, n)
  BY DEF Named
<1>2. Window \in Nat /\ Window > 0 /\ Len(q) \in Nat /\ n <= b + Window
  BY JobStreamAssumption DEF Named
<1>3. w \in [1 .. Len(q) -> Nat]
  BY <1>1 DEF Names
<1> DEFINE v == [i \in 1 .. Len(r) |-> IF i <= Len(q) THEN w[i] ELSE d + (i - Len(q)) - 1]
<1>4. ASSUME NEW i \in 1 .. Len(r)
      PROVE  \/ i \in 1 .. Len(q) /\ v[i] = w[i] /\ v[i] \in Nat /\ r[i] = q[i]
             \/ /\ i > Len(q) /\ v[i] = d + (i - Len(q)) - 1 /\ v[i] \in Nat /\ v[i] >= d /\ v[i] < d + k
                /\ r[i].seq = v[i] % SeqMod /\ r[i].frame = s[v[i] + 1]
  <2>1. CASE i <= Len(q)
    BY <1>0, <1>2, <1>3, <2>1
  <2>2. CASE i > Len(q)
    <3> DEFINE j == i - Len(q)
    <3>1. j \in 1 .. k /\ Len(q) + j = i /\ v[i] = d + j - 1 /\ (d + j - 1) + 1 = d + j
      BY <1>0, <1>2, <2>2
    <3>2. r[Len(q) + j].kind = "frame" /\ r[Len(q) + j].seq = (d + j - 1) % SeqMod /\ r[Len(q) + j].frame = s[d + j]
      BY <1>0, <3>1
    <3>3. v[i] \in Nat /\ v[i] >= d /\ v[i] < d + k
      BY <3>1
    <3> QED BY <2>2, <3>1, <3>2, <3>3
  <2> QED BY <1>2, <2>1, <2>2
<1>5. v \in [1 .. Len(r) -> Nat]
  BY <1>4
<1> HIDE DEF v
<1>6. ASSUME NEW i \in 1 .. Len(r), r[i].kind = "frame"
      PROVE  /\ v[i] < Len(s) /\ v[i] < b + Window /\ n <= v[i] + Window
             /\ r[i].seq = v[i] % SeqMod /\ r[i].frame = s[v[i] + 1]
  <2>1. CASE i \in 1 .. Len(q) /\ v[i] = w[i] /\ r[i] = q[i]
    BY <1>1, <1>6, <2>1 DEF Names
  <2>2. CASE /\ v[i] \in Nat /\ v[i] >= d /\ v[i] < d + k
             /\ r[i].seq = v[i] % SeqMod /\ r[i].frame = s[v[i] + 1]
    BY <1>2, <2>2
  <2> QED BY <1>4, <2>1, <2>2
<1>7. ASSUME NEW i \in 1 .. Len(r), NEW j \in 1 .. Len(r), i < j, r[i].kind = "frame", r[j].kind = "frame"
      PROVE  v[i] < v[j] + Window
  <2>1. CASE j \in 1 .. Len(q) /\ v[j] = w[j] /\ r[j] = q[j]
    <3>2. ~(i > Len(q))
      BY <1>2, <1>7, <2>1
    <3>1. i \in 1 .. Len(q) /\ v[i] = w[i] /\ r[i] = q[i]
      BY <1>4, <3>2
    <3> QED BY <1>1, <1>7, <2>1, <3>1 DEF Names
  <2>2. CASE j > Len(q) /\ v[j] \in Nat /\ v[j] >= d
    <3>1. v[i] < b + Window /\ v[i] \in Nat
      BY <1>5, <1>6, <1>7
    <3> QED BY <1>2, <2>2, <3>1
  <2> QED BY <1>4, <2>1, <2>2
<1>8. Names(v, r, s, b, n)
  BY <1>5, <1>6, <1>7 DEF Names
<1> QED BY <1>2, <1>8 DEF Named

(* Core 1 and Core 0 by themselves keep the order.                         *)
LEMMA Core1Order ==
  ASSUME PicoInv, KInv(pico), Core1, Order(pico, ran)
  PROVE  Order(pico', ran')
<1>1. PicoFields \subseteq DOMAIN pico /\ Typed(pico) /\ Running1(pico) /\ pico.ring \in Seq(Blocks)
  BY DEF PicoInv, Typed
<1>2. /\ Len(<<>>) = 0 /\ ran \in Seq(Int) /\ Len(ran) \in Nat /\ Len(pico.ring) \in Nat
      /\ pico.ring = <<>> => Len(pico.ring) = 0
  BY <1>1 DEF Order
<1>3. pico.c1 # "rest" => ~pico.abort /\ ~Dropped(pico) /\ pico.ctx = "JOB"
  BY DEF Order, KInv, StopInv, Dropped, Stops
<1>4. ASSUME pico' = LandHeld(pico), pico.pause, pico.ctx = "JOB", ~Dropped(pico), ~pico.abort, ran' = ran
      PROVE  Order(pico', ran')
  <2>1. /\ pico'.ring = <<>> /\ pico'.why = "HOLDING" /\ pico'.held /\ pico'.c1 = "rest"
        /\ pico'.resume = IF pico.ring = <<>> THEN NoPoint ELSE Head(pico.ring).tag
        /\ pico'.ctx = pico.ctx /\ pico'.cur = pico.cur /\ pico'.opened = pico.opened
    BY <1>1, <1>4 DEF LandHeld, PicoFields
  <2>2. pico.opened
    BY <1>4 DEF KInv, HeldInv
  <2>3. pico.cur.record = Len(ran) + Len(pico.ring) + 1
    BY <1>4, <2>2 DEF Order
  <2>4. Point0(pico').record = Len(ran) + 1
    <3>1. CASE pico.ring = <<>>
      BY <1>2, <2>1, <2>3, <3>1 DEF Point0
    <3>2. CASE pico.ring # <<>>
      <4>1. 1 \in 1 .. Len(pico.ring) /\ Head(pico.ring) = pico.ring[1]
        BY <1>1, <3>2
      <4>2. Good(pico.ring[1].tag) /\ pico.ring[1].tag.record = pico.ring[1].record
        BY <4>1 DEF KInv, RingInv
      <4>3. pico.ring[1].tag # NoPoint
        BY <4>2, LayerIs DEF Good, NoPoint, Point
      <4>4. pico.ring[1].record = Len(ran) + 1
        BY <4>1 DEF Order
      <4> QED BY <2>1, <3>2, <4>1, <4>2, <4>3, <4>4 DEF Point0
    <3> QED BY <3>1, <3>2
  <2>5. Dropped(pico')
    BY <1>4, <2>1 DEF Dropped
  <2> QED BY <1>2, <1>4, <2>1, <2>2, <2>4, <2>5 DEF Order
<1>5. CASE Enter
  <2>1. CASE pico.pause /\ pico' = LandHeld(pico)
    BY <1>4, <1>5, <2>1 DEF Enter, Dropped, Stops
  <2>2. CASE pico.ring # <<>> /\ pico' = [pico EXCEPT !.c1 = "look", !.active = TRUE, !.why = "RUNNING"]
    BY <1>1, <1>5, <2>2 DEF Enter, Order, Dropped, Stops, PicoFields
  <2> QED BY <1>5, <2>1, <2>2 DEF Enter
<1>6. CASE Look
  <2>1. CASE pico' = LandHeld(pico) /\ pico.pause
    BY <1>3, <1>4, <1>6, <2>1 DEF Look
  <2>2. CASE pico' = [pico EXCEPT !.c1 = "tick"]
    BY <1>1, <1>3, <1>6, <2>2 DEF Look, Order, Dropped, Stops, Point0, PicoFields
  <2> QED BY <1>3, <1>6, <2>1, <2>2 DEF Look
<1>7. CASE FoundLate
  BY <1>1, <1>3, <1>7 DEF FoundLate, Order, KInv, StopInv, Dropped, Stops, PicoFields
<1>8. CASE Rebuffer
  BY <1>1, <1>3, <1>8 DEF Rebuffer, Order, Dropped, Stops, PicoFields
<1>9. CASE RunRecord
  <2> DEFINE r == Tail(pico.ring)
             x == Head(pico.ring).record
             a == Append(ran, x)
  <2>1. pico.ring # <<>> /\ pico.c1 # "rest"
    BY <1>9 DEF RunRecord
  <2>2. /\ Len(r) = Len(pico.ring) - 1 /\ Head(pico.ring) = pico.ring[1] /\ Head(pico.ring) \in Blocks
        /\ \A i \in 1 .. Len(r) : r[i] = pico.ring[i + 1] /\ i + 1 \in 1 .. Len(pico.ring)
        /\ 1 \in 1 .. Len(pico.ring) /\ Len(r) \in Nat
    BY <1>1, <2>1, Popped
  <2>3. x = Len(ran) + 1 /\ x \in Int
    BY <1>2, <2>2 DEF Order, Blocks
  <2> HIDE DEF x
  <2>4. /\ a \in Seq(Int) /\ Len(a) = Len(ran) + 1 /\ \A i \in 1 .. Len(ran) : a[i] = ran[i]
        /\ a[Len(ran) + 1] = x
    BY <1>2, <2>3, Appended
  <2> HIDE DEF r, a
  <2>5. pico' = [pico EXCEPT !.ring = r, !.c1 = "look"] /\ ran' = a
    BY <1>9 DEF RunRecord, r, a, x
  <2>6. /\ pico'.ring = r /\ pico'.ctx = "JOB" /\ pico'.opened = pico.opened /\ pico'.cur = pico.cur
        /\ pico'.abort = pico.abort /\ ~Dropped(pico')
    BY <1>1, <1>3, <2>1, <2>5 DEF Dropped, Stops, PicoFields
  <2>7. \A i \in 1 .. Len(a) : a[i] = i
    <3>1. \A i \in 1 .. Len(a) : i \in 1 .. Len(ran) \/ i = Len(ran) + 1
      BY <1>2, <2>4
    <3> QED BY <2>3, <2>4, <3>1 DEF Order
  <2>8. \A i \in 1 .. Len(r) : r[i].record = Len(a) + i
    <3>1. ASSUME NEW i \in 1 .. Len(r) PROVE r[i].record = Len(a) + i
      <4>1. r[i].record = Len(ran) + (i + 1)
        BY <2>2, <3>1 DEF Order
      <4> QED BY <1>2, <2>4, <4>1
    <3> QED BY <3>1
  <2>9. pico.opened /\ pico.cur.record = Len(ran) + Len(pico.ring) + 1
    BY <1>3, <2>1 DEF Order
  <2>10. pico.cur.record = Len(a) + Len(r) + 1
    <3>1. /\ Len(r) = Len(pico.ring) - 1 /\ Len(a) = Len(ran) + 1
          /\ Len(ran) \in Nat /\ Len(pico.ring) \in Nat
      BY <1>2, <2>2, <2>4
    <3>2. \A m, n \in Nat : m + n + 1 = (m + 1) + (n - 1) + 1
      OBVIOUS
    <3>3. Len(ran) + Len(pico.ring) + 1 = Len(a) + Len(r) + 1
      BY <3>1, <3>2
    <3> QED BY <2>9, <3>3
  <2> QED BY <1>3, <2>1, <2>4, <2>5, <2>6, <2>7, <2>8, <2>9, <2>10 DEF Order
<1>10. CASE LeaveDry
  BY <1>1, <1>3, <1>10 DEF LeaveDry, Order, KInv, HeldInv, StopInv, Dropped, Stops, PicoFields
<1>11. CASE AbortConsumed
  <2>1. pico.ring = <<>>
    BY <1>11 DEF AbortConsumed, Order
  <2> QED BY <1>1, <1>2, <1>11, <2>1 DEF AbortConsumed, Order, Dropped, Stops, Point0, PicoFields
<1> QED BY <1>5, <1>6, <1>7, <1>8, <1>9, <1>10, <1>11 DEF Core1

LEMMA Core0Order ==
  ASSUME PicoInv, KInv(pico), Order(pico, ran),
         \/ LandPaused \/ AbortSettle \/ ToolChangeTick \/ ToolChangeEnds \/ Mount \/ PlaceOk
         \/ SeqReset \/ CmdPause
  PROVE  Order(pico', ran')
<1> USE DEF Order, Dropped, Stops, Point0
<1>1. PicoFields \subseteq DOMAIN pico /\ Typed(pico) /\ Running1(pico)
  BY DEF PicoInv, Typed
<1>2. CASE LandPaused
  BY <1>1, <1>2 DEF LandPaused, Idle, PicoFields, KInv, StopInv, Still
<1>3. CASE AbortSettle
  BY <1>1, <1>3 DEF AbortSettle, PicoFields
<1>4. CASE ToolChangeTick
  <2>1. CASE \/ pico' = [pico EXCEPT !.tcPending = FALSE, !.tcActive = FALSE, !.tcStarted = FALSE]
             \/ pico' = [pico EXCEPT !.tcActive = FALSE, !.tcStarted = FALSE]
             \/ pico' = [[pico EXCEPT !.tcStarted = TRUE, !.tcPending = FALSE] EXCEPT !.mounted = 0, !.seq = TRUE]
    <3>1. /\ pico'.ctx = pico.ctx /\ pico'.ring = pico.ring /\ pico'.c1 = pico.c1 /\ pico'.held = pico.held
          /\ pico'.opened = pico.opened /\ pico'.cur = pico.cur /\ pico'.resume = pico.resume
          /\ pico'.backTo = pico.backTo /\ pico'.why = pico.why /\ pico'.abort = pico.abort
      BY <1>1, <2>1 DEF PicoFields
    <3> QED BY <1>4, <3>1 DEF ToolChangeTick
  <2>2. CASE /\ pico.ctx = "JOB" /\ pico.why = "TOOL_CHANGE"
             /\ pico' = [[pico EXCEPT !.tcStarted = TRUE, !.tcPending = FALSE] EXCEPT !.why = pico.backTo]
    <3>1. /\ pico'.ctx = pico.ctx /\ pico'.ring = pico.ring /\ pico'.c1 = pico.c1 /\ pico'.held = pico.held
          /\ pico'.opened = pico.opened /\ pico'.cur = pico.cur /\ pico'.resume = pico.resume
          /\ pico'.backTo = pico.backTo /\ pico'.why = pico.backTo /\ pico'.abort = pico.abort
      BY <1>1, <2>2 DEF PicoFields
    <3>2. pico.backTo \in {"BUFFERING", "PAUSED"} /\ ran' = ran
      BY <1>1, <1>4 DEF Typed, ToolChangeTick
    <3> QED BY <2>2, <3>1, <3>2
  <2> QED BY <1>4, <2>1, <2>2 DEF ToolChangeTick
<1>5. CASE ToolChangeEnds
  <2>1. pico.why = "TOOL_CHANGE" /\ Still(pico) /\ ran' = ran
    BY <1>5 DEF ToolChangeEnds, KInv, StopInv
  <2>2. CASE pico' = [pico EXCEPT !.seq = FALSE, !.why = "TOOL_WAIT"]
    BY <1>1, <2>1, <2>2 DEF PicoFields
  <2>3. CASE pico' = [JobAbort(pico) EXCEPT !.fault = TRUE]
    BY <1>1, <2>1, <2>3 DEF JobAbort, Still, PicoFields
  <2> QED BY <1>5, <2>2, <2>3 DEF ToolChangeEnds
<1>6. CASE Mount
  BY <1>1, <1>6 DEF Mount, PicoFields
<1>7. CASE PlaceOk
  BY <1>1, <1>7 DEF PlaceOk, PicoFields, KInv, StopInv
<1>8. CASE SeqReset
  BY <1>1, <1>8 DEF SeqReset, PicoFields
<1>9. CASE CmdPause
  BY <1>1, <1>9 DEF CmdPause, PicoFields
<1> QED BY <1>2, <1>3, <1>4, <1>5, <1>6, <1>7, <1>8, <1>9

(* In order: nothing has run twice or been left out.                       *)
LEMMA OrderRuns ==
  ASSUME NEW p, p.ring \in Seq(Blocks), NEW r, Order(p, r)
  PROVE  LET held == r \o [i \in 1 .. Len(p.ring) |-> p.ring[i].record]
         IN held = [i \in 1 .. Len(held) |-> i]
<1> DEFINE t == [i \in 1 .. Len(p.ring) |-> p.ring[i].record]
           h == r \o t
<1>1. r \in Seq(Int) /\ Len(r) \in Nat /\ Len(p.ring) \in Nat
  BY DEF Order
<1>2. t \in [1 .. Len(p.ring) -> Int] /\ \A i \in 1 .. Len(p.ring) : t[i] = Len(r) + i
  BY <1>1 DEF Order
<1> HIDE DEF t
<1>3. t \in Seq(Int) /\ Len(t) = Len(p.ring)
  BY <1>1, <1>2, Listed
<1>4. /\ h \in Seq(Int) /\ Len(h) = Len(r) + Len(t)
      /\ \A i \in 1 .. Len(h) : h[i] = IF i <= Len(r) THEN r[i] ELSE t[i - Len(r)]
  BY <1>1, <1>3, Joined
<1> HIDE DEF h
<1>5. ASSUME NEW i \in 1 .. Len(h) PROVE h[i] = i
  <2>1. CASE i <= Len(r)
    <3>1. i \in 1 .. Len(r) /\ h[i] = r[i]
      BY <1>1, <1>4, <2>1
    <3> QED BY <3>1 DEF Order
  <2>2. CASE ~(i <= Len(r))
    <3>1. i - Len(r) \in 1 .. Len(p.ring) /\ Len(r) + (i - Len(r)) = i
      BY <1>1, <1>3, <1>4, <2>2
    <3> QED BY <1>2, <1>4, <2>2, <3>1
  <2> QED BY <2>1, <2>2
<1>6. h = [i \in 1 .. Len(h) |-> i]
  BY <1>4, <1>5
<1> QED BY <1>6 DEF h, t

----------------------------------------------------------------------------
(* The host and the Pico together.                                         *)

(* What the Pico takes next is what the stream holds next; a session at    *)
(* rest over a job put down may have had its number zone reset already,    *)
(* and restarts, if it does, from the job's resume point.                  *)
StandInv ==
  /\ Parse(pico, host.stream, accepted) \/ (Resting /\ accepted = 0 /\ PutDown(pico))
  /\ host.restart # NoPoint \/ ~NoReset(toPico) => Resting /\ PutDown(pico)
  /\ host.restart # NoPoint => Good(host.restart) /\ (pico.ctx = "JOB" => Point0(pico) = host.restart)

(* The host asks for the job's end once; until then, and until a cancel is *)
(* answered, the job runs in order.                                        *)
EndsJob(m)  == m.kind \in {"cancel", "abort"}
NoEnd(q)    == \A i \in 1 .. Len(q) : ~EndsJob(q[i])
OneEnd(q)   == \A i, j \in 1 .. Len(q) : EndsJob(q[i]) /\ EndsJob(q[j]) => i = j
NoCancel(q) == \A i \in 1 .. Len(q) : q[i].kind # "cancel"
EndInv == OneEnd(toPico) /\ (~host.ending => NoEnd(toPico))
OrdInv == ~host.ending \/ ~NoCancel(toPico) => Order(pico, ran)

JobInv == KInv(pico) /\ StandInv /\ SentInv /\ EndInv /\ OrdInv

LEMMA EndsPop ==
  ASSUME NEW S, NEW q \in Seq(S), q # <<>>
  PROVE  /\ OneEnd(q) => OneEnd(Tail(q))
         /\ NoEnd(q) => NoEnd(Tail(q))
         /\ NoCancel(q) => NoCancel(Tail(q))
         /\ OneEnd(q) /\ EndsJob(Head(q)) => NoEnd(Tail(q)) /\ NoCancel(Tail(q))
         /\ NoEnd(q) => ~EndsJob(Head(q))
         /\ NoCancel(q) => Head(q).kind # "cancel"
<1>1. /\ Len(q) > 0 /\ Len(q) \in Nat /\ Len(Tail(q)) = Len(q) - 1 /\ Head(q) = q[1]
      /\ \A i \in 1 .. Len(Tail(q)) : Tail(q)[i] = q[i + 1] /\ i + 1 \in 1 .. Len(q)
  BY Popped
<1>2. 1 \in 1 .. Len(q) /\ \A i \in 1 .. Len(Tail(q)) : i + 1 # 1
  BY <1>1
<1>3. \A i, j \in 1 .. Len(Tail(q)) : i + 1 = j + 1 => i = j
  OBVIOUS
<1> QED BY <1>1, <1>2, <1>3 DEF OneEnd, NoEnd, NoCancel, EndsJob

LEMMA EndsAppend ==
  ASSUME NEW S, NEW q \in Seq(S), NEW x \in S
  PROVE  /\ NoEnd(q) => OneEnd(Append(q, x))
         /\ ~EndsJob(x) => /\ OneEnd(q) => OneEnd(Append(q, x))
                           /\ NoEnd(q) => NoEnd(Append(q, x))
                           /\ NoCancel(q) => NoCancel(Append(q, x))
<1>1. /\ Len(Append(q, x)) = Len(q) + 1 /\ Len(q) \in Nat
      /\ \A i \in 1 .. Len(q) : Append(q, x)[i] = q[i]
      /\ Append(q, x)[Len(q) + 1] = x
  BY Appended
<1>2. \A i \in 1 .. Len(Append(q, x)) : i \in 1 .. Len(q) \/ i = Len(q) + 1
  BY <1>1
<1> QED BY <1>1, <1>2 DEF NoEnd, OneEnd, NoCancel, EndsJob

(* A step of the job state alone, the host's part left as it was.          *)
LEMMA StandSame ==
  ASSUME StandInv, Moves(pico, pico'), accepted' = accepted, host'.stream = host.stream,
         host'.restart = host.restart, Resting' <=> Resting, NoReset(toPico) => NoReset(toPico')
  PROVE  StandInv'
<1>1. Parse(pico, host.stream, accepted) => Parse(pico', host.stream, accepted)
  BY MovesParse
<1>2. PutDown(pico) => PutDown(pico')
  BY DEF PutDown, Moves
<1>3. PutDown(pico) /\ pico'.ctx = "JOB" => pico.ctx = "JOB" /\ Point0(pico') = Point0(pico)
  BY DEF PutDown, Moves, Point0
<1> QED BY <1>1, <1>2, <1>3 DEF StandInv

(* A step of the host alone that sends nothing and keeps its stream.       *)
LEMMA HostAlone ==
  ASSUME IInv, JobInv, UNCHANGED <<pico, toPico, accepted, ran>>, host'.stream = host.stream,
         host'.ending = host.ending, host'.restart \in {host.restart, NoPoint},
         host'.base \in Nat, host.base <= host'.base, host'.next <= host.next, host'.next \in Nat,
         Resting => Resting'
  PROVE  JobInv'
<1>1. StandInv'
  BY DEF JobInv, StandInv
<1>2. SentInv'
  <2>1. SUFFICES ASSUME ~Resting' PROVE /\ host'.next <= host'.base + Window
                                        /\ Named(toPico, host.stream, host'.base, accepted)
    BY DEF SentInv
  <2>2. host.next <= host.base + Window /\ Named(toPico, host.stream, host.base, accepted)
    BY <2>1 DEF JobInv, SentInv
  <2>3. host.base \in Nat /\ accepted \in Nat /\ host.next \in Nat /\ Window \in Nat
    BY JobStreamAssumption DEF IInv, HostInv, RxInv
  <2>4. Named(toPico, host.stream, host'.base, accepted)
    BY <2>2, <2>3, NamedLater
  <2> QED BY <2>2, <2>3, <2>4
<1> QED BY <1>1, <1>2 DEF JobInv, EndInv, OrdInv

----------------------------------------------------------------------------
(* One lemma for each kind of step: what it keeps of the job.              *)

LEMMA CoreJob ==
  ASSUME IInv, JobInv, Core1 \/ LandPaused \/ AbortSettle \/ ToolChangeTick \/ ToolChangeEnds \/ Mount \/ PlaceOk
  PROVE  JobInv'
<1>1. KInv(pico') /\ Moves(pico, pico')
  BY Core1Right, Core0Right DEF IInv, JobInv
<1>2. UNCHANGED <<toPico, host, accepted>>
  BY DEF Core1, Enter, Look, FoundLate, Rebuffer, RunRecord, LeaveDry, AbortConsumed, LandPaused,
         AbortSettle, ToolChangeTick, ToolChangeEnds, Mount, PlaceOk
<1>3. StandInv'
  BY <1>1, <1>2, StandSame DEF JobInv, Resting
<1>4. Order(pico, ran) => Order(pico', ran')
  BY Core1Order, Core0Order DEF IInv, JobInv
<1> QED BY <1>1, <1>2, <1>3, <1>4 DEF JobInv, SentInv, EndInv, OrdInv, Resting

LEMMA FeedJob ==
  ASSUME IInv, JobInv, FeedPacket
  PROVE  JobInv'
<1> DEFINE m == Head(toPico)
           s == host.stream
<1>1. Arrives("frame") /\ host' = host
  BY DEF FeedPacket
<1>2. m \in Packets /\ m.kind = "frame" /\ toPico' = Tail(toPico) /\ toPico # <<>>
      /\ m = toPico[1] /\ 1 \in 1 .. Len(toPico)
  BY <1>1, ArrivesIs DEF IInv, Arrives
<1>3. ~Resting /\ ~Resting'
  BY <1>1, <1>2 DEF IInv, RestInv, NoFrame, Resting
<1>4. toPico \in Seq(Packets \cup Controls) /\ s \in Seq(Frames) /\ accepted \in Nat /\ host.base \in Nat
      /\ host.base <= accepted /\ rx.expectedSeq = accepted % SeqMod
  BY <1>3 DEF IInv, InType, HostInv, RxInv, AckInv, Counted
<1>5. Named(toPico, s, host.base, accepted) /\ host.next <= host.base + Window /\ Parse(pico, s, accepted)
  BY <1>3 DEF JobInv, SentInv, StandInv
<1>6. /\ Named(Tail(toPico), s, host.base, accepted)
      /\ m.seq = accepted % SeqMod =>
           accepted < Len(s) /\ m.frame = s[accepted + 1] /\ Named(Tail(toPico), s, host.base, accepted + 1)
  BY <1>2, <1>4, <1>5, NamedPop
<1>7. NoReset(toPico') /\ EndInv' /\ host.restart = NoPoint
      /\ (NoCancel(toPico) => NoCancel(toPico'))
  <2>1. NoReset(toPico)
    BY <1>3 DEF IInv, AckInv
  <2> QED BY <1>1, <1>2, <1>3, <1>4, <2>1, TailKeeps, EndsPop DEF JobInv, EndInv, StandInv
<1>8. SUFFICES Kept(s) /\ Named(Tail(toPico), s, host.base, accepted')
  <2>1. StandInv' /\ SentInv' /\ OrdInv'
    BY <1>1, <1>2, <1>3, <1>5, <1>7, <1>8 DEF Kept, JobInv, StandInv, SentInv, OrdInv
  <2> QED BY <1>7, <1>8, <2>1 DEF Kept, JobInv
<1>9. CASE Refuse(Gate(m))
  <2>1. accepted' = accepted
    BY <1>9 DEF Refuse, SendNack
  <2> QED BY <1>5, <1>6, <1>9, <2>1, RefuseRight DEF JobInv
<1>10. CASE UNCHANGED <<pico, accepted, ran>>
  BY <1>5, <1>6, <1>10 DEF JobInv, Kept
<1>11. CASE Gate(m) = "ok" /\ m.seq = rx.expectedSeq /\ Accept(m.frame)
  <2>1. /\ accepted < Len(s) /\ m.frame = s[accepted + 1]
        /\ Named(Tail(toPico), s, host.base, accepted + 1)
    BY <1>4, <1>6, <1>11
  <2>2. Passed(m.frame.kind)
    BY <1>11, PassedIs DEF JobInv
  <2>3. Kept(s)
    <3> HIDE DEF s, m
    <3> QED BY <1>4, <1>5, <1>11, <2>1, <2>2, FrameRight DEF IInv, JobInv
  <2>4. accepted' = accepted \/ accepted' = accepted + 1
    <3>1. m.frame \in Frames
      BY <1>2 DEF Packets
    <3>2. Answered
      BY <1>11, <3>1, AcceptStep DEF IInv
    <3> QED BY <3>2 DEF Answered, Refused, Flushed, Take, SendNack
  <2> QED BY <1>6, <2>1, <2>3, <2>4
<1> QED BY <1>9, <1>10, <1>11 DEF FeedPacket

LEMMA ResetJob ==
  ASSUME IInv, JobInv, SeqReset
  PROVE  JobInv'
<1>1. Arrives("seqreset") /\ host' = host /\ accepted' = 0 /\ ran' = ran
  BY DEF SeqReset
<1>2. KInv(pico') /\ Moves(pico, pico')
  BY CommandRight DEF IInv, JobInv
<1>3. toPico \in Seq(Packets \cup Controls) /\ toPico # <<>> /\ toPico' = Tail(toPico)
      /\ Head(toPico).kind = "seqreset" /\ Head(toPico) = toPico[1] /\ 1 \in 1 .. Len(toPico)
  BY <1>1, ArrivesIs DEF IInv, InType, Arrives
<1>4. Resting /\ Resting' /\ PutDown(pico)
  BY <1>1, <1>3 DEF JobInv, StandInv, NoReset, Resting
<1>5. PutDown(pico') /\ (pico'.ctx = "JOB" => pico.ctx = "JOB" /\ Point0(pico') = Point0(pico))
  BY <1>2, <1>4 DEF PutDown, Moves, Point0
<1>6. StandInv'
  BY <1>1, <1>4, <1>5 DEF JobInv, StandInv
<1>7. EndInv' /\ (NoCancel(toPico) => NoCancel(toPico'))
  BY <1>1, <1>3, EndsPop DEF JobInv, EndInv
<1>8. Order(pico, ran) => Order(pico', ran')
  BY Core0Order DEF IInv, JobInv
<1> QED BY <1>1, <1>2, <1>4, <1>6, <1>7, <1>8 DEF JobInv, SentInv, OrdInv

LEMMA CommandJob ==
  ASSUME IInv, JobInv, Abort \/ CmdPause \/ CmdCancel
  PROVE  JobInv'
<1>1. KInv(pico') /\ Moves(pico, pico')
  BY CommandRight DEF IInv, JobInv
<1>2. /\ Arrives("abort") \/ Arrives("pause") \/ Arrives("cancel")
      /\ UNCHANGED <<accepted, ran>>
  BY DEF Abort, CmdPause, CmdCancel
<1>3. toPico \in Seq(Packets \cup Controls) /\ toPico # <<>> /\ toPico' = Tail(toPico)
  BY <1>2 DEF IInv, InType, Arrives
<1>4. \/ host' = host
      \/ \E x : host' = [host EXCEPT !.pauseAsked = x]
      \/ Arrives("cancel") /\ host' = [host EXCEPT !.ending = FALSE] /\ UNCHANGED pico
  BY DEF Abort, CmdPause, CmdCancel
<1>5. /\ host'.base = host.base /\ host'.hold = host.hold /\ host'.settled = host.settled
      /\ host'.stream = host.stream /\ host'.next = host.next /\ host'.restart = host.restart
      /\ host'.ending = host.ending \/ (Arrives("cancel") /\ ~host'.ending /\ UNCHANGED pico)
  BY <1>4 DEF IInv, HostInv, HostFields
<1>6. Resting' <=> Resting
  BY <1>5 DEF Resting
<1>7. StandInv'
  BY <1>1, <1>2, <1>3, <1>5, <1>6, StandSame, TailKeeps DEF JobInv
<1>8. SentInv'
  <2>1. SUFFICES ASSUME ~Resting PROVE Named(toPico', host.stream, host.base, accepted)
    BY <1>2, <1>5, <1>6 DEF JobInv, SentInv
  <2>2. host.base \in Nat /\ accepted \in Nat /\ host.base <= accepted
    BY <2>1 DEF IInv, HostInv, RxInv, AckInv, Counted
  <2>3. Named(toPico, host.stream, host.base, accepted)
    BY <2>1 DEF JobInv, SentInv
  <2> QED BY <1>3, <2>2, <2>3, NamedPop
<1>9. /\ OneEnd(toPico') /\ (NoEnd(toPico) => NoEnd(toPico')) /\ (NoCancel(toPico) => NoCancel(toPico'))
      /\ EndsJob(Head(toPico)) => NoEnd(toPico') /\ NoCancel(toPico') /\ host.ending
  BY <1>3, EndsPop DEF JobInv, EndInv
<1>10. CASE CmdPause
  <2>1. host'.ending = host.ending
    BY <1>5, <1>10 DEF CmdPause, Arrives
  <2>2. Order(pico, ran) => Order(pico', ran')
    BY <1>10, Core0Order DEF IInv, JobInv
  <2> QED BY <1>1, <1>7, <1>8, <1>9, <2>1, <2>2 DEF JobInv, EndInv, OrdInv
<1>11. CASE Abort \/ CmdCancel
  <2>1. EndsJob(Head(toPico)) /\ (Arrives("cancel") => ~NoCancel(toPico))
    BY <1>3, <1>11, EndsPop DEF Abort, CmdCancel, Arrives, EndsJob
  <2>2. EndInv'
    BY <1>9, <2>1 DEF EndInv
  <2>3. OrdInv'
    <3>1. CASE host'.ending = host.ending
      BY <1>9, <2>1, <3>1 DEF OrdInv
    <3>2. CASE Arrives("cancel") /\ UNCHANGED pico
      BY <1>2, <2>1, <3>2 DEF JobInv, OrdInv
    <3> QED BY <1>5, <3>1, <3>2
  <2> QED BY <1>1, <1>7, <1>8, <2>2, <2>3 DEF JobInv
<1> QED BY <1>10, <1>11

LEMMA AskJob ==
  ASSUME IInv, JobInv, AskPause \/ AskEnd \/ AskResume
  PROVE  JobInv'
<1>1. UNCHANGED <<pico, accepted, ran>>
  BY DEF AskPause, AskEnd, AskResume
<1>2. /\ host'.base = host.base /\ host'.hold = host.hold /\ host'.settled = host.settled
      /\ host'.stream = host.stream /\ host'.next = host.next /\ host'.restart = host.restart
      /\ \/ host'.ending = host.ending
         \/ ~host.ending /\ host'.ending
  <2>1. CASE AskEnd
    BY <2>1 DEF AskEnd, Live, IInv, HostInv, HostFields
  <2>2. CASE AskPause \/ AskResume
    BY <2>2 DEF AskPause, AskResume, IInv, HostInv, HostFields
  <2> QED BY <2>1, <2>2
<1>3. Resting' <=> Resting
  BY <1>2 DEF Resting
<1>4. CASE toPico' = toPico /\ host'.ending = host.ending
  <2>1. StandInv' /\ SentInv'
    BY <1>1, <1>2, <1>3, <1>4 DEF JobInv, StandInv, SentInv
  <2> QED BY <1>1, <1>4, <2>1 DEF JobInv, EndInv, OrdInv
<1>5. CASE /\ \E x \in Controls : x.kind # "seqreset" /\ toPico' = Append(toPico, x)
                                  /\ (EndsJob(x) => ~host.ending /\ host'.ending)
                                  /\ (~EndsJob(x) => host'.ending = host.ending)
  <2>1. PICK x \in Controls : x.kind # "seqreset" /\ toPico' = Append(toPico, x)
                              /\ (EndsJob(x) => ~host.ending /\ host'.ending)
                              /\ (~EndsJob(x) => host'.ending = host.ending)
    BY <1>5
  <2>2. x \in Packets \cup Controls /\ x.kind # "frame" /\ toPico \in Seq(Packets \cup Controls)
    BY DEF Controls, IInv, InType
  <2>3. NoReset(toPico) => NoReset(toPico')
    BY <2>1, <2>2, AppendKeeps
  <2>4. Named(toPico, host.stream, host.base, accepted) => Named(toPico', host.stream, host.base, accepted)
    BY <2>1, <2>2, NamedAppend
  <2>5. StandInv' /\ SentInv'
    BY <1>1, <1>2, <1>3, <2>3, <2>4 DEF JobInv, StandInv, SentInv
  <2>6. /\ NoEnd(toPico) => OneEnd(toPico')
        /\ ~EndsJob(x) => /\ OneEnd(toPico) => OneEnd(toPico')
                          /\ NoEnd(toPico) => NoEnd(toPico')
                          /\ NoCancel(toPico) => NoCancel(toPico')
    BY <2>1, <2>2, EndsAppend
  <2>7. EndInv' /\ OrdInv'
    BY <1>1, <2>1, <2>6 DEF JobInv, EndInv, OrdInv
  <2> QED BY <1>1, <2>5, <2>7 DEF JobInv
<1>6. CASE AskResume
  <2>1. toPico' = toPico /\ host'.ending = host.ending
    BY <1>6 DEF AskResume, IInv, HostInv, HostFields
  <2> QED BY <1>4, <2>1
<1>7. CASE AskPause
  BY <1>5, <1>7 DEF AskPause, Sends, Controls, EndsJob
<1>8. CASE AskEnd
  <2>1. ~host.ending /\ host'.ending
    BY <1>8 DEF AskEnd, Live, IInv, HostInv, HostFields
  <2>2. \E x \in Controls : x.kind \in {"abort", "cancel"} /\ toPico' = Append(toPico, x)
    BY <1>8 DEF AskEnd, Sends, Controls
  <2> QED BY <1>5, <2>1, <2>2 DEF EndsJob
<1> QED BY <1>6, <1>7, <1>8

LEMMA FillJob ==
  ASSUME IInv, JobInv, FillWindow
  PROVE  JobInv'
<1> DEFINE end == IF host.placed THEN Len(host.stream) ELSE Len(Preflight)
           n == IF end - host.next < Window - (host.next - host.base) THEN end - host.next
                ELSE Window - (host.next - host.base)
           q == [i \in 1 .. n |-> Packet(host.next + i - 1, host.stream[host.next + i])]
<1>1. /\ n > 0 /\ toPico' = toPico \o q /\ host' = [host EXCEPT !.next = @ + n]
      /\ UNCHANGED <<pico, accepted, ran>> /\ host.hold = "none"
  BY DEF FillWindow, Running
<1>2. /\ host.stream \in Seq(Frames) /\ Len(host.stream) \in Nat /\ host.base \in Nat /\ host.next \in Nat
      /\ host.base <= host.next /\ Window \in Nat
  BY JobStreamAssumption DEF IInv, HostInv
<1>3. end \in Nat /\ end <= Len(host.stream)
  <2>1. CASE host.placed
    BY <1>2, <2>1
  <2>2. CASE ~host.placed
    BY <2>2, StreamsAre DEF IInv, PlaceInv
  <2> QED BY <2>1, <2>2
<1>4. n \in Nat /\ host.next + n <= Len(host.stream) /\ host.next + n <= host.base + Window
  <2>1. n > 0
    BY <1>1
  <2>2. n \in Int /\ n <= end - host.next /\ n <= Window - (host.next - host.base)
    <3> HIDE DEF end
    <3> QED BY <1>2, <1>3
  <2> HIDE DEF n, end
  <2> QED BY <1>2, <1>3, <2>1, <2>2
<1> HIDE DEF n, end
<1>5. /\ q \in [1 .. n -> Packets \cup Controls]
      /\ \A i \in 1 .. n : /\ q[i].kind = "frame" /\ q[i].frame = host.stream[host.next + i]
                           /\ q[i].seq = (host.next + i - 1) % SeqMod
  <2>1. ASSUME NEW i \in 1 .. n
        PROVE  host.next + i \in 1 .. Len(host.stream) /\ host.next + i - 1 \in Int
               /\ host.stream[host.next + i] \in Frames
    BY <1>2, <1>4
  <2>2. \A i \in 1 .. n : /\ q[i] = Packet(host.next + i - 1, host.stream[host.next + i])
                          /\ q[i] \in Packets
    BY <2>1, PacketIs
  <2>3. q \in [1 .. n -> Packets \cup Controls]
    BY <2>2
  <2> HIDE DEF q
  <2> QED BY <2>2, <2>3 DEF Packet
<1> HIDE DEF q
<1>6. q \in Seq(Packets \cup Controls) /\ Len(q) = n
  BY <1>1, <1>4, <1>5, Listed
<1>7. toPico \in Seq(Packets \cup Controls) /\ Len(toPico) \in Nat
  BY DEF IInv, InType
<1>8. /\ Len(toPico') = Len(toPico) + n
      /\ \A i \in 1 .. Len(toPico) : toPico'[i] = toPico[i]
      /\ \A i \in 1 .. n : toPico'[Len(toPico) + i] = q[i]
  <2> DEFINE r == toPico \o q
  <2>1. /\ Len(r) = Len(toPico) + n
        /\ \A i \in 1 .. Len(r) : r[i] = IF i <= Len(toPico) THEN toPico[i] ELSE q[i - Len(toPico)]
    BY <1>6, <1>7, Joined
  <2> HIDE DEF r
  <2>2. ASSUME NEW i \in 1 .. n PROVE r[Len(toPico) + i] = q[i]
    <3>1. /\ Len(toPico) + i \in 1 .. Len(r) /\ ~(Len(toPico) + i <= Len(toPico))
          /\ (Len(toPico) + i) - Len(toPico) = i
      BY <1>4, <1>7, <2>1
    <3> QED BY <2>1, <3>1
  <2>3. \A i \in 1 .. Len(toPico) : r[i] = toPico[i]
    BY <1>4, <1>7, <2>1
  <2> QED BY <1>1, <2>1, <2>2, <2>3 DEF r
<1>9. /\ host'.next = host.next + n /\ host'.ending = host.ending
      /\ host'.base = host.base /\ host'.hold = host.hold /\ host'.settled = host.settled
      /\ host'.stream = host.stream /\ host'.restart = host.restart
  BY <1>1 DEF IInv, HostInv, HostFields
<1>10. ~Resting /\ ~Resting'
  BY <1>1, <1>9 DEF Resting
<1>11. NoReset(toPico) /\ accepted \in Nat /\ host.base <= accepted
  BY <1>10 DEF IInv, RxInv, AckInv, Counted
<1>12. ASSUME NEW i \in 1 .. Len(toPico')
       PROVE  \/ i \in 1 .. Len(toPico) /\ toPico'[i] = toPico[i]
              \/ toPico'[i].kind = "frame"
  <2>1. CASE i <= Len(toPico)
    BY <1>7, <1>8, <2>1
  <2>2. CASE ~(i <= Len(toPico))
    <3>1. i - Len(toPico) \in 1 .. n /\ Len(toPico) + (i - Len(toPico)) = i
      BY <1>4, <1>7, <1>8, <2>2
    <3> QED BY <1>5, <1>8, <3>1
  <2> QED BY <2>1, <2>2
<1>13. NoReset(toPico') /\ EndInv' /\ (NoCancel(toPico) => NoCancel(toPico'))
  <2>1. \A i \in 1 .. Len(toPico') : EndsJob(toPico'[i]) => i \in 1 .. Len(toPico) /\ EndsJob(toPico[i])
    BY <1>12 DEF EndsJob
  <2>2. EndInv'
    BY <1>9, <2>1 DEF JobInv, EndInv, OneEnd, NoEnd
  <2> QED BY <1>11, <1>12, <2>2 DEF NoReset, NoCancel
<1>14. SentInv'
  <2>1. Named(toPico, host.stream, host.base, accepted)
    BY <1>10 DEF JobInv, SentInv
  <2>2. \A i \in 1 .. n : /\ toPico'[Len(toPico) + i].kind = "frame"
                          /\ toPico'[Len(toPico) + i].seq = (host.next + i - 1) % SeqMod
                          /\ toPico'[Len(toPico) + i].frame = host.stream[host.next + i]
    BY <1>5, <1>8
  <2>3. Named(toPico', host.stream, host.base, accepted)
    <3> DEFINE r == toPico'
               s == host.stream
               b == host.base
               d == host.next
    <3>1. Named(toPico, s, b, accepted)
      BY <2>1
    <3>2. /\ b \in Nat /\ accepted \in Nat /\ b <= accepted /\ d \in Nat /\ b <= d /\ n \in Nat
          /\ d + n <= b + Window /\ d + n <= Len(s) /\ Len(s) \in Nat
          /\ toPico \in Seq(Packets \cup Controls)
      BY <1>2, <1>4, <1>7, <1>11
    <3>3. /\ Len(r) = Len(toPico) + n
          /\ \A i \in 1 .. Len(toPico) : r[i] = toPico[i]
      BY <1>8
    <3>4. \A i \in 1 .. n : /\ r[Len(toPico) + i].kind = "frame" /\ r[Len(toPico) + i].seq = (d + i - 1) % SeqMod
                            /\ r[Len(toPico) + i].frame = s[d + i]
      BY <2>2
    <3> DEFINE z == toPico
               k == n
    <3>5. Filled(r, z, s, d, k)
      <4> HIDE DEF r, s, d
      <4> QED BY <3>3, <3>4 DEF Filled
    <3>6. Named(r, s, b, accepted)
      <4> HIDE DEF r, s, b, d, z, k
      <4>1. /\ z \in Seq(Packets \cup Controls) /\ Named(z, s, b, accepted) /\ b \in Nat /\ accepted \in Nat
            /\ b <= accepted /\ d \in Nat /\ b <= d /\ k \in Nat
            /\ d + k <= b + Window /\ d + k <= Len(s) /\ Len(s) \in Nat
        BY <3>1, <3>2 DEF z, k
      <4> QED BY <3>5, <4>1, NamedFill
    <3> QED BY <3>6
  <2> QED BY <1>1, <1>4, <1>9, <2>3 DEF SentInv
<1>15. StandInv'
  BY <1>1, <1>9, <1>10, <1>13 DEF JobInv, StandInv
<1> QED BY <1>1, <1>9, <1>13, <1>14, <1>15 DEF JobInv, OrdInv

LEMMA ApplyJob ==
  ASSUME HostInv, NEW e \in Int, NEW h, h = ApplyAck(host, e)
  PROVE  /\ h.base \in Nat /\ host.base <= h.base /\ h.next = host.next /\ h.stream = host.stream
         /\ h.ending = host.ending /\ h.restart = host.restart
         /\ h.hold = host.hold /\ h.settled = host.settled
<1> DEFINE d == (e - host.base) % SeqMod
<1>1. d \in Nat /\ host.base \in Nat
  <2>1. e - host.base \in Int /\ host.base \in Nat
    BY DEF HostInv
  <2> QED BY <2>1, ModIs
<1> HIDE DEF d
<1>2. h = IF d > 0 /\ d <= host.next - host.base THEN [host EXCEPT !.base = host.base + d] ELSE host
  BY DEF ApplyAck, d
<1>3. CASE h = [host EXCEPT !.base = host.base + d]
  BY <1>1, <1>3 DEF HostInv, HostFields
<1>4. CASE h = host
  BY <1>1, <1>4
<1> QED BY <1>2, <1>3, <1>4

LEMMA ReadJob ==
  ASSUME IInv, JobInv, ReadReply
  PROVE  JobInv'
<1>1. /\ toHost # <<>> /\ host.hold = "none" /\ UNCHANGED <<pico, toPico, accepted, ran>>
  BY DEF ReadReply, Running
<1>2. HostInv /\ host.base \in Nat /\ host.next \in Nat /\ host.base <= host.next
  BY DEF IInv, HostInv
<1>3. /\ host'.base \in Nat /\ host.base <= host'.base /\ host'.next <= host.next /\ host'.next \in Nat
      /\ host'.stream = host.stream /\ host'.ending = host.ending /\ host'.restart = host.restart
  <2>1. CASE Head(toHost).kind = "ack"
    <3>1. host' = ApplyAck(host, Head(toHost).e)
      BY <2>1 DEF ReadReply
    <3>2. Head(toHost).e \in Int
      <4>1. Head(toHost) \in Acks \cup Nacks
        BY <1>1, Popped DEF IInv, OutType
      <4> QED BY <2>1, <4>1 DEF Acks, Nacks
    <3> QED BY <1>2, <3>1, <3>2, ApplyJob
  <2>2. CASE Head(toHost).kind # "ack"
    <3>1. host' = OnNack(Head(toHost).why)
      BY <2>2 DEF ReadReply
    <3>2. \/ \E x : host' = [host EXCEPT !.end = x]
          \/ \E x : host' = [host EXCEPT !.hold = x, !.settled = FALSE, !.go = FALSE, !.pauseAsked = FALSE]
          \/ host' = [host EXCEPT !.next = host.base]
      BY <3>1 DEF OnNack, HoldFor, GoBack
    <3>3. CASE \E x : host' = [host EXCEPT !.end = x]
      BY <1>2, <3>3 DEF HostInv, HostFields
    <3>4. CASE \E x : host' = [host EXCEPT !.hold = x, !.settled = FALSE, !.go = FALSE, !.pauseAsked = FALSE]
      BY <1>2, <3>4 DEF HostInv, HostFields
    <3>5. CASE host' = [host EXCEPT !.next = host.base]
      BY <1>2, <3>5 DEF HostInv, HostFields
    <3> QED BY <3>2, <3>3, <3>4, <3>5
  <2> QED BY <2>1, <2>2
<1>4. ~Resting
  BY <1>1 DEF Resting
<1> QED BY <1>1, <1>3, <1>4, HostAlone

LEMMA HoldJob ==
  ASSUME IInv, JobInv, Silence \/ HoldBegins
  PROVE  JobInv'
<1>1. host.hold = "none" /\ UNCHANGED <<pico, toPico, accepted, ran>>
  BY DEF Silence, HoldBegins, Running
<1>2. \/ host' = [host EXCEPT !.next = host.base]
      \/ \E x : host' = [host EXCEPT !.hold = x, !.settled = FALSE, !.go = FALSE, !.pauseAsked = FALSE]
  BY DEF Silence, HoldBegins, GoBack, HoldFor
<1>3. /\ host'.base \in Nat /\ host.base <= host'.base /\ host'.next <= host.next /\ host'.next \in Nat
      /\ host'.stream = host.stream /\ host'.ending = host.ending /\ host'.restart = host.restart
  <2>1. HostInv /\ host.base \in Nat /\ host.next \in Nat /\ host.base <= host.next
    BY DEF IInv, HostInv
  <2>2. CASE host' = [host EXCEPT !.next = host.base]
    BY <2>1, <2>2 DEF HostInv, HostFields
  <2>3. CASE \E x : host' = [host EXCEPT !.hold = x, !.settled = FALSE, !.go = FALSE, !.pauseAsked = FALSE]
    BY <2>1, <2>3 DEF HostInv, HostFields
  <2> QED BY <1>2, <2>2, <2>3
<1>4. ~Resting
  BY <1>1 DEF Resting
<1> QED BY <1>1, <1>3, <1>4, HostAlone

LEMMA SettleJob ==
  ASSUME IInv, JobInv, Settle
  PROVE  JobInv'
<1>1. ~Resting /\ UNCHANGED <<pico, toPico, accepted, ran>>
  BY DEF Settle, Resting
<1>2. HostInv /\ host.base \in Nat /\ host.next \in Nat
  BY DEF IInv, HostInv
<1>3. /\ host'.base \in Nat /\ host.base <= host'.base /\ host'.next <= host.next /\ host'.next \in Nat
      /\ host'.stream = host.stream /\ host'.ending = host.ending /\ host'.restart = host.restart
  <2>1. CASE toHost # <<>> /\ Head(toHost).kind = "ack" /\ host' = ApplyAck(host, Head(toHost).e)
    <3>1. Head(toHost).e \in Int
      <4>1. Head(toHost) \in Acks \cup Nacks
        BY <2>1, Popped DEF IInv, OutType
      <4> QED BY <2>1, <4>1 DEF Acks, Nacks
    <3> QED BY <1>2, <2>1, <3>1, ApplyJob
  <2>2. CASE host' = host
    BY <1>2, <2>2
  <2>3. CASE host' = [host EXCEPT !.settled = TRUE]
    BY <1>2, <2>3 DEF HostInv, HostFields
  <2> QED BY <2>1, <2>2, <2>3 DEF Settle
<1> QED BY <1>1, <1>3, HostAlone

LEMMA EndedJob ==
  ASSUME IInv, JobInv, Ended \/ DataPlaneTick
  PROVE  JobInv'
<1>1. UNCHANGED <<pico, toPico, accepted, ran>> /\ (host' = host \/ \E x : host' = [host EXCEPT !.end = x])
  BY DEF Ended, DataPlaneTick
<1>2. /\ host'.base = host.base /\ host'.next = host.next /\ host'.hold = host.hold
      /\ host'.stream = host.stream /\ host'.ending = host.ending /\ host'.restart = host.restart
      /\ host'.settled = host.settled /\ host.base \in Nat /\ host.next \in Nat
  BY <1>1 DEF IInv, HostInv, HostFields
<1>3. Resting => Resting'
  BY <1>2 DEF Resting
<1> QED BY <1>1, <1>2, <1>3, HostAlone

LEMMA LeaveJob ==
  ASSUME IInv, JobInv, Leave
  PROVE  JobInv'
<1>1. host.settled /\ host.restart = NoPoint /\ toPico = <<>> /\ View = "JOB" /\ UNCHANGED <<pico, accepted, ran>>
  BY DEF Leave, StatusRead
<1>2. HostInv /\ host.base \in Nat /\ host.next \in Nat /\ host.base <= host.next
  BY DEF IInv, HostInv
<1>3. CASE /\ UNCHANGED toPico
           /\ \/ host.hold = "place" /\ host' = [Left(host) EXCEPT !.placed = TRUE]
              \/ host.hold = "tool" /\ host' = GoBack(Left(host))
              \/ host' = [host EXCEPT !.go = FALSE]
  <2>1. /\ host'.base = host.base /\ host'.next \in Nat /\ host'.next <= host.next
        /\ host'.stream = host.stream /\ host'.ending = host.ending /\ host'.restart = host.restart
        /\ \/ host.hold \in {"place", "tool"}
           \/ host'.hold = host.hold /\ host'.settled = host.settled
    <3>1. CASE host.hold = "place" /\ host' = [Left(host) EXCEPT !.placed = TRUE]
      BY <1>2, <3>1 DEF Left, HostInv, HostFields
    <3>2. CASE host.hold = "tool" /\ host' = GoBack(Left(host))
      BY <1>2, <3>2 DEF Left, GoBack, HostInv, HostFields
    <3>3. CASE host' = [host EXCEPT !.go = FALSE]
      BY <1>2, <3>3 DEF HostInv, HostFields
    <3> QED BY <1>3, <3>1, <3>2, <3>3
  <2>2. Resting => Resting'
    BY <2>1 DEF Resting
  <2> QED BY <1>1, <1>2, <1>3, <2>1, <2>2, HostAlone
<1>4. CASE /\ host.hold \in {"paused", "refused"} /\ pico.why = "PAUSED"
           /\ host' = [host EXCEPT !.go = FALSE, !.restart = ResumePoint]
           /\ Sends([kind |-> "seqreset"])
  <2>1. /\ host'.base = host.base /\ host'.next = host.next /\ host'.hold = host.hold
        /\ host'.stream = host.stream /\ host'.ending = host.ending /\ host'.restart = ResumePoint
        /\ host'.settled = host.settled
    BY <1>4 DEF IInv, HostInv, HostFields
  <2>2. Resting /\ Resting'
    BY <1>1, <1>4, <2>1 DEF Resting
  <2>3. pico.ctx = "JOB" /\ Dropped(pico) /\ PutDown(pico)
    BY <1>1, <1>4 DEF View, Dropped, PutDown
  <2>4. Good(Point0(pico)) /\ ResumePoint = Point0(pico)
    BY <2>3 DEF JobInv, KInv, PointInv, ResumePoint, Point0
  <2>5. StandInv'
    BY <1>1, <2>1, <2>2, <2>3, <2>4 DEF JobInv, StandInv
  <2>6. toPico' = <<[kind |-> "seqreset"]>>
    BY <1>1, <1>4 DEF Sends
  <2>7. Len(toPico') = 1 /\ toPico'[1].kind = "seqreset"
    BY <2>6
  <2>8. NoEnd(toPico') /\ OneEnd(toPico') /\ NoCancel(toPico')
    BY <2>7 DEF NoEnd, OneEnd, NoCancel, EndsJob
  <2> QED BY <1>1, <2>1, <2>2, <2>5, <2>8 DEF JobInv, SentInv, EndInv, OrdInv
<1> QED BY <1>3, <1>4 DEF Leave

LEMMA RestartJob ==
  ASSUME IInv, JobInv, Restart
  PROVE  JobInv'
<1>1. host.restart # NoPoint /\ UNCHANGED <<pico, toPico, accepted, ran>>
  BY DEF Restart
<1>2. HostInv /\ host.base \in Nat /\ host.next \in Nat
  BY DEF IInv, HostInv
<1>3. Resting /\ PutDown(pico) /\ Good(host.restart) /\ (pico.ctx = "JOB" => Point0(pico) = host.restart)
  BY <1>1 DEF JobInv, StandInv
<1>4. CASE /\ toHost # <<>>
           /\ host' = [Left(host) EXCEPT !.stream = StreamFrom(host.restart), !.base = 0,
                                         !.next = 0, !.restart = NoPoint]
  <2>1. accepted = 0 /\ NoReset(toPico) /\ NoFrame(toPico)
    BY <1>3, <1>4 DEF IInv, RestInv
  <2>2. /\ host'.base = 0 /\ host'.next = 0 /\ host'.hold = "none" /\ host'.restart = NoPoint
        /\ host'.stream = StreamFrom(host.restart) /\ host'.ending = host.ending
    <3> DEFINE r == StreamFrom(host.restart)
    <3> HIDE DEF r
    <3>1. host' = [Left(host) EXCEPT !.stream = r, !.base = 0, !.next = 0, !.restart = NoPoint]
      BY <1>4 DEF r
    <3> QED BY <1>2, <3>1 DEF Left, HostInv, HostFields, r
  <2>3. StandInv'
    <3>1. host.restart \in Points
      BY <1>2 DEF HostInv
    <3>2. AtRestart(pico, host'.stream, 0)
      BY <1>3, <2>2, <3>1 DEF AtRestart
    <3> QED BY <1>1, <2>1, <2>2, <3>2 DEF StandInv, Parse
  <2>4. SentInv'
    <3>1. Named(toPico, host'.stream, 0, 0) /\ 0 <= 0 + Window
      BY <2>1, NamedNone, JobStreamAssumption
    <3> QED BY <1>1, <2>1, <2>2, <3>1 DEF SentInv
  <2> QED BY <1>1, <2>2, <2>3, <2>4 DEF JobInv, EndInv, OrdInv
<1>5. CASE host' = [host EXCEPT !.restart = NoPoint]
  <2>1. /\ host'.base = host.base /\ host'.next = host.next /\ host'.hold = host.hold
        /\ host'.stream = host.stream /\ host'.ending = host.ending /\ host'.restart = NoPoint
        /\ host'.settled = host.settled
    BY <1>5 DEF IInv, HostInv, HostFields
  <2>2. Resting => Resting'
    BY <2>1 DEF Resting
  <2> QED BY <1>1, <1>2, <2>1, <2>2, HostAlone
<1> QED BY <1>4, <1>5 DEF Restart

LEMMA FaultJob ==
  ASSUME IInv, JobInv, LinkFault
  PROVE  JobInv'
<1>1. UNCHANGED <<pico, host, accepted, ran>>
  BY DEF LinkFault
<1>2. toPico \in Seq(Packets \cup Controls) /\ (Resting' <=> Resting)
  BY <1>1 DEF IInv, InType, Resting
<1>3. CASE toPico' = toPico
  BY <1>1, <1>2, <1>3 DEF JobInv, StandInv, SentInv, EndInv, OrdInv
<1>4. CASE /\ toPico # <<>> /\ Head(toPico).kind = "frame"
           /\ \/ toPico' = [toPico EXCEPT ![1].bad = TRUE]
              \/ toPico' = Tail(toPico)
  <2>1. Head(toPico) = toPico[1] /\ 1 \in 1 .. Len(toPico)
    BY <1>2, <1>4
  <2>2. ~Resting
    BY <1>4, <2>1 DEF IInv, RestInv, NoFrame
  <2>3. NoReset(toPico) /\ host.base \in Nat /\ accepted \in Nat /\ host.base <= accepted
    BY <2>2 DEF IInv, AckInv, Counted, HostInv, RxInv
  <2>4. Named(toPico, host.stream, host.base, accepted) /\ host.next <= host.base + Window
    BY <2>2 DEF JobInv, SentInv
  <2>5. SUFFICES /\ NoReset(toPico') /\ Named(toPico', host.stream, host.base, accepted)
                 /\ (OneEnd(toPico) => OneEnd(toPico')) /\ (NoEnd(toPico) => NoEnd(toPico'))
                 /\ (NoCancel(toPico) => NoCancel(toPico'))
    BY <1>1, <1>2, <2>2, <2>4 DEF JobInv, StandInv, SentInv, EndInv, OrdInv
  <2>6. CASE toPico' = Tail(toPico)
    <3>1. NoReset(Tail(toPico))
      BY <1>2, <1>4, <2>3, TailKeeps
    <3>2. Named(Tail(toPico), host.stream, host.base, accepted)
      <4> DEFINE b == host.base
      <4>1. b \in Nat /\ accepted \in Nat /\ b <= accepted /\ Named(toPico, host.stream, b, accepted)
        BY <2>3, <2>4
      <4> HIDE DEF b
      <4>2. Named(Tail(toPico), host.stream, b, accepted)
        BY <1>2, <1>4, <4>1, NamedPop
      <4> QED BY <4>2 DEF b
    <3>3. /\ OneEnd(toPico) => OneEnd(Tail(toPico))
          /\ NoEnd(toPico) => NoEnd(Tail(toPico))
          /\ NoCancel(toPico) => NoCancel(Tail(toPico))
      BY <1>2, <1>4, EndsPop
    <3> QED BY <2>6, <3>1, <3>2, <3>3
  <2>7. CASE toPico' = [toPico EXCEPT ![1].bad = TRUE]
    <3>1. toPico[1] \in Packets
      <4>1. toPico[1] \in Packets \cup Controls /\ toPico[1].kind = "frame"
        <5>1. Head(toPico) \in Packets \cup Controls
          BY <1>2, <1>4, Popped
        <5> QED BY <1>4, <2>1, <5>1
      <4> QED BY <4>1 DEF Packets, Controls
    <3> DEFINE m == [toPico[1] EXCEPT !.bad = TRUE]
    <3>2. m \in Packets /\ m.kind = toPico[1].kind /\ m.frame = toPico[1].frame /\ m.seq = toPico[1].seq
      BY <3>1 DEF Packets
    <3> HIDE DEF m
    <3>3. toPico' = [toPico EXCEPT ![1] = m]
      BY <2>7 DEF m
    <3>4. /\ Len(toPico') = Len(toPico)
          /\ \A i \in 1 .. Len(toPico) : toPico'[i] = IF i = 1 THEN m ELSE toPico[i]
      BY <1>2, <2>1, <3>2, <3>3
    <3>5. \A i \in 1 .. Len(toPico) : /\ toPico'[i].kind = toPico[i].kind /\ toPico'[i].seq = toPico[i].seq
                                      /\ toPico'[i].frame = toPico[i].frame
      BY <3>2, <3>4
    <3>6. Named(toPico', host.stream, host.base, accepted)
      BY <2>4, <3>4, <3>5, NamedSame
    <3> QED BY <2>3, <3>4, <3>5, <3>6 DEF NoReset, OneEnd, NoEnd, NoCancel, EndsJob
  <2> QED BY <1>4, <2>6, <2>7
<1> QED BY <1>3, <1>4 DEF LinkFault

LEMMA InitHoldsJob == Init => JobInv
<1> SUFFICES ASSUME Init PROVE JobInv
  OBVIOUS
<1>1. /\ pico.ctx = "IDLE" /\ pico.why = "BUFFERING" /\ ~pico.pause /\ ~pico.abort /\ pico.ring = <<>>
      /\ ~pico.active /\ pico.c1 = "rest" /\ ~pico.held /\ ~pico.opened /\ pico.heldLayer = NoPoint
      /\ ~pico.tcPending /\ ~pico.seq /\ Len(pico.ring) = 0
  BY DEF Init
<1>2. /\ toPico = <<>> /\ accepted = 0 /\ ran = <<>> /\ host.stream = FullStream /\ host.base = 0
      /\ host.next = 0 /\ ~host.ending /\ host.hold = "none" /\ host.restart = NoPoint
  BY DEF Init
<1>3. KInv(pico)
  BY <1>1 DEF KInv, StopInv, HeldInv, PointInv, RingInv, MountInv, Stops, Dropped
<1>4. NoReset(toPico) /\ NoFrame(toPico) /\ NoEnd(toPico) /\ OneEnd(toPico)
  <2>1. Len(toPico) = 0
    BY <1>2
  <2> QED BY <2>1 DEF NoReset, NoFrame, NoEnd, OneEnd
<1>5. Parse(pico, host.stream, accepted)
  <2>1. AtPreflight(pico, host.stream, accepted)
    BY <1>1, <1>2, StreamsAre DEF AtPreflight, Fresh, Clear
  <2> QED BY <2>1 DEF Parse
<1>6. StandInv
  BY <1>2, <1>4, <1>5 DEF StandInv
<1>7. SentInv
  <2>1. Named(toPico, host.stream, 0, 0) /\ 0 <= 0 + Window
    BY <1>4, NamedNone, JobStreamAssumption
  <2> QED BY <1>2, <2>1 DEF SentInv
<1>8. Order(pico, ran)
  <2>1. ran \in Seq(Int) /\ Len(ran) = 0
    BY <1>2
  <2> QED BY <1>1, <2>1 DEF Order, Dropped, Stops
<1> QED BY <1>3, <1>4, <1>6, <1>7, <1>8 DEF JobInv, EndInv, OrdInv

LEMMA NextKeepsJob == IInv /\ JobInv /\ [Next]_vars => JobInv'
<1> SUFFICES ASSUME IInv, JobInv, [Next]_vars PROVE JobInv'
  OBVIOUS
<1>1. CASE Receive
  BY <1>1, FeedJob, ResetJob, CommandJob DEF Receive
<1>2. CASE Core0
  BY <1>2, CoreJob, EndedJob DEF Core0
<1>3. CASE Core1
  BY <1>3, CoreJob
<1>4. CASE Session
  BY <1>4, FillJob, ReadJob, HoldJob, SettleJob, LeaveJob, RestartJob, EndedJob DEF Session
<1>5. CASE Operator
  BY <1>5, CoreJob, AskJob DEF Operator
<1>6. CASE LinkFault
  BY <1>6, FaultJob
<1>7. CASE UNCHANGED vars
  BY <1>7 DEF vars, JobInv, StandInv, SentInv, EndInv, OrdInv, Resting
<1> QED BY <1>1, <1>2, <1>3, <1>4, <1>5, <1>6, <1>7 DEF Next

LEMMA JobInvariant == Spec => [](IInv /\ JobInv)
<1>1. Init => IInv /\ JobInv
  BY InitHolds, InitHoldsJob
<1>2. (IInv /\ JobInv) /\ [Next]_vars => (IInv /\ JobInv)'
  BY NextKeeps, NextKeepsJob
<1> QED BY <1>1, <1>2, PTL DEF Spec

(* Every record of the job runs once and in order, whatever is lost,       *)
(* damaged, resent, paused, resumed or changed of tool: what ran and what  *)
(* the ring holds is the job from its first record (lifecycle.cpp's resume *)
(* point, session.ts's restart, data_plane.cpp's number gate); the layer   *)
(* and record Core 0 counts for itself are the host's; and no record waits *)
(* for Core 1 under another layer's tool (takeLayer).                      *)
THEOREM JobRunsRight == Spec => []RunsRight
<1>1. IInv /\ JobInv => RunsRight
  <2> SUFFICES ASSUME IInv, JobInv PROVE RunsRight
    OBVIOUS
  <2>1. RingInv(pico) /\ pico.ring \in Seq(Blocks)
    BY DEF IInv, JobInv, KInv, PicoInv, Typed
  <2>2. RunsInOrder
    <3>1. CASE host.ending
      BY <3>1 DEF RunsInOrder
    <3>2. CASE ~host.ending
      <4>1. Order(pico, ran)
        BY <3>2 DEF JobInv, OrdInv
      <4> QED BY <2>1, <4>1, OrderRuns DEF RunsInOrder
    <3> QED BY <3>1, <3>2
  <2>3. ASSUME NEW i \in 1 .. Len(pico.ring)
        PROVE  /\ pico.ring[i].tag.layer = LayerOf(pico.ring[i].record)
               /\ pico.ring[i].tag = Point(pico.ring[i].tag.layer, pico.ring[i].record)
    <3>1. pico.ring[i] \in Blocks
      BY <2>1
    <3>2. pico.ring[i].tag \in Points /\ pico.ring[i].record \in Int
      BY <3>1 DEF Blocks
    <3>3. /\ Good(pico.ring[i].tag) /\ pico.ring[i].tag.record = pico.ring[i].record
          /\ pico.ring[i].record <= Last(pico.ring[i].tag.layer)
      BY <2>1 DEF RingInv
    <3>4. LayerOf(pico.ring[i].record) = pico.ring[i].tag.layer
      BY <3>2, <3>3, LayerOfIs DEF Good
    <3> QED BY <3>2, <3>3, <3>4 DEF Points, Point
  <2>4. TagIsTrue
    BY <2>3 DEF TagIsTrue
  <2>5. ToolIsRight
    BY <2>1, <2>3 DEF ToolIsRight, RingInv
  <2> QED BY <2>2, <2>4, <2>5 DEF RunsRight
<1> QED BY <1>1, JobInvariant, PTL

----------------------------------------------------------------------------
(* A job that nobody ends is not refused for good.                         *)

(* No abort is under way, an idle Pico's ring is empty, and a job in       *)
(* HOLDING holds for a pause or for a late block.                          *)
Whole(p) ==
  /\ ~p.abort /\ ~p.aborted /\ p.why # "ABORTING"
  /\ p.ctx # "JOB" => ~p.pause /\ ~p.active /\ p.ring = <<>>
  /\ p.ctx = "JOB" /\ p.why = "HOLDING" => (p.held /\ p.pause) \/ p.late
  /\ p.late => p.wasLate

(* The contour Core 0 has open is the one the next record goes on with.    *)
Curve(p) ==
  p.ctx = "JOB" /\ p.opened /\ ~Dropped(p) /\ p.cur.record <= Last(p.cur.layer) =>
    LET start == p.first \/ p.cur.record = First(p.cur.layer)
    IN p.inContour = ~start /\ (~start => p.endAt = p.cur.record - 1)

(* Before the first layer the k frames taken are the preflight Core 0 has  *)
(* counted.                                                                *)
Begun(p, k) ==
  /\ p.ctx # "JOB" => k = 0
  /\ p.ctx = "JOB" /\ Fresh(p) => k = IF p.why = "PREFLIGHT" THEN 1 + p.preSeen ELSE Len(Preflight)
  /\ p.ctx = "JOB" /\ p.why = "PREFLIGHT" => Fresh(p) /\ p.preSeen \in 0 .. Len(Tools) - 1

(* The session has gone past placement only with a job that has.           *)
Signed(p, h) ==
  /\ p.ctx # "JOB" => ~h.placed /\ h.base = 0
  /\ p.ctx = "JOB" /\ p.why \in {"PREFLIGHT", "PLACE"} => ~h.placed

(* No reply under way refuses the job for good.                            *)
Fair(q, late, placed) ==
  \A i \in 1 .. Len(q) : q[i].kind = "nack" => /\ q[i].why # "BAD_CURVE"
                                               /\ q[i].why = "BAD_STATE" => late
                                               /\ q[i].why = "JOB" => placed

(* The host has not ended the job, or its cancel may still be refused.     *)
Calm == ~pico.fault /\ (~host.ending \/ ~NoCancel(toPico))
SurvInv ==
  Calm => /\ Whole(pico) /\ Curve(pico) /\ Begun(pico, accepted) /\ Signed(pico, host)
          /\ Fair(toHost, pico.wasLate, host.placed)

(* What a step does to the job state but for the taking of a frame.        *)
Calmly(p, q) ==
  /\ Whole(q) /\ q.ctx = p.ctx /\ (p.wasLate => q.wasLate)
  /\ q.first = p.first /\ q.endAt = p.endAt /\ q.preSeen = p.preSeen
  /\ q.inContour = p.inContour
  /\ q.ctx = "JOB" => /\ q.why = "PREFLIGHT" <=> p.why = "PREFLIGHT"
                      /\ q.why = "PLACE" => p.why = "PLACE"

LEMMA CalmMoves ==
  ASSUME NEW p, NEW q, RingInv(p), Moves(p, q), Calmly(p, q), Curve(p), NEW k, Begun(p, k),
         NEW h, Signed(p, h), NEW g, g.placed = h.placed, g.base = h.base
  PROVE  Whole(q) /\ Curve(q) /\ Begun(q, k) /\ Signed(q, g)
<1>1. Curve(q)
  BY DEF Moves, Calmly, Curve
<1>2. q.ctx = "JOB" /\ Fresh(q) => p.ctx = "JOB" /\ Fresh(p)
  BY DEF Moves, Calmly, Fresh, RingInv
<1>3. Fresh(p) => Fresh(q)
  BY DEF Moves, Fresh
<1>4. Begun(q, k)
  BY <1>2, <1>3 DEF Calmly, Begun
<1>5. Signed(q, g)
  BY DEF Calmly, Signed
<1> QED BY <1>1, <1>4, <1>5 DEF Calmly

LEMMA LandCalm ==
  ASSUME NEW p, Typed(p), Whole(p), p.ctx = "JOB", p.pause, p.why # "PREFLIGHT", NEW q, q = LandHeld(p)
  PROVE  Calmly(p, q)
<1> DEFINE r == IF p.ring = <<>> THEN NoPoint ELSE Head(p.ring).tag
<1>1. /\ PicoFields \subseteq DOMAIN p
      /\ q = [p EXCEPT !.resume = r, !.ring = <<>>, !.active = FALSE, !.tcPending = FALSE, !.why = "HOLDING",
                 !.held = TRUE, !.c1 = "rest", !.late = FALSE]
  BY DEF LandHeld, Typed
<1> HIDE DEF r
<1> QED BY <1>1 DEF Whole, Calmly, PicoFields

LEMMA Core1Calm ==
  ASSUME PicoInv, KInv(pico), Whole(pico), Core1
  PROVE  Calmly(pico, pico')
<1>1. PicoFields \subseteq DOMAIN pico /\ Typed(pico) /\ Running1(pico)
  BY DEF PicoInv, Typed
<1>2. pico.c1 # "rest" => pico.ctx = "JOB" /\ pico.why \in {"RUNNING", "HOLDING"}
  BY DEF KInv, StopInv
<1>3. CASE Enter
  <2>1. CASE pico.pause /\ pico' = LandHeld(pico)
    BY <1>1, <1>3, <2>1, LandCalm DEF Enter
  <2>2. CASE pico.ring # <<>> /\ pico' = [pico EXCEPT !.c1 = "look", !.active = TRUE, !.why = "RUNNING"]
    BY <1>1, <1>3, <2>2 DEF Enter, Whole, Calmly, PicoFields
  <2> QED BY <1>3, <2>1, <2>2 DEF Enter
<1>4. CASE Look
  <2>1. CASE pico' = LandHeld(pico) /\ pico.pause
    BY <1>1, <1>2, <1>4, <2>1, LandCalm DEF Look
  <2>2. CASE pico' = [pico EXCEPT !.c1 = "tick"]
    BY <1>1, <1>2, <2>2 DEF Whole, Calmly, PicoFields
  <2> QED BY <1>4, <2>1, <2>2 DEF Look, Whole
<1>5. CASE FoundLate
  BY <1>1, <1>2, <1>5 DEF FoundLate, Whole, Calmly, PicoFields
<1>6. CASE Rebuffer
  BY <1>1, <1>2, <1>6 DEF Rebuffer, Whole, Calmly, PicoFields
<1>7. CASE RunRecord
  <2> DEFINE r == Tail(pico.ring)
  <2>1. pico' = [pico EXCEPT !.ring = r, !.c1 = "look"] /\ pico.c1 = "tick"
    BY <1>7 DEF RunRecord
  <2> HIDE DEF r
  <2> QED BY <1>1, <1>2, <2>1 DEF Whole, Calmly, PicoFields
<1>8. CASE LeaveDry
  BY <1>1, <1>2, <1>8 DEF LeaveDry, Whole, Calmly, PicoFields
<1>9. CASE AbortConsumed
  BY <1>9 DEF AbortConsumed, Whole
<1> QED BY <1>3, <1>4, <1>5, <1>6, <1>7, <1>8, <1>9 DEF Core1

LEMMA Core0Calm ==
  ASSUME PicoInv, KInv(pico), Whole(pico), ~pico'.fault,
         LandPaused \/ AbortSettle \/ ToolChangeTick \/ ToolChangeEnds \/ Mount \/ PlaceOk \/ CmdPause
  PROVE  Calmly(pico, pico')
<1>1. PicoFields \subseteq DOMAIN pico /\ Typed(pico) /\ Running1(pico)
  BY DEF PicoInv, Typed
<1>2. CASE LandPaused
  <2>1. pico.ctx = "JOB" => pico.why = "HOLDING" /\ Idle
    BY <1>2 DEF LandPaused, KInv, StopInv, Dropped, Still, Idle
  <2> QED BY <1>1, <1>2, <2>1 DEF LandPaused, Whole, Calmly, PicoFields
<1>3. CASE AbortSettle
  BY <1>3 DEF AbortSettle, Whole
<1>4. CASE ToolChangeTick
  <2>1. CASE pico.ctx # "JOB" /\ pico' = [pico EXCEPT !.tcPending = FALSE, !.tcActive = FALSE, !.tcStarted = FALSE]
    BY <1>1, <2>1 DEF Whole, Calmly, PicoFields
  <2>2. CASE /\ pico.ctx = "JOB" /\ pico.why = "TOOL_CHANGE"
             /\ pico' = [[pico EXCEPT !.tcStarted = TRUE, !.tcPending = FALSE] EXCEPT !.why = pico.backTo]
    <3>1. pico.backTo \in {"BUFFERING", "PAUSED"}
      BY <1>1 DEF Typed
    <3>2. /\ pico'.why = pico.backTo /\ pico'.ctx = pico.ctx /\ pico'.abort = pico.abort
          /\ pico'.aborted = pico.aborted /\ pico'.late = pico.late /\ pico'.wasLate = pico.wasLate
          /\ pico'.first = pico.first /\ pico'.endAt = pico.endAt /\ pico'.preSeen = pico.preSeen
          /\ pico'.inContour = pico.inContour
      BY <1>1, <2>2 DEF PicoFields
    <3> QED BY <2>2, <3>1, <3>2 DEF Whole, Calmly
  <2>3. CASE /\ pico.ctx = "JOB" /\ pico.why = "TOOL_CHANGE"
             /\ pico' = [[pico EXCEPT !.tcStarted = TRUE, !.tcPending = FALSE] EXCEPT !.mounted = 0, !.seq = TRUE]
    <3>2. /\ pico'.why = pico.why /\ pico'.ctx = pico.ctx /\ pico'.abort = pico.abort
          /\ pico'.aborted = pico.aborted /\ pico'.late = pico.late /\ pico'.wasLate = pico.wasLate
          /\ pico'.first = pico.first /\ pico'.endAt = pico.endAt /\ pico'.preSeen = pico.preSeen
          /\ pico'.inContour = pico.inContour
      BY <1>1, <2>3 DEF PicoFields
    <3> QED BY <2>3, <3>2 DEF Whole, Calmly
  <2>4. CASE pico' = [pico EXCEPT !.tcActive = FALSE, !.tcStarted = FALSE]
    BY <1>1, <2>4 DEF Whole, Calmly, PicoFields
  <2> QED BY <1>4, <2>1, <2>2, <2>3, <2>4 DEF ToolChangeTick
<1>5. CASE ToolChangeEnds
  <2>1. pico.why = "TOOL_CHANGE"
    BY <1>5 DEF ToolChangeEnds, KInv, StopInv
  <2>2. CASE pico' = [pico EXCEPT !.seq = FALSE, !.why = "TOOL_WAIT"]
    BY <1>1, <2>1, <2>2 DEF Whole, Calmly, PicoFields
  <2>3. CASE pico' = [JobAbort(pico) EXCEPT !.fault = TRUE]
    BY <1>1, <2>3 DEF JobAbort, PicoFields
  <2> QED BY <1>5, <2>2, <2>3 DEF ToolChangeEnds
<1>6. CASE Mount
  BY <1>1, <1>6 DEF Mount, Whole, Calmly, PicoFields
<1>7. CASE PlaceOk
  BY <1>1, <1>7 DEF PlaceOk, Whole, Calmly, PicoFields
<1>8. CASE CmdPause
  BY <1>1, <1>8 DEF CmdPause, Whole, Calmly, PicoFields
<1> QED BY <1>2, <1>3, <1>4, <1>5, <1>6, <1>7, <1>8

(* What a step does to the replies under way.                              *)
LEMMA FairPop ==
  ASSUME NEW S, NEW q \in Seq(S), q # <<>>, NEW late, NEW placed, Fair(q, late, placed)
  PROVE  Fair(Tail(q), late, placed) /\ (Head(q).kind = "nack" =>
           /\ Head(q).why # "BAD_CURVE" /\ (Head(q).why = "BAD_STATE" => late)
           /\ (Head(q).why = "JOB" => placed))
<1>1. /\ Len(q) \in Nat /\ Len(q) > 0 /\ Head(q) = q[1]
      /\ \A i \in 1 .. Len(Tail(q)) : Tail(q)[i] = q[i + 1] /\ i + 1 \in 1 .. Len(q)
  BY Popped
<1> QED BY <1>1 DEF Fair

LEMMA FairAppend ==
  ASSUME NEW S, NEW q \in Seq(S), NEW x \in S, NEW late, NEW placed, Fair(q, late, placed),
         x.kind = "nack" => /\ x.why # "BAD_CURVE" /\ (x.why = "BAD_STATE" => late)
                            /\ (x.why = "JOB" => placed)
  PROVE  Fair(Append(q, x), late, placed)
<1>1. /\ Len(Append(q, x)) = Len(q) + 1 /\ Len(q) \in Nat
      /\ \A i \in 1 .. Len(q) : Append(q, x)[i] = q[i]
      /\ Append(q, x)[Len(q) + 1] = x
  BY Appended
<1>2. \A i \in 1 .. Len(Append(q, x)) : i \in 1 .. Len(q) \/ i = Len(q) + 1
  BY <1>1
<1> QED BY <1>1, <1>2 DEF Fair

LEMMA FairLater ==
  ASSUME NEW q, NEW late, NEW placed, Fair(q, late, placed), NEW l, NEW p, late => l, placed => p
  PROVE  Fair(q, l, p)
  BY DEF Fair

(* An ACK refuses nothing; a NACK may refuse for a frame alone.            *)
LEMMA FairFlush ==
  ASSUME OutType, RxInv, NEW late, NEW placed, Fair(toHost, late, placed)
  PROVE  Fair(FlushAck(toHost), late, placed) /\ FlushAck(toHost) \in Seq(Acks \cup Nacks)
<1> DEFINE a == Ack(rx.expectedSeq)
<1>1. a \in Acks \cup Nacks /\ a.kind = "ack"
  BY DEF RxInv, Ack, Acks
<1> HIDE DEF a
<1>2. Fair(Append(toHost, a), late, placed) /\ Append(toHost, a) \in Seq(Acks \cup Nacks)
  BY <1>1, FairAppend DEF OutType
<1> QED BY <1>2 DEF FlushAck, a

LEMMA FairNack ==
  ASSUME OutType, RxInv, NEW late, NEW placed, Fair(toHost, late, placed), NEW r \in Refusals, SendNack(r),
         r # "BAD_CURVE", r = "BAD_STATE" => late, r = "JOB" => placed
  PROVE  Fair(toHost', late, placed) /\ accepted' = accepted
<1> DEFINE q == IF rx.pendingAcks > 0 THEN FlushAck(toHost) ELSE toHost
           x == Nack(r)
<1>1. q \in Seq(Acks \cup Nacks) /\ Fair(q, late, placed)
  BY FairFlush DEF OutType
<1>2. x \in Acks \cup Nacks /\ x.why = r
  BY DEF Nack, Nacks
<1>3. toHost' = Append(q, x)
  BY DEF SendNack
<1> HIDE DEF q, x
<1>4. Fair(Append(q, x), late, placed)
  BY <1>1, <1>2, FairAppend
<1> QED BY <1>3, <1>4 DEF SendNack

LEMMA FairTake ==
  ASSUME OutType, RxInv, NEW late, NEW placed, Fair(toHost, late, placed), Take
  PROVE  Fair(toHost', late, placed) /\ accepted' = accepted + 1
<1> DEFINE x == Ack((rx.expectedSeq + 1) % SeqMod)
<1>1. x \in Acks \cup Nacks /\ x.kind = "ack"
  <2>1. rx.expectedSeq + 1 \in Int /\ SeqMod \in Nat \ {0}
    BY JobIs DEF RxInv
  <2>2. (rx.expectedSeq + 1) % SeqMod \in Int
    BY <2>1, ModIs
  <2> QED BY <2>2 DEF Ack, Acks
<1>2. toHost' = Append(toHost, x) \/ toHost' = toHost
  BY DEF Take
<1> HIDE DEF x
<1>3. Fair(Append(toHost, x), late, placed)
  BY <1>1, FairAppend DEF OutType
<1> QED BY <1>2, <1>3 DEF Take

----------------------------------------------------------------------------
(* The taking of a frame in its turn.                                      *)

Kindly(p, k) == /\ Whole(p) /\ Curve(p) /\ Begun(p, k) /\ Signed(p, host)
                /\ Fair(toHost', p.wasLate, host.placed)
Serene == /\ PicoInv /\ RxInv /\ OutType /\ KInv(pico) /\ Whole(pico) /\ Curve(pico)
          /\ Begun(pico, accepted) /\ Signed(pico, host) /\ Fair(toHost, pico.wasLate, host.placed)

LEMMA RefuseCalm ==
  ASSUME Serene, NEW r \in Refusals, Refuse(r),
         r # "BAD_CURVE", r = "BAD_STATE" => pico.wasLate, r = "JOB" => host.placed
  PROVE  Kindly(pico', accepted')
<1>1. pico' = pico /\ SendNack(r)
  BY DEF Refuse
<1>2. Fair(toHost', pico.wasLate, host.placed) /\ accepted' = accepted
  BY <1>1, FairNack DEF Serene
<1> QED BY <1>1, <1>2 DEF Serene, Kindly

LEMMA JobHdrCalm ==
  ASSUME Serene, ~pico.fault, NEW s, NextJob(pico, s, accepted), AcceptJobHdr
  PROVE  Kindly(pico', accepted')
<1>1. PicoFields \subseteq DOMAIN pico /\ accepted = 0 /\ Fresh(pico)
  BY DEF Serene, PicoInv, Typed, NextJob
<1>2. pico.ctx # "JOB"
  <2>1. 1 + pico.preSeen # 0 \/ ~(pico.preSeen \in 0 .. Len(Tools) - 1)
    BY PreflightIs
  <2> QED BY <1>1, <2>1, PreflightIs DEF Serene, Begun
<1>3. View = "IDLE" /\ ~pico.pause /\ Idle
  BY <1>2 DEF Serene, Whole, View, Idle
<1>4. /\ Take /\ pico' = [pico EXCEPT !.ctx = "JOB", !.why = "PREFLIGHT", !.resume = NoPoint,
                               !.cur = NoPoint, !.opened = FALSE, !.inContour = FALSE,
                               !.preSeen = 0, !.heldLayer = NoPoint]
  BY <1>3 DEF AcceptJobHdr
<1>5. accepted' = 1 /\ Fair(toHost', pico.wasLate, host.placed)
  BY <1>1, <1>4, FairTake DEF Serene
<1>6. /\ pico'.ctx = "JOB" /\ pico'.why = "PREFLIGHT" /\ ~pico'.opened /\ pico'.preSeen = 0
      /\ pico'.heldLayer = NoPoint /\ pico'.ring = pico.ring /\ pico'.abort = pico.abort
      /\ pico'.aborted = pico.aborted /\ pico'.late = pico.late /\ pico'.wasLate = pico.wasLate
  BY <1>1, <1>4 DEF PicoFields
<1>7. Fresh(pico')
  BY <1>1, <1>6 DEF Fresh
<1>8. 0 \in 0 .. Len(Tools) - 1
  BY PreflightIs
<1> QED BY <1>2, <1>5, <1>6, <1>7, <1>8 DEF Kindly, Serene, Whole, Curve, Begun, Signed

LEMMA PreToolCalm ==
  ASSUME Serene, NEW s, NextTool(pico, s, accepted), AcceptToolHdr(Tools[accepted])
  PROVE  Kindly(pico', accepted')
<1>1. PicoFields \subseteq DOMAIN pico /\ accepted >= 1 /\ accepted < Len(Preflight) /\ Fresh(pico)
      /\ accepted \in Nat
  BY DEF Serene, PicoInv, Typed, NextTool, RxInv
<1>2. pico.ctx = "JOB" /\ pico.why = "PREFLIGHT" /\ accepted = 1 + pico.preSeen
      /\ pico.preSeen \in 0 .. Len(Tools) - 1 /\ ~host.placed
  BY <1>1 DEF Serene, Begun, Signed
<1>3. ~pico.pause
  BY <1>1 DEF Serene, KInv, HeldInv, Fresh
<1>4. Tools[accepted] = Tools[pico.preSeen + 1]
  <2>1. accepted = pico.preSeen + 1
    BY <1>2
  <2> QED BY <2>1
<1> DEFINE w == IF pico.preSeen + 1 = Len(Tools) THEN "PLACE" ELSE pico.why
<1>5. /\ Take /\ pico' = [pico EXCEPT !.preSeen = @ + 1, !.why = w]
  BY <1>2, <1>3, <1>4 DEF AcceptToolHdr, InPreflight, PreflightTool
<1>6. accepted' = accepted + 1 /\ Fair(toHost', pico.wasLate, host.placed)
  BY <1>5, FairTake DEF Serene
<1>7. /\ pico'.ctx = "JOB" /\ pico'.why = w /\ pico'.opened = pico.opened
      /\ pico'.preSeen = pico.preSeen + 1
      /\ pico'.heldLayer = pico.heldLayer /\ pico'.ring = pico.ring /\ pico'.abort = pico.abort
      /\ pico'.aborted = pico.aborted /\ pico'.late = pico.late /\ pico'.wasLate = pico.wasLate
  BY <1>1, <1>2, <1>5 DEF PicoFields
<1>8. Fresh(pico') /\ w \in {"PREFLIGHT", "PLACE"}
  BY <1>1, <1>2, <1>7 DEF Fresh
<1>9. Begun(pico', accepted')
  BY <1>2, <1>6, <1>7, <1>8, PreflightIs DEF Begun
<1> QED BY <1>1, <1>2, <1>6, <1>7, <1>8, <1>9 DEF Kindly, Serene, Whole, Curve, Signed, Fresh

(* The job is past placement, and nothing of it pauses or changes tool.    *)
Going(kind) == /\ Passed(kind) /\ pico.ctx = "JOB" /\ host.placed /\ ~pico.pause
               /\ pico.why \notin {"PREFLIGHT", "PLACE", "ABORTING", "TOOL_CHANGE"}

(* A layer taken up, p being the job state without the layer held where it *)
(* resumes a pause.                                                        *)
LEMMA TakeLayerCalm ==
  ASSUME Serene, NEW kind, Going(kind), NEW at, NEW t,
         NEW p, \/ p = pico /\ pico.heldLayer # NoPoint /\ pico.why # "PAUSED"
                \/ p = [pico EXCEPT !.heldLayer = NoPoint] /\ Dropped(pico) /\ pico.opened,
         TakeLayer(p, at, t)
  PROVE  Kindly(pico', accepted')
<1> DEFINE w == IF Waiting THEN pico.backTo ELSE pico.why
           check == LayerCheck(w, at)
<1>1. /\ PicoFields \subseteq DOMAIN pico /\ Typed(pico) /\ pico.why \in Reasons
      /\ pico.backTo \in {"BUFFERING", "PAUSED"}
  BY DEF Serene, PicoInv, Typed
<1>2. /\ PicoFields \subseteq DOMAIN p /\ ~Fresh(p) /\ p.ctx = "JOB" /\ p.opened = pico.opened
      /\ p.cur = pico.cur /\ p.first = pico.first /\ p.inContour = pico.inContour
      /\ p.endAt = pico.endAt /\ p.abort = pico.abort /\ p.aborted = pico.aborted /\ p.late = pico.late
      /\ p.wasLate = pico.wasLate /\ p.held = pico.held /\ p.pause = pico.pause /\ p.backTo = pico.backTo
      /\ p.ring = pico.ring /\ p.active = pico.active
  BY <1>1 DEF Fresh, Going, PicoFields
<1>3. w \in {"BUFFERING", "RUNNING", "HOLDING", "PAUSED"}
  BY <1>1 DEF Going, Waiting, Reasons
<1>4. Dropped(pico) => w \in {"PAUSED", "HOLDING"}
  BY <1>3 DEF Going, Dropped, Stops, Waiting
<1>5. check \in {"ok", "JOB", "BAD_STATE"} /\ (check = "BAD_STATE" => pico.wasLate)
  <2>1. check = "BAD_STATE" => w = "HOLDING"
    BY <1>3 DEF Going, Passed, LayerCheck, Admits
  <2>2. w = "HOLDING" => pico.wasLate
    BY <1>1 DEF Going, Waiting, Serene, Whole
  <2> QED BY <2>1, <2>2 DEF LayerCheck
<1>6. ASSUME NEW q, q.ctx = "JOB", q.why \notin {"PREFLIGHT", "PLACE", "ABORTING"}, ~Fresh(q),
             q.abort = pico.abort, q.aborted = pico.aborted, q.late = pico.late, q.wasLate = pico.wasLate,
             q.why = "HOLDING" => q.held = pico.held /\ q.pause = pico.pause /\ pico.why = "HOLDING"
      PROVE  Whole(q) /\ Begun(q, accepted') /\ Signed(q, host)
  BY <1>6 DEF Serene, Whole, Begun, Signed, Going
<1>7. "TOOL_CHANGE" \in Refusals /\ (check # "ok" => check \in Refusals)
  BY <1>5 DEF Refusals
<1>8. CASE SendNack("TOOL_CHANGE") /\ pico' = p
  <2>1. Curve(pico')
    BY <1>2, <1>8 DEF Serene, Curve, Dropped, Stops, PicoFields
  <2>2. Fair(toHost', pico.wasLate, host.placed)
    BY <1>7, <1>8, FairNack DEF Serene
  <2>3. pico'.why = pico.why
    BY <1>1, <1>8 DEF PicoFields
  <2> QED BY <1>2, <1>6, <1>8, <2>1, <2>2, <2>3 DEF Going, Kindly
<1>9. CASE SendNack(check) /\ pico' = [p EXCEPT !.why = w] /\ check # "ok"
  <2> HIDE DEF w
  <2>1. /\ pico'.why = w /\ ~Fresh(pico') /\ pico'.ctx = "JOB" /\ pico'.opened = pico.opened
        /\ pico'.cur = pico.cur /\ pico'.first = pico.first /\ pico'.inContour = pico.inContour
        /\ pico'.endAt = pico.endAt /\ pico'.abort = pico.abort /\ pico'.aborted = pico.aborted
        /\ pico'.late = pico.late /\ pico'.wasLate = pico.wasLate
        /\ pico'.held = pico.held /\ pico'.pause = pico.pause
    BY <1>2, <1>9 DEF Fresh, PicoFields
  <2>2. w = "HOLDING" => pico.why = "HOLDING"
    BY <1>1 DEF w, Waiting
  <2>3. Curve(pico')
    <3>1. Dropped(pico) => Dropped(pico')
      BY <1>4, <2>1 DEF Dropped, w, Waiting, Stops
    <3> QED BY <2>1, <3>1 DEF Serene, Going, Curve
  <2>4. Fair(toHost', pico.wasLate, host.placed)
    <3>1. check = "JOB" => host.placed
      BY DEF Going
    <3> HIDE DEF check
    <3> QED BY <1>5, <1>7, <1>9, <3>1, FairNack DEF Serene
  <2> QED BY <1>3, <1>6, <2>1, <2>2, <2>3, <2>4 DEF Kindly
<1>10. CASE SendNack("TOOL_CHANGE") /\ pico' = HoldForTool(p, w, t) /\ check = "ok"
  <2>1. w # "HOLDING"
    BY <1>10 DEF LayerCheck, Admits
  <2>2. /\ pico'.why = IF w = "PAUSED" \/ (w = "BUFFERING" /\ Idle) THEN "TOOL_CHANGE" ELSE w
        /\ pico'.backTo = IF w = "PAUSED" THEN "PAUSED" ELSE "BUFFERING"
        /\ pico'.ctx = "JOB" /\ pico'.opened = pico.opened /\ pico'.heldLayer = p.heldLayer
        /\ pico'.cur = pico.cur /\ pico'.first = pico.first /\ pico'.inContour = pico.inContour
        /\ pico'.endAt = pico.endAt /\ pico'.abort = pico.abort /\ pico'.aborted = pico.aborted
        /\ pico'.late = pico.late /\ pico'.wasLate = pico.wasLate /\ pico'.ring = p.ring
    <3> HIDE DEF w
    <3> QED BY <1>2, <1>10 DEF HoldForTool, PicoFields
  <2>3. ~Fresh(pico')
    BY <1>2, <2>2 DEF Fresh
  <2>4. Curve(pico')
    <3>1. Dropped(pico) => w = "PAUSED"
      BY <1>4, <2>1
    <3>2. w = "PAUSED" => Dropped(pico')
      BY <2>2 DEF Dropped, Stops
    <3> QED BY <2>2, <3>1, <3>2 DEF Serene, Going, Curve
  <2>5. Fair(toHost', pico.wasLate, host.placed)
    BY <1>7, <1>10, FairNack DEF Serene
  <2> QED BY <1>3, <1>6, <2>1, <2>2, <2>3, <2>4, <2>5 DEF Kindly
<1>11. CASE Take /\ pico' = OpenLayer(p, w, at) /\ check = "ok"
  <2>1. w # "HOLDING"
    BY <1>11 DEF LayerCheck, Admits
  <2>2. /\ pico'.why = IF w = "PAUSED" THEN "BUFFERING" ELSE w
        /\ pico'.ctx = "JOB" /\ pico'.opened /\ pico'.first /\ pico'.inContour = FALSE
        /\ pico'.abort = pico.abort /\ pico'.aborted = pico.aborted
        /\ pico'.late = pico.late /\ pico'.wasLate = pico.wasLate
    <3> HIDE DEF w
    <3> QED BY <1>2, <1>11 DEF OpenLayer, PicoFields
  <2>3. ~Fresh(pico') /\ Curve(pico')
    BY <2>2 DEF Fresh, Curve
  <2>4. Fair(toHost', pico.wasLate, host.placed)
    BY <1>11, FairTake DEF Serene
  <2> QED BY <1>3, <1>6, <2>1, <2>2, <2>3, <2>4 DEF Kindly
<1> QED BY <1>8, <1>9, <1>10, <1>11 DEF TakeLayer

LEMMA LayerCalm ==
  ASSUME Serene, Passed("layer"), pico.ctx = "JOB", host.placed, NEW at, at # NoPoint,
         AcceptLayer(at)
  PROVE  Kindly(pico', accepted')
<1>1. pico.why \notin {"PREFLIGHT", "PLACE", "ABORTING", "TOOL_CHANGE"}
  BY DEF Serene, Signed, Whole, Passed
<1>2. {"PAUSED", "JOB"} \subseteq Refusals /\ PicoFields \subseteq DOMAIN pico
  BY DEF Refusals, Serene, PicoInv, Typed
<1>3. CASE Refuse("PAUSED") \/ Refuse("JOB")
  BY <1>2, <1>3, RefuseCalm
<1>4. CASE /\ ~pico.pause /\ (pico.why = "PAUSED" \/ (Waiting /\ pico.heldLayer = NoPoint))
           /\ TakeLayer([pico EXCEPT !.heldLayer = NoPoint], at, CurTool)
  <2>1. Dropped(pico)
    <3>1. Stops(pico) => (pico.backTo = "BUFFERING" <=> pico.heldLayer # NoPoint)
          /\ pico.backTo \in {"BUFFERING", "PAUSED"}
      BY DEF Serene, KInv, HeldInv, PicoInv, Typed
    <3> QED BY <1>4, <3>1 DEF Dropped, Stops, Waiting
  <2>2. pico.opened /\ Going("layer")
    BY <1>1, <1>4, <2>1 DEF Serene, KInv, PointInv, Going
  <2> QED BY <1>4, <2>1, <2>2, TakeLayerCalm
<1>5. CASE /\ pico.why # "PAUSED" /\ ~(Waiting /\ pico.heldLayer = NoPoint) /\ pico.heldLayer = NoPoint
           /\ ~pico.inContour /\ at # NoPoint /\ pico' = [pico EXCEPT !.heldLayer = at] /\ Take
  <2>1. Fair(toHost', pico.wasLate, host.placed) /\ accepted' = accepted + 1
    BY <1>5, FairTake DEF Serene
  <2>2. /\ pico'.why = pico.why /\ pico'.ctx = "JOB" /\ pico'.opened = pico.opened /\ pico'.heldLayer = at
        /\ pico'.cur = pico.cur /\ pico'.first = pico.first /\ pico'.inContour = pico.inContour
        /\ pico'.endAt = pico.endAt /\ pico'.abort = pico.abort /\ pico'.aborted = pico.aborted
        /\ pico'.late = pico.late /\ pico'.wasLate = pico.wasLate /\ pico'.backTo = pico.backTo
        /\ pico'.held = pico.held /\ pico'.pause = pico.pause
    BY <1>2, <1>5 DEF PicoFields
  <2>3. Whole(pico') /\ Curve(pico') /\ Signed(pico', host)
    BY <1>1, <2>2 DEF Serene, Whole, Curve, Signed, Dropped, Stops
  <2>4. ~Fresh(pico')
    BY <1>5, <2>2 DEF Fresh
  <2>5. Begun(pico', accepted')
    BY <1>1, <2>2, <2>4 DEF Begun
  <2> QED BY <2>1, <2>2, <2>3, <2>5 DEF Kindly
<1> QED BY <1>1, <1>3, <1>4, <1>5 DEF AcceptLayer, InPreflight

LEMMA RecordCalm ==
  ASSUME Serene, NEW s, NextRecord(pico, s, accepted), Passed("bezier"), pico.ctx = "JOB", host.placed,
         AcceptBezier(pico.cur.record)
  PROVE  Kindly(pico', accepted')
<1> DEFINE n == pico.cur.record
           l == pico.cur.layer
<1>1. /\ PicoFields \subseteq DOMAIN pico /\ pico.why \in Reasons /\ pico.cur \in Points /\ n \in Int
      /\ pico.opened /\ n <= Last(l) /\ {"PAUSED", "JOB", "BAD_STATE", "FULL"} \subseteq Refusals
  BY DEF Serene, PicoInv, Typed, NextRecord, Refusals, Points
<1>2. l \in Layers /\ First(l) <= n /\ LayerOf(n) = l /\ First(l) \in Int
  <2>1. l \in Layers /\ First(l) <= n
    BY <1>1 DEF Serene, KInv, PointInv, Good
  <2> QED BY <1>1, <2>1, LayerOfIs, LayerIs
<1>3. pico.why \notin {"PREFLIGHT", "PLACE", "ABORTING", "TOOL_CHANGE", "TOOL_WAIT", "PAUSED"}
  BY DEF Serene, Signed, Whole, Passed
<1>4. CASE Refuse("PAUSED") \/ Refuse("JOB")
  BY <1>1, <1>4, RefuseCalm
<1>5. ASSUME Admits(pico.why)
      PROVE  LET start == pico.first \/ n = First(l)
             IN pico.inContour = ~start /\ (~start => pico.endAt = n - 1)
  <2>1. ~Dropped(pico)
    BY <1>3, <1>5 DEF Admits, Dropped, Stops
  <2> QED BY <1>1, <2>1 DEF Serene, NextRecord, Curve
<1>6. CASE ~pico.pause /\ RecordRefusal(n) # "ok" /\ Refuse(RecordRefusal(n))
  <2>1. CASE ~Admits(pico.why)
    <3>1. RecordRefusal(n) = "BAD_STATE"
      BY <2>1 DEF RecordRefusal
    <3>2. pico.why = "HOLDING" /\ pico.wasLate
      BY <1>1, <1>3, <1>6, <2>1 DEF Admits, Passed, Serene, Whole, Reasons
    <3> QED BY <1>1, <1>6, <3>1, <3>2, RefuseCalm
  <2>2. CASE Admits(pico.why)
    <3>1. RecordRefusal(n) = "FULL"
      BY <1>2, <1>5, <1>6, <2>2 DEF RecordRefusal
    <3> QED BY <1>1, <1>6, <3>1, RefuseCalm
  <2> QED BY <2>1, <2>2
<1>7. CASE /\ RecordRefusal(n) = "ok" /\ Take
           /\ pico' = [pico EXCEPT !.ring = Append(@, [record |-> n, tag |-> pico.cur]),
                                   !.cur.record = @ + 1, !.first = FALSE, !.endAt = n,
                                   !.inContour = n # Last(LayerOf(n))]
  <2> DEFINE r == Append(pico.ring, [record |-> n, tag |-> pico.cur])
             c == [pico.cur EXCEPT !.record = @ + 1]
             e == n # Last(LayerOf(n))
  <2>1. c.layer = l /\ c.record = n + 1
    BY <1>1 DEF Points
  <2>2. e = (n # Last(l))
    BY <1>2
  <2> HIDE DEF r, c, e
  <2>3. pico' = [pico EXCEPT !.ring = r, !.cur = c, !.first = FALSE, !.endAt = n, !.inContour = e]
    BY <1>7 DEF r, c, e
  <2>4. /\ pico'.why = pico.why /\ pico'.ctx = "JOB" /\ pico'.opened
        /\ pico'.cur = c /\ pico'.first = FALSE /\ pico'.inContour = e
        /\ pico'.endAt = n /\ pico'.abort = pico.abort /\ pico'.aborted = pico.aborted
        /\ pico'.late = pico.late /\ pico'.wasLate = pico.wasLate
        /\ pico'.held = pico.held /\ pico'.pause = pico.pause
    BY <1>1, <2>3 DEF PicoFields
  <2>5. Fair(toHost', pico.wasLate, host.placed) /\ accepted' = accepted + 1
    BY <1>7, FairTake DEF Serene
  <2>6. Curve(pico')
    <3>1. Last(l) \in Nat
      BY <1>2, LayerIs
    <3>2. n + 1 # First(l) /\ (n + 1 <= Last(l) => n # Last(l)) /\ n = (n + 1) - 1
      BY <1>1, <1>2, <3>1
    <3> QED BY <2>1, <2>2, <2>4, <3>2 DEF Curve
  <2>7. Whole(pico') /\ Signed(pico', host) /\ Begun(pico', accepted')
    BY <1>3, <2>4 DEF Serene, Whole, Signed, Begun, Fresh
  <2> QED BY <2>4, <2>5, <2>6, <2>7 DEF Kindly
<1> QED BY <1>1, <1>3, <1>4, <1>6, <1>7 DEF AcceptBezier, InPreflight

LEMMA LayerToolCalm ==
  ASSUME Serene, Passed("tool"), pico.ctx = "JOB", host.placed, pico.heldLayer # NoPoint, NEW t,
         AcceptToolHdr(t)
  PROVE  Kindly(pico', accepted')
<1>1. pico.why \notin {"PREFLIGHT", "PLACE", "ABORTING", "TOOL_CHANGE", "PAUSED"}
  BY DEF Serene, Signed, Whole, Passed
<1>2. CASE Refuse("PAUSED")
  <2>1. "PAUSED" \in Refusals
    BY DEF Refusals
  <2> QED BY <1>2, <2>1, RefuseCalm
<1>3. CASE ~pico.pause /\ TakeLayer(pico, pico.heldLayer, t)
  <2>1. Going("tool")
    BY <1>1, <1>3 DEF Going
  <2> QED BY <1>1, <1>3, <2>1, TakeLayerCalm
<1> QED BY <1>1, <1>2, <1>3 DEF AcceptToolHdr, InPreflight, LayerToolHdr

(* The frame taken in its turn, whichever comes next.                      *)
LEMMA FrameCalm ==
  ASSUME Serene, PlaceInv, ~pico.fault, NEW s \in Seq(Frames), accepted < Len(s), Parse(pico, s, accepted),
         Passed(s[accepted + 1].kind), ~host.placed => s[accepted + 1] \in PreFrames,
         Accept(s[accepted + 1])
  PROVE  Kindly(pico', accepted')
<1> DEFINE f == s[accepted + 1]
<1>1. \/ NextJob(pico, s, accepted) \/ NextTool(pico, s, accepted) \/ NextLayer(pico, s, accepted)
      \/ NextLayerTool(pico, s, accepted) \/ NextRecord(pico, s, accepted) \/ NextResume(pico, s, accepted)
  BY NextFrameIs DEF Serene, PicoInv, RxInv, KInv
<1>2. f.kind \notin {"job", "tool"} => host.placed /\ pico.ctx = "JOB"
  BY DEF PreFrames, JobHdr, Serene, Signed
<1>3. CASE NextJob(pico, s, accepted)
  <2>1. AcceptJobHdr
    BY <1>3 DEF NextJob, Accept, JobHdr
  <2> QED BY <1>3, <2>1, JobHdrCalm
<1>4. CASE NextTool(pico, s, accepted)
  <2>1. AcceptToolHdr(Tools[accepted])
    BY <1>4 DEF NextTool, Accept, ToolHdr
  <2> QED BY <1>4, <2>1, PreToolCalm
<1>5. CASE NextLayer(pico, s, accepted) \/ NextResume(pico, s, accepted)
  <2>1. PICK l, n : l \in Layers /\ f = LayerHdr(l, n)
    BY <1>5 DEF NextLayer, NextResume, Good
  <2>2. f.kind = "layer" /\ f.at = Point(l, n) /\ Point(l, n) # NoPoint
    BY <2>1, LayerIs DEF LayerHdr, Point, NoPoint
  <2>3. AcceptLayer(Point(l, n))
    BY <2>2 DEF Accept
  <2> QED BY <1>2, <2>2, <2>3, LayerCalm
<1>6. CASE NextLayerTool(pico, s, accepted)
  <2>1. PICK l \in Layers : f = ToolHdr(LayerTool[l]) /\ pico.heldLayer = Point(l, First(l))
    BY <1>6 DEF NextLayerTool
  <2>2. pico.heldLayer # NoPoint
    BY <2>1, LayerIs DEF Point, NoPoint
  <2>3. host.placed /\ pico.ctx = "JOB"
    BY <2>2 DEF PlaceInv, Unbegun, Serene, Signed
  <2>4. f.kind = "tool" /\ AcceptToolHdr(LayerTool[l])
    BY <2>1 DEF Accept, ToolHdr
  <2> QED BY <2>2, <2>3, <2>4, LayerToolCalm
<1>7. CASE NextRecord(pico, s, accepted)
  <2>1. f.kind = "bezier" /\ AcceptBezier(pico.cur.record)
    BY <1>7 DEF NextRecord, Accept, Bezier
  <2> QED BY <1>2, <1>7, <2>1, RecordCalm
<1> QED BY <1>1, <1>3, <1>4, <1>5, <1>6, <1>7

(* A fault and a late block's mark are never taken back.                   *)
Stays == (pico.fault => pico'.fault) /\ (pico.wasLate => pico'.wasLate)

LEMMA LandStays ==
  ASSUME NEW p, PicoFields \subseteq DOMAIN p, NEW q, q = LandHeld(p)
  PROVE  q.fault = p.fault /\ q.wasLate = p.wasLate
<1> DEFINE r == IF p.ring = <<>> THEN NoPoint ELSE Head(p.ring).tag
<1>1. q = [p EXCEPT !.resume = r, !.ring = <<>>, !.active = FALSE, !.tcPending = FALSE, !.why = "HOLDING",
                    !.held = TRUE, !.c1 = "rest", !.late = FALSE]
  BY DEF LandHeld
<1> HIDE DEF r
<1> QED BY <1>1 DEF PicoFields

LEMMA CoreStays ==
  ASSUME PicoInv, Core1 \/ LandPaused \/ AbortSettle \/ ToolChangeTick \/ ToolChangeEnds \/ Mount \/ PlaceOk
  PROVE  Stays
<1>1. PicoFields \subseteq DOMAIN pico
  BY DEF PicoInv, Typed
<1>2. CASE Enter \/ Look
  <2>1. CASE pico' = LandHeld(pico)
    BY <1>1, <2>1, LandStays DEF Stays
  <2>2. CASE pico' # LandHeld(pico)
    <3>1. \/ pico' = [pico EXCEPT !.c1 = "look", !.active = TRUE, !.why = "RUNNING"]
          \/ pico' = [pico EXCEPT !.why = "ABORTING", !.ring = <<>>, !.active = FALSE,
                                  !.pause = FALSE, !.abort = FALSE, !.c1 = "rest", !.late = FALSE]
          \/ pico' = [pico EXCEPT !.c1 = "tick"]
      BY <1>2, <2>2 DEF Enter, Look
    <3> QED BY <1>1, <3>1 DEF Stays, PicoFields
  <2> QED BY <2>1, <2>2
<1>3. CASE FoundLate \/ Rebuffer \/ LeaveDry \/ AbortConsumed
  <2>1. CASE FoundLate
    BY <1>1, <2>1 DEF FoundLate, Stays, PicoFields
  <2>2. CASE Rebuffer
    BY <1>1, <2>2 DEF Rebuffer, Stays, PicoFields
  <2>3. CASE LeaveDry
    BY <1>1, <2>3 DEF LeaveDry, Stays, PicoFields
  <2>4. CASE AbortConsumed
    BY <1>1, <2>4 DEF AbortConsumed, Stays, PicoFields
  <2> QED BY <1>3, <2>1, <2>2, <2>3, <2>4
<1>4. CASE RunRecord
  <2> DEFINE r == Tail(pico.ring)
  <2>1. pico' = [pico EXCEPT !.ring = r, !.c1 = "look"]
    BY <1>4 DEF RunRecord
  <2> HIDE DEF r
  <2> QED BY <1>1, <2>1 DEF Stays, PicoFields
<1>5. CASE LandPaused \/ AbortSettle \/ Mount \/ PlaceOk
  BY <1>1, <1>5 DEF LandPaused, AbortSettle, Mount, PlaceOk, Stays, PicoFields
<1>6. CASE ToolChangeTick
  <2>1. \/ \E x : pico' = [[pico EXCEPT !.tcStarted = TRUE, !.tcPending = FALSE] EXCEPT !.why = x]
        \/ pico' = [[pico EXCEPT !.tcStarted = TRUE, !.tcPending = FALSE] EXCEPT !.mounted = 0, !.seq = TRUE]
        \/ pico' = [pico EXCEPT !.tcPending = FALSE, !.tcActive = FALSE, !.tcStarted = FALSE]
        \/ pico' = [pico EXCEPT !.tcActive = FALSE, !.tcStarted = FALSE]
    BY <1>6 DEF ToolChangeTick
  <2> QED BY <1>1, <2>1 DEF Stays, PicoFields
<1>7. CASE ToolChangeEnds
  <2>1. \/ pico' = [pico EXCEPT !.seq = FALSE, !.why = "TOOL_WAIT"]
        \/ pico' = [JobAbort(pico) EXCEPT !.fault = TRUE]
    BY <1>7 DEF ToolChangeEnds
  <2> QED BY <1>1, <2>1 DEF JobAbort, Stays, PicoFields
<1> QED BY <1>2, <1>3, <1>4, <1>5, <1>6, <1>7 DEF Core1

LEMMA TakeLayerStays ==
  ASSUME NEW p, PicoFields \subseteq DOMAIN p, NEW at, NEW t, TakeLayer(p, at, t)
  PROVE  pico'.fault = p.fault /\ pico'.wasLate = p.wasLate
<1> DEFINE w == IF Waiting THEN pico.backTo ELSE pico.why
<1>1. \/ pico' = p \/ pico' = [p EXCEPT !.why = w]
      \/ pico' = HoldForTool(p, w, t) \/ pico' = OpenLayer(p, w, at)
  BY DEF TakeLayer
<1> HIDE DEF w
<1>2. CASE pico' = p \/ pico' = [p EXCEPT !.why = w]
  BY <1>2 DEF PicoFields
<1>3. CASE pico' = HoldForTool(p, w, t)
  BY <1>3 DEF HoldForTool, PicoFields
<1>4. CASE pico' = OpenLayer(p, w, at)
  BY <1>4 DEF OpenLayer, PicoFields
<1> QED BY <1>1, <1>2, <1>3, <1>4

LEMMA FrameStays ==
  ASSUME PicoInv, NEW f, Accept(f), f.kind \in {"job", "tool", "layer", "bezier"}
  PROVE  Stays
<1>1. PicoFields \subseteq DOMAIN pico
  BY DEF PicoInv, Typed
<1>2. CASE pico' = pico \/ pico' = [pico EXCEPT !.ctx = "IDLE"]
  BY <1>1, <1>2 DEF Stays, PicoFields
<1>3. CASE f.kind = "job" /\ AcceptJobHdr
  BY <1>1, <1>3 DEF AcceptJobHdr, Refuse, Stays, PicoFields
<1>4. CASE f.kind = "tool" /\ AcceptToolHdr(f.tool)
  <2>1. CASE TakeLayer(pico, pico.heldLayer, f.tool)
    BY <1>1, <2>1, TakeLayerStays DEF Stays
  <2>2. CASE PreflightTool(f.tool)
    <3>1. pico' = [pico EXCEPT !.ctx = "IDLE"] \/ \E x, y : pico' = [pico EXCEPT !.preSeen = x, !.why = y]
      BY <2>2 DEF PreflightTool, PreflightFail
    <3> QED BY <1>1, <3>1 DEF Stays, PicoFields
  <2> QED BY <1>2, <1>4, <2>1, <2>2 DEF AcceptToolHdr, LayerToolHdr, Refuse
<1>5. CASE f.kind = "layer" /\ AcceptLayer(f.at)
  <2>1. CASE TakeLayer([pico EXCEPT !.heldLayer = NoPoint], f.at, CurTool)
    <3> DEFINE p == [pico EXCEPT !.heldLayer = NoPoint]
    <3>1. PicoFields \subseteq DOMAIN p /\ p.fault = pico.fault /\ p.wasLate = pico.wasLate
      BY <1>1 DEF PicoFields
    <3> HIDE DEF p
    <3>2. TakeLayer(p, f.at, CurTool)
      BY <2>1 DEF p
    <3> QED BY <3>1, <3>2, TakeLayerStays DEF Stays
  <2>2. CASE pico' = [pico EXCEPT !.heldLayer = f.at]
    BY <1>1, <2>2 DEF Stays, PicoFields
  <2> QED BY <1>2, <1>5, <2>1, <2>2 DEF AcceptLayer, Refuse, PreflightFail
<1>6. CASE f.kind = "bezier" /\ AcceptBezier(f.record)
  <2>1. CASE \E r, c, n, e : pico' = [pico EXCEPT !.ring = r, !.cur = c, !.first = FALSE, !.endAt = n,
                                                  !.inContour = e]
    BY <1>1, <2>1 DEF Stays, PicoFields
  <2>2. CASE pico' = [pico EXCEPT !.ring = Append(@, [record |-> f.record, tag |-> pico.cur]),
                                  !.cur.record = @ + 1, !.first = FALSE, !.endAt = f.record,
                                  !.inContour = f.record # Last(LayerOf(f.record))]
    BY <2>1, <2>2
  <2> QED BY <1>2, <1>6, <2>2 DEF AcceptBezier, Refuse, PreflightFail
<1> QED BY <1>3, <1>4, <1>5, <1>6 DEF Accept

SInv == SurvInv /\ JobSurvives

(* A step of the job state that the session takes no part in.              *)
LEMMA PicoSurv ==
  ASSUME SInv, Stays, host'.end = host.end
  PROVE  JobSurvives'
  BY DEF SInv, Stays, JobSurvives

LEMMA CoreSurv ==
  ASSUME IInv, JobInv, SInv,
         Core1 \/ LandPaused \/ AbortSettle \/ ToolChangeTick \/ ToolChangeEnds \/ Mount \/ PlaceOk
  PROVE  SInv'
<1>1. UNCHANGED <<toPico, toHost, host, accepted>>
  BY DEF Core1, Enter, Look, FoundLate, Rebuffer, RunRecord, LeaveDry, AbortConsumed, LandPaused,
         AbortSettle, ToolChangeTick, ToolChangeEnds, Mount, PlaceOk
<1>2. Stays
  BY CoreStays DEF IInv
<1>3. JobSurvives'
  BY <1>1, <1>2, PicoSurv
<1>4. ASSUME Calm'
      PROVE  /\ Whole(pico') /\ Curve(pico') /\ Begun(pico', accepted') /\ Signed(pico', host')
             /\ Fair(toHost', pico'.wasLate, host'.placed)
  <2>1. Calm /\ ~pico'.fault
    BY <1>1, <1>2, <1>4 DEF Calm, Stays
  <2>2. /\ Whole(pico) /\ Curve(pico) /\ Begun(pico, accepted) /\ Signed(pico, host)
        /\ Fair(toHost, pico.wasLate, host.placed) /\ KInv(pico) /\ PicoInv /\ RingInv(pico)
    BY <2>1 DEF SInv, SurvInv, JobInv, KInv, IInv
  <2>3. Moves(pico, pico')
    BY <2>2, Core1Right, Core0Right
  <2>4. Calmly(pico, pico')
    BY <2>1, <2>2, Core1Calm, Core0Calm
  <2>5. Whole(pico') /\ Curve(pico') /\ Begun(pico', accepted) /\ Signed(pico', host)
    BY <2>2, <2>3, <2>4, CalmMoves
  <2> QED BY <1>1, <1>2, <2>2, <2>5, FairLater DEF Stays
<1> QED BY <1>3, <1>4 DEF SInv, SurvInv

LEMMA FeedSurv ==
  ASSUME IInv, JobInv, SInv, FeedPacket
  PROVE  SInv'
<1> DEFINE m == Head(toPico)
           s == host.stream
<1>1. Arrives("frame") /\ host' = host
  BY DEF FeedPacket
<1>2. m \in Packets /\ m.frame \in Frames /\ toPico' = Tail(toPico) /\ toPico # <<>>
      /\ m = toPico[1] /\ 1 \in 1 .. Len(toPico) /\ m.kind = "frame"
  <2>1. m \in Packets /\ m.kind = "frame"
    BY <1>1, ArrivesIs DEF IInv
  <2>2. m.frame \in Frames
    BY <2>1 DEF Packets
  <2> QED BY <1>1, <2>1, <2>2, ArrivesIs DEF IInv, Arrives
<1>3. \/ Gate(m) # "ok" /\ Refuse(Gate(m))
      \/ FlushAck(toHost) = toHost' /\ UNCHANGED <<pico, accepted>>
      \/ Gate(m) = "ok" /\ m.seq = rx.expectedSeq /\ Accept(m.frame)
  BY DEF FeedPacket
<1>4. Stays
  <2>1. m.frame.kind \in {"job", "tool", "layer", "bezier"}
    BY <1>2 DEF Frames, PreFrames, JobHdr
  <2>2. CASE pico' = pico
    BY <2>2 DEF Stays
  <2>3. CASE Accept(m.frame)
    BY <2>1, <2>3, FrameStays DEF IInv
  <2> QED BY <1>3, <2>2, <2>3 DEF Refuse
<1>5. JobSurvives'
  BY <1>1, <1>4, PicoSurv
<1>6. ASSUME Calm' PROVE Kindly(pico', accepted')
  <2>1. Calm
    <3>1. NoCancel(toPico) => NoCancel(toPico')
      BY <1>2, EndsPop DEF IInv, InType
    <3> QED BY <1>1, <1>4, <1>6, <3>1 DEF Calm, Stays
  <2>2. Serene /\ ~pico.fault
    BY <2>1 DEF SInv, SurvInv, Calm, Serene, JobInv, IInv
  <2>3. CASE Gate(m) # "ok" /\ Refuse(Gate(m))
    <3>1. Gate(m) # "BAD_STATE"
      <4>1. Gate(m) = "BAD_STATE" => View = "ALARM"
        BY DEF Gate
      <4> QED BY <2>2, <4>1 DEF View
    <3>2. Gate(m) \in {"CRC", "ABORTING", "TOOL_CHANGE", "PAUSED", "BAD_STATE", "ok"}
      BY DEF Gate
    <3>3. Gate(m) \in Refusals /\ Gate(m) # "BAD_CURVE" /\ Gate(m) # "JOB"
      BY <2>3, <3>2 DEF Refusals
    <3> HIDE DEF m
    <3> QED BY <2>2, <2>3, <3>1, <3>3, RefuseCalm
  <2>4. CASE FlushAck(toHost) = toHost' /\ UNCHANGED <<pico, accepted>>
    <3>1. Fair(toHost', pico.wasLate, host.placed)
      BY <2>2, <2>4, FairFlush DEF Serene
    <3> QED BY <2>2, <2>4, <3>1 DEF Serene, Kindly
  <2>5. CASE Gate(m) = "ok" /\ m.seq = rx.expectedSeq /\ Accept(m.frame)
    <3>1. ~Resting
      BY <1>2 DEF IInv, RestInv, NoFrame
    <3>2. toPico \in Seq(Packets \cup Controls) /\ s \in Seq(Frames) /\ accepted \in Nat /\ host.base \in Nat
          /\ host.base <= accepted /\ rx.expectedSeq = accepted % SeqMod
      BY <3>1 DEF IInv, InType, HostInv, RxInv, AckInv, Counted
    <3>3. Named(toPico, s, host.base, accepted) /\ Parse(pico, s, accepted)
      BY <3>1 DEF JobInv, SentInv, StandInv
    <3>4. accepted < Len(s) /\ m.frame = s[accepted + 1]
      <4> DEFINE b == host.base
      <4>1. b \in Nat /\ b <= accepted /\ Named(toPico, s, b, accepted)
        BY <3>2, <3>3
      <4> HIDE DEF b, s
      <4> QED BY <1>2, <2>5, <3>2, <4>1, NamedPop
    <3>5. Passed(m.frame.kind)
      BY <2>5, PassedIs DEF JobInv
    <3>6. ~host.placed => m.frame \in PreFrames
      BY <1>2 DEF IInv, PlaceInv, OnlyPreflight
    <3>7. PlaceInv
      BY DEF IInv
    <3> HIDE DEF m, s
    <3>8. Accept(s[accepted + 1])
      BY <2>5, <3>4
    <3> QED BY <2>2, <3>2, <3>3, <3>4, <3>5, <3>6, <3>7, <3>8, FrameCalm
  <2> QED BY <1>3, <2>3, <2>4, <2>5
<1> QED BY <1>1, <1>5, <1>6 DEF SInv, SurvInv, Kindly

LEMMA ResetSurv ==
  ASSUME IInv, JobInv, SInv, SeqReset
  PROVE  SInv'
<1>1. /\ Arrives("seqreset") /\ host' = host /\ accepted' = 0 /\ toHost' = Append(toHost, Ack(0))
      /\ pico' = [pico EXCEPT !.inContour = FALSE] /\ PicoFields \subseteq DOMAIN pico
  BY DEF SeqReset, IInv, PicoInv, Typed
<1>2. toPico \in Seq(Packets \cup Controls) /\ toPico # <<>> /\ toPico' = Tail(toPico)
      /\ Head(toPico).kind = "seqreset" /\ Head(toPico) = toPico[1] /\ 1 \in 1 .. Len(toPico)
  BY <1>1, ArrivesIs DEF IInv, InType, Arrives
<1>3. PutDown(pico)
  BY <1>2 DEF JobInv, StandInv, NoReset
<1>4. Stays /\ JobSurvives'
  <2>1. Stays
    BY <1>1 DEF Stays, PicoFields
  <2> QED BY <1>1, <2>1, PicoSurv
<1>5. ASSUME Calm'
      PROVE  /\ Whole(pico') /\ Curve(pico') /\ Begun(pico', 0) /\ Signed(pico', host)
             /\ Fair(toHost', pico'.wasLate, host.placed)
  <2>1. Calm
    <3>1. NoCancel(toPico) => NoCancel(toPico')
      BY <1>2, EndsPop
    <3> QED BY <1>1, <1>4, <1>5, <3>1 DEF Calm, Stays
  <2>2. /\ Whole(pico) /\ Signed(pico, host) /\ Fair(toHost, pico.wasLate, host.placed) /\ KInv(pico)
    BY <2>1 DEF SInv, SurvInv, JobInv
  <2>3. pico.ctx = "JOB" => Dropped(pico) /\ pico.opened /\ Dropped(pico') /\ pico'.opened /\ pico'.why # "PREFLIGHT"
    BY <1>1, <1>3, <2>2 DEF PutDown, KInv, PointInv, Dropped, Stops, PicoFields
  <2>4. Curve(pico') /\ Begun(pico', 0)
    BY <1>1, <2>3 DEF Curve, Begun, Fresh, PicoFields
  <2>5. Whole(pico') /\ Signed(pico', host)
    BY <1>1, <2>2 DEF Whole, Signed, PicoFields
  <2>6. Fair(toHost', pico.wasLate, host.placed)
    <3>1. Ack(0) \in Acks \cup Nacks /\ Ack(0).kind = "ack"
      BY DEF Ack, Acks
    <3> QED BY <1>1, <2>2, <3>1, FairAppend DEF IInv, OutType
  <2>7. pico'.wasLate = pico.wasLate
    BY <1>1 DEF PicoFields
  <2> QED BY <2>4, <2>5, <2>6, <2>7
<1> QED BY <1>1, <1>4, <1>5 DEF SInv, SurvInv

LEMMA CommandSurv ==
  ASSUME IInv, JobInv, SInv, Abort \/ CmdPause \/ CmdCancel
  PROVE  SInv'
<1>1. /\ Arrives("abort") \/ Arrives("pause") \/ Arrives("cancel")
      /\ UNCHANGED <<toHost, accepted>>
  BY DEF Abort, CmdPause, CmdCancel
<1>2. toPico \in Seq(Packets \cup Controls) /\ toPico # <<>> /\ toPico' = Tail(toPico)
      /\ PicoFields \subseteq DOMAIN pico
  BY <1>1 DEF IInv, InType, Arrives, PicoInv, Typed
<1>3. /\ host'.base = host.base /\ host'.placed = host.placed /\ host'.end = host.end
      /\ host'.ending = host.ending \/ (Arrives("cancel") /\ ~host'.ending /\ UNCHANGED pico)
  <2>1. \/ host' = host
        \/ \E x : host' = [host EXCEPT !.pauseAsked = x]
        \/ Arrives("cancel") /\ host' = [host EXCEPT !.ending = FALSE] /\ UNCHANGED pico
    BY DEF Abort, CmdPause, CmdCancel
  <2> QED BY <2>1 DEF IInv, HostInv, HostFields
<1>4. Stays
  <2>1. CASE Abort
    <3> DEFINE a == pico.aborted \/ pico.ctx = "JOB"
               b == IF pico.ctx = "JOB" THEN FALSE ELSE pico.seq
    <3>1. pico' = [[pico EXCEPT !.abort = TRUE, !.aborted = a, !.seq = b] EXCEPT !.inContour = FALSE]
      BY <2>1 DEF Abort, JobAbort
    <3> HIDE DEF a, b
    <3> QED BY <1>2, <3>1 DEF Stays, PicoFields
  <2>2. CASE CmdPause
    <3>1. \E a : pico' = [pico EXCEPT !.pause = a]
      BY <2>2 DEF CmdPause
    <3> QED BY <1>2, <3>1 DEF Stays, PicoFields
  <2>3. CASE CmdCancel
    BY <1>2, <2>3 DEF CmdCancel, Stays, PicoFields
  <2> QED BY <2>1, <2>2, <2>3
<1>5. JobSurvives'
  BY <1>3, <1>4, PicoSurv
<1>6. /\ NoCancel(toPico) => NoCancel(toPico') /\ Head(toPico).kind # "cancel"
      /\ EndsJob(Head(toPico)) => NoCancel(toPico') /\ host.ending
  BY <1>2, EndsPop DEF JobInv, EndInv
<1>7. CASE CmdPause
  <2>1. ASSUME Calm'
        PROVE  /\ Whole(pico') /\ Curve(pico') /\ Begun(pico', accepted) /\ Signed(pico', host')
               /\ Fair(toHost, pico'.wasLate, host.placed)
    <3>1. host'.ending = host.ending
      BY <1>3, <1>7 DEF CmdPause, Arrives
    <3>2. Calm /\ ~pico'.fault
      BY <1>4, <1>6, <2>1, <3>1 DEF Calm, Stays
    <3>3. /\ Whole(pico) /\ Curve(pico) /\ Begun(pico, accepted) /\ Signed(pico, host)
          /\ Fair(toHost, pico.wasLate, host.placed) /\ KInv(pico) /\ PicoInv /\ RingInv(pico)
      BY <3>2 DEF SInv, SurvInv, JobInv, KInv, IInv
    <3>4. Moves(pico, pico') /\ Calmly(pico, pico')
      BY <1>7, <3>2, <3>3, CommandRight, Core0Calm
    <3>5. Whole(pico') /\ Curve(pico') /\ Begun(pico', accepted) /\ Signed(pico', host')
      BY <1>3, <3>3, <3>4, CalmMoves
    <3> QED BY <1>4, <3>3, <3>5, FairLater DEF Stays
  <2> QED BY <1>1, <1>3, <1>5, <2>1 DEF SInv, SurvInv
<1>8. CASE Abort \/ CmdCancel
  <2>1. EndsJob(Head(toPico))
    BY <1>8 DEF Abort, CmdCancel, Arrives, EndsJob
  <2>2. CASE host'.ending = host.ending
    <3>1. ~Calm'
      BY <1>6, <2>1, <2>2 DEF Calm
    <3> QED BY <1>5, <3>1 DEF SInv, SurvInv
  <2>3. CASE Arrives("cancel") /\ UNCHANGED pico
    <3>1. ~NoCancel(toPico)
      BY <1>6, <2>3 DEF Arrives
    <3>2. ~pico'.fault => Calm
      BY <2>3, <3>1 DEF Calm
    <3> QED BY <1>1, <1>3, <1>5, <2>3, <3>2 DEF SInv, SurvInv, Calm, Signed
  <2> QED BY <1>3, <2>2, <2>3
<1> QED BY <1>7, <1>8

(* A step of the session or of the link: what it may do to the job's end.  *)
LEMMA HostSurv ==
  ASSUME IInv, IInv', SInv, UNCHANGED <<pico, accepted>>,
         host.ending /\ NoCancel(toPico) => host'.ending /\ NoCancel(toPico'),
         host'.placed = host.placed \/ (pico.ctx = "JOB" /\ pico.why = "BUFFERING" /\ host'.placed),
         host'.base = host.base \/ ~Resting',
         \A late, placed : Fair(toHost, late, placed) => Fair(toHost', late, placed),
         \/ host'.end = host.end \/ host'.end = "ended" \/ pico.fault
         \/ pico.wasLate /\ host'.end = "BAD_STATE"
  PROVE  SInv'
<1>1. JobSurvives'
  BY DEF SInv, JobSurvives
<1>2. ASSUME Calm'
      PROVE  /\ Whole(pico') /\ Curve(pico') /\ Begun(pico', accepted') /\ Signed(pico', host')
             /\ Fair(toHost', pico'.wasLate, host'.placed)
  <2>1. Calm
    BY <1>2 DEF Calm
  <2>2. /\ Whole(pico) /\ Curve(pico) /\ Begun(pico, accepted) /\ Signed(pico, host)
        /\ Fair(toHost, pico.wasLate, host.placed)
    BY <2>1 DEF SInv, SurvInv
  <2>3. pico.ctx # "JOB" => host'.base = 0
    <3>1. CASE host'.base = host.base
      BY <2>2, <3>1 DEF Signed
    <3>2. CASE ~Resting'
      <4>1. accepted' = accepted /\ accepted \in Nat /\ host'.base \in Nat /\ host'.base <= accepted
        BY <3>2 DEF IInv, AckInv, Counted, HostInv, RxInv
      <4> QED BY <2>2, <4>1 DEF Begun
    <3> QED BY <3>1, <3>2
  <2>4. Signed(pico, host')
    BY <2>2, <2>3 DEF Signed
  <2>5. Fair(toHost', pico.wasLate, host'.placed)
    <3>1. Fair(toHost', pico.wasLate, host.placed)
      BY <2>2
    <3>2. host.placed => host'.placed
      OBVIOUS
    <3> QED BY <3>1, <3>2, FairLater
  <2> QED BY <2>2, <2>4, <2>5
<1> QED BY <1>1, <1>2 DEF SInv, SurvInv

LEMMA AskSurv ==
  ASSUME IInv, IInv', SInv, AskPause \/ AskEnd \/ AskResume
  PROVE  SInv'
<1>1. UNCHANGED <<pico, accepted, toHost>> /\ ~host.ending
  BY DEF AskPause, AskEnd, AskResume, Live
<1>2. host'.placed = host.placed /\ host'.base = host.base /\ host'.end = host.end
  BY DEF AskPause, AskEnd, AskResume, IInv, HostInv, HostFields
<1> QED BY <1>1, <1>2, HostSurv

LEMMA FillSurv ==
  ASSUME IInv, IInv', SInv, FillWindow
  PROVE  SInv'
<1>1. UNCHANGED <<pico, accepted, toHost>> /\ ~host.ending /\ \E n : host' = [host EXCEPT !.next = n]
  BY DEF FillWindow, Running
<1>2. host'.placed = host.placed /\ host'.base = host.base /\ host'.end = host.end
  BY <1>1 DEF IInv, HostInv, HostFields
<1> QED BY <1>1, <1>2, HostSurv

LEMMA FairTail ==
  ASSUME OutType, toHost # <<>>, NEW late, NEW placed, Fair(toHost, late, placed)
  PROVE  Fair(Tail(toHost), late, placed)
  BY FairPop DEF OutType

LEMMA ReadSurv ==
  ASSUME IInv, IInv', SInv, ReadReply
  PROVE  SInv'
<1> DEFINE m == Head(toHost)
<1>1. /\ UNCHANGED <<pico, toPico, accepted>> /\ toHost # <<>> /\ toHost' = Tail(toHost)
      /\ ~host.ending /\ host.hold = "none" /\ PicoFields \subseteq DOMAIN pico
  BY DEF ReadReply, Running, IInv, PicoInv, Typed
<1>2. \A late, placed : Fair(toHost, late, placed) => Fair(toHost', late, placed)
  BY <1>1, FairTail DEF IInv
<1>3. CASE m.kind = "ack"
  <2>1. host' = ApplyAck(host, m.e)
    BY <1>3 DEF ReadReply
  <2>2. host' = host \/ \E b : host' = [host EXCEPT !.base = b]
    BY <2>1 DEF ApplyAck
  <2>3. host'.placed = host.placed /\ host'.hold = host.hold /\ host'.end = host.end
    BY <2>2 DEF IInv, HostInv, HostFields
  <2> QED BY <1>1, <1>2, <2>3, HostSurv DEF Resting
<1>4. CASE m.kind # "ack"
  <2>1. host' = OnNack(m.why) /\ m.kind = "nack"
    <3>1. m \in Acks \cup Nacks
      BY <1>1, Popped DEF IInv, OutType
    <3> QED BY <1>4, <3>1 DEF ReadReply, Acks, Nacks
  <2>2. CASE /\ m.why \in {"BAD_STATE", "BAD_CURVE"} \/ (m.why = "JOB" /\ ~host.placed)
             /\ host' = [host EXCEPT !.end = m.why]
    <3>1. host'.placed = host.placed /\ host'.base = host.base /\ host'.end = m.why
      BY <2>2 DEF IInv, HostInv, HostFields
    <3>2. pico.fault \/ (pico.wasLate /\ m.why = "BAD_STATE")
      <4>1. CASE ~pico.fault
        <5>1. Fair(toHost, pico.wasLate, host.placed)
          BY <1>1, <4>1 DEF SInv, SurvInv, Calm
        <5>2. /\ m.why # "BAD_CURVE" /\ (m.why = "BAD_STATE" => pico.wasLate)
              /\ (m.why = "JOB" => host.placed)
          BY <1>1, <2>1, <5>1, FairPop DEF IInv, OutType
        <5> QED BY <2>2, <5>2
      <4> QED BY <4>1
    <3> QED BY <1>1, <1>2, <3>1, <3>2, HostSurv
  <2>3. CASE \/ \E x : host' = [host EXCEPT !.hold = x, !.settled = FALSE, !.go = FALSE, !.pauseAsked = FALSE]
             \/ host' = [host EXCEPT !.next = host.base]
    <3>1. host'.placed = host.placed /\ host'.base = host.base /\ host'.end = host.end
      BY <2>3 DEF IInv, HostInv, HostFields
    <3> QED BY <1>1, <1>2, <3>1, HostSurv
  <2> QED BY <2>1, <2>2, <2>3 DEF OnNack, HoldFor, GoBack
<1> QED BY <1>3, <1>4

LEMMA HoldSurv ==
  ASSUME IInv, IInv', SInv, Silence \/ HoldBegins
  PROVE  SInv'
<1>1. ~host.ending /\ UNCHANGED <<pico, toPico, toHost, accepted>>
  BY DEF Silence, HoldBegins, Running
<1>2. \/ \E x : host' = [host EXCEPT !.next = x]
      \/ \E x : host' = [host EXCEPT !.hold = x, !.settled = FALSE, !.go = FALSE, !.pauseAsked = FALSE]
  BY DEF Silence, HoldBegins, GoBack, HoldFor
<1>3. host'.placed = host.placed /\ host'.base = host.base /\ host'.end = host.end
  BY <1>2 DEF IInv, HostInv, HostFields
<1> QED BY <1>1, <1>3, HostSurv

LEMMA SettleSurv ==
  ASSUME IInv, IInv', SInv, Settle
  PROVE  SInv'
<1>1. UNCHANGED <<pico, toPico, accepted>>
  BY DEF Settle
<1>2. \/ host' = host /\ toHost # <<>> /\ toHost' = Tail(toHost)
      \/ /\ \E b : host' = [host EXCEPT !.base = b]
         /\ toHost # <<>> /\ toHost' = Tail(toHost) /\ ~host.settled
      \/ host' = [host EXCEPT !.settled = TRUE] /\ toHost' = toHost
  BY DEF Settle, ApplyAck
<1>3. /\ host'.placed = host.placed /\ host'.end = host.end /\ host'.ending = host.ending
      /\ host'.base = host.base \/ ~Resting'
  BY <1>2 DEF IInv, HostInv, HostFields, Resting
<1>4. \A late, placed : Fair(toHost, late, placed) => Fair(toHost', late, placed)
  BY <1>2, FairTail DEF IInv
<1> QED BY <1>1, <1>3, <1>4, HostSurv

LEMMA LeaveSurv ==
  ASSUME IInv, IInv', SInv, Leave
  PROVE  SInv'
<1>1. ~host.ending /\ UNCHANGED <<pico, accepted>> /\ pico.ctx = "JOB"
  BY DEF Leave, Live, View
<1>2. \/ pico.why = "BUFFERING" /\ host' = [Left(host) EXCEPT !.placed = TRUE]
      \/ host' = GoBack(Left(host))
      \/ \E x : host' = [host EXCEPT !.go = FALSE, !.restart = x]
      \/ host' = [host EXCEPT !.go = FALSE]
  BY DEF Leave
<1>3. /\ host'.placed = host.placed \/ (pico.why = "BUFFERING" /\ host'.placed)
      /\ host'.end = host.end /\ host'.base = host.base
  BY <1>2 DEF IInv, HostInv, HostFields, Left, GoBack
<1>4. \A late, placed : Fair(toHost, late, placed) => Fair(toHost', late, placed)
  <2>1. toHost' = toHost \/ toHost' = <<>>
    BY DEF Leave
  <2>2. \A late, placed : Fair(<<>>, late, placed)
    BY DEF Fair
  <2> QED BY <2>1, <2>2
<1> QED BY <1>1, <1>3, <1>4, HostSurv

LEMMA RestartSurv ==
  ASSUME IInv, IInv', SInv, Restart
  PROVE  SInv'
<1>1. UNCHANGED <<pico, toPico, accepted>>
  BY DEF Restart
<1>2. \/ \E s : host' = [Left(host) EXCEPT !.stream = s, !.base = 0, !.next = 0, !.restart = NoPoint]
      \/ host' = [host EXCEPT !.restart = NoPoint]
  BY DEF Restart
<1>3. /\ host'.placed = host.placed /\ host'.end = host.end /\ host'.ending = host.ending
      /\ host'.base = host.base \/ ~Resting'
  BY <1>2 DEF IInv, HostInv, HostFields, Left, Resting
<1>4. \A late, placed : Fair(toHost, late, placed) => Fair(toHost', late, placed)
  <2>1. toHost' = toHost \/ (toHost # <<>> /\ toHost' = Tail(toHost))
    BY DEF Restart
  <2> QED BY <2>1, FairTail DEF IInv
<1> QED BY <1>1, <1>3, <1>4, HostSurv

LEMMA EndedSurv ==
  ASSUME IInv, IInv', SInv, Ended
  PROVE  SInv'
<1>1. /\ UNCHANGED <<pico, toPico, toHost, accepted>> /\ pico.ctx # "JOB"
      /\ host.ending \/ host.base > 0
      /\ host' = [host EXCEPT !.end = IF host.ending THEN "ended" ELSE "lost"]
  BY DEF Ended
<1>2. /\ host'.placed = host.placed /\ host'.base = host.base /\ host'.ending = host.ending
      /\ host'.end = IF host.ending THEN "ended" ELSE "lost"
  BY <1>1 DEF IInv, HostInv, HostFields
<1>3. host.ending \/ pico.fault
  <2>1. Calm => host.base = 0
    BY <1>1 DEF SInv, SurvInv, Signed, Ended
  <2> QED BY <1>1, <2>1 DEF Calm, Ended
<1> QED BY <1>1, <1>2, <1>3, HostSurv

LEMMA TickSurv ==
  ASSUME IInv, IInv', SInv, DataPlaneTick
  PROVE  SInv'
<1>1. UNCHANGED <<pico, toPico, host, accepted>> /\ toHost' = FlushAck(toHost)
  BY DEF DataPlaneTick
<1>2. \A late, placed : Fair(toHost, late, placed) => Fair(toHost', late, placed)
  BY <1>1, FairFlush DEF IInv
<1> QED BY <1>1, <1>2, HostSurv

LEMMA FaultSurv ==
  ASSUME IInv, IInv', SInv, LinkFault
  PROVE  SInv'
<1>1. UNCHANGED <<pico, host, accepted>> /\ toPico \in Seq(Packets \cup Controls)
  BY DEF LinkFault, IInv, InType
<1>2. \A late, placed : Fair(toHost, late, placed) => Fair(toHost', late, placed)
  <2>1. toHost' = toHost \/ (toHost # <<>> /\ toHost' = Tail(toHost))
    BY DEF LinkFault
  <2> QED BY <2>1, FairTail DEF IInv
<1>3. NoCancel(toPico) => NoCancel(toPico')
  <2>1. CASE toPico' = toPico
    BY <2>1
  <2>2. CASE toPico # <<>> /\ toPico' = Tail(toPico)
    BY <1>1, <2>2, EndsPop
  <2>3. CASE /\ toPico # <<>> /\ Head(toPico).kind = "frame"
             /\ toPico' = [toPico EXCEPT ![1].bad = TRUE]
    <3>1. 1 \in 1 .. Len(toPico) /\ toPico[1] \in Packets \cup Controls /\ toPico[1].kind = "frame"
      <4>1. Head(toPico) = toPico[1] /\ Len(toPico) > 0 /\ Head(toPico) \in Packets \cup Controls
            /\ Len(toPico) \in Nat
        BY <1>1, <2>3, Popped
      <4> QED BY <2>3, <4>1
    <3> DEFINE x == [toPico[1] EXCEPT !.bad = TRUE]
    <3>2. x.kind = "frame" /\ x \in Packets
      BY <3>1 DEF Packets, Controls
    <3> HIDE DEF x
    <3>3. toPico' = [toPico EXCEPT ![1] = x]
      BY <2>3 DEF x
    <3>4. Len(toPico') = Len(toPico) /\ \A i \in 1 .. Len(toPico) : toPico'[i] = IF i = 1 THEN x ELSE toPico[i]
      BY <1>1, <3>1, <3>2, <3>3
    <3> QED BY <3>2, <3>4 DEF NoCancel
  <2> QED BY <2>1, <2>2, <2>3 DEF LinkFault
<1> QED BY <1>1, <1>2, <1>3, HostSurv

----------------------------------------------------------------------------

LEMMA InitHoldsSurv == Init => SInv
<1> SUFFICES ASSUME Init PROVE SInv
  OBVIOUS
<1>1. JobSurvives
  BY DEF Init, JobSurvives
<1>2. Whole(pico) /\ Curve(pico) /\ Begun(pico, accepted) /\ Signed(pico, host)
  BY DEF Init, Whole, Curve, Begun, Signed
<1>3. Fair(toHost, pico.wasLate, host.placed)
  <2>1. toHost = <<>> /\ Len(<<>>) = 0
    BY DEF Init
  <2> QED BY <2>1 DEF Fair
<1> QED BY <1>1, <1>2, <1>3 DEF SInv, SurvInv

LEMMA NextKeepsSurv == IInv /\ IInv' /\ JobInv /\ SInv /\ [Next]_vars => SInv'
<1> SUFFICES ASSUME IInv, IInv', JobInv, SInv, [Next]_vars PROVE SInv'
  OBVIOUS
<1>1. CASE Receive
  BY <1>1, FeedSurv, ResetSurv, CommandSurv DEF Receive
<1>2. CASE Core0
  BY <1>2, CoreSurv, TickSurv DEF Core0
<1>3. CASE Core1
  BY <1>3, CoreSurv
<1>4. CASE Session
  BY <1>4, FillSurv, ReadSurv, HoldSurv, SettleSurv, LeaveSurv, RestartSurv, EndedSurv DEF Session
<1>5. CASE Operator
  BY <1>5, CoreSurv, AskSurv DEF Operator
<1>6. CASE LinkFault
  BY <1>6, FaultSurv
<1>7. CASE UNCHANGED vars
  BY <1>7 DEF vars, SInv, SurvInv, JobSurvives, Calm
<1> QED BY <1>1, <1>2, <1>3, <1>4, <1>5, <1>6, <1>7 DEF Next

(* A job the host built is never refused for good: the session does not    *)
(* end by a NACK of a frame, whatever is lost, damaged, resent, paused,    *)
(* resumed or changed of tool, but where a record meets a late block's     *)
(* hold (queue.cpp's rebuffer) or a pause meets a tool change's moves,     *)
(* which is a fault (tool_change.cpp).                                     *)
THEOREM JobIsNotLost == Spec => []JobSurvives
<1>1. Init => SInv /\ IInv /\ JobInv
  BY InitHolds, InitHoldsJob, InitHoldsSurv
<1>2. (SInv /\ IInv /\ JobInv) /\ [Next]_vars => (SInv /\ IInv /\ JobInv)'
  BY NextKeeps, NextKeepsJob, NextKeepsSurv
<1>3. SInv => JobSurvives
  BY DEF SInv
<1> QED BY <1>1, <1>2, <1>3, PTL DEF Spec

=============================================================================
