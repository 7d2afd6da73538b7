----------------------------- MODULE JobStream ------------------------------
(***************************************************************************)
(* A job on its way from the host to the planner ring: the host's          *)
(* Go-Back-N session (web/src/wire/link/session.ts), the Pico's data plane *)
(* (core0/data_plane.cpp), the planner's job, layer and record admission   *)
(* (core0/planner/queue.cpp), the pause, cancel and abort that cross it,   *)
(* and the hold for a tool change (core0/controller/seq/toolchange.cpp).   *)
(*                                                                         *)
(* A job is Len(LayerTool) layers; layer l is LayerLen[l] records of one   *)
(* contour, cut with tool LayerTool[l].  Records are numbered through the  *)
(* job.  A point is a layer and a record, as a LAYER_HDR and the status    *)
(* name it.  Geometry, feeds and head selection are left out: every tool   *)
(* goes on one head.  Core 1 runs a record in one step (JobMotion has the  *)
(* run itself), and a command's text reply arrives with its effect.        *)
(***************************************************************************)
EXTENDS Integers, Sequences

CONSTANTS LayerTool,   \* the tool of each layer
          LayerLen,    \* the records of each layer
          Tools,       \* the job's tools, in the order of its preflight
          SeqMod,      \* the rolling sequence number's modulus (256)
          Window,      \* Session.window (16)
          AckMax,      \* ACK_COALESCE_MAX
          RingSize,    \* records the ring holds
          MaxUpsets,   \* bound: frames and replies lost or damaged, early timeouts, late
                       \* blocks, pauses, ABORTs and cancels, together
          MaxMounts,   \* bound: the operator's mounts and unmounts
          Wire         \* bound: frames and replies under way when a batch is written

Layers == 1 .. Len(LayerTool)

ASSUME JobStreamAssumption ==
  /\ {LayerTool, LayerLen, Tools} \subseteq Seq(Nat \ {0})
  /\ Len(LayerLen) = Len(LayerTool) /\ Tools # <<>>
  /\ SeqMod \in Nat /\ Window \in Nat \ {0} /\ Window < SeqMod
  /\ AckMax \in Nat \ {0} /\ RingSize \in Nat \ {0}
  /\ {MaxUpsets, MaxMounts, Wire} \subseteq Nat

VARIABLES
  pico,        \* Core 0's job state and what it shares with Core 1
  rx,          \* the data plane's expectedSeq and pendingAcks
  toPico,      \* the host's bytes under way: frames, control bytes, text commands
  toHost,      \* the data plane's replies under way
  host,        \* the session
  left,        \* what is left of each bound
  accepted,    \* history: frames of this stream the Pico has taken
  ran          \* history: the records run, in the order they ran

vars == <<pico, rx, toPico, toHost, host, left, accepted, ran>>

-----------------------------------------------------------------------------
(* The job's frames *)

\* Before[l]: the records of the layers before l
Before[l \in 1 .. Len(LayerTool) + 1] == IF l = 1 THEN 0 ELSE Before[l - 1] + LayerLen[l - 1]
First(l) == Before[l] + 1
Last(l)  == Before[l + 1]
Records  == 1 .. Before[Len(LayerTool) + 1]
LayerOf(n) == CHOOSE l \in Layers : First(l) <= n /\ n <= Last(l)

Point(l, n) == [layer |-> l, record |-> n]
NoPoint == Point(0, 0)

JobHdr        == [kind |-> "job"]
ToolHdr(t)    == [kind |-> "tool", tool |-> t]
LayerHdr(l, n) == [kind |-> "layer", at |-> Point(l, n)]
Bezier(n)     == [kind |-> "bezier", record |-> n]

RecordsFrom(l, n) == [i \in 1 .. Last(l) - n + 1 |-> Bezier(n + i - 1)]

NewLayer(l) == <<LayerHdr(l, First(l)), ToolHdr(LayerTool[l])>> \o RecordsFrom(l, First(l))

LayersFrom[l \in 1 .. Len(LayerTool) + 1] ==
  IF l > Len(LayerTool) THEN <<>> ELSE NewLayer(l) \o LayersFrom[l + 1]

Preflight == <<JobHdr>> \o [i \in 1 .. Len(Tools) |-> ToolHdr(Tools[i])]

\* JobSource.start: the preflight frames, then every layer
FullStream == Preflight \o LayersFrom[1]

\* JobSource.from: this layer's header alone, its records, then the layers after it
StreamFrom(p) ==
  <<LayerHdr(p.layer, p.record)>> \o RecordsFrom(p.layer, p.record) \o LayersFrom[p.layer + 1]

-----------------------------------------------------------------------------
(* State *)

Init ==
  /\ pico = [ctx |-> "IDLE", why |-> "BUFFERING", pause |-> FALSE, abort |-> FALSE,
             aborted |-> FALSE, fault |-> FALSE, ring |-> <<>>, active |-> FALSE, c1 |-> "rest",
             late |-> FALSE, wasLate |-> FALSE, held |-> FALSE, resume |-> NoPoint, cur |-> NoPoint, first |-> FALSE,
             opened |-> FALSE, inContour |-> FALSE, endAt |-> 0, preSeen |-> 0,
             heldLayer |-> NoPoint, tcPending |-> FALSE, tcActive |-> FALSE, tcStarted |-> FALSE,
             want |-> 0, backTo |-> "BUFFERING", seq |-> FALSE, mounted |-> Tools[1]]
  /\ rx = [expectedSeq |-> 0, pendingAcks |-> 0]
  /\ toPico = <<>> /\ toHost = <<>>
  /\ host = [stream |-> FullStream, base |-> 0, next |-> 0, placed |-> FALSE, hold |-> "none",
             settled |-> FALSE, go |-> FALSE, pauseAsked |-> FALSE, ending |-> FALSE,
             restart |-> NoPoint, end |-> "no"]
  /\ left = [upset |-> MaxUpsets, mount |-> MaxMounts]
  /\ accepted = 0 /\ ran = <<>>

\* machineView: JOB by its context, IDLE only without a fault
View == IF pico.ctx = "JOB" THEN "JOB" ELSE IF pico.fault THEN "ALARM" ELSE "IDLE"

Idle == ~pico.active /\ pico.ring = <<>>

-----------------------------------------------------------------------------
(* The data plane's replies *)

Ack(e) == [kind |-> "ack", e |-> e]
Nack(r) == [kind |-> "nack", why |-> r]

\* A slip: the ACK names the frame after the one expected.
FlushAckPast(q) == Append(q, Ack((rx.expectedSeq + 1) % SeqMod))

\* flushAck
FlushAck(q) == Append(q, Ack(rx.expectedSeq))

\* sendNack: an ACK earned before it lands first
SendNack(r) ==
  /\ toHost' = Append(IF rx.pendingAcks > 0 THEN FlushAck(toHost) ELSE toHost, Nack(r))
  /\ rx' = [rx EXCEPT !.pendingAcks = 0]
  /\ UNCHANGED accepted

\* A slip: the count is not kept in its byte.
TakeNoWrap ==
  LET e == rx.expectedSeq + 1
  IN /\ rx' = [expectedSeq |-> e, pendingAcks |-> 0]
     /\ toHost' = Append(toHost, Ack(e)) /\ accepted' = accepted + 1

\* expectedSeq++ and markAck, the end of every accept
Take ==
  LET e == (rx.expectedSeq + 1) % SeqMod
      full == rx.pendingAcks + 1 >= AckMax
  IN /\ rx' = [expectedSeq |-> e, pendingAcks |-> IF full THEN 0 ELSE rx.pendingAcks + 1]
     /\ toHost' = IF full THEN Append(toHost, Ack(e)) ELSE toHost
     /\ accepted' = accepted + 1

Refuse(r) == SendNack(r) /\ UNCHANGED <<pico, ran>>

\* preflightFail: any preflight refusal ends the session
PreflightFail(r) == SendNack(r) /\ pico' = [pico EXCEPT !.ctx = "IDLE"] /\ UNCHANGED ran

InPreflight == pico.ctx = "JOB" /\ pico.why = "PREFLIGHT"
Holding == pico.ctx = "JOB" /\ (pico.tcPending \/ pico.why \in {"TOOL_CHANGE", "TOOL_WAIT"})
Waiting == pico.ctx = "JOB" /\ pico.why = "TOOL_WAIT"

-----------------------------------------------------------------------------
(* The data plane's frames *)

\* feedPacket's early returns, in its order
Gate(m) ==
  CASE m.bad -> "CRC"
    [] ~m.bad /\ (pico.abort \/ (pico.ctx = "JOB" /\ pico.why = "ABORTING")) -> "ABORTING"
    [] OTHER ->
         IF Holding /\ ~(m.frame.kind \in {"layer", "tool"} /\ Waiting) THEN "TOOL_CHANGE"
         ELSE IF View = "JOB" /\ pico.why = "PAUSED" /\ m.frame.kind # "layer" THEN "PAUSED"
         ELSE IF View = "ALARM" THEN "BAD_STATE"
         ELSE "ok"

AcceptJobHdr ==
  IF View # "IDLE" \/ pico.pause \/ ~Idle THEN Refuse("BAD_STATE")
  ELSE /\ pico' = [pico EXCEPT !.ctx = "JOB", !.why = "PREFLIGHT", !.resume = NoPoint,
                               !.cur = NoPoint, !.opened = FALSE, !.inContour = FALSE,
                               !.preSeen = 0, !.heldLayer = NoPoint]
       /\ Take /\ UNCHANGED ran

\* preflightTool: the last of the tools promised opens placement
PreflightTool(t) ==
  IF t # Tools[pico.preSeen + 1] THEN PreflightFail("JOB")
  ELSE /\ pico' = [pico EXCEPT !.preSeen = @ + 1,
                               !.why = IF pico.preSeen + 1 = Len(Tools) THEN "PLACE" ELSE @]
       /\ Take /\ UNCHANGED ran

\* A slip: whatever is mounted will do.
ReadyAlways(t) == TRUE

\* The tool is mounted on its head, and the head zeroed since
Ready(t) == pico.mounted = t

\* plannerResumePoint: where the pause stopped, else the next record
ResumePoint == IF pico.resume # NoPoint THEN pico.resume ELSE pico.cur

\* admit, for a record or a layer
Admits(w) == w \in {"BUFFERING", "RUNNING"} /\ ~pico.pause /\ ~pico.abort

\* plannerLayerCheck, the job's reason being w
LayerCheck(w, at) ==
  IF w = "PAUSED" THEN IF at = ResumePoint THEN "ok" ELSE "JOB"
  ELSE IF ~Admits(w) THEN "BAD_STATE"
  ELSE IF pico.inContour THEN "JOB" ELSE "ok"

\* toolChangeBegin and plannerHoldForTool, the job's reason being w
HoldForTool(p, w, t) ==
  LET now == w = "PAUSED" \/ (w = "BUFFERING" /\ Idle)
  IN [p EXCEPT !.why = IF now THEN "TOOL_CHANGE" ELSE w, !.tcPending = @ \/ ~now,
               !.tcActive = TRUE, !.tcStarted = FALSE, !.want = t,
               !.backTo = IF w = "PAUSED" THEN "PAUSED" ELSE "BUFFERING"]

\* A slip: a resumed layer counts its records on from the pause.
OpenLayerCountsOn(p, w, at) ==
  [p EXCEPT !.why = IF w = "PAUSED" THEN "BUFFERING" ELSE w,
            !.resume = IF w = "PAUSED" THEN NoPoint ELSE @, !.inContour = FALSE,
            !.opened = TRUE, !.first = TRUE, !.heldLayer = NoPoint,
            !.cur = IF w = "PAUSED" THEN @ ELSE at]

\* plannerOpenLayer
OpenLayer(p, w, at) ==
  [p EXCEPT !.why = IF w = "PAUSED" THEN "BUFFERING" ELSE w,
            !.resume = IF w = "PAUSED" THEN NoPoint ELSE @, !.inContour = FALSE,
            !.opened = TRUE, !.first = TRUE, !.heldLayer = NoPoint, !.cur = at]

\* takeLayer.  The way out of TOOL_WAIT stays taken when the layer is refused after it.
TakeLayer(p, at, t) ==
  LET w == IF Waiting THEN pico.backTo ELSE pico.why
      check == LayerCheck(w, at)
      Nacked(r, q) == SendNack(r) /\ pico' = q /\ UNCHANGED ran
  IN IF Waiting /\ (pico.seq \/ ~Ready(t) \/ ~Idle) THEN Nacked("TOOL_CHANGE", p)
     ELSE IF check # "ok" THEN Nacked(check, [p EXCEPT !.why = w])
     ELSE IF ~Ready(t) THEN Nacked("TOOL_CHANGE", HoldForTool(p, w, t))
     ELSE pico' = OpenLayer(p, w, at) /\ Take /\ UNCHANGED ran

\* layerTool: a TOOL_HDR after preflight opens the held layer
LayerToolHdr(t) ==
  IF pico.heldLayer = NoPoint THEN Refuse("JOB") ELSE TakeLayer(pico, pico.heldLayer, t)

AcceptToolHdr(t) ==
  IF pico.pause THEN Refuse("PAUSED")
  ELSE IF pico.ctx # "JOB" THEN Refuse("JOB")
  ELSE IF InPreflight THEN PreflightTool(t)
  ELSE LayerToolHdr(t)

\* The tool of the layer last opened
CurTool == IF pico.cur = NoPoint THEN 0 ELSE LayerTool[pico.cur.layer]

AcceptLayer(at) ==
  IF pico.pause THEN Refuse("PAUSED")
  ELSE IF InPreflight THEN PreflightFail("JOB")
  ELSE IF pico.ctx # "JOB" \/ pico.why = "PLACE" THEN Refuse("JOB")
  ELSE IF pico.why = "PAUSED" \/ (Waiting /\ pico.heldLayer = NoPoint)
  THEN TakeLayer([pico EXCEPT !.heldLayer = NoPoint], at, CurTool)   \* a pause drops it
  ELSE IF pico.heldLayer # NoPoint \/ pico.inContour THEN Refuse("JOB")
  ELSE pico' = [pico EXCEPT !.heldLayer = at] /\ Take /\ UNCHANGED ran

\* plannerQueueRecord: what is wrong with record n now
RecordRefusal(n) ==
  LET start == pico.first \/ n = First(LayerOf(n))
  IN IF ~Admits(pico.why) THEN "BAD_STATE"
     ELSE IF start = pico.inContour THEN "BAD_CURVE"
     ELSE IF Len(pico.ring) >= RingSize THEN "FULL"
     ELSE IF ~start /\ pico.endAt # n - 1 THEN "BAD_CURVE"
     ELSE "ok"

AcceptBezier(n) ==
  IF pico.pause THEN Refuse("PAUSED")
  ELSE IF InPreflight THEN PreflightFail("JOB")
  ELSE IF pico.ctx # "JOB" \/ pico.heldLayer # NoPoint \/ ~pico.opened THEN Refuse("JOB")
  ELSE IF RecordRefusal(n) # "ok" THEN Refuse(RecordRefusal(n))
  ELSE /\ pico' = [pico EXCEPT !.ring = Append(@, [record |-> n, tag |-> pico.cur]),
                               !.cur.record = @ + 1, !.first = FALSE, !.endAt = n,
                               !.inContour = n # Last(LayerOf(n))]
       /\ Take /\ UNCHANGED ran

Accept(f) ==
  CASE f.kind = "job"    -> AcceptJobHdr
    [] f.kind = "tool"   -> AcceptToolHdr(f.tool)
    [] f.kind = "layer"  -> AcceptLayer(f.at)
    [] f.kind = "bezier" -> AcceptBezier(f.record)

Arrives(k) == toPico # <<>> /\ Head(toPico).kind = k /\ toPico' = Tail(toPico)

\* A slip: no duplicate guard.
FeedPacketUnguarded ==
  /\ Arrives("frame")
  /\ LET m == Head(toPico)
     IN IF Gate(m) # "ok" THEN Refuse(Gate(m)) ELSE Accept(m.frame)
  /\ UNCHANGED <<host, left>>

\* feedPacket: a frame out of sequence is answered and not executed
FeedPacket ==
  /\ Arrives("frame")
  /\ LET m == Head(toPico)
     IN \/ Gate(m) # "ok" /\ Refuse(Gate(m))
        \/ /\ Gate(m) = "ok" /\ m.seq # rx.expectedSeq
           /\ toHost' = FlushAck(toHost) /\ rx' = [rx EXCEPT !.pendingAcks = 0]
           /\ UNCHANGED <<pico, accepted, ran>>
        \/ Gate(m) = "ok" /\ m.seq = rx.expectedSeq /\ Accept(m.frame)
  /\ UNCHANGED <<host, left>>

\* dataPlaneTick: the input has drained, the ACKs go out
DataPlaneTick ==
  /\ toPico = <<>> /\ rx.pendingAcks > 0
  /\ toHost' = FlushAck(toHost) /\ rx' = [rx EXCEPT !.pendingAcks = 0]
  /\ UNCHANGED <<pico, toPico, host, left, accepted, ran>>

\* dataPlaneResetSeq, and the ACK(0) that is the host's go-ahead
SeqReset ==
  /\ Arrives("seqreset")
  /\ rx' = [expectedSeq |-> 0, pendingAcks |-> 0]
  /\ toHost' = Append(toHost, Ack(0))
  /\ pico' = [pico EXCEPT !.inContour = FALSE]
  /\ accepted' = 0
  /\ UNCHANGED <<host, left, ran>>

\* jobAbort, with the contour ended
JobAbort(p) == [p EXCEPT !.abort = TRUE, !.aborted = @ \/ p.ctx = "JOB",
                         !.seq = IF p.ctx = "JOB" THEN FALSE ELSE @]
Abort ==
  /\ Arrives("abort")
  /\ pico' = [JobAbort(pico) EXCEPT !.inContour = FALSE]
  /\ UNCHANGED <<rx, toHost, host, left, accepted, ran>>

\* cmdPause
CmdPause ==
  /\ Arrives("pause")
  /\ LET ok == pico.ctx = "JOB" /\ pico.opened /\ pico.why \in {"BUFFERING", "RUNNING"}
     IN /\ pico' = [pico EXCEPT !.pause = @ \/ ok]
        /\ host' = [host EXCEPT !.pauseAsked = @ \/ (ok /\ host.end = "no")]
  /\ UNCHANGED <<rx, toHost, left, accepted, ran>>

\* cmdCancel: a job at rest ends; refused, the session carries on
CmdCancel ==
  /\ Arrives("cancel")
  /\ LET atRest == /\ pico.ctx = "JOB"
                   /\ \/ pico.why \in {"PAUSED", "BUFFERING", "PREFLIGHT", "PLACE"}
                      \/ Waiting /\ Idle
     IN IF atRest
        THEN /\ pico' = [pico EXCEPT !.ctx = "IDLE", !.ring = <<>>, !.active = FALSE,
                                     !.pause = FALSE, !.inContour = FALSE]
             /\ UNCHANGED host
        ELSE host' = [host EXCEPT !.ending = FALSE] /\ UNCHANGED pico
  /\ UNCHANGED <<rx, toHost, left, accepted, ran>>

-----------------------------------------------------------------------------
(* Core 1 *)

\* A slip: the job resumes after the record it was in.
LandHeldPast(p) ==
  [p EXCEPT !.resume = IF p.ring = <<>> THEN NoPoint
                       ELSE Point(Head(p.ring).tag.layer, Head(p.ring).tag.record + 1),
            !.ring = <<>>, !.active = FALSE, !.tcPending = FALSE, !.why = "HOLDING",
            !.held = TRUE, !.c1 = "rest", !.late = FALSE]

\* landHeld: keep where the job stopped, drop the ring; the pause wins over a tool change
LandHeld(p) ==
  [p EXCEPT !.resume = IF p.ring = <<>> THEN NoPoint ELSE Head(p.ring).tag,
            !.ring = <<>>, !.active = FALSE, !.tcPending = FALSE, !.why = "HOLDING",
            !.held = TRUE, !.c1 = "rest", !.late = FALSE]

\* enter
Enter ==
  /\ pico.c1 = "rest" /\ pico.ctx = "JOB" /\ ~pico.abort /\ pico.why = "BUFFERING"
  /\ \/ pico.pause /\ pico' = LandHeld(pico)
     \/ /\ ~pico.pause /\ pico.ring # <<>>
        /\ pico' = [pico EXCEPT !.c1 = "look", !.active = TRUE, !.why = "RUNNING"]
  /\ UNCHANGED <<rx, toPico, toHost, host, left, accepted, ran>>

\* processPlanner's look at the requests: an abort empties the ring, a pause holds
Look ==
  /\ pico.c1 = "look"
  /\ \/ /\ pico.abort
        /\ pico' = [pico EXCEPT !.why = "ABORTING", !.ring = <<>>, !.active = FALSE,
                                !.pause = FALSE, !.abort = FALSE, !.c1 = "rest", !.late = FALSE]
     \/ ~pico.abort /\ pico.pause /\ pico' = LandHeld(pico)
     \/ ~pico.abort /\ ~pico.pause /\ pico' = [pico EXCEPT !.c1 = "tick"]
  /\ UNCHANGED <<rx, toPico, toHost, host, left, accepted, ran>>

\* A replanned block found late: the job holds until it is at rest, then buffers again
FoundLate ==
  /\ pico.c1 = "tick" /\ ~pico.late /\ left.upset > 0 /\ pico.ring # <<>>
  /\ pico' = [pico EXCEPT !.late = TRUE, !.wasLate = TRUE, !.why = "HOLDING", !.c1 = "look"]
  /\ left' = [left EXCEPT !.upset = @ - 1]
  /\ UNCHANGED <<rx, toPico, toHost, host, accepted, ran>>

\* rebuffer
Rebuffer ==
  /\ pico.c1 = "tick" /\ pico.late
  /\ pico' = [pico EXCEPT !.late = FALSE, !.why = "BUFFERING", !.c1 = "rest"]
  /\ UNCHANGED <<rx, toPico, toHost, host, left, accepted, ran>>

RunRecord ==
  /\ pico.c1 = "tick" /\ ~pico.late /\ pico.ring # <<>>
  /\ ran' = Append(ran, Head(pico.ring).record)
  /\ pico' = [pico EXCEPT !.ring = Tail(@), !.c1 = "look"]
  /\ UNCHANGED <<rx, toPico, toHost, host, left, accepted>>

\* leaveDry
LeaveDry ==
  /\ pico.c1 = "tick" /\ ~pico.late /\ pico.ring = <<>>
  /\ pico' = [pico EXCEPT !.c1 = "rest", !.active = FALSE,
                          !.why = IF pico.tcPending THEN "TOOL_CHANGE" ELSE "BUFFERING"]
  /\ UNCHANGED <<rx, toPico, toHost, host, left, accepted, ran>>

\* An abort with nothing to stop: the ring is dropped and the request consumed
AbortConsumed ==
  /\ pico.c1 = "rest" /\ pico.abort
  /\ pico' = [pico EXCEPT !.ring = <<>>, !.active = FALSE, !.pause = FALSE, !.abort = FALSE]
  /\ UNCHANGED <<rx, toPico, toHost, host, left, accepted, ran>>

Core1 == Enter \/ Look \/ FoundLate \/ Rebuffer \/ RunRecord \/ LeaveDry \/ AbortConsumed

-----------------------------------------------------------------------------
(* Core 0's pass: the facts, the tool change, an abort's end *)

\* held and plannerLandPaused, the lift done
LandPaused ==
  /\ pico.held
  /\ pico' = IF pico.ctx = "JOB" /\ pico.why = "HOLDING" /\ Idle
             THEN [pico EXCEPT !.held = FALSE, !.pause = FALSE, !.why = "PAUSED"]
             ELSE [pico EXCEPT !.held = FALSE]
  /\ UNCHANGED <<rx, toPico, toHost, host, left, accepted, ran>>

\* abortSettle, the lift done
AbortSettle ==
  /\ pico.aborted /\ ~pico.abort /\ Idle
  /\ pico' = [pico EXCEPT !.aborted = FALSE, !.ctx = "IDLE"]
  /\ UNCHANGED <<rx, toPico, toHost, host, left, accepted, ran>>

\* toolChangeTick and start: back at once on a ready tool, else the old one is
\* off and the stop's moves begin
ToolChangeTick ==
  /\ \/ /\ pico.ctx # "JOB" /\ (pico.tcPending \/ pico.tcActive)
        /\ pico' = [pico EXCEPT !.tcPending = FALSE, !.tcActive = FALSE, !.tcStarted = FALSE]
     \/ /\ pico.ctx = "JOB" /\ pico.tcActive /\ pico.why = "TOOL_CHANGE" /\ ~pico.tcStarted
        /\ LET p == [pico EXCEPT !.tcStarted = TRUE, !.tcPending = FALSE]
           IN pico' = IF Ready(pico.want) THEN [p EXCEPT !.why = pico.backTo]
                      ELSE [p EXCEPT !.mounted = 0, !.seq = TRUE]
     \/ /\ pico.ctx = "JOB" /\ pico.tcActive /\ ~pico.tcPending
        /\ pico.why \notin {"TOOL_CHANGE", "TOOL_WAIT"}
        /\ pico' = [pico EXCEPT !.tcActive = FALSE, !.tcStarted = FALSE]
  /\ UNCHANGED <<rx, toPico, toHost, host, left, accepted, ran>>

\* The stop's moves are done, TOOL_WAIT; a line is refused while a pause is
\* requested, and the sequence fails
ToolChangeEnds ==
  /\ pico.seq
  /\ \/ pico' = [pico EXCEPT !.seq = FALSE, !.why = "TOOL_WAIT"]
     \/ pico.pause /\ pico' = [JobAbort(pico) EXCEPT !.fault = TRUE]
  /\ UNCHANGED <<rx, toPico, toHost, host, left, accepted, ran>>

Core0 == LandPaused \/ AbortSettle \/ ToolChangeTick \/ ToolChangeEnds \/ DataPlaneTick

-----------------------------------------------------------------------------
(* The operator *)

\* mount and unmount in TOOL_WAIT; the tool mounted may be the wrong one
Mount ==
  /\ left.mount > 0 /\ Waiting /\ ~pico.seq
  /\ \E t \in {0} \cup {Tools[i] : i \in 1 .. Len(Tools)} :
       /\ t = 0 <=> pico.mounted # 0
       /\ pico' = [pico EXCEPT !.mounted = t]
  /\ left' = [left EXCEPT !.mount = @ - 1]
  /\ UNCHANGED <<rx, toPico, toHost, host, accepted, ran>>

\* placeOk
PlaceOk ==
  /\ pico.ctx = "JOB" /\ pico.why = "PLACE" /\ ~pico.aborted /\ Idle
  /\ pico' = [pico EXCEPT !.why = "BUFFERING"]
  /\ UNCHANGED <<rx, toPico, toHost, host, left, accepted, ran>>

Sends(m) == toPico' = Append(toPico, m)
Live == host.end = "no" /\ ~host.ending

\* Session.pause, cancel, end and resume
AskPause ==
  /\ Live /\ left.upset > 0
  /\ Sends([kind |-> "pause"]) /\ left' = [left EXCEPT !.upset = @ - 1]
  /\ UNCHANGED <<pico, rx, toHost, host, accepted, ran>>

AskEnd ==
  /\ Live /\ left.upset > 0
  /\ \E k \in {"abort", "cancel"} : Sends([kind |-> k])
  /\ host' = [host EXCEPT !.ending = TRUE] /\ left' = [left EXCEPT !.upset = @ - 1]
  /\ UNCHANGED <<pico, rx, toHost, accepted, ran>>

AskResume ==
  /\ Live /\ ~host.go /\ View = "JOB"
  /\ host.hold \in {"paused", "refused"} \/ (host.hold = "tool" /\ pico.why = "TOOL_WAIT")
  /\ host' = [host EXCEPT !.go = TRUE]
  /\ UNCHANGED <<pico, rx, toPico, toHost, left, accepted, ran>>

Operator == Mount \/ PlaceOk \/ AskPause \/ AskEnd \/ AskResume

-----------------------------------------------------------------------------
(* The host's session *)

Running == host.end = "no" /\ ~host.ending /\ host.hold = "none"

Packet(n, f) == [kind |-> "frame", seq |-> n % SeqMod, bad |-> FALSE, frame |-> f]

\* The Pico answers a STATUS_REQ having taken the frames before it.
StatusRead == toPico = <<>> /\ host.end = "no"

\* _fillWindow, a batch: nothing past the preflight until placement signs off
FillWindow ==
  /\ Running
  /\ LET end == IF host.placed THEN Len(host.stream) ELSE Len(Preflight)
         n == IF end - host.next < Window - (host.next - host.base) THEN end - host.next
              ELSE Window - (host.next - host.base)
     IN /\ n > 0 /\ Len(toPico) + Len(toHost) <= Wire
        /\ toPico' = toPico \o [i \in 1 .. n |-> Packet(host.next + i - 1, host.stream[host.next + i])]
        /\ host' = [host EXCEPT !.next = @ + n]
  /\ UNCHANGED <<pico, rx, toHost, left, accepted, ran>>

\* _applyAck: a cumulative ACK, clamped to what is in flight
ApplyAck(h, e) ==
  LET delta == (e - h.base) % SeqMod
  IN IF delta > 0 /\ delta <= h.next - h.base THEN [h EXCEPT !.base = @ + delta] ELSE h

GoBack(h) == [h EXCEPT !.next = h.base]

\* _hold's entry
HoldFor(h, k) == [h EXCEPT !.hold = k, !.settled = FALSE, !.go = FALSE, !.pauseAsked = FALSE]

\* _runJob's answer to a NACK
OnNack(r) ==
  IF r \in {"BAD_STATE", "BAD_CURVE"} \/ (r = "JOB" /\ ~host.placed)
  THEN [host EXCEPT !.end = r]
  ELSE IF r \in {"PAUSED", "JOB", "TOOL_CHANGE"}
  THEN HoldFor(host, CASE r = "PAUSED" -> "paused" [] r = "JOB" -> "refused"
                       [] r = "TOOL_CHANGE" -> "tool")
  ELSE GoBack(host)

\* The session reads a reply only with frames in flight.
ReadReply ==
  /\ Running /\ toHost # <<>>
  /\ host.next > host.base /\ ~host.pauseAsked
  /\ host.placed \/ host.base < Len(Preflight)
  /\ LET m == Head(toHost)
     IN host' = IF m.kind = "ack" THEN ApplyAck(host, m.e) ELSE OnNack(m.why)
  /\ toHost' = Tail(toHost)
  /\ UNCHANGED <<pico, rx, toPico, left, accepted, ran>>

\* A slip: a quiet link is waited out.
SilenceWaits == Running /\ toHost = <<>> /\ UNCHANGED vars

\* No reply for ACK_TIMEOUT_MS: resend.  Early, with bytes still under way, it
\* is one of the faults.
Silence ==
  /\ Running /\ toHost = <<>> /\ host.next > host.base /\ ~host.pauseAsked
  /\ LET early == toPico # <<>> \/ rx.pendingAcks > 0
     IN /\ early => left.upset > 0
        /\ left' = IF early THEN [left EXCEPT !.upset = @ - 1] ELSE left
  /\ host' = GoBack(host)
  /\ UNCHANGED <<pico, rx, toPico, toHost, accepted, ran>>

\* The holds _runJob enters by itself: a pause that was answered or is on the
\* status with nothing in flight, and placement
HoldBegins ==
  /\ Running
  /\ \/ /\ \/ host.pauseAsked
           \/ /\ host.next = host.base /\ StatusRead
              /\ View = "JOB" /\ pico.why = "PAUSED"
        /\ host' = HoldFor(host, "paused")
     \/ /\ ~host.pauseAsked /\ ~host.placed /\ host.base >= Len(Preflight)
        /\ host' = HoldFor(host, "place")
  /\ UNCHANGED <<pico, rx, toPico, toHost, left, accepted, ran>>

\* _settle: the rest of the window answers, then ACK_TIMEOUT_MS of quiet
Settle ==
  /\ host.end = "no" /\ host.hold # "none" /\ ~host.settled
  /\ IF toHost # <<>>
     THEN /\ toHost' = Tail(toHost)
          /\ host' = IF Head(toHost).kind = "ack" THEN ApplyAck(host, Head(toHost).e) ELSE host
     ELSE /\ toPico = <<>> /\ rx.pendingAcks = 0
          /\ host' = [host EXCEPT !.settled = TRUE] /\ UNCHANGED toHost
  /\ UNCHANGED <<pico, rx, toPico, left, accepted, ran>>

Left(h) == [h EXCEPT !.hold = "none", !.settled = FALSE, !.go = FALSE, !.pauseAsked = FALSE]

\* _leave, on a status that shows JOB
Leave ==
  /\ Live /\ host.settled /\ host.restart = NoPoint /\ StatusRead /\ View = "JOB"
  /\ \/ /\ host.hold = "place" /\ pico.why = "BUFFERING"
        /\ host' = [Left(host) EXCEPT !.placed = TRUE]
        /\ UNCHANGED <<toPico, toHost>>
     \/ /\ host.hold = "tool" /\ pico.why # "TOOL_CHANGE" /\ (pico.why = "TOOL_WAIT" => host.go)
        /\ host' = GoBack(Left(host))
        /\ UNCHANGED <<toPico, toHost>>
     \/ /\ host.hold \in {"paused", "refused"} /\ host.go
        /\ IF pico.why = "PAUSED"
           THEN /\ host' = [host EXCEPT !.go = FALSE, !.restart = ResumePoint]
                /\ toHost' = <<>> /\ Sends([kind |-> "seqreset"])
           ELSE host' = [host EXCEPT !.go = FALSE] /\ UNCHANGED <<toPico, toHost>>
  /\ UNCHANGED <<pico, rx, left, accepted, ran>>

\* _restart: only ACK(0) opens the new stream; anything else, or silence, stays held
Restart ==
  /\ host.end = "no" /\ host.restart # NoPoint
  /\ \/ /\ toHost # <<>>
        /\ host' = IF Head(toHost) = Ack(0)
                   THEN [Left(host) EXCEPT !.stream = StreamFrom(host.restart), !.base = 0,
                                           !.next = 0, !.restart = NoPoint]
                   ELSE [host EXCEPT !.restart = NoPoint]
        /\ toHost' = Tail(toHost)
     \/ /\ toHost = <<>> /\ toPico = <<>>
        /\ host' = [host EXCEPT !.restart = NoPoint]
        /\ UNCHANGED toHost
  /\ UNCHANGED <<pico, rx, toPico, left, accepted, ran>>

\* _ended: the job has left JOB.  A status has shown it in JOB by its header's ACK.
Ended ==
  /\ StatusRead /\ pico.ctx # "JOB" /\ (host.ending \/ host.base > 0)
  /\ host' = [host EXCEPT !.end = IF host.ending THEN "ended" ELSE "lost"]
  /\ UNCHANGED <<pico, rx, toPico, toHost, left, accepted, ran>>

Session == FillWindow \/ ReadReply \/ Silence \/ HoldBegins \/ Settle \/ Leave \/ Restart \/ Ended

-----------------------------------------------------------------------------
(* The link *)

\* A frame damaged or cut short, a reply lost
LinkFault ==
  /\ left.upset > 0 /\ left' = [left EXCEPT !.upset = @ - 1]
  /\ \/ /\ toPico # <<>> /\ Head(toPico).kind = "frame" /\ ~Head(toPico).bad
        /\ \/ toPico' = [toPico EXCEPT ![1].bad = TRUE]
           \/ toPico' = Tail(toPico)
        /\ UNCHANGED toHost
     \/ toHost # <<>> /\ toHost' = Tail(toHost) /\ UNCHANGED toPico
  /\ UNCHANGED <<pico, rx, host, accepted, ran>>

Receive == FeedPacket \/ SeqReset \/ Abort \/ CmdPause \/ CmdCancel

Next == Receive \/ Core0 \/ Core1 \/ Session \/ Operator \/ LinkFault

\* Both cores' loops and the session's timers run on; the operator and the
\* link's faults are not obliged to.
Fairness == WF_vars(Receive) /\ WF_vars(Core0) /\ WF_vars(Core1)
            /\ WF_vars(Session) /\ WF_vars(ToolChangeEnds) /\ WF_vars(AbortSettle)

Spec == Init /\ [][Next]_vars /\ Fairness

-----------------------------------------------------------------------------
(* Properties *)

Reasons == {"PREFLIGHT", "PLACE", "BUFFERING", "RUNNING", "HOLDING", "PAUSED", "TOOL_CHANGE",
            "TOOL_WAIT", "ABORTING"}

\* The numbering stays in its modulus, the ring and the ACKs in their limits, the
\* job in a reason the firmware names, the host in its stream.
TypeOK ==
  /\ rx.expectedSeq \in 0 .. SeqMod - 1 /\ rx.pendingAcks \in 0 .. AckMax - 1
  /\ pico.ctx \in {"IDLE", "JOB"} /\ pico.why \in Reasons
  /\ Len(pico.ring) <= RingSize /\ pico.c1 \in {"rest", "look", "tick"}
  /\ pico.c1 # "rest" => pico.active
  /\ host.base \in Nat /\ host.next \in 0 .. Len(host.stream)

\* data_plane.cpp's duplicate guard and the cumulative ACK: whatever is lost, damaged, resent
\* or refused, the host never counts a frame the Pico has not taken in this stream.
AckIsTrue == Running => host.base <= accepted

\* Every record of the job runs once and in order, pauses, tool changes and retransmits
\* included: what ran and what the ring holds is the job from its start.  An ABORT gives up
\* the rest of the ring.
RunsInOrder ==
  host.ending \/
  LET held == ran \o [i \in 1 .. Len(pico.ring) |-> pico.ring[i].record]
  IN held = [i \in 1 .. Len(held) |-> i]

\* The layer and record the Pico counts for itself (curLayer, nextRecord), from which a
\* pause takes its resume point, are the ones the host sent.
TagIsTrue ==
  \A i \in 1 .. Len(pico.ring) :
    LET b == pico.ring[i] IN b.tag = Point(LayerOf(b.record), b.record)

\* takeLayer: no record waits for Core 1 under another layer's tool.
ToolIsRight ==
  pico.ctx = "JOB" => \A i \in 1 .. Len(pico.ring) :
                        pico.mounted = LayerTool[LayerOf(pico.ring[i].record)]

\* What the job runs is what the host sent: every record once, in order, counted
\* right, and under its own layer's tool.
RunsRight == RunsInOrder /\ TagIsTrue /\ ToolIsRight

\* A job the host built well is never refused for good: only its operator ends it, except
\* where a record meets a late block's hold, or a pause a tool change's moves.
JobSurvives ==
  \/ host.end \in {"no", "ended"}
  \/ pico.wasLate /\ host.end = "BAD_STATE"
  \/ pico.fault

\* The session never waits for ever on frames in flight: they are taken, or the session
\* holds or ends.
InFlightResolves ==
  (Running /\ host.next > host.base) ~> (host.next = host.base \/ ~Running)

=============================================================================
