---------------------------- MODULE ConfigStore ----------------------------
(***************************************************************************)
(* The configuration of the controller: the blob in flash                  *)
(* (core0/config/config_store.cpp), the decoded config in use              *)
(* (core0/config/machine_cfg.cpp), the edits of it (runtime_edit.cpp,      *)
(* controller/cmd/config.cpp), the push of a new blob over USB             *)
(* (core0/data_plane.cpp) and what is measured under it: the datums        *)
(* (axes_homed) and the work offset (ops/frames.cpp).  Power may be cut    *)
(* between any two steps of a commit, and any flash operation may fail.    *)
(*                                                                         *)
(* A blob is the geometry of two axes (any field whose edit voids the      *)
(* datum), the buffer times Core 1 keeps a copy of, and the rest, which    *)
(* only a push can change; the blob's CRC stands for the blob.  Malformed  *)
(* holds the blobs that do not parse, Refused those that break a rule.     *)
(***************************************************************************)
EXTENDS Naturals

CONSTANTS
  Geo,         \* geometries of an axis
  Bufs,        \* buffer times
  Rests,       \* host-only parts of a blob, the `work` block in them
  Tools,       \* tools to mount
  Pushes,      \* blobs the host pushes, or boot finds
  Malformed,   \* blobs configParse refuses
  Refused,     \* blobs a rule refuses
  MaxSeq,      \* bound: commits
  MaxCuts,     \* bound: power cuts
  None         \* model value: no datum, no work Z, no tool, no commit

Axes == {"x", "z"}
Blob == [x : Geo, z : Geo, buf : Bufs, rest : Rests]

ASSUME BlobAssumption ==
  /\ Pushes \subseteq Blob /\ Pushes # {} /\ Malformed \subseteq Blob /\ Refused \subseteq Blob
  /\ MaxSeq \in Nat /\ MaxCuts \in Nat
  /\ None \notin Geo \cup Bufs \cup Rests \cup Tools
  /\ None \notin [by : {"push", "save"}, blob : Blob, seq : 1..MaxSeq]

(* configParse, then configValidate's rules; an edit runs the rules alone. *)
Parses(b)   == b \notin Malformed
Validate(b) == b \notin Refused
Decodes(b)  == Parses(b) /\ Validate(b)

(* Parsing fails on the shape of the blob, a field missing or of another type, *)
(* never on a value: an edit keeps the field's type (RtFits), so the edited *)
(* blob parses if the blob did.                                             *)
ASSUME ShapeAssumption ==
  \A b \in Blob \ Malformed : \A g \in Geo, q \in Bufs :
    {[b EXCEPT !.x = g], [b EXCEPT !.z = g], [b EXCEPT !.buf = q]} \cap Malformed = {}

(* A file: absent, torn (its header, size or CRC is wrong) or whole. *)
Absent      == [is |-> "absent"]
Torn        == [is |-> "torn"]
Whole(b, s) == [is |-> "whole", blob |-> b, seq |-> s]
File        == {Absent, Torn} \cup {Whole(b, s) : b \in Blob, s \in 0..MaxSeq}

VARIABLES
  flash,     \* [bin, tmp]: /config.bin and /config.tmp
  cache,     \* g_cfg: [mounted, valid, blob, seq]
  cfg,       \* machine_cfg: [active, valid, dirty, ignored]
  pub,       \* bufferQueueS, bufferIdleMs: Core 1's copy
  rx,        \* the CFG_SET receiver: "none", "hdr", "payload"
  job,       \* the commit that runs, or ran when power went: [by, blob]
  pc,        \* Core 0: "off", "boot", "run", or a step of the commit
  mode,      \* "rest", "busy" (a move or a job), "estop" (latched, swept)
  reset,     \* soft_reset_requested
  degraded,  \* busDegraded
  framed,    \* the last boot sequence ran framesReset
  homed,     \* axes_homed: the geometry each axis was homed under
  work,      \* the work offset: XY from a `work` block or a geometry; the head's Z
  mounted,   \* toolsMounted
  prior,     \* history: /config.bin as last answered for, or as booted
  cuts       \* history: power cuts

vars == <<flash, cache, cfg, pub, rx, job, pc, mode, reset, degraded, framed,
          homed, work, mounted, prior, cuts>>

NoDatum  == [a \in Axes |-> None]
ZUnset   == [under |-> None, tool |-> None]
BootWork == [xy |-> None, z |-> ZUnset]   \* the statics: no config's block yet
AnyBlob  == CHOOSE b \in Pushes : TRUE

(* Decides what configStoreInit and fileValid make of the file. *)
CacheOf(mounts, bin) ==
  IF mounts /\ bin.is = "whole"
  THEN [mounted |-> TRUE, valid |-> TRUE, blob |-> bin.blob, seq |-> bin.seq]
  ELSE [mounted |-> mounts, valid |-> FALSE, blob |-> AnyBlob, seq |-> 0]

(* machineCfgLoad: `reads` is whether the stored blob could be read.  It    *)
(* leaves `ignored` as it was and an invalid config's fields unused.       *)
LoadCfg(c, k, reads) ==
  IF k.valid /\ reads /\ Decodes(k.blob)
  THEN [c EXCEPT !.active = k.blob, !.valid = TRUE, !.dirty = FALSE]
  ELSE [c EXCEPT !.active = AnyBlob, !.valid = FALSE, !.dirty = FALSE]

PublishOf(c) == IF c.valid THEN c.active.buf ELSE pub

(* RAM as power-on leaves it. *)
RamLost ==
  /\ cache' = CacheOf(FALSE, Absent)
  /\ cfg' = [active |-> AnyBlob, valid |-> FALSE, dirty |-> FALSE, ignored |-> FALSE]
  /\ pub' = None /\ rx' = "none" /\ mode' = "rest" /\ reset' = FALSE
  /\ degraded' = FALSE /\ framed' = FALSE
  /\ homed' = NoDatum /\ work' = BootWork /\ mounted' = None

Init ==
  /\ \E f \in {Absent, Torn} \cup {Whole(b, 0) : b \in Pushes} :
       /\ flash = [bin |-> f, tmp |-> Absent]
       /\ prior = f
  /\ cache = CacheOf(FALSE, Absent)
  /\ cfg = [active |-> AnyBlob, valid |-> FALSE, dirty |-> FALSE, ignored |-> FALSE]
  /\ pub = None /\ rx = "none" /\ mode = "rest" /\ reset = FALSE
  /\ degraded = FALSE /\ framed = FALSE
  /\ homed = NoDatum /\ work = BootWork /\ mounted = None
  /\ job = None /\ pc = "off" /\ cuts = 0

machine  == <<mode, homed, work, mounted, degraded, framed>>
bounds   == <<prior, cuts>>

----------------------------------------------------------------------------
(* Boot, soft reset and power.                                             *)

(* setup(): configStoreInit, then machineCfgLoad. *)
PowerOn ==
  /\ pc = "off"
  /\ \E mounts, reads \in BOOLEAN :
       \E k \in {CacheOf(mounts, flash.bin)} :
         \E c \in {LoadCfg(cfg, k, reads)} :
           cache' = k /\ cfg' = c /\ pub' = PublishOf(c)
  /\ pc' = "boot" /\ job' = None /\ prior' = flash.bin
  /\ UNCHANGED <<flash, rx, reset, machine, cuts>>

FramesReset(c) ==
  IF c.valid THEN [xy |-> c.active.rest, z |-> ZUnset] ELSE work

(* A slip: the reset keeps the datums. *)
LoopStartKeepsDatum ==
  /\ pc = "boot" \/ (pc = "run" /\ reset)
  /\ \E reads, mute \in BOOLEAN :
       \E c \in {IF cfg.dirty THEN LoadCfg(cfg, cache, reads) ELSE cfg} :
         /\ cfg' = c
         /\ pub' = IF cfg.dirty THEN PublishOf(c) ELSE pub
         /\ degraded' = mute
         /\ framed' = ~mute
         /\ work' = IF mute THEN work ELSE FramesReset(c)
  /\ homed' = homed /\ rx' = "none" /\ mode' = "rest" /\ reset' = FALSE /\ pc' = "run"
  /\ UNCHANGED <<flash, cache, job, mounted, bounds>>

(* The head of loop(): the wipe, the reload of a config `set` left dirty, the *)
(* sweep, and with every node heard the default map, which resets the       *)
(* frames.  The stored blob's cache and the mounted tools stay.             *)
LoopStart ==
  /\ pc = "boot" \/ (pc = "run" /\ reset)
  /\ \E reads, mute \in BOOLEAN :
       \E c \in {IF cfg.dirty THEN LoadCfg(cfg, cache, reads) ELSE cfg} :
         /\ cfg' = c
         /\ pub' = IF cfg.dirty THEN PublishOf(c) ELSE pub
         /\ degraded' = mute
         /\ framed' = ~mute
         /\ work' = IF mute THEN work ELSE FramesReset(c)
  /\ homed' = NoDatum /\ rx' = "none" /\ mode' = "rest" /\ reset' = FALSE /\ pc' = "run"
  /\ UNCHANGED <<flash, cache, job, mounted, bounds>>

(* Power goes at any step; a write under way leaves the temporary file as it *)
(* was, torn or whole.  A commit under way is remembered, for the property.  *)
PowerCut ==
  /\ pc # "off" /\ cuts < MaxCuts /\ cuts' = cuts + 1
  /\ pc' = "off" /\ RamLost
  /\ \E t \in IF pc = "write" THEN {flash.tmp, Torn, Whole(job.blob, job.seq)}
                              ELSE {flash.tmp} :
       flash' = [flash EXCEPT !.tmp = t]
  /\ UNCHANGED <<job, prior>>

----------------------------------------------------------------------------
(* The commit.  Core 0 does nothing else while it runs.                    *)

(* machineAtRest with no job: an estop whose sweep is done is at rest too. *)
AtRest == mode \in {"rest", "estop"}

(* configStoreCommit's guards, then its steps one by one. *)
CommitBegins(by, b) ==
  IF AtRest /\ cache.mounted /\ cache.seq < MaxSeq
  THEN /\ job' = [by |-> by, blob |-> b, seq |-> cache.seq + 1] /\ pc' = "write"
       /\ UNCHANGED prior
  ELSE UNCHANGED <<job, pc, prior>>

(* writeTmp: it may fail, and it may report a write the medium did not keep. *)
CommitWrite ==
  /\ pc = "write"
  /\ \/ flash' = [flash EXCEPT !.tmp = Whole(job.blob, job.seq)] /\ pc' = "check"
     \/ flash' = [flash EXCEPT !.tmp = Torn] /\ pc' \in {"check", "remove"}
  /\ UNCHANGED <<cache, cfg, pub, rx, job, reset, machine, bounds>>

(* A slip: the temporary file is not read back. *)
CommitCheckTrusts ==
  /\ pc = "check"
  /\ pc' = "rename"
  /\ UNCHANGED <<flash, cache, cfg, pub, rx, job, reset, machine, bounds>>

(* fileValid on the temporary file; a read may fail. *)
CommitCheck ==
  /\ pc = "check"
  /\ \/ flash.tmp.is = "whole" /\ flash.tmp.blob = job.blob /\ pc' = "rename"
     \/ pc' = "remove"
  /\ UNCHANGED <<flash, cache, cfg, pub, rx, job, reset, machine, bounds>>

(* The rename is atomic, and the commit point. *)
CommitRename ==
  /\ pc = "rename"
  /\ \/ flash' = [bin |-> flash.tmp, tmp |-> Absent] /\ pc' = "done"
     \/ pc' = "remove" /\ UNCHANGED flash
  /\ UNCHANGED <<cache, cfg, pub, rx, job, reset, machine, bounds>>

(* A slip: a save that failed is no longer dirty. *)
CommitRemoveCleans ==
  /\ pc = "remove"
  /\ flash' = [flash EXCEPT !.tmp = Absent]
  /\ cfg' = IF job.by = "save" THEN [cfg EXCEPT !.dirty = FALSE] ELSE cfg
  /\ pc' = "run" /\ job' = None
  /\ UNCHANGED <<cache, pub, rx, reset, machine, bounds>>

(* Refused: the temporary file goes, and the answer is a refusal. *)
CommitRemove ==
  /\ pc = "remove"
  /\ flash' = [flash EXCEPT !.tmp = Absent]
  /\ pc' = "run" /\ job' = None
  /\ UNCHANGED <<cache, cfg, pub, rx, reset, machine, bounds>>

(* Kept: the cache follows.  A push adopts the blob, unmounts the tools and *)
(* asks for a soft reset; a save is clean again.  Then the answer.          *)
CommitDone ==
  /\ pc = "done"
  /\ cache' = [cache EXCEPT !.valid = TRUE, !.blob = job.blob, !.seq = job.seq]
  /\ \/ /\ job.by = "push"
        /\ cfg' = [active |-> job.blob, valid |-> TRUE, dirty |-> FALSE, ignored |-> FALSE]
        /\ pub' = job.blob.buf
        /\ mounted' = None /\ reset' = TRUE
     \/ /\ job.by = "save"
        /\ cfg' = [cfg EXCEPT !.dirty = FALSE]
        /\ UNCHANGED <<pub, mounted, reset>>
  /\ pc' = "run" /\ job' = None /\ prior' = flash.bin
  /\ UNCHANGED <<flash, rx, mode, homed, work, degraded, framed, cuts>>

----------------------------------------------------------------------------
(* The push, CFG_SET.                                                      *)

Serving == pc = "run" /\ rx = "none"

PushBegins ==
  /\ Serving /\ rx' = "hdr"
  /\ UNCHANGED <<flash, cache, cfg, pub, job, pc, reset, machine, bounds>>

(* The header: refused if the length is bad or the machine is not at rest in *)
(* IDLE, else CFG_RDY.                                                      *)
PushHeader ==
  /\ pc = "run" /\ rx = "hdr"
  /\ \/ rx' = "none"
     \/ AtRest /\ rx' = "payload"
  /\ UNCHANGED <<flash, cache, cfg, pub, job, pc, reset, machine, bounds>>

(* A slip: the receiver stays open over the commit. *)
PushPayloadOpen ==
  /\ pc = "run" /\ rx = "payload" /\ rx' = rx
  /\ \E b \in Pushes, intact \in BOOLEAN :
       IF intact /\ Decodes(b) THEN CommitBegins("push", b) ELSE UNCHANGED <<job, pc, prior>>
  /\ UNCHANGED <<flash, cache, cfg, pub, reset, machine, cuts>>

(* The last payload byte: the CRC, the decode, then the commit. *)
PushPayload ==
  /\ pc = "run" /\ rx = "payload" /\ rx' = "none"
  /\ \E b \in Pushes, intact \in BOOLEAN :
       IF intact /\ Decodes(b) THEN CommitBegins("push", b) ELSE UNCHANGED <<job, pc, prior>>
  /\ UNCHANGED <<flash, cache, cfg, pub, reset, machine, cuts>>

(* dataPlaneTick: CFG_RX_TIMEOUT_MS without a byte. *)
PushTimeout ==
  /\ pc = "run" /\ rx # "none" /\ rx' = "none"
  /\ UNCHANGED <<flash, cache, cfg, pub, job, pc, reset, machine, bounds>>

----------------------------------------------------------------------------
(* set, save, reset, uncfg.  `set` and `save` are refused outside IDLE, with *)
(* the estop latched, and without a valid config.                           *)

Editing == Serving /\ mode = "rest" /\ cfg.valid

(* resolve and parseValue: the fields of the table and the values they take. *)
Fields    == Axes \cup {"buf"}
Values(f) == IF f = "buf" THEN Bufs ELSE Geo

(* runtimeSet: write, check every rule, restore on a refusal. *)
RuntimeSet(b, f, v) ==
  LET edited == [b EXCEPT ![f] = v] IN IF Validate(edited) THEN edited ELSE b

(* A slip: an edit of X leaves the work offset where it was taught. *)
EffectsOnWorkNone(f, c) == work

(* voidDatum's work offset: X puts XY back to the config's block, Z unsets Z. *)
EffectsOnWork(f, c) ==
  IF f = "x" THEN [work EXCEPT !.xy = c.rest] ELSE
  IF f = "z" THEN [work EXCEPT !.z = ZUnset] ELSE work

SetField ==
  /\ Editing
  /\ \E f \in Fields : \E v \in Values(f) :
       /\ \E c \in {RuntimeSet(cfg.active, f, v)} :
            /\ c # cfg.active
            /\ cfg' = [cfg EXCEPT !.active = c, !.dirty = TRUE]
            /\ pub' = IF f = "buf" THEN c.buf ELSE pub
            /\ homed' = IF f \in Axes THEN [homed EXCEPT ![f] = None] ELSE homed
            /\ work' = EffectsOnWork(f, c)
  /\ UNCHANGED <<flash, cache, rx, job, pc, mode, reset, mounted, degraded, framed, bounds>>

(* runtimeEncode: every table field of the live config into the stored blob. *)
RuntimeEncode(live, stored) == [live EXCEPT !.rest = stored.rest]

(* `save`: the stored blob is read and edited, must fit and must decode to  *)
(* what is live, then is committed.                                         *)
Save ==
  /\ Editing /\ cache.valid
  /\ \E b \in {RuntimeEncode(cfg.active, cache.blob)} :
       Decodes(b) /\ CommitBegins("save", b)
  /\ UNCHANGED <<flash, cache, cfg, pub, rx, reset, machine, cuts>>

Reset ==
  /\ Serving /\ AtRest /\ reset' = TRUE
  /\ UNCHANGED <<flash, cache, cfg, pub, rx, job, pc, machine, bounds>>

(* F_CONFIG is set aside until power-off. *)
Uncfg ==
  /\ Serving /\ AtRest /\ ~cfg.valid /\ ~cfg.ignored
  /\ cfg' = [cfg EXCEPT !.ignored = TRUE]
  /\ UNCHANGED <<flash, cache, pub, rx, job, pc, reset, machine, bounds>>

----------------------------------------------------------------------------
(* What is measured under the config.                                      *)

Store == <<flash, cache, cfg, pub, rx, job, pc, reset, bounds>>

(* A home, or setorigin, commits an axis's datum. *)
Datum ==
  /\ Serving /\ mode = "rest" /\ cfg.valid /\ ~degraded
  /\ \E a \in Axes : homed' = [homed EXCEPT ![a] = cfg.active[a]]
  /\ UNCHANGED <<Store, mode, work, mounted, degraded, framed>>

(* wset, wzero: XY any time the machine is at rest, Z with its head bound. *)
WorkSet ==
  /\ Serving /\ AtRest /\ cfg.valid
  /\ \/ work' = [work EXCEPT !.xy = cfg.active.x]
     \/ /\ ~degraded
        /\ work' = [work EXCEPT !.z = [under |-> cfg.active.z, tool |-> mounted]]
  /\ UNCHANGED <<Store, mode, homed, mounted, degraded, framed>>

WorkClear ==
  /\ Serving /\ AtRest /\ cfg.valid
  /\ work' = [xy |-> cfg.active.rest, z |-> ZUnset]
  /\ UNCHANGED <<Store, mode, homed, mounted, degraded, framed>>

(* toolsMount: another tool unsets the head's work Z. *)
Mount ==
  /\ Serving /\ AtRest /\ cfg.valid
  /\ \E t \in (Tools \cup {None}) \ {mounted} :
       mounted' = t /\ work' = [work EXCEPT !.z = ZUnset]
  /\ UNCHANGED <<Store, mode, homed, degraded, framed>>

(* The machine: a move or a job, an estop and its way out.                *)
MoveStarts ==
  /\ Serving /\ mode = "rest" /\ mode' = "busy"
  /\ UNCHANGED <<Store, homed, work, mounted, degraded, framed>>

MoveEnds ==
  /\ pc = "run" /\ mode = "busy" /\ mode' = "rest"
  /\ UNCHANGED <<Store, homed, work, mounted, degraded, framed>>

Stop ==
  /\ Serving /\ mode # "estop" /\ mode' = "estop" /\ homed' = NoDatum
  /\ UNCHANGED <<Store, work, mounted, degraded, framed>>

Unstop ==
  /\ Serving /\ mode = "estop" /\ mode' = "rest"
  /\ UNCHANGED <<Store, homed, work, mounted, degraded, framed>>

(* bus_exclude of every mute node. *)
BusExclude ==
  /\ Serving /\ degraded /\ degraded' = FALSE
  /\ UNCHANGED <<Store, mode, homed, work, mounted, framed>>

Next ==
  \/ PowerOn \/ LoopStart \/ PowerCut
  \/ CommitWrite \/ CommitCheck \/ CommitRename \/ CommitRemove \/ CommitDone
  \/ PushBegins \/ PushHeader \/ PushPayload \/ PushTimeout
  \/ SetField \/ Save \/ Reset \/ Uncfg
  \/ Datum \/ WorkSet \/ WorkClear \/ Mount
  \/ MoveStarts \/ MoveEnds \/ Stop \/ Unstop \/ BusExclude

Spec == Init /\ [][Next]_vars

----------------------------------------------------------------------------
(* Properties.                                                             *)

(* Every variable stays in its type; a commit is described only while it runs, *)
(* or between the power cut that ended it and the next boot, and no transfer *)
(* is open over one.                                                        *)
TypeOK ==
  /\ flash \in [bin : File, tmp : File]
  /\ cache \in [mounted : BOOLEAN, valid : BOOLEAN, blob : Blob, seq : 0..MaxSeq]
  /\ cfg \in [active : Blob, valid : BOOLEAN, dirty : BOOLEAN, ignored : BOOLEAN]
  /\ pub \in Bufs \cup {None}
  /\ rx \in {"none", "hdr", "payload"}
  /\ job \in {None} \cup [by : {"push", "save"}, blob : Blob, seq : 1..MaxSeq]
  /\ pc \in {"off", "boot", "run", "write", "check", "rename", "remove", "done"}
  /\ mode \in {"rest", "busy", "estop"}
  /\ reset \in BOOLEAN /\ degraded \in BOOLEAN /\ framed \in BOOLEAN
  /\ homed \in [Axes -> Geo \cup {None}]
  /\ work \in [xy : Geo \cup Rests \cup {None},
               z : [under : Geo \cup {None}, tool : Tools \cup {None}]]
  /\ mounted \in Tools \cup {None}
  /\ prior \in File /\ cuts \in 0..MaxCuts
  /\ pc \in {"boot", "run"} => job = None
  /\ pc # "run" => rx = "none"

(* The stored config is never lost: whenever power is cut, and whatever fails, *)
(* /config.bin is the blob last answered for, or the one whole blob of the  *)
(* commit under way (configStoreCommit, config_store.cpp:120-150).          *)
StoredIsKept ==
  flash.bin = prior \/ (job # None /\ flash.bin = Whole(job.blob, job.seq))

(* The config in use is the stored one and the edits that left it dirty: it *)
(* decodes, its cache and the host-only part are the file's, and Core 1 has *)
(* its buffer times.  So a clean machine boots what it ran                  *)
(* (machineCfgSet, machineCfgSave, machineCfgAdopt, feedCfg).               *)
ConfigInUse ==
  pc = "run" =>
    /\ cache.valid => flash.bin = Whole(cache.blob, cache.seq)
    /\ cfg.valid =>
         /\ Decodes(cfg.active) /\ cache.valid
         /\ cfg.active.rest = cache.blob.rest
         /\ ~cfg.dirty => cfg.active = cache.blob
         /\ pub = cfg.active.buf

(* No axis is homed under a geometry that is no longer the config's, once a *)
(* push's soft reset has run: across edits, saves, pushes and the reload of *)
(* a dirty config (runEffects, feedCfg, loop()).                            *)
DatumIsTrue ==
  pc = "run" /\ ~reset =>
    \A a \in Axes : homed[a] # None => cfg.valid /\ homed[a] = cfg.active[a]

WorkIsOfConfig ==
  /\ work.xy \in {cfg.active.rest, cfg.active.x}
  /\ work.z # ZUnset => work.z = [under |-> cfg.active.z, tool |-> mounted]

(* After a boot sequence that ran framesReset, the work offset is the config's *)
(* own or was taught under its geometry, and a head's work Z was zeroed with *)
(* the tool it has mounted (frames.cpp, tools.cpp, runEffects).             *)
WorkIsTrue == pc = "run" /\ ~reset /\ cfg.valid /\ framed => WorkIsOfConfig

(* What is calibrated under a config goes when the config does: the datums of *)
(* the axes and the work offsets.                                           *)
CalibrationIsTrue == DatumIsTrue /\ WorkIsTrue

(* wire_protocol.md's "reboot or a config commit restores the config's work *)
(* block (XY) and unsets every head's Z" (line 604), for every boot sequence: *)
(* also the one that found a mute node, which skips framesReset             *)
(* (core0.cpp:168).                                                         *)
WorkIsRestored == pc = "run" /\ ~reset /\ cfg.valid => WorkIsOfConfig

============================================================================
