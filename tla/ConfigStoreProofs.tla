------------------------- MODULE ConfigStoreProofs -------------------------
(***************************************************************************)
(* Proofs about ConfigStore: for every set of blobs, every rule that       *)
(* refuses some of them and any number of commits and power cuts.  Keeps   *)
(* says what each step of a commit has made of the two files, Uses what    *)
(* the config in use owes to them, Calibrated what was measured under it;  *)
(* each is the invariant a run checks, extended to the steps between two   *)
(* commands.                                                               *)
(***************************************************************************)
EXTENDS ConfigStore, TLAPS

Commit  == {"write", "check", "rename", "remove"}
Cache   == [mounted : BOOLEAN, valid : BOOLEAN, blob : Blob, seq : 0..MaxSeq]
Config  == [active : Blob, valid : BOOLEAN, dirty : BOOLEAN, ignored : BOOLEAN]
Job     == [by : {"push", "save"}, blob : Blob, seq : 1..MaxSeq]

Work    == [xy : Geo \cup Rests \cup {None},
            z : [under : Geo \cup {None}, tool : Tools \cup {None}]]

(* A commit under way has its blob.                                         *)
Described == pc \in Commit \cup {"done"} => job # None

(* Up to the rename the stored file is the one answered for, after it the   *)
(* commit's; and only a read-back of the whole blob lets the rename happen. *)
Keeps ==
  /\ pc \notin {"off", "done"} => flash.bin = prior
  /\ pc = "done" => flash.bin = Whole(job.blob, job.seq)
  /\ pc = "check" => flash.tmp \in {Torn, Whole(job.blob, job.seq)}
  /\ pc = "rename" => flash.tmp = Whole(job.blob, job.seq)
  /\ StoredIsKept

(* A save commits what is live, a push what decodes; and with the power gone *)
(* nothing is in use.                                                       *)
Uses ==
  /\ cache.valid /\ pc # "done" => flash.bin = Whole(cache.blob, cache.seq)
  /\ cfg.valid =>
       /\ Decodes(cfg.active) /\ cache.valid
       /\ cfg.active.rest = cache.blob.rest
       /\ ~cfg.dirty => cfg.active = cache.blob
       /\ pub = cfg.active.buf
  /\ pc = "off" => ~cache.valid /\ ~cfg.valid
  /\ pc \in Commit \cup {"done"} =>
       IF job.by = "push" THEN Decodes(job.blob) ELSE cfg.valid /\ job.blob = cfg.active

(* What was measured is under the config in use, or goes with the reset that *)
(* is asked for; power-on finds nothing measured.                           *)
Calibrated ==
  /\ ~reset => \A a \in Axes : homed[a] # None => cfg.valid /\ homed[a] = cfg.active[a]
  /\ ~reset /\ cfg.valid /\ framed => WorkIsOfConfig
  /\ pc \in {"off", "boot"} => homed = NoDatum /\ ~framed

(* What `set` does to the config and to what was measured under it.         *)
Edit(f, v) ==
  /\ cfg' = [cfg EXCEPT !.active = RuntimeSet(cfg.active, f, v), !.dirty = TRUE]
  /\ pub' = (IF f = "buf" THEN RuntimeSet(cfg.active, f, v).buf ELSE pub)
  /\ homed' = (IF f \in Axes THEN [homed EXCEPT ![f] = None] ELSE homed)
  /\ work' = EffectsOnWork(f, RuntimeSet(cfg.active, f, v))

----------------------------------------------------------------------------
(* The operators.                                                          *)

(* A whole file's content can be read off it.                               *)
LEMMA WholeIsOne ==
  ASSUME NEW b, NEW c, NEW s, NEW t, Whole(b, s) = Whole(c, t)
  PROVE  b = c /\ s = t
<1>1. Whole(b, s).blob = b /\ Whole(c, t).blob = c /\ Whole(b, s).seq = s /\ Whole(c, t).seq = t
  BY DEF Whole
<1> QED BY <1>1

(* A file is absent, torn, or whole with a blob and a number.              *)
LEMMA FileType ==
  /\ Absent \in File /\ Torn \in File
  /\ \A b \in Blob, s \in 0..MaxSeq : Whole(b, s) \in File
  /\ \A f \in File : f.is = "whole" =>
       f.blob \in Blob /\ f.seq \in 0..MaxSeq /\ f = Whole(f.blob, f.seq)
<1>1. Absent \in File /\ Torn \in File /\ \A b \in Blob, s \in 0..MaxSeq : Whole(b, s) \in File
  BY DEF File
<1>2. ASSUME NEW f \in File, f.is = "whole"
      PROVE  f.blob \in Blob /\ f.seq \in 0..MaxSeq /\ f = Whole(f.blob, f.seq)
  <2>1. f # Absent /\ f # Torn
    BY <1>2 DEF Absent, Torn
  <2>2. PICK b \in Blob, s \in 0..MaxSeq : f = Whole(b, s)
    BY <2>1, <1>2 DEF File
  <2>3. f.blob = b /\ f.seq = s
    BY <2>2 DEF Whole
  <2> QED BY <2>2, <2>3
<1> QED BY <1>1, <1>2

LEMMA AnyBlobType == AnyBlob \in Blob
  BY BlobAssumption DEF AnyBlob

(* configStoreInit: a valid cache is the stored file.                       *)
LEMMA CacheOfFile ==
  ASSUME NEW mounts \in BOOLEAN, NEW bin \in File
  PROVE  /\ CacheOf(mounts, bin) \in Cache
         /\ CacheOf(mounts, bin).valid =>
              bin = Whole(CacheOf(mounts, bin).blob, CacheOf(mounts, bin).seq)
  BY FileType, AnyBlobType, BlobAssumption DEF CacheOf, Cache

(* machineCfgLoad: a config that is in use is the cached blob, and decodes. *)
LEMMA LoadCfgValid ==
  ASSUME NEW c \in Config, NEW k \in Cache, NEW reads \in BOOLEAN
  PROVE  /\ LoadCfg(c, k, reads) \in Config
         /\ LoadCfg(c, k, reads).valid =>
              /\ k.valid /\ Decodes(k.blob)
              /\ LoadCfg(c, k, reads).active = k.blob /\ ~LoadCfg(c, k, reads).dirty
  BY AnyBlobType DEF LoadCfg, Config, Cache

(* An edit changes its field alone, and keeps a config that decodes one.    *)
LEMMA EditField ==
  ASSUME NEW b \in Blob, NEW f \in Fields, NEW v \in Values(f)
  PROVE  /\ RuntimeSet(b, f, v) \in Blob
         /\ RuntimeSet(b, f, v).rest = b.rest
         /\ \A g \in Fields \ {f} : RuntimeSet(b, f, v)[g] = b[g]
         /\ Decodes(b) => Decodes(RuntimeSet(b, f, v))
<1>1. CASE f = "x"
  BY <1>1, ShapeAssumption
     DEF RuntimeSet, Blob, Fields, Values, Axes, Decodes, Parses, Validate
<1>2. CASE f = "z"
  BY <1>2, ShapeAssumption
     DEF RuntimeSet, Blob, Fields, Values, Axes, Decodes, Parses, Validate
<1>3. CASE f = "buf"
  BY <1>3, ShapeAssumption
     DEF RuntimeSet, Blob, Fields, Values, Axes, Decodes, Parses, Validate
<1> QED BY <1>1, <1>2, <1>3 DEF Fields, Axes

(* What a save writes is the live config, once the host-only part agrees.   *)
LEMMA EncodeLive ==
  ASSUME NEW b \in Blob, NEW c \in Blob
  PROVE  /\ RuntimeEncode(b, c) \in Blob
         /\ b.rest = c.rest => RuntimeEncode(b, c) = b
  BY DEF RuntimeEncode, Blob

(* configStoreCommit: refused, or a commit of that blob begins.             *)
LEMMA CommitType ==
  ASSUME TypeOK, NEW by \in {"push", "save"}, NEW b \in Blob, CommitBegins(by, b)
  PROVE  /\ prior' = prior
         /\ \/ pc' = "write" /\ job' \in Job /\ job'.by = by /\ job'.blob = b
            \/ pc' = pc /\ job' = job
<1>1. CASE AtRest /\ cache.mounted /\ cache.seq < MaxSeq
  <2>1. cache.seq + 1 \in 1..MaxSeq
    BY <1>1, BlobAssumption DEF TypeOK
  <2>2. /\ job' = [by |-> by, blob |-> b, seq |-> cache.seq + 1]
        /\ pc' = "write" /\ prior' = prior
    BY <1>1 DEF CommitBegins
  <2> QED BY <2>1, <2>2 DEF Job
<1>2. CASE ~(AtRest /\ cache.mounted /\ cache.seq < MaxSeq)
  BY <1>2 DEF CommitBegins
<1> QED BY <1>1, <1>2

(* A push whose blob arrives whole and decodes begins a commit.             *)
LEMMA PushCommits ==
  ASSUME PushPayload
  PROVE  (\E b \in Pushes : Decodes(b) /\ CommitBegins("push", b)) \/ UNCHANGED <<job, pc, prior>>
BY DEF PushPayload

----------------------------------------------------------------------------
(* Type correctness.                                                        *)

(* Every step keeps every variable in its type, and describes the commit it *)
(* makes.                                                                   *)
LEMMA TypeStep ==
  ASSUME TypeOK /\ Described, [Next]_vars
  PROVE  TypeOK' /\ Described'
<1> USE BlobAssumption DEF TypeOK, Described, Commit
<1>1. CASE PowerOn
  <2>1. PICK m \in BOOLEAN, r \in BOOLEAN :
          /\ cache' = CacheOf(m, flash.bin) /\ cfg' = LoadCfg(cfg, cache', r)
          /\ pub' = PublishOf(cfg')
    BY <1>1 DEF PowerOn
  <2>2. cache' \in Cache /\ cfg' \in Config
    BY <2>1, CacheOfFile, LoadCfgValid DEF Config
  <2>3. pub' \in Bufs \cup {None}
    BY <2>1, <2>2 DEF PublishOf, Config, Blob
  <2> QED BY <1>1, <2>2, <2>3 DEF PowerOn, machine, Cache, Config
<1>2. CASE LoopStart
  <2>1. PICK r \in BOOLEAN, mute \in BOOLEAN :
          /\ cfg' = (IF cfg.dirty THEN LoadCfg(cfg, cache, r) ELSE cfg)
          /\ pub' = (IF cfg.dirty THEN PublishOf(cfg') ELSE pub)
          /\ degraded' = mute /\ framed' = ~mute
          /\ work' = (IF mute THEN work ELSE FramesReset(cfg'))
    BY <1>2 DEF LoopStart
  <2>2. cfg' \in Config
    BY <2>1, LoadCfgValid DEF Config, Cache
  <2>3. pub' \in Bufs \cup {None} /\ work' \in Work
    BY <2>1, <2>2 DEF PublishOf, FramesReset, Config, Blob, Work, ZUnset
  <2> QED BY <1>2, <2>1, <2>2, <2>3 DEF LoopStart, bounds, NoDatum, Config, Work
<1>3. CASE PowerCut
  <2>1. flash' \in [bin : File, tmp : File]
    BY <1>3, FileType DEF PowerCut
  <2>2. cache' \in Cache
    BY <1>3, CacheOfFile, FileType DEF PowerCut, RamLost
  <2>3. cuts' \in 0..MaxCuts
    BY <1>3 DEF PowerCut
  <2> QED
    BY <1>3, <2>1, <2>2, <2>3, AnyBlobType
       DEF PowerCut, RamLost, Cache, NoDatum, ZUnset, BootWork
<1>4. CASE CommitWrite
  BY <1>4, FileType DEF CommitWrite, machine, bounds, Job
<1>5. CASE CommitCheck
  BY <1>5 DEF CommitCheck, machine, bounds
<1>6. CASE CommitRename
  BY <1>6, FileType DEF CommitRename, machine, bounds
<1>7. CASE CommitRemove
  BY <1>7, FileType DEF CommitRemove, machine, bounds
<1>8. CASE CommitDone
  <2>1. job \in Job /\ job.blob.buf \in Bufs
    BY <1>8 DEF CommitDone, Job, Blob
  <2>2. cache' \in Cache
    <3>1. cache' = [cache EXCEPT !.valid = TRUE, !.blob = job.blob, !.seq = job.seq]
      BY <1>8 DEF CommitDone
    <3>2. cache \in Cache /\ job.blob \in Blob /\ job.seq \in 0..MaxSeq
      BY <2>1 DEF Cache, Job
    <3> QED BY <3>1, <3>2 DEF Cache
  <2>3. cfg' \in Config
    <3>1. \/ cfg' = [active |-> job.blob, valid |-> TRUE, dirty |-> FALSE, ignored |-> FALSE]
          \/ cfg' = [cfg EXCEPT !.dirty = FALSE]
      BY <1>8 DEF CommitDone
    <3>2. cfg \in Config /\ job.blob \in Blob
      BY <2>1 DEF Config, Job
    <3>3. [cfg EXCEPT !.dirty = FALSE] \in Config
      BY <3>2 DEF Config
    <3>4. [active |-> job.blob, valid |-> TRUE, dirty |-> FALSE, ignored |-> FALSE] \in Config
      BY <3>2 DEF Config
    <3>5. CASE cfg' = [active |-> job.blob, valid |-> TRUE, dirty |-> FALSE, ignored |-> FALSE]
      BY <3>4, <3>5
    <3>6. CASE cfg' = [cfg EXCEPT !.dirty = FALSE]
      BY <3>3, <3>6
    <3> QED BY ONLY <3>1, <3>5, <3>6, Zenon
  <2>4. pub' \in Bufs \cup {None} /\ mounted' \in Tools \cup {None} /\ reset' \in BOOLEAN
    <3>1. pub' \in {pub, job.blob.buf} /\ mounted' \in {mounted, None} /\ reset' \in {reset, TRUE}
      BY <1>8 DEF CommitDone
    <3> QED BY <2>1, <3>1
  <2>5. /\ pc' = "run" /\ job' = None /\ prior' = flash.bin
        /\ UNCHANGED <<flash, rx, mode, homed, work, degraded, framed, cuts>>
    BY <1>8 DEF CommitDone
  <2>6. rx = "none"
    BY <1>8 DEF CommitDone
  <2> QED BY <2>2, <2>3, <2>4, <2>5, <2>6 DEF Cache, Config
<1>9. CASE PushBegins
  BY <1>9 DEF PushBegins, machine, bounds, Serving
<1>10. CASE PushHeader
  BY <1>10 DEF PushHeader, machine, bounds
<1>11. CASE PushPayload
  <2>1. /\ prior' = prior
        /\ \/ pc' = "write" /\ job' \in Job
           \/ pc' = pc /\ job' = job
    BY <1>11, PushCommits, CommitType
  <2>2. rx' = "none" /\ UNCHANGED <<flash, cache, cfg, pub, reset, machine, cuts>>
    BY <1>11 DEF PushPayload
  <2> QED BY <2>1, <2>2 DEF machine, Job
<1>12. CASE PushTimeout
  BY <1>12 DEF PushTimeout, machine, bounds
<1>13. CASE SetField
  <2>1. PICK f \in Fields : \E v \in Values(f) : Edit(f, v)
    <3> HIDE DEF TypeOK, Described, Commit
    <3> QED BY <1>13 DEF SetField, Edit
  <2>0. PICK v \in Values(f) : Edit(f, v)
    BY <2>1
  <2>2. RuntimeSet(cfg.active, f, v) \in Blob
    BY EditField
  <2>3. work' \in Work /\ pub' \in Bufs \cup {None}
    BY <2>0, <2>2 DEF Edit, EffectsOnWork, Work, ZUnset, Blob
  <2> QED BY <1>13, <2>0, <2>2, <2>3 DEF Edit, SetField, bounds, Editing, Serving, Work
<1>14. CASE Save
  <2>1. RuntimeEncode(cfg.active, cache.blob) \in Blob
    BY EncodeLive
  <2>2. /\ prior' = prior
        /\ \/ pc' = "write" /\ job' \in Job
           \/ pc' = pc /\ job' = job
    BY <1>14, <2>1, CommitType DEF Save
  <2>3. rx = "none" /\ UNCHANGED <<flash, cache, cfg, pub, rx, reset, machine, cuts>>
    BY <1>14 DEF Save, Editing, Serving
  <2> QED BY <2>2, <2>3 DEF machine, Job
<1>15. CASE Reset
  BY <1>15 DEF Reset, machine, bounds
<1>16. CASE Uncfg
  <2>1. cfg' \in Config
    BY <1>16 DEF Uncfg, Config
  <2> QED BY <1>16, <2>1 DEF Uncfg, Serving, machine, bounds, Config
<1>17. CASE Datum
  BY <1>17 DEF Datum, Store, bounds, Serving, Blob, Axes
<1>18. CASE WorkSet
  BY <1>18 DEF WorkSet, Store, bounds, Serving, Blob
<1>19. CASE WorkClear
  BY <1>19 DEF WorkClear, Store, bounds, Serving, Blob, ZUnset
<1>20. CASE Mount
  BY <1>20 DEF Mount, Store, bounds, Serving, ZUnset
<1>21. CASE MoveStarts
  BY <1>21 DEF MoveStarts, Store, bounds, Serving
<1>22. CASE MoveEnds
  BY <1>22 DEF MoveEnds, Store, bounds, Serving
<1>23. CASE Stop
  BY <1>23 DEF Stop, Store, bounds, Serving, NoDatum
<1>24. CASE Unstop
  BY <1>24 DEF Unstop, Store, bounds, Serving
<1>25. CASE BusExclude
  <2>1. degraded' = FALSE /\ UNCHANGED <<Store, mode, homed, work, mounted, framed>>
    BY <1>25 DEF BusExclude
  <2>2. UNCHANGED <<flash, cache, cfg, pub, rx, job, pc, reset, prior, cuts>>
    BY <2>1 DEF Store, bounds
  <2>3. degraded' \in BOOLEAN
    BY <2>1
  <2>4. reset' \in BOOLEAN /\ framed' \in BOOLEAN
    BY <2>1, <2>2
  <2> QED BY <2>1, <2>2, <2>3, <2>4
<1>26. CASE UNCHANGED vars
  BY <1>26 DEF vars, machine, bounds
<1> QED
  BY <1>1, <1>2, <1>3, <1>4, <1>5, <1>6, <1>7, <1>8, <1>9, <1>10, <1>11, <1>12, <1>13, <1>14, <1>15, <1>16, <1>17, <1>18, <1>19, <1>20, <1>21, <1>22, <1>23, <1>24, <1>25, <1>26
     DEF Next

(* Most steps touch neither the files, nor what is cached of them, nor a    *)
(* commit.                                                                  *)
Aside ==
  \/ PushBegins \/ PushHeader \/ PushTimeout
  \/ SetField \/ Reset \/ Uncfg \/ Datum \/ WorkSet \/ WorkClear \/ Mount
  \/ MoveStarts \/ MoveEnds \/ Stop \/ Unstop \/ BusExclude \/ UNCHANGED vars

LEMMA AsideKeeps ==
  ASSUME Aside
  PROVE  UNCHANGED <<flash, cache, job, pc, prior>>
BY DEF Aside, PushBegins, PushHeader, PushTimeout, SetField, Reset, Uncfg, Datum, WorkSet,
       WorkClear, Mount, MoveStarts, MoveEnds, Stop, Unstop, BusExclude, vars, Store, bounds

----------------------------------------------------------------------------
(* The stored config.                                                       *)

(* Every step of a commit leaves /config.bin the one or the other.          *)
LEMMA KeepsStep ==
  ASSUME TypeOK /\ Described /\ Keeps, [Next]_vars
  PROVE  Keeps'
<1> USE DEF Keeps, StoredIsKept, TypeOK, Described, Commit
<1>1. CASE PowerOn
  BY <1>1 DEF PowerOn
<1>2. CASE LoopStart
  <2>1. UNCHANGED <<flash, job, prior>> /\ pc' = "run" /\ pc \in {"boot", "run"}
    BY <1>2 DEF LoopStart, bounds
  <2> QED BY <2>1
<1>3. CASE PowerCut
  <2>1. flash'.bin = flash.bin /\ pc' = "off" /\ UNCHANGED <<job, prior>>
    BY <1>3 DEF PowerCut
  <2> QED BY <2>1
<1>4. CASE CommitWrite
  BY <1>4 DEF CommitWrite, bounds
<1>5. CASE CommitCheck
  <2>1. pc = "check" /\ UNCHANGED <<flash, job, prior>>
    BY <1>5 DEF CommitCheck, bounds
  <2>2. pc' = "rename" => flash.tmp = Whole(job.blob, job.seq)
    BY <1>5, <2>1 DEF CommitCheck, Torn
  <2> QED BY <1>5, <2>1, <2>2 DEF CommitCheck
<1>6. CASE CommitRename
  BY <1>6 DEF CommitRename, bounds
<1>7. CASE CommitRemove
  BY <1>7 DEF CommitRemove, bounds
<1>8. CASE CommitDone
  BY <1>8 DEF CommitDone
<1>9. CASE PushPayload
  <2>1. pc = "run" /\ flash' = flash
    BY <1>9 DEF PushPayload
  <2>2. prior' = prior /\ pc' \in {"run", "write"}
    BY <1>9, <2>1, PushCommits, CommitType, BlobAssumption
  <2> QED BY <2>1, <2>2
<1>10. CASE Save
  <2>1. pc = "run" /\ flash' = flash
    BY <1>10 DEF Save, Editing, Serving
  <2>2. RuntimeEncode(cfg.active, cache.blob) \in Blob
    BY EncodeLive
  <2>3. prior' = prior /\ pc' \in {"run", "write"}
    BY <1>10, <2>1, <2>2, CommitType DEF Save
  <2> QED BY <2>1, <2>3
<1>11. CASE Aside
  BY <1>11, AsideKeeps
<1> QED
  BY <1>1, <1>2, <1>3, <1>4, <1>5, <1>6, <1>7, <1>8, <1>9, <1>10, <1>11 DEF Next, Aside

----------------------------------------------------------------------------
(* The config in use.                                                       *)

(* Every step leaves the config in use the stored one and its edits.        *)
LEMMA UsesStep ==
  ASSUME TypeOK /\ Described /\ Keeps /\ Uses, [Next]_vars
  PROVE  Uses'
<1> USE DEF Uses, Commit
<1>1. CASE PowerOn
  <2>1. PICK m \in BOOLEAN, r \in BOOLEAN :
          /\ cache' = CacheOf(m, flash.bin) /\ cfg' = LoadCfg(cfg, cache', r)
          /\ pub' = PublishOf(cfg')
    BY <1>1 DEF PowerOn
  <2>2. flash.bin \in File /\ cfg \in Config
    BY DEF TypeOK, Config
  <2>3. cache' \in Cache /\ (cache'.valid => flash.bin = Whole(cache'.blob, cache'.seq))
    BY <2>1, <2>2, CacheOfFile
  <2>4. cfg'.valid => Decodes(cfg'.active) /\ cache'.valid /\ cfg'.active = cache'.blob
    BY <2>1, <2>2, <2>3, LoadCfgValid
  <2>5. flash' = flash /\ pc' = "boot"
    BY <1>1 DEF PowerOn
  <2> QED BY <2>1, <2>3, <2>4, <2>5 DEF PublishOf
<1>2. CASE LoopStart
  <2>1. PICK r \in BOOLEAN :
          /\ cfg' = (IF cfg.dirty THEN LoadCfg(cfg, cache, r) ELSE cfg)
          /\ pub' = (IF cfg.dirty THEN PublishOf(cfg') ELSE pub)
    BY <1>2 DEF LoopStart
  <2>2. cache \in Cache /\ cfg \in Config
    BY DEF TypeOK, Cache, Config
  <2>3. UNCHANGED <<flash, cache>> /\ pc' = "run" /\ pc \in {"boot", "run"}
    BY <1>2 DEF LoopStart
  <2>4. CASE cfg.dirty
    <3>1. cfg'.valid => Decodes(cfg'.active) /\ cache.valid /\ cfg'.active = cache.blob
      BY <2>1, <2>2, <2>4, LoadCfgValid
    <3> QED BY <2>1, <2>3, <2>4, <3>1 DEF PublishOf
  <2>5. CASE ~cfg.dirty
    BY <2>1, <2>3, <2>5
  <2> QED BY <2>4, <2>5
<1>3. CASE PowerCut
  <2>1. ~cache'.valid /\ ~cfg'.valid /\ pc' = "off"
    BY <1>3 DEF PowerCut, RamLost, CacheOf
  <2> QED BY <2>1
<1>4. CASE CommitWrite
  <2>1. flash'.bin = flash.bin /\ UNCHANGED <<cache, cfg, pub, job>> /\ pc = "write" /\ pc' \in Commit
    BY <1>4 DEF CommitWrite, TypeOK
  <2> QED BY <2>1
<1>5. CASE CommitCheck
  BY <1>5 DEF CommitCheck
<1>6. CASE CommitRename
  <2>1. UNCHANGED <<cache, cfg, pub, job>> /\ pc = "rename"
    BY <1>6 DEF CommitRename
  <2>2. pc' = "done" \/ (pc' = "remove" /\ flash' = flash)
    BY <1>6 DEF CommitRename
  <2> QED BY <2>1, <2>2
<1>7. CASE CommitRemove
  <2>1. flash'.bin = flash.bin /\ UNCHANGED <<cache, cfg, pub>> /\ pc = "remove" /\ pc' = "run"
    BY <1>7 DEF CommitRemove, TypeOK
  <2> QED BY <2>1
<1>8. CASE CommitDone
  <2>1. /\ pc = "done" /\ pc' = "run" /\ flash' = flash
        /\ flash.bin = Whole(job.blob, job.seq)
    BY <1>8 DEF CommitDone, Keeps
  <2>2. cache'.valid /\ cache'.blob = job.blob /\ cache'.seq = job.seq
    BY <1>8 DEF CommitDone, TypeOK
  <2>3. CASE job.by = "push"
    <3>1. cfg'.valid /\ cfg'.active = job.blob /\ pub' = cfg'.active.buf /\ Decodes(cfg'.active)
      BY <1>8, <2>3, <2>1 DEF CommitDone
    <3> QED BY <2>1, <2>2, <3>1
  <2>4. CASE job.by = "save"
    <3>1. cfg' = [cfg EXCEPT !.dirty = FALSE] /\ pub' = pub
      BY <1>8, <2>4 DEF CommitDone
    <3>2. cfg'.valid /\ cfg'.active = cfg.active /\ cfg.valid /\ job.blob = cfg.active
      BY <2>1, <2>4, <3>1 DEF TypeOK
    <3> QED BY <2>1, <2>2, <3>1, <3>2
  <2> QED BY <1>8, <2>3, <2>4 DEF CommitDone
<1>9. CASE PushPayload
  <2>1. pc = "run" /\ UNCHANGED <<flash, cache, cfg, pub>>
    BY <1>9 DEF PushPayload
  <2>2. \/ pc' = "write" /\ job'.by = "push" /\ Decodes(job'.blob)
        \/ pc' = "run"
    BY <1>9, <2>1, PushCommits, CommitType, BlobAssumption
  <2> QED BY <2>1, <2>2
<1>10. CASE Save
  <2>1. pc = "run" /\ cfg.valid /\ UNCHANGED <<flash, cache, cfg, pub>>
    BY <1>10 DEF Save, Editing, Serving
  <2>2. RuntimeEncode(cfg.active, cache.blob) = cfg.active /\ cfg.active \in Blob
    BY <2>1, EncodeLive DEF TypeOK
  <2>3. \/ pc' = "write" /\ job'.by = "save" /\ job'.blob = cfg.active
        \/ pc' = "run"
    BY <1>10, <2>1, <2>2, CommitType DEF Save
  <2> QED BY <2>1, <2>3
<1>11. CASE SetField
  <2>1. PICK f \in Fields : \E v \in Values(f) : Edit(f, v)
    BY <1>11 DEF SetField, Edit
  <2>2. PICK v \in Values(f) : Edit(f, v)
    BY <2>1
  <2>3. /\ cfg.active \in Blob /\ cfg'.active = RuntimeSet(cfg.active, f, v)
        /\ cfg'.dirty /\ cfg'.valid = cfg.valid
    BY <2>2 DEF Edit, TypeOK
  <2>4. UNCHANGED <<flash, cache, pc>> /\ pc = "run" /\ cfg.valid
    BY <1>11 DEF SetField, Editing, Serving
  <2>5. cfg'.active.rest = cfg.active.rest /\ Decodes(cfg'.active)
    BY <2>3, <2>4, EditField
  <2>6. pub' = cfg'.active.buf
    <3>1. CASE f = "buf"
      BY <2>2, <2>3, <3>1 DEF Edit
    <3>2. CASE f # "buf"
      <4>1. "buf" \in Fields \ {f}
        BY <3>2 DEF Fields
      <4>2. cfg'.active["buf"] = cfg.active["buf"]
        BY <2>3, <4>1, EditField
      <4> QED BY <2>2, <2>4, <3>2, <4>2 DEF Edit
    <3> QED BY <3>1, <3>2
  <2> QED BY <2>3, <2>4, <2>5, <2>6
<1>12. CASE Uncfg
  <2>1. cfg' = [cfg EXCEPT !.ignored = TRUE] /\ ~cfg.valid /\ pc = "run"
    BY <1>12 DEF Uncfg, Serving
  <2> QED BY <1>12, <2>1, AsideKeeps DEF Aside, TypeOK
<1>13. CASE Aside /\ ~SetField /\ ~Uncfg
  <2>1. UNCHANGED <<flash, cache, job, pc, cfg, pub>>
    BY <1>13, AsideKeeps
       DEF Aside, PushBegins, PushHeader, PushTimeout, Reset, Datum, WorkSet, WorkClear, Mount,
           MoveStarts, MoveEnds, Stop, Unstop, BusExclude, vars, Store
  <2> QED BY <2>1
<1> QED
  BY <1>1, <1>2, <1>3, <1>4, <1>5, <1>6, <1>7, <1>8, <1>9, <1>10, <1>11, <1>12, <1>13
     DEF Next, Aside

----------------------------------------------------------------------------
(* What was measured under the config.                                      *)

(* The steps of a commit up to its end, a push's bytes, `save`, `reset` and  *)
(* `uncfg` change nothing that was measured, nor the config it was measured *)
(* under.                                                                   *)
Unmeasuring ==
  \/ CommitWrite \/ CommitCheck \/ CommitRename \/ CommitRemove
  \/ PushBegins \/ PushHeader \/ PushPayload \/ PushTimeout
  \/ Save \/ Reset \/ Uncfg \/ MoveStarts \/ MoveEnds \/ Unstop \/ BusExclude
  \/ UNCHANGED vars

LEMMA UnmeasuringKeeps ==
  ASSUME TypeOK, Unmeasuring
  PROVE  /\ UNCHANGED <<homed, work, mounted, framed>>
         /\ cfg'.active = cfg.active /\ cfg'.valid = cfg.valid
         /\ reset' = reset \/ reset'
         /\ pc \notin {"off", "boot"} \/ UNCHANGED <<pc, reset>>
         /\ pc \in {"off", "boot"} \/ pc' \notin {"off", "boot"}
<1>1. CASE CommitWrite \/ CommitCheck \/ CommitRename \/ CommitRemove
  BY <1>1 DEF CommitWrite, CommitCheck, CommitRename, CommitRemove, machine
<1>2. CASE PushBegins \/ PushHeader \/ PushTimeout
  BY <1>2 DEF PushBegins, PushHeader, PushTimeout, Serving, machine
<1>3. CASE PushPayload
  <2>1. pc = "run" /\ UNCHANGED <<homed, work, mounted, framed, cfg, reset>>
    BY <1>3 DEF PushPayload, machine
  <2>2. pc' \in {"run", "write"}
    BY <1>3, <2>1, PushCommits, CommitType, BlobAssumption
  <2> QED BY <2>1, <2>2
<1>4. CASE Save
  <2>1. pc = "run" /\ UNCHANGED <<homed, work, mounted, framed, cfg, reset>>
    BY <1>4 DEF Save, Editing, Serving, machine
  <2>2. RuntimeEncode(cfg.active, cache.blob) \in Blob
    BY EncodeLive DEF TypeOK
  <2>3. pc' \in {"run", "write"}
    BY <1>4, <2>1, <2>2, CommitType DEF Save
  <2> QED BY <2>1, <2>3
<1>5. CASE Reset
  BY <1>5 DEF Reset, Serving, machine
<1>6. CASE Uncfg
  <2>1. cfg' = [cfg EXCEPT !.ignored = TRUE] /\ pc = "run"
    BY <1>6 DEF Uncfg, Serving
  <2>2. UNCHANGED <<homed, work, mounted, framed, reset, pc>>
    BY <1>6 DEF Uncfg, machine
  <2> QED BY <2>1, <2>2 DEF TypeOK
<1>7. CASE MoveStarts \/ MoveEnds \/ Unstop
  BY <1>7 DEF MoveStarts, MoveEnds, Unstop, Serving, Store
<1>8. CASE BusExclude
  <2>1. pc = "run" /\ UNCHANGED <<homed, work, mounted, framed, cfg, reset, pc>>
    BY <1>8 DEF BusExclude, Serving, Store
  <2> QED BY <2>1
<1>9. CASE UNCHANGED vars
  BY <1>9 DEF vars
<1> QED BY <1>1, <1>2, <1>3, <1>4, <1>5, <1>6, <1>7, <1>8, <1>9 DEF Unmeasuring

(* Every step that changes the config drops what was measured under it, or  *)
(* asks for the reset that does.                                            *)
LEMMA CalibratedStep ==
  ASSUME TypeOK /\ Calibrated, [Next]_vars
  PROVE  Calibrated'
<1> USE DEF Calibrated
<1>1. CASE PowerOn
  <2>1. pc = "off" /\ pc' = "boot" /\ UNCHANGED <<homed, work, mounted, framed, reset>>
    BY <1>1 DEF PowerOn, machine
  <2> QED BY <2>1 DEF NoDatum
<1>2. CASE LoopStart
  <2>1. pc' = "run" /\ homed' = NoDatum
    BY <1>2 DEF LoopStart
  <2>2. framed' => work' = FramesReset(cfg')
    BY <1>2 DEF LoopStart
  <2>3. framed' /\ cfg'.valid => WorkIsOfConfig'
    BY <2>2 DEF FramesReset, WorkIsOfConfig
  <2> QED BY <2>1, <2>3 DEF NoDatum
<1>3. CASE PowerCut
  BY <1>3 DEF PowerCut, RamLost, NoDatum
<1>4. CASE CommitDone
  <2>1. pc' = "run" /\ UNCHANGED <<homed, work, framed>> /\ pc = "done"
    BY <1>4 DEF CommitDone
  <2>2. CASE reset'
    BY <2>1, <2>2
  <2>3. CASE ~reset'
    <3>1. cfg' = [cfg EXCEPT !.dirty = FALSE] /\ UNCHANGED <<mounted, reset>>
      BY <1>4, <2>3 DEF CommitDone
    <3>2. cfg'.active = cfg.active /\ cfg'.valid = cfg.valid
      BY <3>1 DEF TypeOK
    <3> QED BY <2>1, <3>1, <3>2 DEF WorkIsOfConfig
  <2> QED BY <2>2, <2>3
<1>5. CASE SetField
  <2>1. PICK f \in Fields : \E v \in Values(f) : Edit(f, v)
    BY <1>5 DEF SetField, Edit
  <2>2. PICK v \in Values(f) : Edit(f, v)
    BY <2>1
  <2>3. /\ cfg.active \in Blob /\ cfg'.active = RuntimeSet(cfg.active, f, v)
        /\ cfg'.valid = cfg.valid
    BY <2>2 DEF Edit, TypeOK
  <2>4. UNCHANGED <<pc, reset, mounted, framed>> /\ pc = "run"
    BY <1>5 DEF SetField, Editing, Serving
  <2>5. cfg'.active.rest = cfg.active.rest
    BY <2>3, EditField
  <2>6. \A g \in Fields \ {f} : cfg'.active[g] = cfg.active[g]
    BY <2>3, EditField
  <2>7. \A a \in Axes : homed'[a] # None => homed'[a] = homed[a] /\ cfg'.active[a] = cfg.active[a]
    <3>1. SUFFICES ASSUME NEW a \in Axes, homed'[a] # None
                   PROVE  homed'[a] = homed[a] /\ cfg'.active[a] = cfg.active[a]
      OBVIOUS
    <3>2. a # f
      BY <2>2, <3>1 DEF Edit, TypeOK
    <3> QED BY <2>2, <2>6, <3>2 DEF Edit, Fields, TypeOK
  <2>8. WorkIsOfConfig => WorkIsOfConfig'
    <3>1. SUFFICES ASSUME WorkIsOfConfig PROVE WorkIsOfConfig'
      OBVIOUS
    <3>2. work' = EffectsOnWork(f, cfg'.active) /\ work = [xy |-> work.xy, z |-> work.z]
      BY <2>2, <2>3 DEF Edit, TypeOK
    <3>3. CASE f = "x"
      <4>1. cfg'.active["z"] = cfg.active["z"]
        BY <2>6, <3>3 DEF Fields, Axes
      <4>2. work'.xy = cfg'.active.rest /\ work'.z = work.z
        BY <3>2, <3>3 DEF EffectsOnWork
      <4> QED BY <3>1, <4>1, <4>2, <2>4 DEF WorkIsOfConfig
    <3>4. CASE f = "z"
      <4>1. cfg'.active["x"] = cfg.active["x"]
        BY <2>6, <3>4 DEF Fields, Axes
      <4>2. work'.xy = work.xy /\ work'.z = ZUnset
        BY <3>2, <3>4 DEF EffectsOnWork
      <4>3. work'.xy \in {cfg'.active.rest, cfg'.active.x}
        BY <3>1, <4>1, <4>2, <2>5 DEF WorkIsOfConfig
      <4> QED BY <4>2, <4>3 DEF WorkIsOfConfig, ZUnset
    <3>5. CASE f = "buf"
      <4>1. cfg'.active["x"] = cfg.active["x"] /\ cfg'.active["z"] = cfg.active["z"]
        BY <2>6, <3>5 DEF Fields, Axes
      <4>2. work' = work
        BY <3>2, <3>5 DEF EffectsOnWork
      <4> QED BY <3>1, <4>1, <4>2, <2>4, <2>5 DEF WorkIsOfConfig
    <3> QED BY <3>3, <3>4, <3>5 DEF Fields, Axes
  <2> QED BY <2>3, <2>4, <2>7, <2>8
<1>6. CASE Datum
  <2>1. PICK a \in Axes : homed' = [homed EXCEPT ![a] = cfg.active[a]]
    BY <1>6 DEF Datum
  <2>2. cfg.valid /\ pc = "run" /\ UNCHANGED <<cfg, pc, reset, work, mounted, framed>>
    BY <1>6 DEF Datum, Store, Serving
  <2>3. \A b \in Axes : homed'[b] = IF b = a THEN cfg.active[a] ELSE homed[b]
    BY <2>1 DEF TypeOK
  <2> QED BY <2>2, <2>3 DEF WorkIsOfConfig
<1>7. CASE WorkSet
  <2>1. pc = "run" /\ UNCHANGED <<cfg, pc, reset, homed, mounted, framed>>
    BY <1>7 DEF WorkSet, Store, Serving
  <2>2. WorkIsOfConfig => WorkIsOfConfig'
    <3>1. \/ work' = [work EXCEPT !.xy = cfg.active.x]
          \/ work' = [work EXCEPT !.z = [under |-> cfg.active.z, tool |-> mounted]]
      BY <1>7 DEF WorkSet
    <3> QED BY <2>1, <3>1 DEF WorkIsOfConfig, TypeOK
  <2> QED BY <2>1, <2>2
<1>8. CASE WorkClear
  <2>1. pc = "run" /\ UNCHANGED <<cfg, pc, reset, homed, mounted, framed>>
    BY <1>8 DEF WorkClear, Store, Serving
  <2>2. WorkIsOfConfig'
    BY <1>8, <2>1 DEF WorkClear, WorkIsOfConfig, ZUnset
  <2> QED BY <2>1, <2>2
<1>9. CASE Mount
  <2>1. pc = "run" /\ UNCHANGED <<cfg, pc, reset, homed, framed>>
    BY <1>9 DEF Mount, Store, Serving
  <2>2. work' = [work EXCEPT !.z = ZUnset]
    BY <1>9 DEF Mount
  <2>3. work'.xy = work.xy /\ work'.z = ZUnset
    BY <2>2 DEF TypeOK
  <2> QED BY <2>1, <2>3 DEF WorkIsOfConfig, ZUnset
<1>10. CASE Stop
  BY <1>10 DEF Stop, Store, Serving, NoDatum, WorkIsOfConfig
<1>11. CASE Unmeasuring
  BY <1>11, UnmeasuringKeeps DEF WorkIsOfConfig
<1> QED
  BY <1>1, <1>2, <1>3, <1>4, <1>5, <1>6, <1>7, <1>8, <1>9, <1>10, <1>11 DEF Next, Unmeasuring

----------------------------------------------------------------------------
(* The theorems.                                                            *)

StoreInv == TypeOK /\ Described /\ Keeps /\ Uses /\ Calibrated

LEMMA StoreInit ==
  ASSUME Init
  PROVE  StoreInv
<1>1. TypeOK
  <2>1. PICK f \in {Absent, Torn} \cup {Whole(b, 0) : b \in Pushes} :
          flash = [bin |-> f, tmp |-> Absent] /\ prior = f
    BY DEF Init
  <2>2. f \in File
    BY <2>1, FileType, BlobAssumption
  <2>3. cache \in Cache
    BY CacheOfFile, FileType DEF Init
  <2>4. cfg \in Config
    BY AnyBlobType DEF Init, Config
  <2>5. homed \in [Axes -> Geo \cup {None}] /\ work \in Work
    BY DEF Init, NoDatum, BootWork, ZUnset, Work
  <2>6. cuts \in 0..MaxCuts
    BY BlobAssumption DEF Init
  <2>7. flash \in [bin : File, tmp : File] /\ prior \in File
    BY <2>1, <2>2, FileType
  <2> QED
    BY <2>3, <2>4, <2>5, <2>6, <2>7 DEF Init, TypeOK, Cache, Config, Work
<1>2. Described /\ Keeps
  BY DEF Init, Described, Keeps, StoredIsKept, Commit
<1>3. Uses /\ Calibrated
  BY DEF Init, Uses, Calibrated, CacheOf, Commit, NoDatum
<1> QED BY <1>1, <1>2, <1>3 DEF StoreInv

LEMMA StoreInvariant == Spec => []StoreInv
<1>1. Init => StoreInv
  BY StoreInit
<1>2. StoreInv /\ [Next]_vars => StoreInv'
  BY TypeStep, KeepsStep, UsesStep, CalibratedStep DEF StoreInv
<1> QED BY <1>1, <1>2, PTL DEF Spec

(* Every variable of the store keeps its type, a commit is described only   *)
(* while it runs and no transfer is open over one.                          *)
THEOREM StoreType == Spec => []TypeOK
<1>1. StoreInv => TypeOK
  BY DEF StoreInv
<1> QED BY <1>1, StoreInvariant, PTL

(* However many commits, failures and power cuts there are: /config.bin is  *)
(* the blob last answered for, or the whole blob of the commit under way    *)
(* (configStoreCommit).                                                     *)
THEOREM StoredNeverLost == Spec => []StoredIsKept
<1>1. StoreInv => StoredIsKept
  BY DEF StoreInv, Keeps
<1> QED BY <1>1, StoreInvariant, PTL

(* Whatever is pushed, set, saved or refused, the config in use decodes, and *)
(* without unsaved edits it is the stored one (machineCfgSet, machineCfgSave, *)
(* machineCfgAdopt, machineCfgLoad).                                        *)
THEOREM InUseIsStored == Spec => []ConfigInUse
<1>1. StoreInv => ConfigInUse
  BY DEF StoreInv, Uses, ConfigInUse
<1> QED BY <1>1, StoreInvariant, PTL

(* No datum and no work offset outlives the config it was measured under    *)
(* (runEffects, loop()).                                                    *)
THEOREM CalibrationNeverStale == Spec => []CalibrationIsTrue
<1>1. StoreInv => CalibrationIsTrue
  BY DEF StoreInv, Calibrated, CalibrationIsTrue, DatumIsTrue, WorkIsTrue
<1> QED BY <1>1, StoreInvariant, PTL

============================================================================
