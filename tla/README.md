# Urumi firmware: TLA+ verification project

Urumi is a cutting machine: a host streams curves over USB to an RP2350, which
plans and steps motors and switches tools over an RS485 bus of small nodes. The
RP2350 runs two loops that share memory and take few locks:

- **Core 0** (`src/src/rp2350/core0`) talks to the host, keeps the machine's state,
  and plans;
- **Core 1** (`src/src/rp2350/core1`) owns the bus: it steps the motors and serves
  one bus transaction at a time;
- **ipc** (`src/src/rp2350/ipc`) is the boundary: a ring of facts from Core 1 to
  Core 0, a request/reply channel the other way, and a block of shared flags.

What can go wrong there is an order of steps of the two cores, the operator, the
host, the nodes and the bus that nobody wrote a test for. This project models that
boundary and what leans on it: keeping the bus safe, running a job that can be
paused, aborted and stopped at any moment, moving the right motor to the right
place, and storing a configuration that survives a power cut.

Paths below are relative to `src/src/rp2350` unless they start with `src/`.

## 1. Inventory

| Component | State it keeps | Operations | What makes it correct |
|---|---|---|---|
| Park handshakes (`core0/core0.cpp`, `core0/config/config_store.cpp`, `core1/core1.cpp`) | four flags | reset request, wait, wipe, release; flash quiesce and release | Core 0 wipes or writes flash only while Core 1 spins; both handshakes end |
| Fact ring (`ipc/core1_facts.cpp`, `core0/ops/observe.cpp`) | ring, head, tail, lost flag | push, pop, lost clear, reset | FIFO, no slot shared, no silent loss |
| RPC channel (`ipc/core1_rpc.cpp`, `core1/rpc_server.cpp`) | two queues, the claim, ids | start, poll, abandon, time out, take, reply | no crossed answers, no dead claim, calls return |
| Bus safety (`core1/core1.cpp`, `core1/bus/packet.cpp`, `core0/ops/bus.cpp`, `core0/cmd/lifecycle.cpp`) | latch, swept flag, enable mask | stop, sweep, unstop, enable and disable, boot sweep | what is believed safe is safe |
| Slot map, position (`core0/ops/{slot_map,axes_map,position}.cpp`) | slots, fences, origins, parks | apply, retry, make safe, boot sweep | one node per slot, no stale position |
| Job motion (`core1/emit/follower.cpp`, `src/lib/planner/executor.cpp`) | executor, ring, tool, duty stop | enter, tick, hold, land, lift, events | no gap, no cut unplunged, pauses land safe |
| Job planner (`core0/planner/queue.cpp`) | layer and record counters, resume trim | open, queue a record, resume, lifts | a resume starts where the stop was |
| Machine (`core0/ops/machine.cpp`) | context, faults, aborted flag | admit, teardown, settle, publish | an aborted job closes |
| Data plane (`core0/data_plane.cpp`) and the host's session (`src/web/src/wire/link/session.ts`) | sequence, receive state, window | frame, ACK, NAK, headers, rewind | each record runs once, in order |
| Runner, sequences, legs (`core0/ops/{runner,sequence,leg,homing}.cpp`) | live legs, mailbox, step | arm, poll, settle, give up, abort | one owner, no lost end, a homed axis is where Core 0 says |
| Recipes (`core0/controller/seq`) | a step counter each | tool change, place, goto, home, recover | X and Y travel with every Z parked |
| Jogs (`core0/ops/cjog.cpp`, `core0/cmd/axis.cpp`) | direction, deadman | start, renew, replace, stop | a line that nobody renews always brakes |
| Config store and edits (`core0/config`, `core0/controller/cmd/config.cpp`) | file, cache, decoded config, push | commit, edit, save, push, boot | a power cut leaves a whole file; nothing calibrated outlives its config |
| Frames, mesh, tools (`core0/ops/frames.cpp`, `tools.cpp`) | work offsets, mounted tool | teach, reset, mount | geometry: mostly out of reach |
| Nodes (`src/src/node`) | driver, slot, datum, leg | dispatch, leg step | a frame is obeyed whole or not at all |
| Planner library (`src/lib/planner`) | blocks, speeds | push, replan, tick | continuous speed, exact rest |

Interactions: Core 0 calls Core 1 through the RPC channel; Core 1 calls back
through facts, which `observeTick` drains once a pass; both edit the planner ring
under `plannerLock`; the flags (`abortRequested`, `pauseRequested`,
`estopRequested`, `dutyWait`) are single words without one. The hard behaviours are
listed in `PROJECT.json` under `hazards`, each at its line.

## 2. Modules

| Module | Models | Uses |
|---|---|---|
| `CorePark` | both park handshakes, one step per flag access | |
| `FactQueue` | abstract specification: a bounded FIFO that remembers a loss | |
| `Core1Facts` | the lock-free ring, the observer, reset | `CorePark`; refines `FactQueue` |
| `RpcChannel` | the request/reply channel by itself | |
| `BusSafety` | nodes, mask, sweep, operator commands | `RpcChannel` |
| `JobMotion` | a streamed job from record to tool | |
| `SlotMap`, `MCSlotMap` | slots, fences, origins, parks, the applies and commands that change them | |
| `JobStream`, `MCJobStream` | the host's session, the data plane, job and layer admission, tool change | |
| `Legs`, `MCLegs` | node-run legs, the runner, the recipes | |
| `ConfigStore`, `MCConfigStore` | commit, boot, edits, push, what is calibrated under them | |
| `Jog` | continuous jogs against everything else that uses the ring | |
| `Core1FactsProofs`, `BusSafetyProofs`, `ConfigStoreProofs`, `JogProofs`, `SlotMapProofs`, `JobStreamProofs`, `JobMotionProofs`, `LegsProofs` | theorems | the module they name; `Core1FactsProofs` holds those about `CorePark` too |

An MC module holds the constants a `.cfg` cannot write (functions, sequences). The
other modules take every constant from their `.cfg`. Definitions named in a comment
as *a slip* are deliberately wrong variants of the definition after them;
`PROJECT.json` (`mutants`) says which property each one breaks. Specifications
never use them. A variable marked *history* is read by properties and no step.

**CorePark, Core1Facts.** `pc0` and `pc1` are the two cores' places. `push` and
`observe` are the places inside `core1FactPush` and `observeTick`; every access of
`head`, `tail`, a slot or the lost flag is its own step. A park step of Core 1 is
taken only between pushes, and of Core 0 only between passes, as in the code.
`unseenDrop` is history: a drop has happened that the operator has not cleared. The
contents of a fact do not matter here.

**RpcChannel, BusSafety.** A request carries id, command and node; `stale` is
history, set when Core 0 gives the request up. `motion` stands for a planner run,
during which Core 1 serves nothing. One idealisation, `IdHeadroom`: an id is not
reissued while the same id is still somewhere in the channel (65535 ids, at most
2 × `RPC_QUEUE_DEPTH` + 1 requests, and a stale one leaves in seconds). `energised` is
what the nodes really do, `nodeEnabled` what Core 1 believes from confirmed
replies. A transaction is obeyed and answered, obeyed with the reply lost, or not
heard. `processBus` is cut at its two reads of the estop flags, at each node of the
sweep and at each request; a Core 0 handler that calls the bus is a `task` that
walks its nodes. A node also goes off by itself and tells nobody (`NodeLoses`: a restart,
or the make-safe after bus silence that a node may be built with, `node/main.cpp`); `doubt`
is history, who has gone off without a reply that said so. One timing assumption: under an
estop no call runs into its timeout, since a burst, a leg and a planner run look at
`estopRequested` with every step (`Poll`). A slot binding is membership in `slots`; which
slot, fences and exclusion are `SlotMap`'s.

**JobMotion.** A record is cut in `RecLen` parts and the ring holds blocks: up,
down, on, off, cut. A section under `plannerLock` is one step. A tick of
`processPlanner` is three: `Look` (the requests, in the code's order), `Tick` (the
executor), and what a settled tick does. When a duty stop falls due, a block is
late, a tool fails or a cut joins the next at speed is nondeterministic. Facts are a
FIFO sequence: `Core1Facts` shows that this is what the ring provides. Whether a lift or a
duty lift fits the travel of Z (`zMoveFits`) is nondeterministic too: where Z cannot lift,
`plannerQueueLift` queues the tool's OFF alone, and a duty lift aborts the job with
F_TOOL. History: `reach` is the length of path cut so far, `stuck` that the last hold found
Z down and unable to lift, `forgotten` that a reset wiped a duty hold's report and not its
wait. Jogs, tool changes and what a placement moves
are left out; its beginning, its tick and its end are there (`PreflightPasses`,
`PassEnds`, `PlaceOk`), because the passes between them are what reads the reports of the
job before. `Core1Prompt` is a timing assumption: the few instructions between an unlock on Core 1 and the report after
it are not spanned by a whole USB packet.

**SlotMap.** Each bus transaction of a Core 0 handler is an action, so a node may
restart between two; `op` is the handler in progress and where it stands. Positions
and counters are integers modulo `Span`, the code's `int32`; a table entry with its
"seen" bit is a position or `None`. The default head's map stands for the head
selection. Some behaviour the model has because the code has it, and the properties
allow: a `setorigin` on a node whose driver is off leaves it homed, a stop between
`setorigin` and `unstop` leaves that node homed, an unbound axis reads nonzero after
a `step` on a slot of a slot-only map, `node_set_enabled(false)` halts a leg
unguarded.

**JobStream.** The wire is two FIFOs of frames, control bytes and replies; the host
is `Session` (Go-Back-N over a window), Core 0 the data plane's `expectedSeq` and
`pendingAcks` and the planner's job, layer and record admission. Sequence numbers are
modulo `SeqMod`. Core 1 runs a record in one step; `accepted` and `ran` are history.
The session's hold on a silent link is left out.

**Legs.** A position is on the switch, at the park place, or elsewhere. A node's
pulser and Core 0's supervisor are separate; each poll is answered, lost or
misread within `MaxUpsets`. `core` holds the runner with its one-place mailboxes, the
sequence and its step. Dummy legs, the selection of heads and the lift of an
aborted job (`JobMotion`) are left out, and so is `sequenceWait`, which nothing calls.

**ConfigStore.** A blob is the geometry of two axes, the buffer times Core 1 keeps a
copy of, and the rest; the blob stands for its CRC. A commit is a step per flash
operation (`CommitErase` to `CommitDone`), each of which may fail, and the power may
be cut before any of them. The park of Core 1 during a commit is `CorePark`'s.
`CFG_GET` only reads. A payload that arrives after the transfer's timeout is left out.

**Jog.** A line in the ring is a block with an owner. A packet, a command and a tick
of Core 0 are one step each; Core 1 enters, moves, brakes and leaves in steps of its
own (`LeaveFlags` comes after the step that gives the ring up). Diagonals, speed, the
rotary axis and the mesh are left out. Two behaviours the model has because the code
has them: a `jog` or `line` during a running one is refused `busy` (a click does not
join), and the statics of `cjog.cpp` survive a soft reset.

## 3. Runs

Passing:

| Run | Instance | Checks |
|---|---|---|
| `core1_facts` | 2 slots, indices modulo 4, 2 facts | ring safety, refinement of `FactQueue`, both handshakes, liveness (26 thousand states) |
| `bus_safety` | 1 node, lossy bus, depth 1, ids to 3, commands that broadcast, read, step, start a leg or a run, reset | mask honest, boot sweep honest, no crossed answer, stops are swept, calls return (1.15 million) |
| `job_motion` | 2 records of 2 parts, margin of 1, ring of 11, all commands, 2 a pass | paused is safe, who waits is somebody's next step, cuts plunged, no gap (4.8 million) |
| `slot_map` | a stepper and a vacuum node, 2 slots, counters modulo 2, 3 commands, 1 upset | one listener a slot, positions true, unstop unmaps |
| `job_stream` | 2 layers of 2 and 1 records with 2 tools, numbers modulo 4, window 2, ring of 1, 3 upsets | an acknowledgement is true, what runs is what was sent, jobs survive, the window never hangs |
| `legs` | a linear and a rotary axis, home, single legs, recovery, 1 upset | a sequence never stalls, what is homed is where Core 0 says |
| `legs_job` | a Z and an X, goto, job, abort, cancel, stop | Zs are up when X and Y travel, an event fault ends what runs |
| `config_store` | 4 blobs (one malformed, one refused), 2 commits, 1 power cut | the stored config is kept, what runs is stored, calibration is of this config (5.2 million) |
| `jog` | positions 0..3, soft range 1..2, 2 records | no line unwatched, no homed axis out of range (0.5 million) |

Violations, each a place where the code does not do what a comment or a doc says
(details and quotes in `PROJECT.json`, `findings`):

| Run | What TLC finds |
|---|---|
| `job_motion_abort` | an abort finished during a duty wait is followed by a duty lift that powers the tool, and the aborted job may stay open |
| `legs_stale` | a step's end left in the mailbox by an aborted traverse is taken by the homing run started after it |
| `config_work` | a boot that finds a mute node skips the default map and with it `framesReset`: the old work offset stays in use |

Some disagreements met while modelling have no run; the models have the code's
behaviour, and the properties set their case aside and say so:

- an `enable` posted behind a debug burst and abandoned is served after the sweep, in
  ALARM (`core1/rpc_server.cpp:180` against `core1/core1.cpp:66-69`); `ArmedIsTrue` does
  not forbid it, and says only what the mask then claims;
- a broadcast enable in ALARM is not in the mask, and `unstop` leaves drivers energised
  (`core0/cmd/lifecycle.cpp:45` against 38-39);
- a soft reset drops FACT_DUTY_HELD and keeps `dutyWait` (`core0/core0.cpp:117`, "WIPE ALL
  GLOBAL STATE"): a `stop` that is swept and a `reset` served in the pass in which a duty
  stop is reported leave the next job's Core 1 waiting for ever. `job_motion` reaches this;
  `WaitIsOwed` names it (`forgotten`) as the only exception, and `DutyIsOwed`, the same
  without it, is proved of every behaviour without a reset;
- a resume's trim outlives its job and shortens the next job's first record
  (`core0/planner/queue.cpp:586`, 369, 733 against 276);
- an abort at rest is consumed before it settles, and a record accepted in between keeps
  the job running (`core1/core1.cpp:100` against `core0/data_plane.cpp:140`): an aborted
  job may go on, so `PausedIsSafe`, `CutsPlunged` and `NoGap` leave it out;
- a refused slot map is committed in part (`core0/ops/axes_map.h:11` against
  `axes_map.cpp:102-106`); the datum of a node with its driver off can be set
  (`src/src/node/dispatch.cpp:129` against `src/include/common.h:89-91`);
- a held jog's stop brakes whatever owns the ring (`core0/ops/cjog.cpp:42` against
  `src/docs/plans/motion-sessions.md:680-681`), and a click does not join a running jog
  (`core0/cmd/axis.cpp:679-680` against the code under it);
- a lost `leg_abort` acknowledgement reads as a finished retract (`core0/ops/leg.cpp:251`, 366
  against `src/docs/homing.md:1136-1138`); the place tick of an aborted job starts a sequence
  (`controller/seq/toolchange.cpp:130` against `core0/ops/machine.cpp:85`).

`PausedIsSafe` says where the blade may be down and where the tool may be on, and nowhere
else: down only if the hold that it landed from found that Z cannot lift there (`stuck`; the
code's own comment says "off alone where Z cannot lift"), on only if it did not hear its
make-safe: it is believed off, F_TOOL stands, and no code can do more.

### Bounds and why they suffice

- *Ring of 2 slots, indices modulo 4*: full, empty and wrapped all occur, and every
  place of the producer meets every place of the consumer. The theorems hold for
  every size.
- *Depth 1 and 3 ids, one node*: a stale request, a stale reply and a live request
  are in the channel at once, and ids wrap many times; the mask and the boot sweep treat
  nodes independently. The theorems hold for every depth and every set of nodes.
- *Two records of two parts*: a stop at the start, inside and at the end of a record, a
  break between records, and a resume before the stop by `Margin`. A ring of 11
  takes one full record and the duty lift but not two: ingest meets the reserve. Two
  commands a pass are enough for a command to find what the one before it left and no
  report between them read: a swept `stop` and a `reset` among them. What the host still
  sends a job that it has aborted (`"late"` in `Commands`: more records, another pause or
  abort) is left to `job_motion_abort` and the theorems, since the properties set an
  aborted job aside; with it the instance has 18 million states and the same properties.
  The theorems hold for jobs and records of every length, every ring of at least a duty
  lift, every margin and any number of commands a pass.
- *Two nodes, two slots, three commands*: the least in which a node moves between slots,
  two nodes meet at one, and a fence outlives the command that raised it. `MaxUpsets`
  gives one restart or hand-turned shaft at any point; lost frames are not bounded.
- *Modulus 4, window 2, ring of 1*: numbers wrap inside a job, a rewound window meets its
  own duplicates, and the ring refuses. Three upsets reach a duplicate of a NAKed
  frame; two layers reach a tool change with the next header in flight.
- *Legs*: one linear and one rotary axis are all the kinds of homing; a Z and an X all
  the kinds of travel. One miss is given up, so a lost poll reaches that path.
- *Config*: two values of each field and two commits reach every mix of old file,
  temporary file, cache and edit; the cut comes at any step of either commit.
- *Jog*: a range of two inside four places reaches both ends, the clamp and a move
  already outside when the datum is taken.

### Fairness and why the code justifies it

Each core is an endless loop that interrupts do not starve, so steps already begun
are weakly fair. Stronger assumptions, each used for one property:

- Core 1 gets past a stream of facts to the top of its loop (`processBus` reports
  a bounded number, then returns);
- the server takes a request whenever a planner run ends (`rpcServerPoll` is last in
  every round), and a poll meets a reply that stays (`PollRequest`, strongly fair);
- a burst, a leg or a planner run ends once `estopRequested` is seen; nothing is assumed
  of how long they run otherwise;
- in `JobStream`, the two cores, the session's timers and a frame that is under way (`Receive`)
  are weakly fair: the link loses at most `MaxUpsets`, so it delivers in the end;
- `JobMotion`'s `FairSpec` serves the one counterexample of `job_motion_abort`.

The operator and the host's user are never fair. `Legs` states no liveness: a node that
never answers or a leg that never ends needs a bound on lost frames the bus does not give;
`NeverStalls` is its safety part, that a sequence always waits on something that comes.

## 4. Deadlock

Passing runs check for deadlock, except `slot_map` and `job_stream`, which stop when the
commands of their bound are spent or the job is over.

## 5. Proofs

Every theorem is for all values of the constants that satisfy the named assumption of
its module; TLC evaluates those assumptions on each run. None of the safety
properties is inductive by itself. What each proof adds:

**`Core1FactsProofs`** (`SlotsAssumption`: the index width is a
multiple of the ring's size and larger, as 256 is of the code's ring).
`TypeCorrect`, `ParkHolds`, `WipeExcludes`, `FlashExcludes`, `SlotsAreOwned`,
`DropsAreNoticed` are the safety invariants of `core1_facts`, and `Refinement` is that
the ring implements `FactQueue`. `SlotNotShared` needs that a push which has found
room still has it when it writes, whatever was popped meanwhile, and that a pop
under way has something to pop; both rest on the distance from tail to head, so
`FactsInv` adds: the distance is at most `Slots`, less than that from the test to the
publication, positive from the read of head to the store of tail; a slot read or
written but not yet published or freed holds what the local copy says; and each
core's place in the ring's code is a place of the park protocol where that code
runs. `ParkInv` ties the four flags to the two places and is proved inductive once
(`ParkStepInv`): every step of `Core1Facts` is a step of `CorePark` or leaves it alone
(`StepIsParkStep`). The arithmetic is a chain of lemmas: `Division` and `Remainder`
say what `%` returns, `IncIs` and `DistanceIs` how indices and their distance behave at
the wrap, `SlotWraps` that the slot of a wrapped index is the slot of the sum,
`SlotsDiffer` that indices less than `Slots` apart have different slots. For the
refinement, `AppendIs` and `TailIs` say that publishing the head appends to the abstract
queue and freeing the tail takes its first element.

**`BusSafetyProofs`** (`RpcAssumption`, `BusAssumption`: every depth, every number of
ids and every set of nodes and commands, one broadcast id). `BusType`,
`RepliesAreMine`, `MaskIsTrue`, `SweepIsHonest` are the safety properties of
`bus_safety`; `BusInvariant` is the invariant they come from, `BusInv`:

- `Claim`: at most one request, reply or service in the channel is still waited for, it
  carries the live id, command and node, and nothing given up carries that id. An answer
  that is not mine would need a second one;
- `Callers`, `Handlers`: the claim is a call's or a leg's and never both, and a call is
  for what the Core 0 handler has pending;
- `BroadcastsOnOff`: only a command that switches on or off goes to every node at once.
  `ArmedIsTrue` (who is in the mask holds torque, unless it has gone off since its last
  confirmed reply with nobody told) then follows a transaction at a time: a bit is set by an
  answer only, a frame that switches off is addressed to the node whose bit the same
  transaction clears or leaves in doubt, and a node that goes off by itself is in doubt;
- `BootSweep`: while the boot sweep runs the channel holds its make-safes alone, and a
  driver that is on is still to be asked, being asked, or counted as unconfirmed.

The channel is abstracted once (`RpcStep`: what a step may do to the queues and the
claim) and every action of `BusSafety` is shown to be such a step, so `ClaimStep` and
`RpcTypeStep` are proved once and not per action.

**`ConfigStoreProofs`** (`BlobAssumption`, `ShapeAssumption`: an edit of a value does
not change whether a blob parses). `StoreType`, `StoredNeverLost`, `InUseIsStored` and
`CalibrationNeverStale` are the four invariants of `config_store`; each is extended to
the steps between two commands. `Keeps`: up to the rename the stored file is the one
answered for and after it the commit's, and only a read-back of the whole blob lets the
rename happen. `Uses`: the cache is the file's except between the rename and the
commit's end, the config in use is the cache's up to edits marked dirty, and a save
commits what is live while a push commits what decodes. `Calibrated`: what was measured
is under the config in use or goes with the reset that is asked for, so that the step
that changes a geometry is the one that drops or dooms its datum.

**`JogProofs`** (`RangeAssumption`). `JogType`, `NoLineUnwatched`, `JogsStayInRange` are the
invariants of `jog`. `NoLineUnwatched` (a continuous line in the ring has a direction
held for it, or a brake asked) is not inductive: Core 1 clears the request of a ring it
has already left after a new line is queued, so an abort excuses an unwatched line only
on a ring that Core 1 runs (`LineKept`), and a direction replaced while the old line
brakes must be the one last asked for when it starts (`WantKept`). `Latch` says what an
estop and its sweep have already cleared. `InRange` is inductive with the type
invariant: every target pushed on a homed machine is clamped or refused, and homing ends
in range with nothing queued.

**`SlotMapProofs`** (`SlotAssumption`: every set of nodes, any of them steppers, every
number of slots, counters of every width). `SlotType`, `SlotsTrue`, `PositionsTrue` and
`UnstopEmpties` are the four properties of `slot_map`, from `Typed`, `TableInv` and `PosInv`:

- `TableInv`: a node bound without a fence is bound once (`BoundOnce`) and listens there
  unless it reset since (`BoundListens`); `Progress` is what the handler under way has
  done: a park has left nothing bound behind it, an engage nothing bound ahead, so the
  node it asks for is bound nowhere (`EngageIsFree`), and a poll has freed who confirmed;
  `Stopped`: until the sweep no handler runs and nothing is bound. Every step but an
  engage is a step that binds nothing and makes nobody listen (`Shrinks`), for which the
  invariant is proved once; `UnstopEmpties` is `Progress` at the poll's end;
- `PosInv`: a homed slot (`HomedAt`) is an axis whose node has an origin and, unless the
  node reset, a witness and a counter that agrees with the machine's; a witness means
  torque (`DatumHolds`), and while it holds the origin places the shaft
  (`OriginIsTrue`). A step on a slot moves both counters because the bound node listens
  there and no other axis does: `StepPos` needs `TableInv`. The rest either forgets
  (`PosStep`) or records what it has just read (`BindPos`, `SetOriginPos`, `ParkLegPos`).
  `MinusIs` is the arithmetic of counters that wrap.

**`JobStreamProofs`** (`JobStreamAssumption`: every job of at least one tool, every
modulus, window smaller than it and ring). `StreamTypes`, `HostCountsTrue`, `JobRunsRight`
and `JobIsNotLost` are `TypeOK`, `AckIsTrue`, `RunsRight` and `JobSurvives` of `job_stream`,
each for a stream that is lost, damaged, resent, paused and restarted any number of times.
The first two rest on `IInv`:

- `AckInv`: each reply under way has a count (`Counts`), the frames taken when it was sent;
  the counts only grow and the host's base is at or below the first. An ACK carries its
  count modulo `SeqMod`, so the base moves by the remainder of a difference, which is at
  most the difference (`ModAdds`, `ModBelow`). The clamp to what is in flight is what keeps
  the base at or below `next`; the count needs only that replies arrive in order;
- `RestInv`: a session held and settled has no frame and no ACK of the old stream under way,
  so that the first thing it reads after its `seqreset` is the reset's own ACK;
- `PlaceInv`: until the placement is signed off only preflight frames are under way and
  nothing of the job has begun, so no restart can replace the stream;
- `Typed`: every resume point is a layer of the job, so that the stream a restart begins is
  a sequence of frames. `BeforeIs` and `LayersFromIs` show that the two recursive functions
  the job's frames are built from exist and what they return, from the least record
  for which they would not (`LeastExists`).

`JobRunsRight` says of every record Core 1 runs that it is the next one of the job. That
relates the two ends of the link, so `JobInv` says where each of them is in the stream:

- `StandInv` (`Parse`): the frames the Pico has not yet taken are what is left of the job from
  where Core 0 is: in the preflight, before a tool header, at a record, or at the first layer
  after a restart. `NextLayer`, `NextLayerTool`, `NextRecord` and `NextResume` say what the next
  frame then is, and each admission of the code moves from one to the next;
- `SentInv` (`Names`): between the two ends every frame under way is numbered by its place in
  the stream modulo `SeqMod`, no older than a window before the one the Pico waits for
  and no newer than a window after the base. As `Window < SeqMod` (`JobStreamAssumption`, 16
  of 256 in the code), a frame that has the number the Pico waits for is that frame: this
  is why a duplicate, a frame of a rewound window or a late resend is never taken;
- `KInv`: the job state itself: when Core 1 may stand in the ring (`StopInv`), what a hold keeps
  (`HeldInv`), where it resumes (`PointInv`), that the ring holds consecutive records of the
  open layer with their tags (`RingInv`) and is empty while a tool is changed (`MountInv`);
- `EndInv`, `OrdInv` (`Order`): what has been run, then the ring, then the next record, are
  consecutive records of the job. It is kept as long as no cancel of the host has got through,
  for after one the history belongs to a job that is over.

`JobIsNotLost` is the absence of something: no refusal that ends the job is ever sent to a host
that built it well. `SurvInv` says so of every state in which the host has not ended the job
and there is no fault (`Calm`): no abort is under way and a hold has its cause (`Whole`); the contour
Core 0 has open is the one the next record goes on with (`Curve`: BAD_CURVE is not sent); the
preflight is counted as the stream has it (`Begun`: JOB is not sent); the session goes past
the placement only with a job that has (`Signed`); and of the refusals under way none is final but
BAD_STATE after a late block's hold (`Fair`). A frame that is taken is the one of `Parse`, so each
admission's checks pass (`RefuseCalm`, `JobHdrCalm`, `LayerCalm`, `RecordCalm`).
TLC checked `JobInv` and `SurvInv` on the run's instance before they were proved.

**`JobMotionProofs`** (`JobAssumption`). `MotionTypes`, `PauseSafe` and `CutsAreReady` are
`TypeOK`, `PausedIsSafe` and `CutsPlunged` of `job_motion`, for any number of jobs, one after
another; `PathIsWhole` is `NoGap` for the first of them (`Jobs = 1`: a resume's trim
can outlive its job, see section 3, and the property is false of the second). None is
inductive. `Inv` says, of a placed job that nobody has aborted (`Own`):

- `Core1Place`, `Aborts`, `NotOpen`: where Core 1 is in `processPlanner` and what its locals
  then are, that whatever aborts has marked the job, and that a job begins at rest with
  the reports of the one before it read. An `Own` job is left alone by every other action
  (`OwnStep`), so that the rest is about the steps of `Lives`;
- `FactsTrue`: a report still to be read says what is still so. HELD and DRAINED are alone
  in the queue but for tool failures, and nothing has moved since; this is why a pause
  may land on a report that is passes old. `DrainedTrue` and `UnwaitTrue` are the same for a report
  not yet posted and one half handled;
- `LiftTrue`: a pause's ring holds nothing but ups and offs, an up if the blade is down and Z
  could lift (`~stuck`) and an off not yet run if the tool is on, so that an empty one is
  safe (`PausedTrue`);
- `Ahead`, `HeadReady`, `Phase`, `TailReady`: a cut comes after a cut or a plunge and a plunge
  after an on, or after an up that has left the tool on; the oldest block finds blade and
  power as it needs them; and the next record, if it goes on with a contour, goes on from a
  cut. These hold through a record appended to a part-run ring (`AddedIs`), a duty lift put
  ahead of it (`LiftedIs`) and a release of half a block (`ReleaseIs`);
- `Reached`, for `NoGap`: each block starts where the path has got to or where the block
  before it ends (`AllNear`), the oldest and the cut under way where it has got to
  (`HeadNear`), and so do the next record (`NextNear`), the resume point of a pause
  (`StopNear`) and that of a duty stop (`DutyNear`). Only an advance moves the path, and
  only forward (`ReachGrows`). `PathIs` is the arithmetic of parts and records.

`WaitIsAnswered` is `WaitIsOwed`: from `Inv`, a job that runs has the ring (`RunsIt`), one
at a hold has reported it or is about to, and the report is still to be read (`HoldIsSaid`), and
one that has landed PAUSED is let off the request (`PauseIsOver`); a duty hold's report is
there until it is read, and only a soft reset wipes it with the wait left standing
(`DutyOwed`, `forgotten`). It holds for any number of commands a pass.
`WaitIsAlwaysAnswered` is the same wait without that exception (`DutyIsOwed`), for every
behaviour in which the host sends no reset: the reset is the only cause.

TLC checked `Inv`, `Reached` and what `WaitIsAnswered` adds as invariants before they were
proved, the first two with one and two jobs and up to five commands a pass.

**`LegsProofs`** (`LegsAssumption`: every set of nodes, any of them rotary or a head's Z,
every order of cycles, every number of polls and upsets, every set of commands).
`AlarmStops` is `AlarmRunsNothing` of `legs_job`; `LegsInvariant` is the invariant it comes
from, `LegsInv`. The property says what an alarm leaves, and fails two steps later if
anything of before the alarm can still be taken for something of after it, so `LegsInv`
says what is left behind:

- `Held`: a claimed leg is a live step's, so that an empty mailbox and no live step leave
  nothing that could end later;
- `Owned`: a job from whose state the loop may begin a recipe has no sequence, so that a
  change or a placement never begins over another;
- `Calm`: under a fault only a goto, a change or a placement runs, never with a leg claimed
  while its ring step is out, and a step's end in the mailbox is the last event and of a
  step that is over (`OwnEnd`): taken, it advances the recipe that posted it;
- `HomeRun`: a homing run's chains are no longer than its recipes, so that the next job of
  a chain exists when it is armed;
- `Emptying`: the mailbox is empty before the tools and the observer run and, under a
  fault, while commands are served.

Without a fault an old step's end may wait in the mailbox (section 3), so `OwnEnd` is
claimed only under one. Each helper of the model has a lemma `...Is` that says what it keeps of the
state it maps; the arms and the teardown are then used through those (`Fails`, `Torn`,
`Ended`, `Ticks`), and each handler has a lemma `...Keeps`. Before the proof, TLC checked
`LegsInv` on millions of states of the three runs' instances, with no violation.

`LegsGoOn` is the invariant of a sequence that goes on, `LiveInv`, which adds `Alive` to
`LegsInv`. `NeverStalls` is not inductive: that something will come is no use unless what
comes then leaves something to come in its turn. So `Alive` says what each handler leaves
(`Outcome`): no step and no sequence (`Gone`), a live step whose open threads are the ones with a
claimed leg (`Armed`), or a line whose drain is still to be observed (`Rolling`). Between two
steps of the loop a leg may also have ended unheard (`Live`): its event is in the mailbox, with
the step's end behind it if it was the last (`Posted`), or the step's end alone (`Over`). In
a homing run a thread's last leg is the one that puts its node in `done` (`LastLeg`), so that
an event either arms its node's next leg or leaves the others to end the step (`Almost`).
`Fit` says that nothing runs under an estop and that a traverse leaves the machine idle.
`NothingStalls`, `StepEndIsOwn` and `LegsTyped` are `NeverStalls`, `StepEndIsMine` and `TypeOK`
(whose bounds on the mailbox, the polls and the misses are `Live` and `Polled`).

These theorems leave out one step, and name it: `StopIsLate`, a `stop` served in the pass in which
the mailbox still holds the end of an aborted traverse (`Loose`). That is the finding of
`legs_stale`, and the proofs show that it has no other cause: with it, an old end is taken for a
new step's, and each repetition leaves one more in the mailbox. `LegsAlwaysGoOn` says the three
properties of every behaviour of an instance that lacks one of the three commands it
takes (`NoLeftover`), as those of `legs` and `legs_job` do.

`ZsStayUp` is `ZsAreUp`, under the same exception and for distinct axes (`DistinctAxes`: no
head's Z is X or Y. `config_decode.cpp:336`, checkNodeIds, refuses a config with one id twice; an
`axes` command could still bind otherwise, so it is a hypothesis of the theorem and not of
the module). `Raised` is what it comes from: the Zs may be raised many commands before the
line that needs them, in a step of their own (`ZsFirst`) or by the placement's start
(`Placing`), and from then on each is up or on its leg to the park position, or the miss of such a
leg is the oldest event (`Missed`) and ends the recipe before the next step; a line goes out only
when they are up and moves none of them (`Cares`). `NextRaises` is the step list's lemma and
`LegEndsRaises` the supervisor's. `ZsAlwaysUp` says it of the instances without a late
stop. TLC checked `LiveInv` and `Raised` on the instances of the three runs, less the late stop,
before they were proved.

That the first slot of a phase exists (`FirstIs`) is a least-member argument: the library's
well-founded minimum (`WFMin`) is about sets, not operators, so it can be used; so is `LeastExists`.

Only model-checked: every liveness property (`FactsArePopped`, `HandshakesEnd`,
`CallsReturn`, `StopIsSwept`, `InFlightResolves`), which needs fairness and `ENABLED`, and one
invariant, `HomingIsTrue` of `Legs`. It is not true of every instance: a node whose driver is
off and whose datum the host sets (section 3) is told nothing by a line that names it, and
`seen` follows the line. `legs` has no line. A proof needs that, or a driver on wherever a line
goes, as a hypothesis, and an invariant that `LiveInv` does not hold: that a node with no leg
and no unheard pulser stands still, where its origin says, and what each phase of a homing
chain leaves for the next (section 7).

## 6. Not modelled

- Floating-point geometry: look-ahead, Bézier evaluation, mesh, blade lead, frames.
  TLC has no reals; the executor is modelled by its states.
- Step timing, PIO, UART bytes, CRCs, hall signals: hardware I/O.
- Text commands that only format state (`get`, `query`, `status`).
- The node's ISR frame parser and register access; the probing passes' arithmetic.
- The host's transport and user interface, the hall bench, demo and scratch programs.

## 7. Plan

One proof is still to come: `HomingIsTrue` of `Legs`, from `LiveInv` and

1. for each node: with no leg claimed and no pulser that Core 0 lost, it does not run, and if it
   is homed and has not restarted it is where `seen` says;
2. for each node of a homing run: its leg is its phase's, its driver is on unless it has
   restarted, and once its last leg has ended well it stands at its park position;
3. for the run: the nodes of the cycles before the current one are homed.
