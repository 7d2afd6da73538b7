------------------------------ MODULE CorePark ------------------------------
(***************************************************************************)
(* The two handshakes with which Core 0 stops Core 1 (core0/core0.cpp,     *)
(* core1/core1.cpp, core0/config/config_store.cpp).                        *)
(*                                                                         *)
(*  - Soft reset: Core 0 raises soft_reset_requested, waits until Core 1   *)
(*    shows core1_parked_for_reset, wipes the cross-core state and lowers  *)
(*    the flag.  Core 1 reads the flag at the top of its run loop only.    *)
(*  - Flash write: Core 0 raises flash_op_requested, waits for             *)
(*    core1_parked_for_flash, writes, lowers the flag and waits until      *)
(*    Core 1 has left its RAM-resident park.                               *)
(*                                                                         *)
(* Every read and every write of a flag is a step of its own.              *)
(***************************************************************************)
EXTENDS Naturals

VARIABLES
  soft_reset_requested,     \* written by Core 0
  core1_parked_for_reset,   \* written by Core 1
  flash_op_requested,       \* written by Core 0
  core1_parked_for_flash,   \* written by Core 1
  pc0,                      \* where Core 0 is
  pc1                       \* where Core 1 is

parkVars == <<soft_reset_requested, core1_parked_for_reset,
              flash_op_requested, core1_parked_for_flash, pc0, pc1>>

\* park_wait: section A, before the park is seen; wipe: section A after it;
\* serve: section B; flash_*: inside configStoreCommit.
Core0Pcs == {"park_wait", "wipe", "serve", "flash_wait", "flash", "flash_release"}

\* lot_in: about to show the park; lot: spinning; lot_out: the spin has ended
\* and the flag still shows; loop: top of the run loop; gate: before the
\* flash test; ram: RAM-resident spin; ram_out: past it; bus: processBus.
Core1Pcs == {"lot_in", "lot", "lot_out", "loop", "gate", "ram", "ram_out", "bus"}

ParkInit ==                  \* cold boot: soft_reset_requested starts true
  /\ soft_reset_requested = TRUE
  /\ core1_parked_for_reset = FALSE
  /\ flash_op_requested = FALSE
  /\ core1_parked_for_flash = FALSE
  /\ pc0 = "park_wait"
  /\ pc1 = "lot_in"

-----------------------------------------------------------------------------
(* Core 0 *)

\* `reset`, and a committed CFG_SET: processSerial stops taking bytes.
ResetRequest ==
  /\ pc0 = "serve" /\ ~soft_reset_requested
  /\ soft_reset_requested' = TRUE
  /\ UNCHANGED <<core1_parked_for_reset, flash_op_requested,
                 core1_parked_for_flash, pc0, pc1>>

\* The pass ends, loop() returns and is entered again.
LoopAgain ==
  /\ pc0 = "serve" /\ soft_reset_requested
  /\ pc0' = "park_wait"
  /\ UNCHANGED <<soft_reset_requested, core1_parked_for_reset,
                 flash_op_requested, core1_parked_for_flash, pc1>>

\* A slip: section A does not wait for the park.
ParkNotAwaited ==
  /\ pc0 = "park_wait"
  /\ pc0' = "wipe"
  /\ UNCHANGED <<soft_reset_requested, core1_parked_for_reset,
                 flash_op_requested, core1_parked_for_flash, pc1>>

ParkSeen ==
  /\ pc0 = "park_wait" /\ core1_parked_for_reset
  /\ pc0' = "wipe"
  /\ UNCHANGED <<soft_reset_requested, core1_parked_for_reset,
                 flash_op_requested, core1_parked_for_flash, pc1>>

\* The wipe, then the release.
Wipe ==
  /\ pc0 = "wipe"
  /\ soft_reset_requested' = FALSE
  /\ pc0' = "serve"
  /\ UNCHANGED <<core1_parked_for_reset, flash_op_requested,
                 core1_parked_for_flash, pc1>>

\* A slip: processSerial goes on taking bytes after a `reset`.
FlashQuiesceAfterReset ==
  /\ pc0 = "serve"
  /\ flash_op_requested' = TRUE
  /\ pc0' = "flash_wait"
  /\ UNCHANGED <<soft_reset_requested, core1_parked_for_reset,
                 core1_parked_for_flash, pc1>>

FlashQuiesce ==
  /\ pc0 = "serve" /\ ~soft_reset_requested
  /\ flash_op_requested' = TRUE
  /\ pc0' = "flash_wait"
  /\ UNCHANGED <<soft_reset_requested, core1_parked_for_reset,
                 core1_parked_for_flash, pc1>>

FlashParkSeen ==
  /\ pc0 = "flash_wait" /\ core1_parked_for_flash
  /\ pc0' = "flash"
  /\ UNCHANGED <<soft_reset_requested, core1_parked_for_reset,
                 flash_op_requested, core1_parked_for_flash, pc1>>

\* The write is done: core1FlashRelease lowers the flag ...
FlashRelease ==
  /\ pc0 = "flash"
  /\ flash_op_requested' = FALSE
  /\ pc0' = "flash_release"
  /\ UNCHANGED <<soft_reset_requested, core1_parked_for_reset,
                 core1_parked_for_flash, pc1>>

\* A slip for the model to catch: core1FlashRelease without its second spin.
FlashReleasedNoSpin ==
  /\ pc0 = "flash_release"
  /\ pc0' = "serve"
  /\ UNCHANGED <<soft_reset_requested, core1_parked_for_reset,
                 flash_op_requested, core1_parked_for_flash, pc1>>

\* ... and spins until Core 1 has lowered its own.
FlashReleased ==
  /\ pc0 = "flash_release" /\ ~core1_parked_for_flash
  /\ pc0' = "serve"
  /\ UNCHANGED <<soft_reset_requested, core1_parked_for_reset,
                 flash_op_requested, core1_parked_for_flash, pc1>>

-----------------------------------------------------------------------------
(* Core 1 *)

LotEnter ==
  /\ pc1 = "lot_in"
  /\ core1_parked_for_reset' = TRUE
  /\ pc1' = "lot"
  /\ UNCHANGED <<soft_reset_requested, flash_op_requested,
                 core1_parked_for_flash, pc0>>

LotSpinEnds ==
  /\ pc1 = "lot" /\ ~soft_reset_requested
  /\ pc1' = "lot_out"
  /\ UNCHANGED <<soft_reset_requested, core1_parked_for_reset,
                 flash_op_requested, core1_parked_for_flash, pc0>>

LotLeave ==
  /\ pc1 = "lot_out"
  /\ core1_parked_for_reset' = FALSE
  /\ pc1' = "loop"
  /\ UNCHANGED <<soft_reset_requested, flash_op_requested,
                 core1_parked_for_flash, pc0>>

\* while (!soft_reset_requested)
LoopTop ==
  /\ pc1 = "loop"
  /\ pc1' = IF soft_reset_requested THEN "lot_in" ELSE "gate"
  /\ UNCHANGED <<soft_reset_requested, core1_parked_for_reset,
                 flash_op_requested, core1_parked_for_flash, pc0>>

\* if (flash_op_requested) core1FlashPark();
FlashGate ==
  /\ pc1 = "gate"
  /\ core1_parked_for_flash' = flash_op_requested
  /\ pc1' = IF flash_op_requested THEN "ram" ELSE "bus"
  /\ UNCHANGED <<soft_reset_requested, core1_parked_for_reset,
                 flash_op_requested, pc0>>

RamSpinEnds ==
  /\ pc1 = "ram" /\ ~flash_op_requested
  /\ pc1' = "ram_out"
  /\ UNCHANGED <<soft_reset_requested, core1_parked_for_reset,
                 flash_op_requested, core1_parked_for_flash, pc0>>

RamLeave ==
  /\ pc1 = "ram_out"
  /\ core1_parked_for_flash' = FALSE
  /\ pc1' = "bus"
  /\ UNCHANGED <<soft_reset_requested, core1_parked_for_reset,
                 flash_op_requested, pc0>>

\* processBus returns; a planner run or a debug burst may take long but ends.
BusReturns ==
  /\ pc1 = "bus"
  /\ pc1' = "loop"
  /\ UNCHANGED <<soft_reset_requested, core1_parked_for_reset,
                 flash_op_requested, core1_parked_for_flash, pc0>>

-----------------------------------------------------------------------------
\* What Core 0 does by itself, apart from the two requests a host makes.
Core0Proceeds == \/ LoopAgain \/ ParkSeen \/ Wipe
                 \/ FlashParkSeen \/ FlashRelease \/ FlashReleased

Core0Park == ResetRequest \/ FlashQuiesce \/ Core0Proceeds

Core1Park == \/ LotEnter \/ LotSpinEnds \/ LotLeave \/ LoopTop
             \/ FlashGate \/ RamSpinEnds \/ RamLeave \/ BusReturns

ParkNext == Core0Park \/ Core1Park

\* Each core runs by itself; the requests come from a host and may never come.
ParkSpec == /\ ParkInit /\ [][ParkNext]_parkVars
            /\ WF_parkVars(Core0Proceeds) /\ WF_parkVars(Core1Park)

-----------------------------------------------------------------------------
ParkTypeOK ==
  /\ soft_reset_requested \in BOOLEAN
  /\ core1_parked_for_reset \in BOOLEAN
  /\ flash_op_requested \in BOOLEAN
  /\ core1_parked_for_flash \in BOOLEAN
  /\ pc0 \in Core0Pcs
  /\ pc1 \in Core1Pcs

\* The wipe of section A runs without locks: while Core 0 is in it, Core 1 is
\* outside processBus and cannot get into it (core0.cpp, "100% safe to wipe
\* cross-core variables without mutexes"), although the park flag it has seen
\* may be one that Core 1 is about to lower.
WipeExcludesCore1 == pc0 = "wipe" => pc1 \in {"lot_in", "lot", "lot_out", "loop"}

\* A flash write stalls execution from flash: while Core 0 writes, Core 1 is in
\* its RAM-resident spin, never on its way out of it (core1FlashPark).
FlashExcludesCore1 == pc0 = "flash" => pc1 = "ram"

\* Each flag says where its writer is, and Core 0 never writes flash on a
\* park flag left over from the write before: the inductive form of the two
\* exclusions above.
ParkInv ==
  /\ ParkTypeOK
  /\ core1_parked_for_reset <=> pc1 \in {"lot", "lot_out"}
  /\ core1_parked_for_flash <=> pc1 \in {"ram", "ram_out"}
  /\ flash_op_requested <=> pc0 \in {"flash_wait", "flash"}
  /\ pc0 \in {"park_wait", "wipe"} => soft_reset_requested
  /\ pc0 \in {"flash_wait", "flash", "flash_release"} => ~soft_reset_requested
  /\ pc0 \in {"serve", "park_wait", "wipe"} => ~core1_parked_for_flash
  /\ pc0 = "flash_wait" => pc1 # "ram_out"
  /\ WipeExcludesCore1
  /\ FlashExcludesCore1

\* A handshake once begun ends: Core 0 gets back to serving the host, from a
\* reset and from a config write, whatever Core 1 was doing.
HandshakesEnd == (pc0 # "serve") ~> (pc0 = "serve" /\ ~soft_reset_requested)

=============================================================================
