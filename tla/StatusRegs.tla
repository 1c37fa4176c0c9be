---- MODULE StatusRegs ----
(***************************************************************************)
(* The two protection status registers of the Deluge's SPI-NOR flash, the  *)
(* per-part recipe and the pure decision `plan` that composes a write      *)
(* (crates/deluge-bsp/src/flash/protect.rs).                               *)
(*                                                                         *)
(* A register is the set of the numbers of its bits that are 1, so the     *)
(* source's `a & b`, `a | b` and `a & !b` are intersection, union and      *)
(* difference of sets.                                                     *)
(***************************************************************************)
EXTENDS Integers

Bits == 0 .. 7
Reg == SUBSET Bits

(* SR1: bit 0 BUSY, bit 1 WEL, bits 6:2 the block-protect field, bit 7 SRP0. *)
SR1_BUSY == 0
SR1_WEL == 1
SR1_REGION_MASK == 2 .. 6
SR1_BP0 == 2
SR1_BP2 == 4
SR1_TB == 5
SR1_SEC == 6
SR1_SRP0 == 7

(* SR2: bit 0 the lock-down, bit 1 QE, bits 5:2 the one-time LB locks,     *)
(* bit 6 CMP, bit 7 suspend.                                               *)
SR2_LOCK == 0
SR2_QE == 1
SR2_LB == 2 .. 5
SR2_CMP == 6
SR2_SUS == 7
SR2_OWNED == {SR2_QE, SR2_CMP, SR2_LOCK}

BOTTOM_1MB == {SR1_TB, SR1_BP2, SR1_BP0}
TOP_64K == {SR1_BP0}

(* The flash in 64 KB erase blocks, and the blocks of the two bootloaders. *)
FLASH_BLOCKS == 64
Blocks == 0 .. FLASH_BLOCKS - 1
PROTECTED_BLOCKS == 16
BootBlocks == 0 .. PROTECTED_BLOCKS - 1

BP(sr1) == (IF 2 \in sr1 THEN 1 ELSE 0) + (IF 3 \in sr1 THEN 2 ELSE 0)
             + (IF 4 \in sr1 THEN 4 ELSE 0)

(* The blocks an SR1 value protects while CMP = 0; bit 6 is not decoded.   *)
protected_range(sr1) ==
  LET len == 2 ^ (BP(sr1) - 1)
  IN  IF SR1_SEC \in sr1 \/ BP(sr1) = 0 THEN {}
      ELSE IF BP(sr1) = 7 THEN Blocks
      ELSE IF SR1_TB \in sr1 THEN 0 .. len - 1
      ELSE FLASH_BLOCKS - len .. FLASH_BLOCKS - 1

-----------------------------------------------------------------------------
(* The parts, and the recipe of those that have one.                       *)

KnownParts == {"AT25SF321B", "W25Q32JV", "S25FL132K"}
Parts == KnownParts \cup {"unknown"}

recipe(part) ==
  [sr1_region |-> BOTTOM_1MB,
   method |-> IF part = "S25FL132K" THEN "Combined" ELSE "Separate",
   factory_sr2 |-> IF part = "S25FL132K" THEN {2} ELSE {}]

-----------------------------------------------------------------------------
(* What a write aims for.                                                  *)

Goal == [region : SUBSET SR1_REGION_MASK, lock : BOOLEAN, strict : BOOLEAN]

provision == [region |-> BOTTOM_1MB, lock |-> FALSE, strict |-> TRUE]
lockdown == [region |-> BOTTOM_1MB, lock |-> TRUE, strict |-> TRUE]
unprotect == [region |-> {}, lock |-> FALSE, strict |-> FALSE]
top_test(lock) == [region |-> TOP_64K, lock |-> lock, strict |-> TRUE]

Goals == {provision, lockdown, unprotect, top_test(FALSE), top_test(TRUE)}

(* A read, or a write, of both registers.                                  *)
Regs == [sr1 : Reg, sr2 : Reg]

target(goal, sr2_read) ==
  [sr1 |-> goal.region \cap SR1_REGION_MASK,
   sr2 |-> (sr2_read \cap {SR2_QE}) \cup (IF goal.lock THEN {SR2_LOCK} ELSE {})]

(* Seeded bug: compares registers without masking the bits not owned.      *)
raw_bits(r) == r

protection_bits(r) ==
  [sr1 |-> r.sr1 \cap (SR1_REGION_MASK \cup {SR1_SRP0}),
   sr2 |-> r.sr2 \cap SR2_OWNED]

(* The bits arming does not expect to find.                                *)
Unexpected(part, r) ==
  \/ SR1_SRP0 \in r.sr1
  \/ (r.sr2 \ SR2_OWNED) \ recipe(part).factory_sr2 # {}

(* The registers a write for `goal` sends: 1 for SR1, 2 for SR2.           *)
ToWrite(part, goal, r) ==
  IF recipe(part).method = "Combined"
    THEN {1, 2}
    ELSE {k \in {1, 2} : \/ k = 1 /\ protection_bits(r).sr1 # target(goal, r.sr2).sr1
                         \/ k = 2 /\ protection_bits(r).sr2 # target(goal, r.sr2).sr2}

(* "Write", "AlreadySet", or why nothing may be written.                   *)
plan(part, goal, r) ==
  IF SR1_BUSY \in r.sr1 THEN "Busy"
  ELSE IF goal.strict /\ Unexpected(part, r) THEN "UnexpectedBits"
  ELSE IF protection_bits(r) = target(goal, r.sr2) THEN "AlreadySet"
  ELSE IF SR2_LOCK \in r.sr2 THEN "Locked"
  ELSE "Write"
====
