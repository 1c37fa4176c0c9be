---- MODULE FlashProtect ----
(***************************************************************************)
(* One call of protect.rs `apply`, transfer by transfer, against the flash *)
(* chip's status registers.  Every transfer runs in a critical section and *)
(* the loader has one executor, so between two transfers only the power    *)
(* can fail or the CPU can restart; between two calls, other code uses the *)
(* chip and leaves it with status bits set.                                *)
(*                                                                         *)
(* `fault` is the one way this unit's chip, bus or CPU misbehaves:         *)
(*   "none"      every write lands, every stable read is the truth         *)
(*   "deaf"      a write may be accepted and change nothing                *)
(*   "timeout"   a write may report a failed transfer, landed or not       *)
(*   "stuck"     two reads in a row may both return 00 or both FF          *)
(*   "swapped"   a combined write's two bytes arrive in the other order    *)
(*   "restart"   the CPU may restart while the chip stays powered          *)
(* On top of it any pair of reads may disagree and any RDID may differ.    *)
(***************************************************************************)
EXTENDS StatusRegs

CONSTANTS
  Faults,       (* the faults a unit may have                              *)
  InitSR1,      (* what a unit's SR1 may hold when it is first powered     *)
  InitSR2       (* ... and its SR2                                         *)

AllFaults == {"none", "deaf", "timeout", "stuck", "swapped", "restart"}

ASSUME FaultsAssumption == Faults \subseteq AllFaults
ASSUME InitAssumption ==
  /\ InitSR1 \subseteq SUBSET (SR1_REGION_MASK \cup {SR1_SRP0})
  /\ InitSR2 \subseteq SUBSET ({SR2_QE, SR2_CMP} \cup SR2_LB)

VARIABLES
  part,         (* the part fitted                                         *)
  fault,        (* its fault                                               *)
  shipped,      (* the registers it was first powered with                 *)
  chip,         (* active copies sr1, sr2 and non-volatile nv1, nv2        *)
  faulted,      (* protect.rs FAULTED                                      *)
  op,           (* the call of apply in progress                           *)
  last,         (* the goal and result of the last call that returned      *)
  failed        (* history: a call of this boot sent a write it could not  *)
                (* verify                                                  *)

unit == <<part, fault, shipped>>
vars == <<part, fault, shipped, chip, faulted, op, last, failed>>

-----------------------------------------------------------------------------
(* The chip.                                                               *)

Active(c) == [sr1 |-> c.sr1, sr2 |-> c.sr2]
NonVolatile(c) == [sr1 |-> c.nv1, sr2 |-> c.nv2]

Received(w) ==
  IF fault = "swapped" /\ recipe(part).method = "Combined"
    THEN [sr1 |-> w.sr2, sr2 |-> w.sr1]
    ELSE w

(* A write the lock-down makes the chip ignore leaves WEL set.             *)
Ignored(c) == [c EXCEPT !.sr1 = @ \cup {SR1_WEL}]

NvSr1(c, b) ==
  [c EXCEPT !.nv1 = b \ {SR1_BUSY, SR1_WEL},
            !.sr1 = (@ \cap {SR1_BUSY, SR1_WEL}) \cup (b \ {SR1_BUSY, SR1_WEL})]

(* LB bits only ever go from 0 to 1.                                       *)
NvSr2(c, b) ==
  LET new == (b \ {SR2_SUS}) \cup (c.nv2 \cap SR2_LB)
  IN  [c EXCEPT !.nv2 = new, !.sr2 = (@ \cap {SR2_SUS}) \cup new]

(* What a non-volatile write of the registers `ks` leaves.                 *)
NvWrite(c, ks, w) ==
  LET one == IF 1 \in ks THEN NvSr1(c, w.sr1) ELSE c
  IN  IF SR2_LOCK \in c.sr2 THEN Ignored(c)
      ELSE IF 2 \in ks THEN NvSr2(one, w.sr2) ELSE one

(* A volatile write reaches neither the lock nor the LB bits.              *)
NoVolatileCopy == {SR2_SUS, SR2_LOCK} \cup SR2_LB
VolatileWrite(c, w) ==
  IF SR2_LOCK \in c.sr2 THEN Ignored(c)
  ELSE [c EXCEPT
          !.sr1 = (@ \cap {SR1_BUSY, SR1_WEL}) \cup (w.sr1 \ {SR1_BUSY, SR1_WEL}),
          !.sr2 = (@ \cap NoVolatileCopy) \cup (w.sr2 \ NoVolatileCopy)]

(* A software reset reloads the non-volatile bits; on the S25FL132K it     *)
(* clears the lock-down as a power cycle does.                             *)
KeptByReset(c) == IF part = "S25FL132K" THEN c.nv2 \ {SR2_LOCK} ELSE c.nv2
SoftwareReset(c) ==
  [c EXCEPT !.nv2 = KeptByReset(c),
            !.sr1 = (@ \cap {SR1_BUSY, SR1_WEL}) \cup c.nv1,
            !.sr2 = (@ \cap {SR2_SUS}) \cup KeptByReset(c)]

(* Power-up clears the lock-down and loads the non-volatile bits.          *)
PowerUp(c) ==
  [sr1 |-> c.nv1, sr2 |-> c.nv2 \ {SR2_LOCK},
   nv1 |-> c.nv1, nv2 |-> c.nv2 \ {SR2_LOCK}]

-----------------------------------------------------------------------------
(* The bus, as `apply` sees it.                                            *)

Stuck == {[sr1 |-> {}, sr2 |-> {}], [sr1 |-> Bits, sr2 |-> Bits]}

(* read_stable: two reads that agree, or not.                              *)
StableReads ==
  {[ok |-> TRUE, r |-> x] :
      x \in {Active(chip)} \cup (IF fault = "stuck" THEN Stuck ELSE {})}
    \cup {[ok |-> FALSE, r |-> Active(chip)]}

(* What becomes of a write: did it land, and did the transfer report ok.   *)
Sent(landed, ok) == [landed |-> landed, ok |-> ok]
Writes ==
  {Sent(TRUE, TRUE)}
    \cup (IF fault = "deaf" THEN {Sent(FALSE, TRUE)} ELSE {})
    \cup (IF fault = "timeout" THEN {Sent(TRUE, FALSE), Sent(FALSE, FALSE)} ELSE {})

-----------------------------------------------------------------------------
(* apply.                                                                  *)

NoRegs == [sr1 |-> {}, sr2 |-> {}]
Idle == [pc |-> "idle", goal |-> unprotect, before |-> NoRegs,
         rehearsed |-> [ok |-> TRUE, r |-> NoRegs], sent |-> TRUE]

want == target(op.goal, op.before.sr2)
regs == ToWrite(part, op.goal, op.before)

Return(goal, result) ==
  /\ op' = Idle
  /\ last' = [goal |-> goal, result |-> result]

Goto(pc) == op' = [op EXCEPT !.pc = pc] /\ UNCHANGED last

Begin(goal) ==
  /\ op.pc = "idle"
  /\ \/ faulted /\ Return(goal, "Faulted")
     \/ ~faulted /\ part \notin KnownParts /\ Return(goal, "UnknownPart")
     \/ ~faulted /\ part \in KnownParts /\ Return(goal, "PartChanged")
     \/ /\ ~faulted /\ part \in KnownParts
        /\ op' = [Idle EXCEPT !.pc = "plan", !.goal = goal]
        /\ UNCHANGED last
  /\ UNCHANGED <<part, fault, shipped, chip, faulted>>

(* An erase or program started before a restart may still be running.      *)
PlanWrite ==
  /\ op.pc = "plan"
  /\ \E rd \in StableReads, busy \in {{}, {SR1_BUSY}} :
       LET r == [rd.r EXCEPT !.sr1 = @ \cup busy]
           decision == plan(part, op.goal, r)
           ks == ToWrite(part, op.goal, r)
       IN  \/ ~rd.ok /\ Return(op.goal, "UnstableRead")
           \/ rd.ok /\ decision # "Write" /\ Return(op.goal, decision)
           \/ /\ rd.ok /\ decision = "Write"
              /\ op' = [op EXCEPT
                   !.before = r,
                   !.pc = IF recipe(part).method = "Combined" THEN "rehearse"
                          ELSE IF 1 \in ks THEN "write1" ELSE "write2"]
              /\ UNCHANGED last
  /\ UNCHANGED <<part, fault, shipped, chip, faulted>>

(* preflight: the combined write on the volatile copy ...                  *)
Rehearse ==
  /\ op.pc = "rehearse"
  /\ \E s \in Writes :
       /\ chip' = IF s.landed THEN VolatileWrite(chip, Received(want)) ELSE chip
       /\ op' = [op EXCEPT !.pc = "readback", !.sent = s.ok]
  /\ UNCHANGED <<part, fault, shipped, faulted, last>>

ReadRehearsal ==
  /\ op.pc = "readback"
  /\ \E rd \in StableReads :
       op' = [op EXCEPT !.pc = "reset", !.rehearsed = rd]
  /\ UNCHANGED <<part, fault, shipped, chip, faulted, last>>

(* Seeded bug: the rehearsal is left in force.                             *)
NoReset ==
  /\ op.pc = "reset"
  /\ Goto("restored")
  /\ UNCHANGED <<part, fault, shipped, chip, faulted>>

ResetChip ==
  /\ op.pc = "reset"
  /\ chip' = SoftwareReset(chip)
  /\ Goto("restored")
  /\ UNCHANGED <<part, fault, shipped, faulted>>

(* Seeded bug: an early return that leaves the latch alone.                *)
FailUnlatched(result) == UNCHANGED faulted /\ Return(op.goal, result)

Fail(result) == faulted' = TRUE /\ Return(op.goal, result)

(* ... read back, undone by a software reset, and checked.                 *)
Checked == {SR2_QE, SR2_CMP}
(* Seeded bug: a rehearsal that was sent counts as one that took.          *)
RehearsalSent == op.sent

RehearsedAsPlanned ==
  /\ op.sent
  /\ protection_bits(op.rehearsed.r).sr1 = want.sr1
  /\ op.rehearsed.r.sr2 \cap Checked = want.sr2 \cap Checked

CheckRestored ==
  /\ op.pc = "restored"
  /\ \E rd \in StableReads :
       LET restored == protection_bits(rd.r) = protection_bits(op.before)
       IN  \/ ~rd.ok /\ Fail("UnstableRead")
           \/ rd.ok /\ ~restored /\ Fail("VerifyFailed")
           \/ rd.ok /\ restored /\ ~op.rehearsed.ok /\ Fail("UnstableRead")
           \/ /\ rd.ok /\ restored /\ op.rehearsed.ok /\ ~RehearsedAsPlanned
              /\ Fail("PreflightFailed")
           \/ /\ rd.ok /\ restored /\ op.rehearsed.ok /\ RehearsedAsPlanned
              /\ Goto("write12") /\ UNCHANGED faulted
  /\ UNCHANGED <<part, fault, shipped, chip>>

(* Seeded bug: SR2 follows whatever became of SR1.                         *)
WriteOn(ks, pc, next) ==
  /\ op.pc = pc
  /\ \E s \in Writes :
       /\ chip' = IF s.landed THEN NvWrite(chip, ks, Received(want)) ELSE chip
       /\ op' = [op EXCEPT !.sent = s.ok, !.pc = next]
  /\ UNCHANGED <<part, fault, shipped, faulted, last>>

(* The non-volatile write: both registers at once, or SR1 and then SR2.    *)
WriteRegs(ks, pc, next) ==
  /\ op.pc = pc
  /\ \E s \in Writes :
       /\ chip' = IF s.landed THEN NvWrite(chip, ks, Received(want)) ELSE chip
       /\ op' = [op EXCEPT !.sent = s.ok, !.pc = IF s.ok THEN next ELSE "verify"]
  /\ UNCHANGED <<part, fault, shipped, faulted, last>>

WriteBoth == WriteRegs({1, 2}, "write12", "verify")
(* Seeded bug: SR1 goes out with the volatile write enable.                *)
WriteSr1Volatile ==
  /\ op.pc = "write1"
  /\ chip' = VolatileWrite(chip, [want EXCEPT !.sr2 = chip.sr2])
  /\ Goto(IF 2 \in regs THEN "write2" ELSE "verify")
  /\ UNCHANGED <<part, fault, shipped, faulted>>

WriteSr1 == WriteRegs({1}, "write1", IF 2 \in regs THEN "write2" ELSE "verify")
WriteSr2 == WriteRegs({2}, "write2", "verify")

Verify ==
  /\ op.pc = "verify"
  /\ \E rd \in StableReads :
       LET verified == op.sent /\ protection_bits(rd.r) = want
       IN  \/ ~rd.ok /\ Fail("UnstableRead")
           \/ rd.ok /\ ~verified /\ Fail("VerifyFailed")
           \/ rd.ok /\ verified /\ Return(op.goal, "Written") /\ UNCHANGED faulted
  /\ UNCHANGED <<part, fault, shipped, chip>>

(* A new boot forgets FAULTED and whatever call was in progress.           *)
Reboot ==
  /\ faulted' = FALSE
  /\ op' = Idle
  /\ last' = [goal |-> unprotect, result |-> "none"]
  /\ UNCHANGED unit

PowerCycle == chip' = PowerUp(chip) /\ Reboot
CpuReset == fault = "restart" /\ UNCHANGED chip /\ Reboot

(* Between two calls other code leaves WEL set (an erase the protection    *)
(* refused, a write the lock-down ignored) or an erase suspended.          *)
LeaveStatus ==
  /\ op.pc = "idle"
  /\ \/ chip' = [chip EXCEPT !.sr1 = @ \cup {SR1_WEL}]
     \/ chip' = [chip EXCEPT !.sr2 = @ \cup {SR2_SUS}]
  /\ UNCHANGED <<part, fault, shipped, faulted, op, last>>

-----------------------------------------------------------------------------
Init ==
  /\ part \in Parts
  /\ fault \in Faults
  /\ \E r1 \in InitSR1, r2 \in InitSR2 :
       LET r2f == r2 \cup recipe(part).factory_sr2
       IN  /\ shipped = [sr1 |-> r1, sr2 |-> r2f]
           /\ chip = [sr1 |-> r1, sr2 |-> r2f, nv1 |-> r1, nv2 |-> r2f]
  /\ faulted = FALSE
  /\ op = Idle
  /\ last = [goal |-> unprotect, result |-> "none"]
  /\ failed = FALSE

Step == \/ PlanWrite
        \/ Rehearse \/ ReadRehearsal \/ ResetChip \/ CheckRestored
        \/ WriteBoth \/ WriteSr1 \/ WriteSr2 \/ Verify

(* A call returns after it sent something, without a verified write.       *)
Unverified ==
  op.pc \in {"restored", "verify"} /\ op'.pc = "idle" /\ last'.result # "Written"

Next ==
  \/ /\ (\E goal \in Goals : Begin(goal)) \/ Step \/ LeaveStatus
     /\ failed' = (failed \/ Unverified)
  \/ /\ PowerCycle \/ CpuReset
     /\ failed' = FALSE

Spec == Init /\ [][Next]_vars

-----------------------------------------------------------------------------
Results == {"none", "Faulted", "UnknownPart", "PartChanged", "UnstableRead",
            "Busy", "UnexpectedBits", "AlreadySet", "Locked", "VerifyFailed",
            "PreflightFailed", "Written"}
Pcs == {"idle", "plan", "rehearse", "readback", "reset", "restored",
        "write12", "write1", "write2", "verify"}

(* Every variable holds a value of its kind.                               *)
TypeOK ==
  /\ part \in Parts
  /\ fault \in AllFaults
  /\ shipped \in Regs
  /\ chip \in [sr1 : Reg, sr2 : Reg, nv1 : Reg, nv2 : Reg]
  /\ faulted \in BOOLEAN
  /\ op \in [pc : Pcs, goal : Goals, before : Regs,
             rehearsed : [ok : BOOLEAN, r : Regs], sent : BOOLEAN]
  /\ last \in [goal : Goals, result : Results]
  /\ failed \in BOOLEAN

(* "Nothing permanent": whatever single fault the unit has and wherever    *)
(* the power fails, no one-time LB lock is ever set beyond those it was    *)
(* shipped with, SRP0 is never set, and the permanent state SRP1:SRP0 =    *)
(* (1,1) is never entered.                                                 *)
NothingPermanent ==
  /\ chip.nv2 \cap SR2_LB = shipped.sr2 \cap SR2_LB
  /\ SR1_SRP0 \in chip.nv1 => SR1_SRP0 \in shipped.sr1
  /\ ~(SR1_SRP0 \in chip.nv1 /\ SR2_LOCK \in chip.nv2)

(* The lock-down is never armed over an unprotected flash: SR1 is written  *)
(* before SR2, and SR2 not at all when the first transfer failed.  (A deaf *)
(* chip can lose the first write silently; the verify then reports it.)    *)
LockedOverARegion ==
  SR2_LOCK \in chip.nv2 /\ fault # "deaf" =>
    /\ chip.nv1 \cap SR1_REGION_MASK \in {BOTTOM_1MB, TOP_64K}
    /\ SR2_CMP \notin chip.nv2

(* While no call is in progress the registers the chip obeys are the ones  *)
(* it would come up with: a rehearsal outlives its call only where the CPU *)
(* restarts in the middle of one.                                          *)
RehearsalIsUndone ==
  op.pc \notin {"readback", "reset"} /\ fault # "restart" =>
    /\ chip.sr1 \ {SR1_BUSY, SR1_WEL} = chip.nv1
    /\ chip.sr2 \ {SR2_SUS} = chip.nv2

(* A call that sent a write or a rehearsal and returned anything but       *)
(* "Written" is the last that sends one: until the next boot no register   *)
(* changes but for the status bits, whoever calls.                         *)
Sending == {"rehearse", "write12", "write1", "write2"}
Bare(c) == [c EXCEPT !.sr1 = @ \ {SR1_BUSY, SR1_WEL}, !.sr2 = @ \ {SR2_SUS}]
FaultStopsWrites ==
  [][failed /\ failed' => op.pc \notin Sending /\ Bare(chip') = Bare(chip)]_vars

Returns == op.pc # "idle" /\ op'.pc = "idle" /\ last'.result # "none"
ReportsOk == Returns /\ last'.result \in {"Written", "AlreadySet"}

Holds(goal, r) ==
  /\ r.sr1 \cap (SR1_REGION_MASK \cup {SR1_SRP0}) = goal.region
  /\ SR2_LOCK \in r.sr2 <=> goal.lock
  /\ SR2_CMP \notin r.sr2

(* A call that reports success left the chip as asked, also when the bus   *)
(* may read stuck (unless what was asked for is all zeros, which a bus     *)
(* stuck low imitates).                                                    *)
OkIsTruthful ==
  [][ReportsOk /\ (fault = "stuck" => last'.goal.region # {})
       => Holds(last'.goal, Active(chip'))]_vars

(* ... and it is in the non-volatile registers, so that a power cycle      *)
(* loses nothing of it but the lock: always when it was written or has a   *)
(* lock, and on units whose CPU does not restart also when it was found.   *)
(* (After such a restart an unlocked goal may be found in a rehearsal that *)
(* is still in force: see ProvisionPersists.)                              *)
SuccessPersists ==
  [][(/\ ReportsOk
      /\ last'.result = "Written" \/ last'.goal.lock \/ fault # "restart"
      /\ fault = "stuck" => last'.goal.region # {})
       => Holds(last'.goal, NonVolatile(chip'))]_vars

(* Success is reported only of what the chip obeys now and, but for that   *)
(* one case, of what it comes up with after the next power cycle.          *)
ReportsAreTrue == OkIsTruthful /\ SuccessPersists

(* A sound unit is never condemned: without a fault, only reads that       *)
(* disagree can stop the writes of this boot, whatever WEL, suspend, busy  *)
(* and factory lock bits the reads show.                                   *)
NoFalseAlarm ==
  [][fault = "none" /\ ~faulted /\ faulted' => last'.result = "UnstableRead"]_vars

(* A write that was not verified stops the writes of this boot, and        *)
(* nothing else does.                                                      *)
OnlyFaultsStopWrites == FaultStopsWrites /\ NoFalseAlarm

(* protect.rs: "The region bits persist across power cycles; only          *)
(* `lockdown` needs re-arming each boot."                                  *)
ProvisionPersists ==
  [][ReportsOk /\ last'.goal = provision /\ fault \in {"none", "restart"}
       => chip'.nv1 \cap SR1_REGION_MASK = BOTTOM_1MB]_vars
====
