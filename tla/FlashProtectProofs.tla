---- MODULE FlashProtectProofs ----
(***************************************************************************)
(* What TLAPS proves of FlashProtect, for every set of faults and every    *)
(* set of registers a unit may arrive with.                                *)
(***************************************************************************)
EXTENDS FlashProtect, TLAPS

Chips == [sr1 : Reg, sr2 : Reg, nv1 : Reg, nv2 : Reg]
Ops == [pc : Pcs, goal : Goals, before : Regs,
        rehearsed : [ok : BOOLEAN, r : Regs], sent : BOOLEAN]

(* The types of everything but the history variable.                       *)
CodeTypes ==
  /\ part \in Parts
  /\ fault \in AllFaults
  /\ shipped \in Regs
  /\ chip \in Chips
  /\ faulted \in BOOLEAN
  /\ op \in Ops
  /\ last \in [goal : Goals, result : Results]

Rehearsing == {"rehearse", "readback", "reset", "restored", "write12"}

(* Only the S25FL132K rehearses, and only the others write one by one.     *)
ByMethod ==
  /\ op.pc \in Rehearsing => part = "S25FL132K"
  /\ op.pc \in {"write1", "write2"} => part # "S25FL132K"

(* A part that never rehearses obeys the registers it would come up with.  *)
InStep == part # "S25FL132K" => chip.sr1 \ {SR1_BUSY, SR1_WEL} = chip.nv1

(* What the rehearsal has established of a part whose bytes are swapped.   *)
SwapIsSeen ==
  fault = "swapped" =>
    /\ op.pc = "rehearse" => SR2_LOCK \notin chip.sr2
    /\ op.pc = "readback" => chip.sr1 \cap SR1_REGION_MASK = {}
    /\ op.pc \in {"reset", "restored"} /\ op.rehearsed.ok
         => op.rehearsed.r.sr1 \cap SR1_REGION_MASK = {}
    /\ op.pc = "write12" => op.goal.region = {}

(* The lock bit is not sent while SRP0 is set, unless the chip is locked   *)
(* already and ignores it.                                                 *)
LockWithoutSRP0 ==
  SR1_SRP0 \in chip.nv1 /\ op.goal.lock =>
    /\ op.pc = "write1" => fault = "stuck"
    /\ op.pc = "write2" => SR2_LOCK \in chip.sr2

FaultedIsIdle == faulted => op.pc = "idle"

IInv ==
  /\ TypeOK
  /\ NothingPermanent
  /\ ByMethod
  /\ InStep
  /\ SwapIsSeen
  /\ LockWithoutSRP0
  /\ FaultedIsIdle

-----------------------------------------------------------------------------
(* Facts about the decision.                                               *)

(* A write for a goal carries region bits, QE and the lock, nothing else:  *)
(* what `target` promises of the bytes `plan` composes.                    *)
LEMMA TargetBits ==
  ASSUME NEW goal \in Goals, NEW r \in Reg
  PROVE  /\ goal \in Goal
         /\ target(goal, r).sr1 = goal.region
         /\ goal.region \subseteq {SR1_TB, SR1_BP2, SR1_BP0}
         /\ goal.region = {} => ~goal.lock
         /\ goal.lock => goal.strict
         /\ target(goal, r) \in Regs
         /\ target(goal, r).sr2 \subseteq {SR2_QE, SR2_LOCK}
         /\ SR2_LOCK \in target(goal, r).sr2 => goal.lock
<1>1. /\ goal \in Goal
      /\ goal.region \in {{}, BOTTOM_1MB, TOP_64K}
      /\ goal.region = {} => ~goal.lock
      /\ goal.lock => goal.strict
  <2>1. SR1_REGION_MASK = {2, 3, 4, 5, 6}
    BY DEF SR1_REGION_MASK
  <2>2. BOTTOM_1MB \in SUBSET SR1_REGION_MASK /\ TOP_64K \in SUBSET SR1_REGION_MASK
    BY <2>1 DEF BOTTOM_1MB, TOP_64K, SR1_TB, SR1_BP2, SR1_BP0
  <2>3. BOTTOM_1MB # {} /\ TOP_64K # {}
    BY DEF BOTTOM_1MB, TOP_64K
  <2>4. goal = [region |-> goal.region, lock |-> goal.lock, strict |-> goal.strict]
    BY DEF Goals, provision, lockdown, unprotect, top_test
  <2>5. /\ goal.region \in {{}, BOTTOM_1MB, TOP_64K}
        /\ goal.lock \in BOOLEAN /\ goal.strict \in BOOLEAN
        /\ goal.lock => goal.strict
    <3> DEFINE P(g) == /\ g.region \in {{}, BOTTOM_1MB, TOP_64K}
                       /\ g.lock \in BOOLEAN /\ g.strict \in BOOLEAN
                       /\ g.lock => g.strict
    <3>1. P(provision) /\ P(lockdown) /\ P(unprotect)
      BY DEF provision, lockdown, unprotect
    <3>2. P(top_test(FALSE)) /\ P(top_test(TRUE))
      BY DEF top_test
    <3> HIDE DEF P
    <3>3. P(goal)
      BY <3>1, <3>2 DEF Goals
    <3> QED
      BY <3>3 DEF P
  <2>6. goal.region = {} => ~goal.lock
    BY <2>3 DEF Goals, provision, lockdown, unprotect, top_test
  <2>7. goal.region \in SUBSET SR1_REGION_MASK
    BY <2>2, <2>5
  <2>8. goal \in Goal
    BY <2>4, <2>5, <2>7 DEF Goal
  <2> QED
    BY <2>5, <2>6, <2>8
<1>2. goal.region \subseteq {SR1_TB, SR1_BP2, SR1_BP0}
  BY <1>1 DEF BOTTOM_1MB, TOP_64K
<1>3. target(goal, r).sr1 = goal.region
  BY <1>1 DEF target, Goal
<1>4. /\ target(goal, r).sr2 \subseteq {SR2_QE, SR2_LOCK}
      /\ SR2_LOCK \in target(goal, r).sr2 => goal.lock
  BY DEF target, SR2_QE, SR2_LOCK
<1>5. target(goal, r) \in Regs
  <2>1. goal.region \in Reg
    BY <1>2 DEF Reg, Bits, SR1_TB, SR1_BP2, SR1_BP0
  <2>2. target(goal, r).sr2 \in Reg
    BY <1>4 DEF Reg, Bits, SR2_QE, SR2_LOCK
  <2> QED
    BY <2>1, <2>2, <1>3 DEF target, Regs
<1> QED
  BY <1>1, <1>2, <1>3, <1>4, <1>5

(* `plan` writes nothing while the lock is read in force, and for a strict *)
(* goal nothing while SRP0 is read.                                        *)
LEMMA PlannedWrite ==
  ASSUME NEW goal, NEW r, plan(part, goal, r) = "Write"
  PROVE  /\ SR1_BUSY \notin r.sr1
         /\ SR2_LOCK \notin r.sr2
         /\ goal.strict => SR1_SRP0 \notin r.sr1
BY DEF plan, Unexpected

-----------------------------------------------------------------------------
LEMMA InitIInv == Init => IInv
<1> SUFFICES ASSUME Init PROVE IInv
  OBVIOUS
<1> USE InitAssumption, FaultsAssumption
<1>1. TypeOK
  <2>1. PICK r1 \in InitSR1, r2 \in InitSR2 :
          LET r2f == r2 \cup recipe(part).factory_sr2
          IN  /\ shipped = [sr1 |-> r1, sr2 |-> r2f]
              /\ chip = [sr1 |-> r1, sr2 |-> r2f, nv1 |-> r1, nv2 |-> r2f]
    BY DEF Init
  <2>2. r1 \in Reg
    BY DEF Reg, Bits, SR1_REGION_MASK, SR1_SRP0
  <2>3. (r2 \cup recipe(part).factory_sr2) \in Reg
    BY DEF Reg, Bits, recipe, SR2_QE, SR2_CMP, SR2_LB
  <2>4. shipped \in Regs /\ chip \in [sr1 : Reg, sr2 : Reg, nv1 : Reg, nv2 : Reg]
    BY <2>1, <2>2, <2>3 DEF Regs
  <2>5. Idle \in [pc : Pcs, goal : Goals, before : Regs,
                 rehearsed : [ok : BOOLEAN, r : Regs], sent : BOOLEAN]
    BY DEF Idle, NoRegs, Regs, Reg, Goals, Pcs
  <2>6. last \in [goal : Goals, result : Results]
    BY DEF Init, Goals, Results
  <2> QED
    BY <2>4, <2>5, <2>6 DEF Init, TypeOK
<1>2. NothingPermanent
  BY DEF Init, NothingPermanent, recipe, SR2_LB, SR2_LOCK, SR2_QE, SR2_CMP, SR1_SRP0
<1>3. ByMethod /\ SwapIsSeen /\ LockWithoutSRP0 /\ FaultedIsIdle
  BY DEF Init, ByMethod, SwapIsSeen, LockWithoutSRP0, FaultedIsIdle, Rehearsing, Idle
<1>4. InStep
  BY DEF Init, InStep, SR1_REGION_MASK, SR1_SRP0, SR1_BUSY, SR1_WEL
<1> QED
  BY <1>1, <1>2, <1>3, <1>4 DEF IInv

-----------------------------------------------------------------------------
(* The chip's operations and the bus keep to their types.                  *)

LEMMA ChipTypes ==
  ASSUME NEW c \in Chips, NEW w \in Regs, NEW ks
  PROVE  /\ NvWrite(c, ks, w) \in Chips
         /\ VolatileWrite(c, w) \in Chips
         /\ SoftwareReset(c) \in Chips
         /\ PowerUp(c) \in Chips
         /\ Received(w) \in Regs
         /\ Active(c) \in Regs
<1> USE DEF Chips, Regs, Reg
<1> SR1_WEL \in Bits /\ SR1_BUSY \in Bits
  BY DEF SR1_WEL, SR1_BUSY, Bits
<1>1. Ignored(c) \in Chips
  BY DEF Ignored
<1>2. NvSr1(c, w.sr1) \in Chips
  BY DEF NvSr1
<1>3. ASSUME NEW d \in Chips PROVE NvSr2(d, w.sr2) \in Chips
  BY DEF NvSr2
<1>4. NvWrite(c, ks, w) \in Chips
  <2> HIDE DEF Chips, Regs, Reg
  <2> QED
    BY <1>1, <1>2, <1>3 DEF NvWrite
<1>5. VolatileWrite(c, w) \in Chips
  BY <1>1 DEF VolatileWrite
<1>6. SoftwareReset(c) \in Chips
  BY DEF SoftwareReset, KeptByReset
<1>7. PowerUp(c) \in Chips
  BY DEF PowerUp
<1>8. Received(w) \in Regs
  BY DEF Received
<1> QED
  BY <1>4, <1>5, <1>6, <1>7, <1>8 DEF Active

LEMMA BusTypes ==
  ASSUME TypeOK
  PROVE  /\ StableReads \subseteq [ok : BOOLEAN, r : Regs]
         /\ Writes \subseteq [landed : BOOLEAN, ok : BOOLEAN]
<1>1. Active(chip) \in Regs
  BY DEF TypeOK, Active, Regs
<1>2. Stuck \subseteq Regs
  BY DEF Stuck, Regs, Reg
<1>3. ASSUME NEW rd \in StableReads PROVE rd \in [ok : BOOLEAN, r : Regs]
  <2>1. \/ \E x \in Regs : rd = [ok |-> TRUE, r |-> x]
        \/ rd = [ok |-> FALSE, r |-> Active(chip)]
    BY <1>1, <1>2 DEF StableReads
  <2>2. ASSUME NEW x \in Regs, NEW b \in BOOLEAN
        PROVE  [ok |-> b, r |-> x] \in [ok : BOOLEAN, r : Regs]
    OBVIOUS
  <2> QED
    BY <1>1, <2>1, <2>2
<1>4. ASSUME NEW s \in Writes PROVE s \in [landed : BOOLEAN, ok : BOOLEAN]
  <2>1. \/ s = Sent(TRUE, TRUE) \/ s = Sent(FALSE, TRUE)
        \/ s = Sent(TRUE, FALSE) \/ s = Sent(FALSE, FALSE)
    BY DEF Writes
  <2>2. ASSUME NEW a \in BOOLEAN, NEW b \in BOOLEAN
        PROVE  Sent(a, b) \in [landed : BOOLEAN, ok : BOOLEAN]
    BY DEF Sent
  <2> QED
    BY <2>1, <2>2
<1> QED
  BY <1>3, <1>4

LEMMA TypeStep == TypeOK /\ [Next]_vars => TypeOK'
<1> SUFFICES ASSUME TypeOK, [Next]_vars PROVE TypeOK'
  OBVIOUS
<1>c. CodeTypes /\ failed \in BOOLEAN
  BY DEF TypeOK, CodeTypes, Chips, Ops
<1> USE <1>c DEF CodeTypes
<1>u. Idle \in Ops
  BY DEF Ops, Idle, NoRegs, Regs, Reg, Goals, Pcs
<1>o. op \in Ops /\ chip \in Chips
  BY DEF Ops, Chips
<1>w. want \in Regs
  BY <1>o, TargetBits DEF want, Ops, Regs
<1>g. unprotect \in Goals
  BY DEF Goals
<1>1. ASSUME NEW goal \in Goals, Begin(goal) PROVE CodeTypes'
  <2>1. op' \in Ops
    BY <1>1, <1>u, ZenonT(60) DEF Begin, Return, Ops, Pcs
  <2>2. last' \in [goal : Goals, result : Results]
    BY <1>1 DEF Begin, Return, Results
  <2> QED
    BY <1>1, <2>1, <2>2 DEF Begin, Ops
<1>2. ASSUME PlanWrite PROVE CodeTypes'
  <2>1. PICK rd \in StableReads, busy \in {{}, {SR1_BUSY}} :
          LET r == [rd.r EXCEPT !.sr1 = @ \cup busy]
              ks == ToWrite(part, op.goal, r)
          IN  \/ Return(op.goal, "UnstableRead")
              \/ Return(op.goal, plan(part, op.goal, r))
              \/ /\ op' = [op EXCEPT
                      !.before = r,
                      !.pc = IF recipe(part).method = "Combined" THEN "rehearse"
                             ELSE IF 1 \in ks THEN "write1" ELSE "write2"]
                 /\ UNCHANGED last
    BY <1>2, ZenonT(60) DEF PlanWrite
  <2> DEFINE r == [rd.r EXCEPT !.sr1 = @ \cup busy]
  <2>2. r \in Regs
    BY BusTypes DEF Regs, Reg, Bits, SR1_BUSY
  <2>3. plan(part, op.goal, r) \in Results \cup {"Write"}
    BY DEF plan, Results
  <2>4. op' \in Ops
    BY <2>1, <2>2, <1>o, <1>u, ZenonT(60) DEF Return, Ops, Pcs
  <2>5. last' \in [goal : Goals, result : Results]
    BY <1>2, <2>3, <1>o DEF PlanWrite, Return, Results, Ops, plan
  <2> QED
    BY <1>2, <2>4, <2>5 DEF PlanWrite, Ops
<1>3. ASSUME Rehearse PROVE CodeTypes'
  <2>1. chip' \in Chips
    BY <1>3, <1>o, <1>w, ChipTypes DEF Rehearse
  <2>2. op' \in Ops
    BY <1>3, <1>o, BusTypes DEF Rehearse, Ops, Pcs
  <2> QED
    BY <1>3, <2>1, <2>2 DEF Rehearse, Ops, Chips
<1>4. ASSUME ReadRehearsal PROVE CodeTypes'
  <2>1. op' \in Ops
    BY <1>4, <1>o, BusTypes DEF ReadRehearsal, Ops, Pcs
  <2> QED
    BY <1>4, <2>1 DEF ReadRehearsal, Ops
<1>5. ASSUME ResetChip PROVE CodeTypes'
  <2>1. chip' \in Chips
    BY <1>5, <1>o, <1>w, ChipTypes DEF ResetChip
  <2>2. op' \in Ops
    BY <1>5, <1>o DEF ResetChip, Goto, Ops, Pcs
  <2> QED
    BY <1>5, <2>1, <2>2 DEF ResetChip, Goto, Ops, Chips
<1>6. ASSUME CheckRestored PROVE CodeTypes'
  <2>1. op' \in Ops
    BY <1>6, <1>o, <1>u DEF CheckRestored, Fail, Return, Goto, Ops, Pcs
  <2>2. last' \in [goal : Goals, result : Results]
    BY <1>6, <1>o DEF CheckRestored, Fail, Return, Goto, Ops, Results
  <2>3. faulted' \in BOOLEAN
    BY <1>6 DEF CheckRestored, Fail
  <2> QED
    BY <1>6, <2>1, <2>2, <2>3 DEF CheckRestored, Ops
<1>7. ASSUME NEW ks, NEW pc, NEW next \in Pcs, WriteRegs(ks, pc, next)
      PROVE  CodeTypes'
  <2>1. chip' \in Chips
    BY <1>7, <1>o, <1>w, ChipTypes, SMTT(60), ZenonT(60) DEF WriteRegs
  <2>2. op' \in Ops
    BY <1>7, <1>o, BusTypes, ZenonT(60) DEF WriteRegs, Ops, Pcs
  <2> QED
    BY <1>7, <2>1, <2>2 DEF WriteRegs, Ops, Chips
<1>8. ASSUME Verify PROVE CodeTypes'
  <2>1. op' \in Ops
    BY <1>8, <1>u DEF Verify, Fail, Return
  <2>2. last' \in [goal : Goals, result : Results]
    BY <1>8, <1>o DEF Verify, Fail, Return, Ops, Results
  <2>3. faulted' \in BOOLEAN
    BY <1>8 DEF Verify, Fail
  <2> QED
    BY <1>8, <2>1, <2>2, <2>3 DEF Verify, Ops
<1>9. ASSUME PowerCycle \/ CpuReset PROVE CodeTypes'
  <2>1. chip' \in Chips
    BY <1>9, <1>o, <1>w, ChipTypes DEF PowerCycle, CpuReset
  <2>2. op' \in Ops /\ faulted' \in BOOLEAN /\ UNCHANGED unit
    BY <1>9, <1>u DEF PowerCycle, CpuReset, Reboot
  <2>3. last' \in [goal : Goals, result : Results]
    BY <1>9, <1>g DEF PowerCycle, CpuReset, Reboot, Results
  <2> QED
    BY <2>1, <2>2, <2>3 DEF unit, Ops, Chips
<1>12. ASSUME LeaveStatus PROVE CodeTypes'
  <2>1. chip' \in Chips
    BY <1>12, <1>o DEF LeaveStatus, Chips, Reg, Bits, SR1_WEL, SR2_SUS
  <2> QED
    BY <1>12, <2>1 DEF LeaveStatus
<1>10. ASSUME UNCHANGED vars PROVE CodeTypes'
  BY <1>10 DEF vars
<1>11. ASSUME WriteBoth \/ WriteSr1 \/ WriteSr2 PROVE CodeTypes'
  BY <1>11, <1>7 DEF WriteBoth, WriteSr1, WriteSr2, Pcs
<1>13. CodeTypes'
  BY <1>1, <1>2, <1>3, <1>4, <1>5, <1>6, <1>8, <1>9, <1>10, <1>11, <1>12 DEF Next, Step
<1>14. failed' \in BOOLEAN
  BY Zenon DEF Next, vars
<1> QED
  BY <1>13, <1>14 DEF TypeOK, Chips, Ops

(* Every variable of FlashProtect keeps its type.                          *)
THEOREM TypeCorrect == Spec => []TypeOK
<1>1. Init => TypeOK
  BY InitIInv DEF IInv
<1> QED
  BY <1>1, TypeStep, PTL DEF Spec

-----------------------------------------------------------------------------
(* What reaches the chip.                                                  *)

(* No write that arrives sends an LB bit or SRP0, even when the chip sees  *)
(* its two bytes in the other order, and it sends the lock only when the   *)
(* goal asks for it.                                                       *)
LEMMA ArrivingBytes ==
  ASSUME IInv, op.pc \in {"write12", "write1", "write2"}
  PROVE  /\ Received(want) \in Regs
         /\ Received(want).sr2 \cap SR2_LB = {}
         /\ SR1_SRP0 \notin Received(want).sr1
         /\ SR2_LOCK \in Received(want).sr2 => op.goal.lock
<1> DEFINE b == Received(want)
<1>1. op.goal \in Goals /\ op.before.sr2 \in Reg
  BY DEF IInv, TypeOK, Regs
<1>2. /\ want \in Regs
      /\ want.sr1 = op.goal.region
      /\ want.sr1 \subseteq {SR1_TB, SR1_BP2, SR1_BP0}
      /\ want.sr2 \subseteq {SR2_QE, SR2_LOCK}
      /\ SR2_LOCK \in want.sr2 => op.goal.lock
  BY <1>1, TargetBits DEF want
<1>3. CASE b = want
  BY <1>2, <1>3 DEF SR2_LB, SR2_QE, SR2_LOCK, SR1_SRP0, SR1_TB, SR1_BP2, SR1_BP0
<1>4. CASE b # want
  <2>1. /\ fault = "swapped" /\ part = "S25FL132K"
        /\ b = [sr1 |-> want.sr2, sr2 |-> want.sr1]
    BY <1>4 DEF Received, recipe
  <2>2. op.goal.region = {}
    BY <2>1 DEF IInv, SwapIsSeen, ByMethod
  <2>3. b.sr1 = want.sr2 /\ b.sr2 = {}
    BY <1>2, <2>1, <2>2
  <2>4. b \in Regs
    BY <1>2, <2>1 DEF Regs
  <2> QED
    BY <1>2, <2>3, <2>4 DEF SR2_QE, SR2_LOCK, SR1_SRP0
<1> QED
  BY <1>3, <1>4

(* The non-volatile registers after a write that lands.                    *)
LEMMA LandedWrite ==
  ASSUME NEW c \in Chips, NEW w \in Regs, NEW ks,
         SR2_LOCK \notin c.sr2
  PROVE  LET d == NvWrite(c, ks, w)
         IN  /\ 1 \in ks => /\ d.nv1 = w.sr1 \ {SR1_BUSY, SR1_WEL}
                            /\ d.sr1 \ {SR1_BUSY, SR1_WEL} = d.nv1
             /\ 1 \notin ks => d.nv1 = c.nv1 /\ d.sr1 = c.sr1
             /\ 2 \in ks => /\ d.nv2 = (w.sr2 \ {SR2_SUS}) \cup (c.nv2 \cap SR2_LB)
                            /\ d.sr2 \ {SR2_SUS} = d.nv2
             /\ 2 \notin ks => d.nv2 = c.nv2 /\ d.sr2 = c.sr2
<1>2. /\ NvSr1(c, w.sr1).nv1 = w.sr1 \ {SR1_BUSY, SR1_WEL}
      /\ NvSr1(c, w.sr1).nv2 = c.nv2
      /\ NvSr1(c, w.sr1).sr2 = c.sr2
      /\ NvSr1(c, w.sr1).sr1 \ {SR1_BUSY, SR1_WEL} = w.sr1 \ {SR1_BUSY, SR1_WEL}
      /\ NvSr1(c, w.sr1) \in Chips
  BY DEF NvSr1, Chips, Regs, Reg
<1>3. ASSUME NEW d \in Chips
      PROVE  /\ NvSr2(d, w.sr2).nv1 = d.nv1
             /\ NvSr2(d, w.sr2).sr1 = d.sr1
             /\ NvSr2(d, w.sr2).nv2 = (w.sr2 \ {SR2_SUS}) \cup (d.nv2 \cap SR2_LB)
             /\ NvSr2(d, w.sr2).sr2 \ {SR2_SUS} = NvSr2(d, w.sr2).nv2
  BY DEF NvSr2, Chips, SR2_LB, SR2_SUS
<1> QED
  BY <1>2, <1>3 DEF NvWrite

(* A write to a locked chip is ignored.                                    *)
LEMMA LockedWrite ==
  ASSUME NEW c \in Chips, NEW w, NEW ks, SR2_LOCK \in c.sr2
  PROVE  /\ NvWrite(c, ks, w).nv1 = c.nv1
         /\ NvWrite(c, ks, w).nv2 = c.nv2
         /\ NvWrite(c, ks, w).sr2 = c.sr2
         /\ NvWrite(c, ks, w).sr1 \ {SR1_BUSY, SR1_WEL} = c.sr1 \ {SR1_BUSY, SR1_WEL}
BY DEF NvWrite, Ignored, Chips, Reg

-----------------------------------------------------------------------------
(* One step of each action.                                                *)

LEMMA WriteStep ==
  ASSUME IInv, TypeOK', NEW ks, NEW pc, NEW next, WriteRegs(ks, pc, next),
         \/ ks = {1, 2} /\ pc = "write12" /\ next = "verify"
         \/ ks = {1} /\ pc = "write1" /\ next \in {"write2", "verify"}
         \/ ks = {2} /\ pc = "write2" /\ next = "verify"
  PROVE  IInv'
<1> DEFINE b == Received(want)
           d == NvWrite(chip, ks, b)
<1>t. /\ chip \in Chips /\ op \in Ops
      /\ op.pc = pc /\ pc \in {"write12", "write1", "write2"}
      /\ UNCHANGED <<part, fault, shipped, faulted, last>>
      /\ op.pc # "idle" /\ ~faulted /\ ~faulted'
  BY DEF IInv, TypeOK, Chips, Ops, WriteRegs, FaultedIsIdle
<1>b. /\ b \in Regs /\ b.sr2 \cap SR2_LB = {} /\ SR1_SRP0 \notin b.sr1
      /\ SR2_LOCK \in b.sr2 => op.goal.lock
  BY <1>t, ArrivingBytes
<1>1. PICK s \in Writes :
        /\ chip' = IF s.landed THEN d ELSE chip
        /\ op' = [op EXCEPT !.sent = s.ok, !.pc = IF s.ok THEN next ELSE "verify"]
  BY DEF WriteRegs
<1>2. op'.goal = op.goal /\ op'.pc = IF s.ok THEN next ELSE "verify"
  BY <1>1, <1>t DEF Ops
<1>k. ks = {1, 2} \/ ks = {1} \/ ks = {2}
  OBVIOUS
<1>l. ASSUME SR2_LOCK \notin chip.sr2
      PROVE  /\ 1 \in ks => /\ d.nv1 = b.sr1 \ {SR1_BUSY, SR1_WEL}
                            /\ d.sr1 \ {SR1_BUSY, SR1_WEL} = d.nv1
             /\ 1 \notin ks => d.nv1 = chip.nv1 /\ d.sr1 = chip.sr1
             /\ 2 \in ks => d.nv2 = (b.sr2 \ {SR2_SUS}) \cup (chip.nv2 \cap SR2_LB)
             /\ 2 \notin ks => d.nv2 = chip.nv2 /\ d.sr2 = chip.sr2
  <2> HIDE DEF b
  <2> QED
    BY <1>t, <1>b, <1>l, LandedWrite
<1>m. SR2_LOCK \in chip.sr2 =>
        /\ d.nv1 = chip.nv1 /\ d.nv2 = chip.nv2 /\ d.sr2 = chip.sr2
        /\ d.sr1 \ {SR1_BUSY, SR1_WEL} = chip.sr1 \ {SR1_BUSY, SR1_WEL}
  <2> HIDE DEF b
  <2> QED
    BY <1>t, LockedWrite
<1> HIDE DEF b, d
<1>3. NothingPermanent'
  <2>1. CASE chip' = chip
    BY <1>t, <2>1 DEF NothingPermanent, IInv
  <2>2. CASE chip' = d /\ SR2_LOCK \in chip.sr2
    BY <1>t, <2>2, <1>m DEF NothingPermanent, IInv
  <2>3. CASE chip' = d /\ SR2_LOCK \notin chip.sr2
    <3>1. /\ 1 \in ks => chip'.nv1 = b.sr1 \ {SR1_BUSY, SR1_WEL}
          /\ 1 \notin ks => chip'.nv1 = chip.nv1
          /\ 2 \in ks => chip'.nv2 = (b.sr2 \ {SR2_SUS}) \cup (chip.nv2 \cap SR2_LB)
          /\ 2 \notin ks => chip'.nv2 = chip.nv2
      BY <2>3, <1>l
    <3>2. chip'.nv2 \cap SR2_LB = shipped.sr2 \cap SR2_LB
      BY <1>b, <3>1 DEF IInv, NothingPermanent
    <3>3. SR1_SRP0 \in chip'.nv1 => ks = {2} /\ SR1_SRP0 \in chip.nv1
      BY <1>b, <1>k, <3>1
    <3>4. SR1_SRP0 \in chip'.nv1 => SR1_SRP0 \in shipped.sr1
      BY <3>3 DEF IInv, NothingPermanent
    <3>5. ASSUME SR1_SRP0 \in chip'.nv1 PROVE SR2_LOCK \notin chip'.nv2
      <4>1. ks = {2} /\ pc = "write2" /\ SR1_SRP0 \in chip.nv1
        BY <3>3, <3>5, <1>k
      <4>2. ~op.goal.lock
        BY <4>1, <1>t, <2>3 DEF IInv, LockWithoutSRP0
      <4> QED
        BY <3>1, <4>1, <4>2, <1>b DEF SR2_LOCK, SR2_LB
    <3> QED
      BY <3>2, <3>4, <3>5, <1>t DEF NothingPermanent
  <2> QED
    BY <1>1, <2>1, <2>2, <2>3
<1>4. ByMethod'
  BY <1>2, <1>t DEF ByMethod, IInv, Rehearsing
<1>5. InStep'
  <2> SUFFICES ASSUME part # "S25FL132K"
               PROVE  chip'.sr1 \ {SR1_BUSY, SR1_WEL} = chip'.nv1
    BY <1>t DEF InStep
  <2>1. chip.sr1 \ {SR1_BUSY, SR1_WEL} = chip.nv1
    BY DEF IInv, InStep
  <2> QED
    BY <1>1, <1>l, <1>m, <2>1
<1>6. SwapIsSeen'
  BY <1>2, <1>t DEF SwapIsSeen
<1>7. LockWithoutSRP0'
  <2> SUFFICES ASSUME SR1_SRP0 \in chip'.nv1, op.goal.lock,
                      op'.pc = "write2"
               PROVE  SR2_LOCK \in chip'.sr2
    BY <1>2, <1>t DEF LockWithoutSRP0
  <2>1. pc = "write1" /\ ks = {1} /\ s.ok
    BY <1>2, <1>t
  <2>2. CASE chip' = d
    BY <1>b, <1>l, <1>m, <2>1, <2>2
  <2>3. CASE chip' # d
    <3>1. ~s.landed /\ chip' = chip /\ SR1_SRP0 \in chip.nv1
      BY <1>1, <2>3
    <3>2. fault = "stuck"
      BY <1>t, <2>1, <3>1 DEF IInv, LockWithoutSRP0
    <3>3. s.landed
      BY <3>2 DEF Writes, Sent
    <3> QED
      BY <3>1, <3>3
  <2> QED
    BY <2>2, <2>3
<1>8. FaultedIsIdle'
  BY <1>t DEF FaultedIsIdle
<1> QED
  BY <1>3, <1>4, <1>5, <1>6, <1>7, <1>8 DEF IInv

LEMMA PlanStep == ASSUME IInv, TypeOK', PlanWrite PROVE IInv'
<1>t. /\ op \in Ops /\ chip \in Chips /\ op.pc = "plan" /\ ~faulted
      /\ UNCHANGED <<part, fault, shipped, chip, faulted>>
  BY DEF IInv, TypeOK, Chips, Ops, PlanWrite, FaultedIsIdle
<1>1. PICK rd \in StableReads, busy \in {{}, {SR1_BUSY}} :
        LET r == [rd.r EXCEPT !.sr1 = @ \cup busy]
            ks == ToWrite(part, op.goal, r)
        IN  \/ Return(op.goal, "UnstableRead")
            \/ Return(op.goal, plan(part, op.goal, r))
            \/ /\ rd.ok /\ plan(part, op.goal, r) = "Write"
               /\ op' = [op EXCEPT
                    !.before = r,
                    !.pc = IF recipe(part).method = "Combined" THEN "rehearse"
                           ELSE IF 1 \in ks THEN "write1" ELSE "write2"]
  BY DEF PlanWrite
<1> DEFINE r == [rd.r EXCEPT !.sr1 = @ \cup busy]
<1>n. NothingPermanent' /\ InStep' /\ FaultedIsIdle'
  BY <1>t DEF IInv, NothingPermanent, InStep, FaultedIsIdle
<1>2. CASE op'.pc = "idle"
  BY <1>t, <1>n, <1>2 DEF IInv, ByMethod, SwapIsSeen, LockWithoutSRP0, Rehearsing
<1>3. CASE op'.pc # "idle"
  <2>r. rd.r \in Regs /\ r.sr2 = rd.r.sr2 /\ r.sr1 = rd.r.sr1 \cup busy
    BY BusTypes DEF IInv, Regs
  <2>p. plan(part, op.goal, r) = "Write" /\ rd.ok
    BY <1>1, <1>3 DEF Return, Idle
  <2>q. /\ SR2_LOCK \notin rd.r.sr2
        /\ op.goal.strict => SR1_SRP0 \notin rd.r.sr1
        /\ SR1_BUSY \notin rd.r.sr1
    BY <2>p, <2>r, PlannedWrite
  <2>o. /\ op'.goal = op.goal
        /\ op'.pc = IF recipe(part).method = "Combined" THEN "rehearse"
                    ELSE IF 1 \in ToWrite(part, op.goal, r) THEN "write1" ELSE "write2"
    <3>1. op' = [op EXCEPT
                  !.before = r,
                  !.pc = IF recipe(part).method = "Combined" THEN "rehearse"
                         ELSE IF 1 \in ToWrite(part, op.goal, r) THEN "write1" ELSE "write2"]
      BY <1>1, <1>3 DEF Return, Idle
    <3> HIDE DEF r
    <3> QED
      BY <3>1, <1>t DEF Ops
  <2>1. ByMethod'
    BY <2>o, <1>t DEF ByMethod, recipe, Rehearsing
  <2>2. fault # "stuck" => rd.r = Active(chip)
    BY <2>p DEF StableReads
  <2>3. SwapIsSeen'
    BY <2>2, <2>q, <2>o, <1>t DEF SwapIsSeen, Active
  <2>4. LockWithoutSRP0'
    <3> SUFFICES ASSUME SR1_SRP0 \in chip.nv1, op.goal.lock
                 PROVE  /\ op'.pc = "write1" => fault = "stuck"
                        /\ op'.pc = "write2" => SR2_LOCK \in chip.sr2
      BY <2>o, <1>t DEF LockWithoutSRP0
    <3>1. CASE part = "S25FL132K"
      BY <3>1, <2>o DEF recipe
    <3>2. CASE part # "S25FL132K"
      <4>1. SR1_SRP0 \in chip.sr1
        BY <3>2 DEF IInv, InStep
      <4>2. op.goal.strict /\ op.goal.region # {}
        BY <1>t, TargetBits DEF Ops, Reg
      <4>3. rd.r # Active(chip)
        BY <4>1, <4>2, <2>q DEF Active
      <4>4. fault = "stuck" /\ rd.r \in Stuck
        BY <4>3, <2>p DEF StableReads
      <4>5. rd.r = [sr1 |-> {}, sr2 |-> {}]
        BY <4>4, <2>q DEF Stuck, Bits, SR1_BUSY
      <4>6. r.sr1 = busy
        BY <4>5, <2>r
      <4>7. protection_bits(r).sr1 = {}
        BY <4>6 DEF protection_bits, SR1_REGION_MASK, SR1_SRP0, SR1_BUSY
      <4>8. target(op.goal, r.sr2).sr1 = op.goal.region
        BY <1>t, <2>r, TargetBits DEF Ops, Regs
      <4>9. 1 \in ToWrite(part, op.goal, r)
        BY <3>2, <4>2, <4>7, <4>8 DEF ToWrite, recipe
      <4> QED
        BY <4>4, <4>9, <2>o, <3>2 DEF recipe
    <3> QED
      BY <3>1, <3>2
  <2> QED
    BY <1>n, <2>1, <2>3, <2>4 DEF IInv
<1> QED
  BY <1>2, <1>3

LEMMA RehearsalStep ==
  ASSUME IInv, TypeOK', Rehearse \/ ReadRehearsal \/ ResetChip PROVE IInv'
<1>t. /\ chip \in Chips /\ op \in Ops /\ want \in Regs /\ op.goal \in Goals
      /\ ~faulted /\ part = "S25FL132K"
      /\ UNCHANGED <<part, fault, shipped, faulted>>
  <2>1. chip \in Chips /\ op \in Ops
    BY DEF IInv, TypeOK, Chips, Ops
  <2>2. want \in Regs
    BY <2>1, TargetBits DEF want, Ops, Regs
  <2> QED
    BY <2>1, <2>2 DEF IInv, ByMethod, FaultedIsIdle, Rehearsing, Ops,
      Rehearse, ReadRehearsal, ResetChip
<1>n. /\ chip'.nv1 = chip.nv1
      /\ chip'.nv2 = chip.nv2 \/ chip'.nv2 = chip.nv2 \ {SR2_LOCK}
  BY <1>t DEF Rehearse, ReadRehearsal, ResetChip, VolatileWrite, Ignored, SoftwareReset,
    KeptByReset, Chips
<1>p. op'.goal = op.goal /\ op'.pc \in {"readback", "reset", "restored"}
  BY <1>t DEF Rehearse, ReadRehearsal, ResetChip, Goto, Ops
<1>0. NothingPermanent'
  BY <1>t, <1>n DEF IInv, NothingPermanent, SR2_LOCK, SR2_LB
<1>1. NothingPermanent' /\ InStep' /\ FaultedIsIdle' /\ ByMethod' /\ LockWithoutSRP0'
  BY <1>0, <1>t, <1>n, <1>p DEF IInv, InStep, FaultedIsIdle, ByMethod,
    LockWithoutSRP0
<1>2. SwapIsSeen'
  <2> SUFFICES ASSUME fault = "swapped" PROVE SwapIsSeen'
    BY <1>t DEF SwapIsSeen
  <2>1. CASE Rehearse
    <3>1. SR2_LOCK \notin chip.sr2
      BY <2>1 DEF IInv, SwapIsSeen, Rehearse
    <3>2. chip' = VolatileWrite(chip, Received(want)) /\ op'.pc = "readback"
      BY <2>1, <1>t DEF Rehearse, Writes, Sent, Ops
    <3>3. Received(want).sr1 = want.sr2 /\ want.sr2 \subseteq {SR2_QE, SR2_LOCK}
      BY <1>t, TargetBits DEF Received, recipe, want, Ops, Regs
    <3>4. chip'.sr1 = (chip.sr1 \cap {SR1_BUSY, SR1_WEL})
                        \cup (Received(want).sr1 \ {SR1_BUSY, SR1_WEL})
      BY <3>1, <3>2, <1>t DEF VolatileWrite, Chips
    <3>5. chip'.sr1 \cap SR1_REGION_MASK = {}
      BY <3>3, <3>4 DEF SR2_QE, SR2_LOCK, SR1_BUSY, SR1_WEL, SR1_REGION_MASK
    <3> QED
      BY <3>2, <3>5 DEF SwapIsSeen
  <2>2. CASE ReadRehearsal
    <3>1. op'.pc = "reset" /\ op'.rehearsed \in StableReads
      BY <2>2, <1>t DEF ReadRehearsal, Ops
    <3>2. op'.rehearsed.r = Active(chip)
      BY <3>1 DEF StableReads
    <3>3. chip.sr1 \cap SR1_REGION_MASK = {}
      BY <2>2 DEF SwapIsSeen, IInv, ReadRehearsal
    <3>4. op'.rehearsed.r.sr1 \cap SR1_REGION_MASK = {}
      BY <3>2, <3>3 DEF Active
    <3> QED
      BY <3>1, <3>4 DEF SwapIsSeen
  <2>3. CASE ResetChip
    <3>1. op.pc = "reset" /\ op'.pc = "restored" /\ op'.rehearsed = op.rehearsed
      BY <2>3, <1>t DEF ResetChip, Goto, Ops
    <3> QED
      BY <3>1 DEF SwapIsSeen, IInv
  <2> QED
    BY <2>1, <2>2, <2>3
<1> QED
  BY <1>1, <1>2 DEF IInv

LEMMA CheckStep ==
  ASSUME IInv, TypeOK', CheckRestored \/ Verify PROVE IInv'
<1>t. /\ op \in Ops /\ op.goal \in Goals
      /\ UNCHANGED <<part, fault, shipped, chip>>
  BY DEF IInv, TypeOK, Ops, CheckRestored, Verify
<1>1. NothingPermanent' /\ InStep'
  BY <1>t DEF IInv, NothingPermanent, InStep
<1>2. CASE op'.pc = "idle"
  BY <1>1, <1>2 DEF IInv, FaultedIsIdle, ByMethod, SwapIsSeen, LockWithoutSRP0, Rehearsing
<1>3. CASE op'.pc # "idle"
  <2>1. /\ op.pc = "restored" /\ op.rehearsed.ok /\ RehearsedAsPlanned
        /\ op'.pc = "write12" /\ op'.goal = op.goal /\ faulted' = faulted
    BY <1>3, <1>t DEF CheckRestored, Verify, Fail, Return, Goto, Idle, Ops
  <2>2. ASSUME fault = "swapped" PROVE op.goal.region = {}
    <3>1. op.rehearsed.r.sr1 \cap SR1_REGION_MASK = {}
      BY <2>1, <2>2 DEF IInv, SwapIsSeen
    <3>2. want.sr1 = op.goal.region
      BY <1>t, TargetBits DEF want, Ops, Regs
    <3>3. op.goal.region \subseteq SR1_REGION_MASK
      BY <1>t, TargetBits DEF Goal, Reg
    <3> QED
      BY <3>1, <3>2, <3>3, <2>1 DEF RehearsedAsPlanned, protection_bits
  <2>3. ByMethod' /\ FaultedIsIdle'
    BY <2>1, <1>t DEF IInv, ByMethod, FaultedIsIdle, Rehearsing
  <2>4. SwapIsSeen' /\ LockWithoutSRP0'
    BY <2>1, <2>2, <1>t DEF SwapIsSeen, LockWithoutSRP0
  <2> QED
    BY <1>1, <2>3, <2>4 DEF IInv
<1> QED
  BY <1>2, <1>3

LEMMA BeginStep ==
  ASSUME IInv, TypeOK', NEW goal \in Goals, Begin(goal) PROVE IInv'
<1>1. /\ UNCHANGED <<part, fault, shipped, chip, faulted>>
      /\ \/ op' = Idle
         \/ ~faulted /\ op' = [Idle EXCEPT !.pc = "plan", !.goal = goal]
  BY DEF Begin, Return
<1>2. Idle.pc = "idle" /\ [Idle EXCEPT !.pc = "plan", !.goal = goal].pc = "plan"
  BY DEF Idle
<1>3. op'.pc \in {"idle", "plan"} /\ (faulted => op'.pc = "idle")
  BY <1>1, <1>2
<1> QED
  BY <1>1, <1>3 DEF IInv, NothingPermanent, InStep, FaultedIsIdle, ByMethod,
    SwapIsSeen, LockWithoutSRP0, Rehearsing

LEMMA RebootStep == ASSUME IInv, TypeOK', PowerCycle \/ CpuReset PROVE IInv'
<1>1. /\ UNCHANGED <<part, fault, shipped>> /\ op'.pc = "idle"
      /\ chip \in Chips
  BY DEF PowerCycle, CpuReset, Reboot, unit, Idle, IInv, TypeOK, Chips
<1>2. NothingPermanent' /\ InStep'
  <2>1. CASE CpuReset
    BY <1>1, <2>1 DEF CpuReset, IInv, NothingPermanent, InStep
  <2>2. CASE PowerCycle
    <3>1. /\ chip'.nv1 = chip.nv1 /\ chip'.sr1 = chip.nv1
          /\ chip'.nv2 = chip.nv2 \ {SR2_LOCK}
      BY <2>2 DEF PowerCycle, PowerUp
    <3>2. NothingPermanent'
      BY <1>1, <3>1 DEF IInv, NothingPermanent, SR2_LOCK, SR2_LB
    <3>3. InStep'
      <4>1. CASE part = "S25FL132K"
        BY <4>1, <1>1 DEF InStep
      <4>2. CASE part # "S25FL132K"
        BY <4>2, <1>1, <3>1 DEF IInv, InStep
      <4> QED
        BY <4>1, <4>2
    <3> QED
      BY <3>2, <3>3
  <2> QED
    BY <2>1, <2>2
<1> QED
  BY <1>1, <1>2 DEF IInv, FaultedIsIdle, ByMethod, SwapIsSeen, LockWithoutSRP0, Rehearsing

LEMMA StatusBits ==
  ASSUME chip \in Chips, LeaveStatus
  PROVE  /\ UNCHANGED <<part, fault, shipped, faulted, op>> /\ op.pc = "idle"
         /\ chip'.nv1 = chip.nv1 /\ chip'.nv2 = chip.nv2
         /\ chip'.sr1 \ {SR1_BUSY, SR1_WEL} = chip.sr1 \ {SR1_BUSY, SR1_WEL}
         /\ chip'.sr2 \ {SR2_SUS} = chip.sr2 \ {SR2_SUS}
BY DEF LeaveStatus, Chips

LEMMA LeaveStep == ASSUME IInv, TypeOK', LeaveStatus PROVE IInv'
<1>1. chip \in Chips
  BY DEF IInv, TypeOK, Chips
<1> QED
  BY <1>1, StatusBits DEF IInv, NothingPermanent, InStep, FaultedIsIdle, ByMethod,
    SwapIsSeen, LockWithoutSRP0, Rehearsing

LEMMA StepIInv == IInv /\ [Next]_vars => IInv'
<1> SUFFICES ASSUME IInv, [Next]_vars PROVE IInv'
  OBVIOUS
<1>t. TypeOK'
  BY TypeStep DEF IInv
<1>1. CASE WriteBoth \/ WriteSr1 \/ WriteSr2
  <2>1. CASE WriteBoth
    BY <2>1, <1>t, WriteStep DEF WriteBoth
  <2>2. CASE WriteSr1
    <3>1. WriteRegs({1}, "write1", "write2") \/ WriteRegs({1}, "write1", "verify")
      BY <2>2 DEF WriteSr1
    <3> QED
      BY <3>1, <1>t, WriteStep
  <2>3. CASE WriteSr2
    BY <2>3, <1>t, WriteStep DEF WriteSr2
  <2> QED
    BY <1>1, <2>1, <2>2, <2>3
<1>2. CASE UNCHANGED vars
  BY <1>2, <1>t DEF vars, IInv, NothingPermanent, InStep, FaultedIsIdle, ByMethod,
    SwapIsSeen, LockWithoutSRP0
<1> QED
  BY <1>t, <1>1, <1>2, PlanStep, RehearsalStep, CheckStep, BeginStep, RebootStep, LeaveStep
    DEF Next, Step

(* "Nothing permanent", for every unit and every single fault: no LB lock  *)
(* beyond the factory ones, no SRP0, and never SRP1:SRP0 = (1,1).          *)
THEOREM NothingIsPermanent == Spec => []NothingPermanent
<1>1. IInv => NothingPermanent
  BY DEF IInv
<1> QED
  BY <1>1, InitIInv, StepIInv, PTL DEF Spec

(* A call that could not verify what it sent has set the latch.            *)
FailureIsLatched == failed => faulted

LEMMA StepLatched ==
  IInv /\ FailureIsLatched /\ [Next]_vars => FailureIsLatched'
<1> SUFFICES ASSUME IInv, failed => faulted, [Next]_vars, failed' PROVE faulted'
  BY DEF FailureIsLatched
<1>1. CASE UNCHANGED vars
  BY <1>1 DEF vars
<1>2. CASE failed /\ failed' = (failed \/ Unverified)
           /\ ((\E goal \in Goals : Begin(goal)) \/ Step \/ LeaveStatus)
  <2>1. op.pc = "idle"
    BY <1>2 DEF IInv, FaultedIsIdle
  <2>2. ~Step
    BY <2>1 DEF Step, PlanWrite, Rehearse, ReadRehearsal, ResetChip, CheckRestored,
      WriteBoth, WriteSr1, WriteSr2, WriteRegs, Verify
  <2>3. faulted
    BY <1>2
  <2>4. ASSUME NEW goal \in Goals, Begin(goal) PROVE faulted'
    BY <2>3, <2>4 DEF Begin
  <2>5. LeaveStatus => faulted'
    BY <2>3 DEF LeaveStatus
  <2> QED
    BY <1>2, <2>2, <2>4, <2>5
<1>3. CASE Unverified /\ ((\E goal \in Goals : Begin(goal)) \/ Step \/ LeaveStatus)
  <2>1. op.pc \in {"restored", "verify"} /\ op'.pc = "idle" /\ last'.result # "Written"
    BY <1>3 DEF Unverified
  <2>2. CheckRestored \/ Verify
    BY <1>3, <2>1 DEF Begin, LeaveStatus, Step, PlanWrite, Rehearse, ReadRehearsal,
      ResetChip, WriteBoth, WriteSr1, WriteSr2, WriteRegs
  <2>3. CASE CheckRestored
    <3>1. op' # [op EXCEPT !.pc = "write12"]
      BY <2>1 DEF IInv, TypeOK
    <3>2. \/ Fail("UnstableRead") \/ Fail("VerifyFailed") \/ Fail("PreflightFailed")
          \/ op' = [op EXCEPT !.pc = "write12"]
      BY <2>3 DEF CheckRestored, Goto
    <3> QED
      BY <3>1, <3>2 DEF Fail
  <2>4. CASE Verify
    BY <2>1, <2>4 DEF Verify, Fail, Return
  <2> QED
    BY <2>2, <2>3, <2>4
<1> QED
  BY <1>1, <1>2, <1>3 DEF Next

(* A call that sent a write or a rehearsal and returned anything but       *)
(* "Written" is the last to send one, and no register changes until the    *)
(* next boot but for status bits, whoever asks and whatever the fault.     *)
THEOREM FaultStops == Spec => FaultStopsWrites
<1>1. IInv /\ FailureIsLatched /\ [Next]_vars
        => [failed /\ failed' => op.pc \notin Sending /\ Bare(chip') = Bare(chip)]_vars
  <2> SUFFICES ASSUME IInv, failed => faulted, Next, failed, failed'
               PROVE  op.pc \notin Sending /\ Bare(chip') = Bare(chip)
    BY DEF vars, FailureIsLatched
  <2>1. op.pc = "idle"
    BY DEF IInv, FaultedIsIdle
  <2>2. ~Step
    BY <2>1 DEF Step, PlanWrite, Rehearse, ReadRehearsal, ResetChip, CheckRestored,
      WriteBoth, WriteSr1, WriteSr2, WriteRegs, Verify
  <2>3. (\E goal \in Goals : Begin(goal)) \/ LeaveStatus
    BY <2>2 DEF Next
  <2>4. CASE \E goal \in Goals : Begin(goal)
    BY <2>1, <2>4 DEF Begin, Sending
  <2>5. CASE LeaveStatus
    <3>1. chip \in Chips
      BY DEF IInv, TypeOK, Chips
    <3>2. Bare(chip') = Bare(chip)
      BY <2>5, <3>1 DEF LeaveStatus, Bare, Chips
    <3> QED
      BY <2>1, <3>2 DEF Sending
  <2> QED
    BY <2>3, <2>4, <2>5
<1>2. Init => FailureIsLatched
  BY DEF Init, FailureIsLatched
<1> QED
  BY <1>1, <1>2, InitIInv, StepIInv, StepLatched, PTL DEF Spec, FaultStopsWrites

-----------------------------------------------------------------------------
(* The lock-down and the registers it freezes.                             *)

(* No status bit ever reaches the non-volatile copy.                       *)
NvIsClean ==
  /\ chip.nv1 \cap {SR1_BUSY, SR1_WEL} = {}
  /\ SR2_SUS \notin chip.nv2

InForce(c) ==
  /\ c.sr1 \ {SR1_BUSY, SR1_WEL} = c.nv1
  /\ c.sr2 \ {SR2_SUS} = c.nv2

(* A lock that is in force in one copy is in force in both, and freezes    *)
(* both at the same value: also on a unit whose CPU restarted in the       *)
(* middle of a rehearsal.                                                  *)
LockFreezesBoth ==
  /\ SR2_LOCK \in chip.nv2 => SR2_LOCK \in chip.sr2
  /\ SR2_LOCK \in chip.sr2 => InForce(chip)

(* By the time SR2 goes out with the lock bit, the region is in place.     *)
RegionFirst ==
  op.pc = "write2" /\ op.goal.lock /\ fault # "deaf" =>
    SR2_LOCK \in chip.sr2 \/ chip.nv1 \cap SR1_REGION_MASK = op.goal.region

(* Outside a rehearsal both copies agree; on a part that rehearses and     *)
(* whose CPU may restart, at least from the software reset of a call on.   *)
Settled ==
  (/\ op.pc \notin {"readback", "reset"}
   /\ fault = "restart" /\ part = "S25FL132K"
        => op.pc \in {"restored", "write12", "verify"})
    => InForce(chip)

LInv ==
  /\ NvIsClean
  /\ LockFreezesBoth
  /\ RegionFirst
  /\ LockedOverARegion
  /\ Settled

LEMMA InitLInv == Init => LInv
<1> SUFFICES ASSUME Init PROVE LInv
  OBVIOUS
<1>1. PICK r1 \in InitSR1, r2 \in InitSR2 :
        chip = [sr1 |-> r1, sr2 |-> r2 \cup recipe(part).factory_sr2,
                nv1 |-> r1, nv2 |-> r2 \cup recipe(part).factory_sr2]
  BY DEF Init
<1>2. /\ r1 \cap {SR1_BUSY, SR1_WEL} = {}
      /\ SR2_SUS \notin chip.nv2 /\ SR2_LOCK \notin chip.nv2
  BY <1>1, InitAssumption DEF recipe, SR1_REGION_MASK, SR1_SRP0, SR1_BUSY, SR1_WEL,
    SR2_SUS, SR2_LOCK, SR2_QE, SR2_CMP, SR2_LB
<1>3. InForce(chip) /\ NvIsClean
  BY <1>1, <1>2 DEF InForce, NvIsClean
<1>4. op.pc = "idle"
  BY DEF Init, Idle
<1> QED
  BY <1>1, <1>2, <1>3, <1>4 DEF LInv, LockFreezesBoth, RegionFirst, LockedOverARegion,
    Settled, InForce

(* The bits a write carries: to a part that takes SR1 and SR2 in turn, or  *)
(* that sees its bytes in order, exactly the goal's.                       *)
LEMMA LockingBytes ==
  ASSUME IInv, op.pc \in {"write12", "write1", "write2"}, op.goal.lock
  PROVE  /\ Received(want) = want
         /\ want.sr1 = op.goal.region
         /\ op.goal.region \in {BOTTOM_1MB, TOP_64K}
         /\ SR2_CMP \notin want.sr2
<1>1. op.goal \in Goals /\ op.before.sr2 \in Reg
  BY DEF IInv, TypeOK, Regs
<1>2. op.goal.region \in {{}, BOTTOM_1MB, TOP_64K}
  BY <1>1 DEF Goals, provision, lockdown, unprotect, top_test
<1>3. op.goal.region # {}
  BY <1>1, TargetBits
<1>4. want.sr1 = op.goal.region /\ want.sr2 \subseteq {SR2_QE, SR2_LOCK}
  BY <1>1, TargetBits DEF want
<1>5. Received(want) = want
  BY <1>3 DEF Received, recipe, IInv, SwapIsSeen, ByMethod
<1> QED
  BY <1>2, <1>3, <1>4, <1>5 DEF SR2_CMP, SR2_QE, SR2_LOCK

LEMMA LockWriteStep ==
  ASSUME IInv, LInv, NEW ks, NEW pc, NEW next, WriteRegs(ks, pc, next),
         \/ ks = {1, 2} /\ pc = "write12" /\ next = "verify"
         \/ ks = {1} /\ pc = "write1" /\ next \in {"write2", "verify"}
         \/ ks = {2} /\ pc = "write2" /\ next = "verify"
  PROVE  LInv'
<1> DEFINE b == Received(want)
           d == NvWrite(chip, ks, b)
<1>t. /\ chip \in Chips /\ op \in Ops
      /\ op.pc = pc /\ pc \in {"write12", "write1", "write2"}
      /\ UNCHANGED <<part, fault>>
  BY DEF IInv, TypeOK, Chips, Ops, WriteRegs
<1>b. /\ b \in Regs /\ b.sr2 \cap SR2_LB = {}
      /\ SR2_LOCK \in b.sr2 => op.goal.lock
  BY <1>t, ArrivingBytes
<1>g. op.goal.lock => /\ b.sr1 = op.goal.region /\ SR2_CMP \notin b.sr2
                      /\ op.goal.region \in {BOTTOM_1MB, TOP_64K}
  BY <1>t, LockingBytes
<1>1. PICK s \in Writes :
        /\ chip' = IF s.landed THEN d ELSE chip
        /\ op' = [op EXCEPT !.sent = s.ok, !.pc = IF s.ok THEN next ELSE "verify"]
  BY DEF WriteRegs
<1>2. op'.goal = op.goal /\ op'.pc = IF s.ok THEN next ELSE "verify"
  BY <1>1, <1>t DEF Ops
<1>3. op'.pc = "write2" => /\ pc = "write1" /\ ks = {1}
                           /\ ~s.landed => fault = "deaf"
  BY <1>2, <1>t DEF Writes, Sent
<1>k. (1 \in ks \/ 1 \notin ks) /\ (ks = {1, 2} \/ ks = {1} \/ ks = {2})
  OBVIOUS
<1>i. InForce(chip)
  BY <1>t DEF LInv, Settled, IInv, ByMethod
<1>l. ASSUME SR2_LOCK \notin chip.sr2
      PROVE  /\ 1 \in ks => /\ d.nv1 = b.sr1 \ {SR1_BUSY, SR1_WEL}
                            /\ d.sr1 \ {SR1_BUSY, SR1_WEL} = d.nv1
             /\ 1 \notin ks => d.nv1 = chip.nv1 /\ d.sr1 = chip.sr1
             /\ 2 \in ks => /\ d.nv2 = (b.sr2 \ {SR2_SUS}) \cup (chip.nv2 \cap SR2_LB)
                            /\ d.sr2 \ {SR2_SUS} = d.nv2
             /\ 2 \notin ks => d.nv2 = chip.nv2 /\ d.sr2 = chip.sr2
  <2> HIDE DEF b
  <2> QED
    BY <1>t, <1>b, <1>l, LandedWrite
<1>m. SR2_LOCK \in chip.sr2 =>
        /\ d.nv1 = chip.nv1 /\ d.nv2 = chip.nv2 /\ d.sr2 = chip.sr2
        /\ d.sr1 \ {SR1_BUSY, SR1_WEL} = chip.sr1 \ {SR1_BUSY, SR1_WEL}
  <2> HIDE DEF b
  <2> QED
    BY <1>t, LockedWrite
<1> HIDE DEF b, d
<1>4. CASE chip' = chip
  <2>1. NvIsClean' /\ LockFreezesBoth' /\ LockedOverARegion' /\ Settled'
    BY <1>4, <1>t, <1>i DEF LInv, NvIsClean, LockFreezesBoth, LockedOverARegion,
      Settled, InForce
  <2>2. RegionFirst'
    <3> SUFFICES ASSUME op'.pc = "write2", op.goal.lock, fault # "deaf"
                 PROVE  SR2_LOCK \in chip.sr2 \/ chip.nv1 \cap SR1_REGION_MASK = op.goal.region
      BY <1>4, <1>t, <1>2 DEF RegionFirst
    <3>1. s.landed /\ ks = {1}
      BY <1>3
    <3>2. SR2_LOCK \notin chip.sr2 => chip.nv1 = b.sr1 \ {SR1_BUSY, SR1_WEL}
      BY <3>1, <1>1, <1>4, <1>l
    <3> QED
      BY <3>2, <1>g DEF BOTTOM_1MB, TOP_64K, SR1_TB, SR1_BP2, SR1_BP0, SR1_REGION_MASK,
        SR1_BUSY, SR1_WEL
  <2> QED
    BY <2>1, <2>2 DEF LInv
<1>5. CASE chip' = d /\ SR2_LOCK \in chip.sr2
  <2>1. InForce(chip) /\ InForce(chip')
    BY <1>5, <1>m DEF LInv, LockFreezesBoth, InForce
  <2>2. NvIsClean' /\ LockFreezesBoth' /\ LockedOverARegion'
    BY <1>5, <1>m, <1>t, <2>1 DEF LInv, NvIsClean, LockFreezesBoth, LockedOverARegion
  <2>3. Settled' /\ RegionFirst'
    BY <1>5, <1>m, <2>1 DEF Settled, RegionFirst, InForce
  <2> QED
    BY <2>2, <2>3 DEF LInv
<1>6. CASE chip' = d /\ SR2_LOCK \notin chip.sr2
  <2>0. /\ 1 \in ks => /\ chip'.nv1 = b.sr1 \ {SR1_BUSY, SR1_WEL}
                       /\ chip'.sr1 \ {SR1_BUSY, SR1_WEL} = chip'.nv1
        /\ 1 \notin ks => chip'.nv1 = chip.nv1 /\ chip'.sr1 = chip.sr1
        /\ 2 \in ks => /\ chip'.nv2 = (b.sr2 \ {SR2_SUS}) \cup (chip.nv2 \cap SR2_LB)
                       /\ chip'.sr2 \ {SR2_SUS} = chip'.nv2
        /\ 2 \notin ks => chip'.nv2 = chip.nv2 /\ chip'.sr2 = chip.sr2
    BY <1>6, <1>l
  <2>a. SR2_LOCK \notin chip.nv2
    BY <1>6 DEF LInv, LockFreezesBoth
  <2>1. NvIsClean'
    BY <2>0, <1>k DEF NvIsClean, LInv
  <2>b. 1 \notin ks => chip'.sr1 \ {SR1_BUSY, SR1_WEL} = chip'.nv1
    BY <2>0, <1>t, <1>k DEF IInv, InStep, ByMethod
  <2>c. SR2_LOCK \in chip'.sr2 \/ SR2_LOCK \in chip'.nv2
          => 2 \in ks /\ op.goal.lock /\ InForce(chip')
    BY <1>6, <2>0, <2>a, <2>b, <1>k, <1>b DEF InForce, SR2_LOCK, SR2_SUS, SR2_LB
  <2>2. LockFreezesBoth'
    BY <2>c DEF LockFreezesBoth, InForce, SR2_LOCK, SR2_SUS
  <2>3. RegionFirst'
    <3> SUFFICES ASSUME op'.pc = "write2", op.goal.lock
                 PROVE  chip'.nv1 \cap SR1_REGION_MASK = op.goal.region
      BY <1>t, <1>2 DEF RegionFirst
    <3>1. chip'.nv1 = op.goal.region \ {SR1_BUSY, SR1_WEL}
      BY <2>0, <1>3, <1>g
    <3> QED
      BY <3>1, <1>g DEF BOTTOM_1MB, TOP_64K, SR1_TB, SR1_BP2, SR1_BP0, SR1_REGION_MASK,
        SR1_BUSY, SR1_WEL
  <2>4. LockedOverARegion'
    <3> SUFFICES ASSUME SR2_LOCK \in chip'.nv2, fault # "deaf"
                 PROVE  /\ chip'.nv1 \cap SR1_REGION_MASK \in {BOTTOM_1MB, TOP_64K}
                        /\ SR2_CMP \notin chip'.nv2
      BY <1>t DEF LockedOverARegion
    <3>1. 2 \in ks /\ op.goal.lock /\ SR2_CMP \notin chip'.nv2
      BY <2>c, <2>0, <1>g DEF SR2_CMP, SR2_LB
    <3>2. CASE 1 \in ks
      BY <3>1, <3>2, <2>0, <1>g DEF BOTTOM_1MB, TOP_64K, SR1_TB, SR1_BP2, SR1_BP0,
        SR1_REGION_MASK, SR1_BUSY, SR1_WEL
    <3>3. CASE 1 \notin ks
      <4>1. pc = "write2" /\ chip'.nv1 = chip.nv1
        BY <3>3, <2>0, <1>k
      <4>2. chip.nv1 \cap SR1_REGION_MASK = op.goal.region
        BY <4>1, <3>1, <1>6, <1>t DEF LInv, RegionFirst
      <4> QED
        BY <4>1, <4>2, <3>1, <1>g
    <3> QED
      BY <3>1, <3>2, <3>3
  <2>5. Settled'
    <3>1. chip.sr2 \ {SR2_SUS} = chip.nv2
      BY <1>i DEF InForce
    <3> QED
      BY <2>0, <2>b, <3>1 DEF Settled, InForce
  <2> QED
    BY <2>1, <2>2, <2>3, <2>4, <2>5 DEF LInv
<1> QED
  BY <1>1, <1>4, <1>5, <1>6

LEMMA LockPlanStep == ASSUME IInv, LInv, PlanWrite PROVE LInv'
<1>t. /\ op \in Ops /\ chip \in Chips /\ op.pc = "plan"
      /\ UNCHANGED <<part, fault, chip>>
  BY DEF IInv, TypeOK, Chips, Ops, PlanWrite
<1>1. PICK rd \in StableReads, busy \in {{}, {SR1_BUSY}} :
        LET r == [rd.r EXCEPT !.sr1 = @ \cup busy]
            ks == ToWrite(part, op.goal, r)
        IN  \/ Return(op.goal, "UnstableRead")
            \/ Return(op.goal, plan(part, op.goal, r))
            \/ /\ rd.ok /\ plan(part, op.goal, r) = "Write"
               /\ op' = [op EXCEPT
                    !.before = r,
                    !.pc = IF recipe(part).method = "Combined" THEN "rehearse"
                           ELSE IF 1 \in ks THEN "write1" ELSE "write2"]
  BY DEF PlanWrite
<1> DEFINE r == [rd.r EXCEPT !.sr1 = @ \cup busy]
<1>2. op'.pc \notin {"readback", "reset", "restored", "write12", "verify"}
  <2>1. CASE op' = Idle
    BY <2>1 DEF Idle
  <2>2. CASE op' # Idle
    BY <2>2, <1>1, <1>t DEF Return, Ops
  <2> QED
    BY <2>1, <2>2
<1>3. NvIsClean' /\ LockFreezesBoth' /\ LockedOverARegion' /\ Settled'
  BY <1>t, <1>2 DEF LInv, NvIsClean, LockFreezesBoth, LockedOverARegion, InForce,
    Settled
<1>4. RegionFirst'
  <2> SUFFICES ASSUME op'.pc = "write2", op'.goal.lock
               PROVE  chip.nv1 \cap SR1_REGION_MASK = op'.goal.region
    BY <1>t DEF RegionFirst
  <2>0. /\ rd.ok /\ plan(part, op.goal, r) = "Write"
        /\ op' = [op EXCEPT
             !.before = r,
             !.pc = IF recipe(part).method = "Combined" THEN "rehearse"
                    ELSE IF 1 \in ToWrite(part, op.goal, r) THEN "write1" ELSE "write2"]
    BY <1>1 DEF Return, Idle
  <2>r. rd.r \in Regs /\ r.sr2 = rd.r.sr2 /\ r.sr1 = rd.r.sr1 \cup busy
    BY BusTypes DEF IInv, Regs
  <2>1. /\ op'.goal = op.goal /\ op.goal \in Goals
        /\ recipe(part).method # "Combined" /\ 1 \notin ToWrite(part, op.goal, r)
    <3> HIDE DEF r
    <3> QED
      BY <2>0, <1>t DEF Ops
  <2>2. protection_bits(r).sr1 = op.goal.region /\ op.goal.region # {}
    <3>1. target(op.goal, r.sr2).sr1 = op.goal.region /\ op.goal.region # {}
      BY <2>1, <2>r, TargetBits DEF Regs
    <3>2. protection_bits(r).sr1 = target(op.goal, r.sr2).sr1
      BY <2>1 DEF ToWrite
    <3> QED
      BY <3>1, <3>2
  <2>3. SR1_BUSY \notin r.sr1
    BY <2>0, PlannedWrite
  <2>4. rd.r = Active(chip)
    <3>1. rd.r # [sr1 |-> {}, sr2 |-> {}]
      BY <2>2, <2>r DEF protection_bits, SR1_BUSY, SR1_REGION_MASK, SR1_SRP0
    <3>2. rd.r # [sr1 |-> Bits, sr2 |-> Bits]
      BY <2>3, <2>r DEF Bits, SR1_BUSY
    <3> QED
      BY <3>1, <3>2 DEF StableReads, Stuck
  <2>5. chip.sr1 \ {SR1_BUSY, SR1_WEL} = chip.nv1
    BY <2>1 DEF IInv, InStep, recipe
  <2>6. r.sr1 = chip.sr1 \cup busy
    BY <2>4, <2>r DEF Active
  <2>7. chip.nv1 \cap SR1_REGION_MASK = protection_bits(r).sr1 \cap SR1_REGION_MASK
    BY <2>5, <2>6 DEF protection_bits, SR1_BUSY, SR1_WEL, SR1_REGION_MASK
  <2>8. op.goal.region \subseteq SR1_REGION_MASK
    BY <2>1, <2>r, TargetBits DEF Regs, Goal
  <2> QED
    BY <2>1, <2>2, <2>7, <2>8
<1> QED
  BY <1>3, <1>4 DEF LInv

LEMMA LockRehearsalStep ==
  ASSUME IInv, LInv, Rehearse \/ ReadRehearsal \/ ResetChip PROVE LInv'
<1>t. /\ chip \in Chips /\ op \in Ops /\ UNCHANGED <<part, fault>>
      /\ op'.pc \in {"readback", "reset", "restored"}
  BY DEF IInv, TypeOK, Chips, Ops, Rehearse, ReadRehearsal, ResetChip, Goto
<1>n. /\ chip'.nv1 = chip.nv1
      /\ chip'.nv2 = chip.nv2 \/ chip'.nv2 = chip.nv2 \ {SR2_LOCK}
      /\ op'.pc # "restored" => chip'.nv2 = chip.nv2
  <2>1. CASE ResetChip
    <3>1. op'.pc = "restored" /\ chip' = SoftwareReset(chip)
      BY <2>1, <1>t DEF ResetChip, Goto, Ops
    <3>2. /\ SoftwareReset(chip).nv1 = chip.nv1
          /\ SoftwareReset(chip).nv2 = KeptByReset(chip)
      BY <1>t DEF SoftwareReset, Chips
    <3> QED
      BY <3>1, <3>2 DEF KeptByReset
  <2>2. CASE Rehearse \/ ReadRehearsal
    BY <2>2, <1>t DEF Rehearse, ReadRehearsal, VolatileWrite, Ignored, Chips
  <2> QED
    BY <2>1, <2>2
<1>1. NvIsClean' /\ RegionFirst' /\ LockedOverARegion'
  BY <1>t, <1>n DEF LInv, NvIsClean, RegionFirst, LockedOverARegion, SR2_LOCK, SR2_SUS
<1>2. ASSUME op'.pc \in {"readback", "reset"} PROVE LockFreezesBoth'
  <2>1. CASE SR2_LOCK \in chip.sr2
    <3>1. /\ chip'.sr2 = chip.sr2
          /\ chip'.sr1 \ {SR1_BUSY, SR1_WEL} = chip.sr1 \ {SR1_BUSY, SR1_WEL}
      <4>1. chip' = chip \/ chip' = VolatileWrite(chip, Received(want))
        BY <1>2, <1>t DEF Rehearse, ReadRehearsal, ResetChip, Goto, Ops
      <4> QED
        BY <4>1, <2>1, <1>t DEF VolatileWrite, Ignored, Chips
    <3>2. chip'.nv1 = chip.nv1 /\ chip'.nv2 = chip.nv2
      BY <1>2, <1>n
    <3> QED
      BY <3>1, <3>2, <2>1 DEF LInv, LockFreezesBoth, InForce
  <2>2. CASE SR2_LOCK \notin chip.sr2
    <3>1. SR2_LOCK \notin chip'.sr2
      <4>1. chip' = chip \/ chip' = VolatileWrite(chip, Received(want))
        BY <1>2, <1>t DEF Rehearse, ReadRehearsal, ResetChip, Goto, Ops
      <4>2. CASE chip' = VolatileWrite(chip, Received(want))
        <5>1. chip'.sr2 = (chip.sr2 \cap NoVolatileCopy)
                            \cup (Received(want).sr2 \ NoVolatileCopy)
          BY <4>2, <2>2, <1>t DEF VolatileWrite, Chips
        <5> QED
          BY <5>1, <2>2 DEF NoVolatileCopy
      <4> QED
        BY <4>1, <4>2, <2>2
    <3>2. chip'.nv2 = chip.nv2
      BY <1>2, <1>n
    <3> QED
      BY <3>1, <3>2, <2>2 DEF LInv, LockFreezesBoth
  <2> QED
    BY <2>1, <2>2
<1>3. ASSUME op'.pc = "restored" PROVE InForce(chip')
  <2>1. chip' = SoftwareReset(chip)
    BY <1>3, <1>t DEF Rehearse, ReadRehearsal, ResetChip, Ops
  <2>2. /\ chip'.sr1 = (chip.sr1 \cap {SR1_BUSY, SR1_WEL}) \cup chip.nv1
        /\ chip'.sr2 = (chip.sr2 \cap {SR2_SUS}) \cup chip'.nv2
    BY <2>1, <1>t DEF SoftwareReset, Chips
  <2> QED
    BY <2>2, <1>n DEF InForce, LInv, NvIsClean
<1>4. LockFreezesBoth'
  BY <1>t, <1>2, <1>3 DEF LockFreezesBoth, InForce, SR2_LOCK, SR2_SUS
<1>5. Settled'
  BY <1>t, <1>3 DEF Settled, InForce
<1> QED
  BY <1>1, <1>4, <1>5 DEF LInv

LEMMA LockIdleStep ==
  ASSUME IInv, LInv, UNCHANGED <<part, fault, chip>>,
         op'.pc \notin {"readback", "reset", "write2"},
         op.pc \notin {"readback", "reset"},
         op'.pc \in {"restored", "write12", "verify"}
           => op.pc \in {"restored", "write12", "verify"}
  PROVE  LInv'
BY DEF LInv, NvIsClean, LockFreezesBoth, RegionFirst, LockedOverARegion,
  Settled, InForce

LEMMA LockRebootStep == ASSUME IInv, LInv, PowerCycle \/ CpuReset PROVE LInv'
<1>1. /\ UNCHANGED <<part, fault>> /\ op'.pc = "idle" /\ chip \in Chips
  BY DEF PowerCycle, CpuReset, Reboot, unit, Idle, IInv, TypeOK, Chips
<1>2. CASE CpuReset
  BY <1>1, <1>2 DEF IInv, ByMethod, Rehearsing, CpuReset, LInv, NvIsClean, LockFreezesBoth, RegionFirst,
    LockedOverARegion, Settled, InForce
<1>3. CASE PowerCycle
  <2>1. /\ chip'.sr1 = chip.nv1 /\ chip'.sr2 = chip.nv2 \ {SR2_LOCK}
        /\ chip'.nv1 = chip.nv1 /\ chip'.nv2 = chip.nv2 \ {SR2_LOCK}
    BY <1>3 DEF PowerCycle, PowerUp
  <2>2. InForce(chip') /\ NvIsClean'
    BY <2>1 DEF InForce, LInv, NvIsClean
  <2> QED
    BY <1>1, <2>1, <2>2 DEF LInv, LockFreezesBoth, RegionFirst, LockedOverARegion,
      Settled, InForce
<1> QED
  BY <1>2, <1>3

LEMMA LockLeaveStep == ASSUME IInv, LInv, LeaveStatus PROVE LInv'
<1>1. chip \in Chips
  BY DEF IInv, TypeOK, Chips
<1>2. /\ UNCHANGED <<part, fault, op>> /\ op.pc = "idle"
      /\ chip'.nv1 = chip.nv1 /\ chip'.nv2 = chip.nv2
      /\ InForce(chip) => InForce(chip')
  BY <1>1, StatusBits DEF InForce
<1>3. SR2_LOCK \in chip'.sr2 <=> SR2_LOCK \in chip.sr2
  BY <1>1, StatusBits DEF SR2_LOCK, SR2_SUS
<1> QED
  BY <1>2, <1>3 DEF LInv, NvIsClean, LockFreezesBoth, RegionFirst, LockedOverARegion,
    Settled

LEMMA StepLInv == IInv /\ LInv /\ [Next]_vars => LInv'
<1> SUFFICES ASSUME IInv, LInv, [Next]_vars PROVE LInv'
  OBVIOUS
<1>1. CASE WriteBoth \/ WriteSr1 \/ WriteSr2
  <2>1. CASE WriteBoth
    BY <2>1, LockWriteStep DEF WriteBoth
  <2>2. CASE WriteSr1
    <3>1. WriteRegs({1}, "write1", "write2") \/ WriteRegs({1}, "write1", "verify")
      BY <2>2 DEF WriteSr1
    <3> QED
      BY <3>1, LockWriteStep
  <2>3. CASE WriteSr2
    BY <2>3, LockWriteStep DEF WriteSr2
  <2> QED
    BY <1>1, <2>1, <2>2, <2>3
<1>2. CASE CheckRestored \/ Verify
  <2>1. /\ UNCHANGED <<part, fault, chip>> /\ op.pc \in {"restored", "verify"}
        /\ op'.pc \in {"idle", "write12"}
    BY <1>2 DEF CheckRestored, Verify, Fail, Return, Goto, Idle, IInv, TypeOK
  <2> QED
    BY <2>1, LockIdleStep
<1>3. ASSUME NEW goal \in Goals, Begin(goal) PROVE LInv'
  <2>1. /\ UNCHANGED <<part, fault, chip>> /\ op.pc = "idle"
        /\ op'.pc \in {"idle", "plan"}
    <3>1. Idle.pc = "idle" /\ [Idle EXCEPT !.pc = "plan", !.goal = goal].pc = "plan"
      BY DEF Idle
    <3>2. op' = Idle \/ op' = [Idle EXCEPT !.pc = "plan", !.goal = goal]
      BY <1>3 DEF Begin, Return
    <3> QED
      BY <1>3, <3>1, <3>2 DEF Begin
  <2> QED
    BY <2>1, LockIdleStep
<1>4. CASE UNCHANGED vars
  BY <1>4 DEF vars, LInv, NvIsClean, LockFreezesBoth, RegionFirst, LockedOverARegion,
    Settled, InForce
<1> QED
  BY <1>1, <1>2, <1>3, <1>4, LockPlanStep, LockRehearsalStep, LockRebootStep,
    LockLeaveStep DEF Next, Step

(* The lock-down is never armed over an unprotected flash, unless the chip *)
(* lies about a write: whatever the fault and wherever the power fails,    *)
(* the region is in SR1 before the lock bit reaches SR2.                   *)
THEOREM ArmedOverARegion == Spec => []LockedOverARegion
<1>1. LInv => LockedOverARegion
  BY DEF LInv
<1> QED
  BY <1>1, InitIInv, StepIInv, InitLInv, StepLInv, PTL DEF Spec

(* A rehearsal leaves nothing behind: outside it the chip obeys the        *)
(* registers it would come up with, unless its CPU restarted in one.       *)
THEOREM RehearsalUndone == Spec => []RehearsalIsUndone
<1>1. LInv => RehearsalIsUndone
  BY DEF LInv, Settled, InForce, RehearsalIsUndone
<1> QED
  BY <1>1, InitIInv, StepIInv, InitLInv, StepLInv, PTL DEF Spec

-----------------------------------------------------------------------------
(* What a call reports.                                                    *)

(* Registers that compare equal to a goal's target hold the goal.          *)
LEMMA AskedIsHeld ==
  ASSUME NEW goal \in Goals, NEW q \in Reg, NEW r \in Regs,
         protection_bits(r) = target(goal, q)
  PROVE  Holds(goal, r)
<1>1. /\ r.sr1 \cap (SR1_REGION_MASK \cup {SR1_SRP0}) = goal.region
      /\ r.sr2 \cap SR2_OWNED = target(goal, q).sr2
  BY TargetBits DEF protection_bits
<1>2. /\ target(goal, q).sr2 \subseteq {SR2_QE, SR2_LOCK}
      /\ SR2_LOCK \in target(goal, q).sr2 <=> goal.lock
  BY DEF target, SR2_QE, SR2_LOCK
<1> QED
  BY <1>1, <1>2 DEF Holds, SR2_OWNED, SR2_QE, SR2_LOCK, SR2_CMP

(* ... and only the chip can have sent them: a bus stuck high shows SRP0,  *)
(* and one stuck low no region.                                            *)
LEMMA AskedIsTrue ==
  ASSUME NEW goal \in Goals, NEW q \in Reg, NEW rd \in StableReads, rd.ok,
         protection_bits(rd.r) = target(goal, q),
         fault = "stuck" => goal.region # {}
  PROVE  rd.r = Active(chip)
<1>1. protection_bits(rd.r).sr1 = goal.region /\ SR1_SRP0 \notin goal.region
  BY TargetBits DEF SR1_SRP0, SR1_TB, SR1_BP2, SR1_BP0
<1>2. SR1_SRP0 \notin rd.r.sr1
  BY <1>1 DEF protection_bits
<1>3. rd.r # [sr1 |-> Bits, sr2 |-> Bits]
  BY <1>2 DEF Bits, SR1_SRP0
<1>4. fault = "stuck" => rd.r # [sr1 |-> {}, sr2 |-> {}]
  BY <1>1 DEF protection_bits
<1> QED
  BY <1>3, <1>4 DEF StableReads, Stuck

LEMMA OkHolds ==
  ASSUME IInv, Next, ReportsOk, fault = "stuck" => last'.goal.region # {}
  PROVE  /\ Holds(last'.goal, Active(chip)) /\ chip' = chip /\ last'.goal \in Goals
         /\ op.pc \in {"plan", "verify"}
         /\ last'.result = "Written" => op.pc = "verify"
<1>t. op \in Ops /\ op.goal \in Goals /\ op.before \in Regs /\ Active(chip) \in Regs
  BY DEF IInv, TypeOK, Ops, Active, Regs
<1>1. PlanWrite \/ Verify
  <2>1. ~(Rehearse \/ ReadRehearsal \/ ResetChip)
    BY <1>t DEF ReportsOk, Returns, Rehearse, ReadRehearsal, ResetChip, Goto, Ops
  <2>2. ~(PowerCycle \/ CpuReset)
    BY DEF ReportsOk, Returns, PowerCycle, CpuReset, Reboot
  <2>7. ~LeaveStatus
    BY DEF ReportsOk, Returns, LeaveStatus
  <2>3. ASSUME NEW goal \in Goals, Begin(goal) PROVE FALSE
    BY <2>3 DEF ReportsOk, Returns, Begin
  <2>4. ~CheckRestored
    BY <1>t DEF ReportsOk, Returns, CheckRestored, Fail, Return, Goto, Ops
  <2>5. ASSUME NEW ks, NEW pc, NEW next \in Pcs \ {"idle"}, WriteRegs(ks, pc, next)
        PROVE  FALSE
    BY <2>5, <1>t DEF ReportsOk, Returns, WriteRegs, Ops
  <2>6. ~(WriteBoth \/ WriteSr1 \/ WriteSr2)
    BY <2>5 DEF WriteBoth, WriteSr1, WriteSr2, Pcs
  <2> QED
    BY <2>1, <2>2, <2>3, <2>4, <2>6, <2>7 DEF Next, Step
<1>2. CASE PlanWrite
  <2>1. PICK rd \in StableReads, busy \in {{}, {SR1_BUSY}} :
          LET r == [rd.r EXCEPT !.sr1 = @ \cup busy]
          IN  /\ rd.ok
              /\ plan(part, op.goal, r) = "AlreadySet"
              /\ last'.goal = op.goal
              /\ last'.result = "AlreadySet"
    <3>1. last'.result = "AlreadySet" \/ last'.result = "Written"
      BY DEF ReportsOk
    <3>2. PICK rd \in StableReads, busy \in {{}, {SR1_BUSY}} :
            LET r == [rd.r EXCEPT !.sr1 = @ \cup busy]
            IN  \/ Return(op.goal, "UnstableRead")
                \/ rd.ok /\ Return(op.goal, plan(part, op.goal, r))
                \/ op'.pc \in {"rehearse", "write1", "write2"}
      BY <1>2, <1>t, ZenonT(60) DEF PlanWrite, Ops
    <3>3. op'.pc = "idle"
      BY DEF ReportsOk, Returns
    <3>4. /\ rd.ok
          /\ last' = [goal |-> op.goal,
                      result |-> plan(part, op.goal, [rd.r EXCEPT !.sr1 = @ \cup busy])]
      BY <3>1, <3>2, <3>3 DEF Return
    <3>5. plan(part, op.goal, [rd.r EXCEPT !.sr1 = @ \cup busy]) # "Written"
      BY DEF plan
    <3> QED
      BY <3>1, <3>4, <3>5
  <2> DEFINE r == [rd.r EXCEPT !.sr1 = @ \cup busy]
  <2>r. rd.r \in Regs /\ r.sr2 = rd.r.sr2 /\ r.sr1 = rd.r.sr1 \cup busy
    BY BusTypes DEF IInv, Regs
  <2>2. protection_bits(r) = target(op.goal, r.sr2) /\ SR1_BUSY \notin r.sr1
    BY <2>1 DEF plan
  <2>3. protection_bits(rd.r) = protection_bits(r)
    BY <2>r DEF protection_bits, SR1_BUSY, SR1_REGION_MASK, SR1_SRP0
  <2>4. protection_bits(rd.r) = target(op.goal, rd.r.sr2) /\ rd.r.sr2 \in Reg
    BY <2>2, <2>3, <2>r DEF Regs
  <2>5. rd.r = Active(chip)
    BY <2>1, <2>4, <1>t, AskedIsTrue
  <2>6. Holds(op.goal, Active(chip))
    BY <2>4, <2>5, <1>t, AskedIsHeld
  <2> QED
    BY <1>2, <1>t, <2>1, <2>6 DEF PlanWrite
<1>3. CASE Verify
  <2>1. PICK rd \in StableReads : rd.ok /\ protection_bits(rd.r) = want /\ last'.goal = op.goal
    BY <1>3 DEF Verify, Fail, Return, ReportsOk
  <2>2. /\ protection_bits(rd.r) = target(op.goal, op.before.sr2)
        /\ op.before.sr2 \in Reg
    BY <2>1, <1>t DEF want, Regs
  <2>3. rd.r = Active(chip)
    BY <2>1, <2>2, <1>t, AskedIsTrue
  <2>4. Holds(op.goal, Active(chip))
    BY <2>2, <2>3, <1>t, AskedIsHeld
  <2> QED
    BY <1>3, <1>t, <2>1, <2>4 DEF Verify
<1> QED
  BY <1>1, <1>2, <1>3

(* A call that reports success left the chip as asked, and what it reports *)
(* is in the non-volatile registers too; only a goal without a lock may be *)
(* found in a rehearsal that a restart of the CPU left in force.           *)
THEOREM ReportsTrue == Spec => ReportsAreTrue
<1>1. ASSUME IInv, [Next]_vars
      PROVE  [ReportsOk /\ (fault = "stuck" => last'.goal.region # {})
                => Holds(last'.goal, Active(chip'))]_vars
  BY <1>1, OkHolds DEF vars
<1>2. ASSUME IInv, LInv, [Next]_vars
      PROVE  [(/\ ReportsOk
               /\ last'.result = "Written" \/ last'.goal.lock \/ fault # "restart"
               /\ fault = "stuck" => last'.goal.region # {})
                => Holds(last'.goal, NonVolatile(chip'))]_vars
  <2> SUFFICES ASSUME Next, ReportsOk,
                      last'.result = "Written" \/ last'.goal.lock \/ fault # "restart",
                      fault = "stuck" => last'.goal.region # {}
               PROVE  Holds(last'.goal, NonVolatile(chip'))
    BY <1>2 DEF vars
  <2>2. /\ Holds(last'.goal, Active(chip)) /\ chip' = chip
        /\ op.pc \in {"plan", "verify"}
        /\ last'.result = "Written" => op.pc = "verify"
    BY <1>2, OkHolds
  <2>3. InForce(chip)
    <3>1. CASE last'.goal.lock
      BY <3>1, <1>2, <2>2 DEF Holds, Active, LInv, LockFreezesBoth
    <3>2. CASE last'.result = "Written" \/ fault # "restart"
      BY <3>2, <1>2, <2>2 DEF LInv, Settled
    <3> QED
      BY <3>1, <3>2
  <2>5. NonVolatile(chip).sr1 \cap (SR1_REGION_MASK \cup {SR1_SRP0})
          = Active(chip).sr1 \cap (SR1_REGION_MASK \cup {SR1_SRP0})
    BY <2>3 DEF InForce, NonVolatile, Active, SR1_BUSY, SR1_WEL, SR1_REGION_MASK, SR1_SRP0
  <2>6. /\ SR2_LOCK \in NonVolatile(chip).sr2 <=> SR2_LOCK \in Active(chip).sr2
        /\ SR2_CMP \in NonVolatile(chip).sr2 <=> SR2_CMP \in Active(chip).sr2
    BY <2>3 DEF InForce, NonVolatile, Active, SR2_LOCK, SR2_CMP, SR2_SUS
  <2> QED
    BY <2>2, <2>5, <2>6 DEF Holds
<1> QED
  BY <1>1, <1>2, InitIInv, StepIInv, InitLInv, StepLInv, PTL
    DEF Spec, ReportsAreTrue, OkIsTruthful, SuccessPersists

-----------------------------------------------------------------------------
(* A sound unit.                                                           *)

Asked(r) == protection_bits(r) = want

(* Where a call on a unit without a fault stands: what it read is what the *)
(* chip holds, and each write that is behind it took.                      *)
OnCourse ==
  /\ op.pc \in {"rehearse", "write1", "write12", "restored"}
       => /\ protection_bits(op.before) = protection_bits(Active(chip))
          /\ SR2_LOCK \notin chip.sr2
  /\ op.pc \in {"readback", "reset"}
       => /\ protection_bits(op.before) = protection_bits(NonVolatile(chip))
          /\ SR2_LOCK \notin chip.nv2
  /\ op.pc \in {"readback", "reset", "restored"} => op.sent
  /\ op.pc = "readback" => /\ protection_bits(Active(chip)).sr1 = want.sr1
                           /\ chip.sr2 \cap Checked = want.sr2 \cap Checked
  /\ op.pc \in {"reset", "restored"} => RehearsedAsPlanned
  /\ op.pc = "write2" => /\ protection_bits(Active(chip)).sr1 = want.sr1
                         /\ SR2_LOCK \notin chip.sr2
  /\ op.pc = "verify" => op.sent /\ Asked(Active(chip))

SoundUnit == fault = "none" => OnCourse

LEMMA SoundBus ==
  ASSUME fault = "none"
  PROVE  /\ \A s \in Writes : s.landed /\ s.ok
         /\ \A rd \in StableReads : rd.r = Active(chip)
         /\ \A w : Received(w) = w
BY DEF Writes, Sent, StableReads, Received

LEMMA InForceBits ==
  ASSUME NEW c \in Chips, InForce(c)
  PROVE  /\ protection_bits(Active(c)) = protection_bits(NonVolatile(c))
         /\ SR2_LOCK \in c.sr2 <=> SR2_LOCK \in c.nv2
<1>1. /\ c.sr1 \cap (SR1_REGION_MASK \cup {SR1_SRP0})
           = c.nv1 \cap (SR1_REGION_MASK \cup {SR1_SRP0})
      /\ c.sr2 \cap SR2_OWNED = c.nv2 \cap SR2_OWNED
  BY DEF InForce, SR1_REGION_MASK, SR1_SRP0, SR1_BUSY, SR1_WEL, SR2_OWNED, SR2_QE,
    SR2_CMP, SR2_LOCK, SR2_SUS
<1>2. SR2_LOCK \in c.sr2 <=> SR2_LOCK \in c.nv2
  BY DEF InForce, SR2_LOCK, SR2_SUS
<1> QED
  BY <1>1, <1>2 DEF protection_bits, Active, NonVolatile

LEMMA WantBits ==
  ASSUME TypeOK
  PROVE  /\ want \in Regs
         /\ want.sr1 \cap (SR1_REGION_MASK \cup {SR1_SRP0}) = want.sr1
         /\ want.sr1 \cap {SR1_BUSY, SR1_WEL} = {}
         /\ want.sr2 \cap SR2_OWNED = want.sr2
         /\ want.sr2 \subseteq {SR2_QE, SR2_LOCK}
<1>1. op.goal \in Goals /\ op.before.sr2 \in Reg
  BY DEF TypeOK, Regs
<1>2. /\ want \in Regs
      /\ want.sr1 \subseteq {SR1_TB, SR1_BP2, SR1_BP0}
      /\ want.sr2 \subseteq {SR2_QE, SR2_LOCK}
  BY <1>1, TargetBits DEF want
<1>3. want.sr1 \cap (SR1_REGION_MASK \cup {SR1_SRP0}) = want.sr1
  BY <1>2 DEF SR1_TB, SR1_BP2, SR1_BP0, SR1_REGION_MASK, SR1_SRP0
<1>4. want.sr1 \cap {SR1_BUSY, SR1_WEL} = {}
  BY <1>2 DEF SR1_TB, SR1_BP2, SR1_BP0, SR1_BUSY, SR1_WEL
<1>5. want.sr2 \cap SR2_OWNED = want.sr2
  BY <1>2 DEF SR2_OWNED
<1> QED
  BY <1>2, <1>3, <1>4, <1>5

LEMMA SoundPlanStep ==
  ASSUME IInv, fault = "none", PlanWrite PROVE OnCourse'
<1>t. op \in Ops /\ chip \in Chips /\ op.pc = "plan" /\ UNCHANGED <<part, chip>>
  BY DEF IInv, TypeOK, Chips, Ops, PlanWrite
<1>1. PICK rd \in StableReads, busy \in {{}, {SR1_BUSY}} :
        LET r == [rd.r EXCEPT !.sr1 = @ \cup busy]
            ks == ToWrite(part, op.goal, r)
        IN  \/ op' = Idle
            \/ /\ rd.ok /\ plan(part, op.goal, r) = "Write"
               /\ op' = [op EXCEPT
                    !.before = r,
                    !.pc = IF recipe(part).method = "Combined" THEN "rehearse"
                           ELSE IF 1 \in ks THEN "write1" ELSE "write2"]
  BY DEF PlanWrite, Return
<1>2. CASE op' = Idle
  BY <1>2 DEF Idle, OnCourse
<1>3. CASE op' # Idle
  <2> DEFINE r == [rd.r EXCEPT !.sr1 = @ \cup busy]
  <2>r. /\ rd.r \in Regs /\ r.sr2 = rd.r.sr2 /\ r.sr1 = rd.r.sr1 \cup busy
        /\ r \in [sr1 : SUBSET (Bits \cup {SR1_BUSY}), sr2 : Reg]
    BY BusTypes DEF IInv, Regs, Reg
  <2>1. /\ plan(part, op.goal, r) = "Write"
        /\ op' = [op EXCEPT
             !.before = r,
             !.pc = IF recipe(part).method = "Combined" THEN "rehearse"
                    ELSE IF 1 \in ToWrite(part, op.goal, r) THEN "write1" ELSE "write2"]
    BY <1>1, <1>3
  <2>2. /\ op'.goal = op.goal /\ op'.before = r
        /\ op'.pc = IF recipe(part).method = "Combined" THEN "rehearse"
                    ELSE IF 1 \in ToWrite(part, op.goal, r) THEN "write1" ELSE "write2"
    <3> HIDE DEF r
    <3> QED
      BY <2>1, <1>t DEF Ops
  <2>3. SR1_BUSY \notin r.sr1 /\ SR2_LOCK \notin r.sr2
    BY <2>1, PlannedWrite
  <2>4. rd.r = Active(chip)
    BY SoundBus
  <2>a. r.sr1 = chip.sr1 \cup busy /\ r.sr2 = chip.sr2
    BY <2>r, <2>4 DEF Active
  <2>b. r.sr1 \cap (SR1_REGION_MASK \cup {SR1_SRP0})
           = chip.sr1 \cap (SR1_REGION_MASK \cup {SR1_SRP0})
    BY <2>a DEF SR1_BUSY, SR1_REGION_MASK, SR1_SRP0
  <2>5. protection_bits(r) = protection_bits(Active(chip)) /\ SR2_LOCK \notin chip.sr2
    BY <2>a, <2>b, <2>3 DEF protection_bits, Active
  <2>6. op'.pc = "write2" => protection_bits(r).sr1 = target(op.goal, r.sr2).sr1
    BY <2>2 DEF ToWrite
  <2>7. want' = target(op.goal, r.sr2)
    BY <2>2 DEF want
  <2> HIDE DEF r
  <2>8. op'.pc \in {"rehearse", "write1", "write2"}
    BY <2>2
  <2> QED
    BY <1>t, <2>2, <2>5, <2>6, <2>7, <2>8 DEF OnCourse
<1> QED
  BY <1>1, <1>2, <1>3

LEMMA SoundRehearsalStep ==
  ASSUME IInv, LInv, LInv', OnCourse, fault = "none", TypeOK',
         Rehearse \/ ReadRehearsal \/ ResetChip
  PROVE  OnCourse'
<1>t. /\ op \in Ops /\ chip \in Chips /\ chip' \in Chips
      /\ op'.goal = op.goal /\ op'.before = op.before /\ want' = want
      /\ fault' = fault
  BY DEF IInv, TypeOK, Chips, Ops, Rehearse, ReadRehearsal, ResetChip, Goto, want
<1>n. chip'.nv1 = chip.nv1 /\ chip'.nv2 = chip.nv2
  <2>1. CASE ResetChip
    <3>1. SR2_LOCK \notin chip.nv2
      BY <2>1 DEF OnCourse, ResetChip
    <3> QED
      BY <2>1, <3>1, <1>t DEF ResetChip, SoftwareReset, KeptByReset, Chips
  <2>2. CASE Rehearse \/ ReadRehearsal
    BY <2>2, <1>t DEF Rehearse, ReadRehearsal, VolatileWrite, Ignored, Chips
  <2> QED
    BY <2>1, <2>2
<1>1. CASE Rehearse
  <2>1. /\ op.pc = "rehearse" /\ op'.pc = "readback" /\ op'.sent
        /\ chip' = VolatileWrite(chip, want)
    BY <1>1, <1>t, SoundBus DEF Rehearse, Ops
  <2>2. /\ protection_bits(op.before) = protection_bits(Active(chip))
        /\ SR2_LOCK \notin chip.sr2
    BY <2>1 DEF OnCourse
  <2>3. InForce(chip)
    BY <2>1 DEF LInv, Settled
  <2>4. /\ protection_bits(op.before) = protection_bits(NonVolatile(chip'))
        /\ SR2_LOCK \notin chip'.nv2
    BY <1>t, <1>n, <2>2, <2>3, InForceBits DEF NonVolatile
  <2>5. /\ chip'.sr1 = (chip.sr1 \cap {SR1_BUSY, SR1_WEL})
                         \cup (want.sr1 \ {SR1_BUSY, SR1_WEL})
        /\ chip'.sr2 = (chip.sr2 \cap NoVolatileCopy) \cup (want.sr2 \ NoVolatileCopy)
    BY <1>t, <2>1, <2>2 DEF VolatileWrite, Chips
  <2>6. chip'.sr1 \cap (SR1_REGION_MASK \cup {SR1_SRP0}) = want.sr1
    BY <2>5, WantBits DEF IInv, SR1_REGION_MASK, SR1_SRP0, SR1_BUSY, SR1_WEL
  <2>7. chip'.sr2 \cap Checked = want.sr2 \cap Checked
    BY <2>5 DEF NoVolatileCopy, Checked, SR2_SUS, SR2_LOCK, SR2_LB, SR2_QE, SR2_CMP
  <2>8. protection_bits(Active(chip')).sr1 = want.sr1
    BY <2>6 DEF protection_bits, Active
  <2> QED
    BY <1>t, <2>1, <2>4, <2>7, <2>8 DEF OnCourse
<1>2. CASE ReadRehearsal
  <2>1. /\ op.pc = "readback" /\ op'.pc = "reset" /\ op'.sent = op.sent
        /\ op'.rehearsed.r = Active(chip) /\ chip' = chip
    BY <1>2, <1>t, SoundBus DEF ReadRehearsal, Ops
  <2>2. RehearsedAsPlanned'
    BY <1>t, <2>1 DEF OnCourse, RehearsedAsPlanned, Active
  <2> QED
    BY <1>t, <2>1, <2>2 DEF OnCourse
<1>3. CASE ResetChip
  <2>1. /\ op.pc = "reset" /\ op'.pc = "restored" /\ op'.sent = op.sent
        /\ op'.rehearsed = op.rehearsed
    BY <1>3, <1>t DEF ResetChip, Goto, Ops
  <2>2. InForce(chip')
    BY <1>t, <2>1 DEF LInv, Settled
  <2>3. /\ protection_bits(op.before) = protection_bits(Active(chip'))
        /\ SR2_LOCK \notin chip'.sr2
    BY <1>t, <1>n, <2>1, <2>2, InForceBits DEF OnCourse, NonVolatile
  <2>4. RehearsedAsPlanned'
    BY <1>t, <2>1 DEF OnCourse, RehearsedAsPlanned
  <2> QED
    BY <1>t, <2>1, <2>3, <2>4 DEF OnCourse
<1> QED
  BY <1>1, <1>2, <1>3

LEMMA SoundWriteStep ==
  ASSUME IInv, OnCourse, fault = "none", WriteBoth \/ WriteSr1 \/ WriteSr2
  PROVE  OnCourse'
<1>1. PICK ks, pc, next :
        /\ ks \in {{1, 2}, {1}, {2}} /\ WriteRegs(ks, pc, next)
        /\ \/ ks = {1, 2} /\ pc = "write12" /\ next = "verify"
           \/ ks = {1} /\ pc = "write1" /\ next = IF 2 \in regs THEN "write2" ELSE "verify"
           \/ ks = {2} /\ pc = "write2" /\ next = "verify"
  BY DEF WriteBoth, WriteSr1, WriteSr2
<1>t. op \in Ops /\ chip \in Chips /\ want \in Regs
  BY WantBits DEF IInv, TypeOK, Chips, Ops
<1>2. /\ op.pc = pc /\ op'.pc = next /\ op'.sent
      /\ op'.goal = op.goal /\ op'.before = op.before /\ want' = want
      /\ chip' = NvWrite(chip, ks, want)
  BY <1>1, <1>t, SoundBus DEF WriteRegs, Ops, want
<1>3. SR2_LOCK \notin chip.sr2
  BY <1>1, <1>2 DEF OnCourse
<1>4. /\ 1 \in ks => chip'.sr1 \ {SR1_BUSY, SR1_WEL} = want.sr1 \ {SR1_BUSY, SR1_WEL}
      /\ 1 \notin ks => chip'.sr1 = chip.sr1
      /\ 2 \in ks => chip'.sr2 \ {SR2_SUS} = (want.sr2 \ {SR2_SUS}) \cup (chip.nv2 \cap SR2_LB)
      /\ 2 \notin ks => chip'.sr2 = chip.sr2
  BY <1>t, <1>2, <1>3, LandedWrite
<1>5. /\ 1 \in ks => protection_bits(Active(chip')).sr1 = want.sr1
      /\ 1 \notin ks => protection_bits(Active(chip')).sr1 = protection_bits(Active(chip)).sr1
  <2>1. 1 \in ks => chip'.sr1 \cap (SR1_REGION_MASK \cup {SR1_SRP0}) = want.sr1
    BY <1>4, WantBits DEF IInv, SR1_REGION_MASK, SR1_SRP0, SR1_BUSY, SR1_WEL
  <2> QED
    BY <2>1, <1>4 DEF protection_bits, Active
<1>6. /\ 2 \in ks => protection_bits(Active(chip')).sr2 = want.sr2
      /\ 2 \notin ks => protection_bits(Active(chip')).sr2 = protection_bits(Active(chip)).sr2
  <2>1. 2 \in ks => chip'.sr2 \cap SR2_OWNED = want.sr2
    BY <1>4, WantBits DEF IInv, SR2_OWNED, SR2_SUS, SR2_LB, SR2_QE, SR2_LOCK, SR2_CMP
  <2> QED
    BY <2>1, <1>4 DEF protection_bits, Active
<1>w. protection_bits(Active(chip')) = [sr1 |-> protection_bits(Active(chip')).sr1,
                                        sr2 |-> protection_bits(Active(chip')).sr2]
  BY DEF protection_bits
<1>v. want = [sr1 |-> want.sr1, sr2 |-> want.sr2]
  BY <1>t DEF Regs
<1>7. CASE next = "verify"
  <2>1. protection_bits(Active(chip')).sr1 = want.sr1
    BY <1>1, <1>2, <1>5 DEF OnCourse
  <2>2. protection_bits(Active(chip')).sr2 = want.sr2
    <3>1. CASE 2 \in ks
      BY <3>1, <1>6
    <3>2. CASE 2 \notin ks
      <4>1. pc = "write1" /\ 2 \notin regs
        BY <3>2, <1>1, <1>7
      <4>2. part # "S25FL132K"
        BY <4>1, <1>2 DEF IInv, ByMethod
      <4>3. protection_bits(op.before).sr2 = want.sr2
        BY <4>1, <4>2 DEF regs, ToWrite, recipe, want
      <4> QED
        BY <4>1, <4>3, <3>2, <1>2, <1>6 DEF OnCourse
    <3> QED
      BY <3>1, <3>2
  <2>3. protection_bits(Active(chip')) = want
    BY <2>1, <2>2, <1>w, <1>v
  <2> QED
    BY <1>2, <1>7, <2>3 DEF OnCourse, Asked
<1>8. CASE next = "write2"
  <2>1. ks = {1} /\ chip'.sr2 = chip.sr2
    BY <1>1, <1>4, <1>8
  <2>2. protection_bits(Active(chip')).sr1 = want.sr1
    BY <2>1, <1>5
  <2> QED
    BY <1>2, <1>3, <1>8, <2>1, <2>2 DEF OnCourse
<1> QED
  BY <1>1, <1>7, <1>8

LEMMA StepSoundUnit == IInv /\ LInv /\ SoundUnit /\ [Next]_vars => SoundUnit'
<1> SUFFICES ASSUME IInv, LInv, SoundUnit, [Next]_vars, fault' = "none"
             PROVE  OnCourse'
  BY DEF SoundUnit
<1>1. fault = "none" /\ OnCourse
  <2>1. fault' = fault
    BY DEF Next, Step, Begin, PlanWrite, Rehearse, ReadRehearsal, ResetChip,
      CheckRestored, WriteBoth, WriteSr1, WriteSr2, WriteRegs, Verify, PowerCycle,
      CpuReset, Reboot, LeaveStatus, unit, vars
  <2> QED
    BY <2>1 DEF SoundUnit
<1>2. TypeOK' /\ LInv'
  BY TypeStep, StepLInv DEF IInv
<1>3. CASE CheckRestored
  <2>t. op \in Ops
    BY DEF IInv, TypeOK, Ops
  <2>1. \/ op'.pc = "idle"
        \/ /\ op.pc = "restored" /\ op' = [op EXCEPT !.pc = "write12"] /\ chip' = chip
    BY <1>3 DEF CheckRestored, Fail, Return, Goto, Idle
  <2>2. CASE op'.pc = "idle"
    BY <2>2 DEF OnCourse
  <2>3. CASE op'.pc # "idle"
    <3>1. /\ op.pc = "restored" /\ op'.pc = "write12" /\ op'.before = op.before
          /\ chip' = chip
      BY <2>t, <2>1, <2>3 DEF Ops
    <3> QED
      BY <3>1, <1>1 DEF OnCourse
  <2> QED
    BY <2>2, <2>3
<1>4. CASE Verify \/ PowerCycle \/ CpuReset
  <2>1. op'.pc = "idle"
    BY <1>4 DEF Verify, Fail, Return, PowerCycle, CpuReset, Reboot, Idle
  <2> QED
    BY <2>1 DEF OnCourse
<1>5. ASSUME NEW goal \in Goals, Begin(goal) PROVE OnCourse'
  <2>1. Idle.pc = "idle" /\ [Idle EXCEPT !.pc = "plan", !.goal = goal].pc = "plan"
    BY DEF Idle
  <2>2. op' = Idle \/ op' = [Idle EXCEPT !.pc = "plan", !.goal = goal]
    BY <1>5 DEF Begin, Return
  <2>3. op'.pc \in {"idle", "plan"}
    BY <2>1, <2>2
  <2> QED
    BY <2>3 DEF OnCourse
<1>7. CASE LeaveStatus
  BY <1>7 DEF LeaveStatus, OnCourse
<1>6. CASE UNCHANGED vars
  BY <1>1, <1>6 DEF vars, OnCourse, want, RehearsedAsPlanned, Asked
<1> QED
  BY <1>1, <1>2, <1>3, <1>4, <1>5, <1>6, <1>7, SoundPlanStep, SoundRehearsalStep, SoundWriteStep
    DEF Next, Step

(* A write that was not verified stops the writes of this boot, and        *)
(* nothing else does: a unit without a fault is only ever stopped by two   *)
(* reads that disagree, never by a rehearsal or a write that did what it   *)
(* should, whatever WEL and suspend bits other code left.                  *)
THEOREM OnlyFaultsStop == Spec => OnlyFaultsStopWrites
<1>1. Init => SoundUnit
  BY DEF Init, SoundUnit, OnCourse, Idle
<1>2. ASSUME IInv, LInv, SoundUnit, [Next]_vars
      PROVE  [fault = "none" /\ ~faulted /\ faulted' => last'.result = "UnstableRead"]_vars
  <2> SUFFICES ASSUME Next, fault = "none", ~faulted, faulted'
               PROVE  last'.result = "UnstableRead"
    BY <1>2 DEF vars
  <2>1. CheckRestored \/ Verify
    BY DEF Next, Step, Begin, PlanWrite, Rehearse, ReadRehearsal, ResetChip,
      WriteBoth, WriteSr1, WriteSr2, WriteRegs, PowerCycle, CpuReset, Reboot, LeaveStatus
  <2>2. CASE CheckRestored
    <3>1. RehearsedAsPlanned /\ protection_bits(op.before) = protection_bits(Active(chip))
      BY <1>2, <2>2 DEF SoundUnit, OnCourse, CheckRestored
    <3>2. PICK rd \in StableReads :
            LET restored == protection_bits(rd.r) = protection_bits(op.before)
            IN  \/ Fail("UnstableRead")
                \/ rd.ok /\ ~restored /\ Fail("VerifyFailed")
                \/ rd.ok /\ ~RehearsedAsPlanned /\ Fail("PreflightFailed")
                \/ UNCHANGED faulted
      BY <2>2 DEF CheckRestored
    <3>3. rd.r = Active(chip)
      BY SoundBus
    <3>4. Fail("UnstableRead") => last'.result = "UnstableRead"
      BY DEF Fail, Return
    <3>5. faulted' # faulted
      OBVIOUS
    <3> QED
      BY <3>1, <3>2, <3>3, <3>4, <3>5
  <2>3. CASE Verify
    <3>1. op.sent /\ protection_bits(Active(chip)) = want
      BY <1>2, <2>3 DEF SoundUnit, OnCourse, Verify, Asked
    <3>2. PICK rd \in StableReads :
            LET verified == op.sent /\ protection_bits(rd.r) = want
            IN  \/ Fail("UnstableRead")
                \/ ~verified /\ Fail("VerifyFailed")
                \/ UNCHANGED faulted
      BY <2>3 DEF Verify
    <3>3. rd.r = Active(chip)
      BY SoundBus
    <3>4. Fail("UnstableRead") => last'.result = "UnstableRead"
      BY DEF Fail, Return
    <3>5. faulted' # faulted
      OBVIOUS
    <3> QED
      BY <3>1, <3>2, <3>3, <3>4, <3>5
  <2> QED
    BY <2>1, <2>2, <2>3
<1> QED
  BY <1>1, <1>2, FaultStops, InitIInv, StepIInv, InitLInv, StepLInv, StepSoundUnit, PTL
    DEF Spec, OnlyFaultsStopWrites, NoFalseAlarm
====
