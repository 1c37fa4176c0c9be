---- MODULE TimeDriverProofs ----
(***************************************************************************)
(* Proofs about TimeDriver, for every width of the counter, every ratio of *)
(* ticks to microseconds, and any number of tasks: the clock never runs    *)
(* back, it is exact as long as it is read once in a wrap, and from the    *)
(* first alarm on the alarm sees to that; no wake-up is lost and no alarm  *)
(* is early, however the two conversions round.                            *)
(***************************************************************************)
EXTENDS TimeDriver, WellFoundedInduction, TLAPS

-----------------------------------------------------------------------------
(* Arithmetic.                                                             *)

LEMMA Division ==
  ASSUME NEW a \in Nat, NEW b \in Nat \ {0}
  PROVE  /\ a \div b \in Nat /\ a % b \in 0 .. b - 1
         /\ a = (b * (a \div b)) + (a % b)
OBVIOUS

(* What extends a count is the least time it may stand for, from the last  *)
(* one on.                                                                 *)
LEMMA ExtendIsNext ==
  ASSUME NEW l \in Nat, NEW t \in Nat, l <= t
  PROVE  LET v == extend(l, t % Wrap)
         IN  /\ v \in Nat /\ l <= v /\ v <= t
             /\ t - l < Wrap => v = t
<1> DEFINE q == l \div Wrap
           r == l % Wrap
           u == t \div Wrap
           c == t % Wrap
<1>1. Wrap \in Nat \ {0}
  BY TimeMathAssumption
<1>2. /\ q \in Nat /\ r \in 0 .. Wrap - 1 /\ l = (Wrap * q) + r
      /\ u \in Nat /\ c \in 0 .. Wrap - 1 /\ t = (Wrap * u) + c
  BY <1>1, Division
<1>3. extend(l, c) = (IF c < r THEN q + 1 ELSE q) * Wrap + c
  BY DEF extend
<1> HIDE DEF q, r, u, c
<1>4. /\ Wrap * q \in Nat /\ Wrap * u \in Nat
      /\ q * Wrap = Wrap * q /\ (q + 1) * Wrap = (Wrap * q) + Wrap
  BY <1>1, <1>2
<1>5. /\ u < q => (Wrap * u) + Wrap <= Wrap * q
      /\ u > q => (Wrap * q) + Wrap <= Wrap * u
      /\ u > q + 1 => (Wrap * q) + Wrap + Wrap <= Wrap * u
  <2>1. \A a, b \in Nat : a <= b => Wrap * a <= Wrap * b
    BY <1>1
  <2>2. Wrap * (u + 1) = (Wrap * u) + Wrap /\ Wrap * (q + 1) = (Wrap * q) + Wrap
        /\ Wrap * (q + 2) = (Wrap * q) + Wrap + Wrap
    BY <1>1, <1>2
  <2> QED BY <2>1, <2>2, <1>2
<1>6. u < q \/ u = q \/ u = q + 1 \/ u > q + 1
  BY <1>2
<1>7. ~(u < q)
  BY <1>1, <1>2, <1>4, <1>5
<1> QED BY <1>1, <1>2, <1>3, <1>4, <1>5, <1>6, <1>7 DEF c

LEMMA ProductIsNat ==
  ASSUME NEW a \in Nat, NEW b \in Nat
  PROVE  a * b \in Nat
OBVIOUS

LEMMA MicrosecondsAreNat ==
  ASSUME NEW ticks \in Nat
  PROVE  ticks_to_us(ticks) \in Nat
<1>1. ticks \div num \in Nat /\ ticks % num \in Nat
  BY TimeMathAssumption, Division
<1>2. (ticks \div num) * den \in Nat /\ (ticks % num) * den \in Nat
  BY <1>1, ProductIsNat, TimeMathAssumption
<1>3. ((ticks % num) * den) \div num \in Nat
  BY <1>2, Division, TimeMathAssumption
<1> QED BY <1>2, <1>3 DEF ticks_to_us

LEMMA TicksAreNat ==
  ASSUME NEW us \in Nat
  PROVE  us_to_ticks(us) \in Nat
<1>1. us \div den \in Nat /\ us % den \in Nat
  BY TimeMathAssumption, Division
<1>2. (us \div den) * num \in Nat /\ (us % den) * num \in Nat
  BY <1>1, ProductIsNat, TimeMathAssumption
<1>3. ((us % den) * num) + den - 1 \in Nat
  BY <1>2, TimeMathAssumption
<1>4. div_ceil((us % den) * num, den) \in Nat
  BY <1>3, Division, TimeMathAssumption DEF div_ceil
<1> QED BY <1>2, <1>4 DEF us_to_ticks

LEMMA ArmIsNat == max_arm_ticks \in Nat
<1>1. num \div den \in Nat
  BY TimeMathAssumption, Division
<1> QED BY <1>1, ProductIsNat, TimeMathAssumption DEF max_arm_ticks

LEMMA LeastOfNats ==
  ASSUME NEW S, S \subseteq Nat, S # {}
  PROVE  \E e \in S : \A x \in S : e <= x
<1> DEFINE Less == OpToRel(<, Nat)
<1>1. IsWellFoundedOn(Less, Nat)
  BY NatLessThanWellFounded
<1>2. \A x, y \in Nat : x < y => <<x, y>> \in Less
  BY DEF OpToRel
<1> HIDE DEF Less
<1>3. PICK e \in S : \A x \in S : <<x, e>> \notin Less
  BY <1>1, WFMin
<1>4. \A x \in S : e <= x
  <2> TAKE x \in S
  <2>1. e \in Nat /\ x \in Nat /\ ~(x < e)
    BY <1>2, <1>3
  <2> QED BY <2>1
<1> QED BY <1>4

-----------------------------------------------------------------------------
(* A critical section of the task is not interrupted, and an alarm is      *)
(* armed for some ticks.                                                   *)
OneAtATime == pc["task"] \in CriticalSection => pc["irq"] = "idle"
DeltaIsSome == \A c \in Contexts : pc[c] = "start" => delta > 0

(* The times of the task's read: what it loaded had been published, and    *)
(* nothing that is published is ahead of the counter.                      *)
ReadInOrder ==
  /\ newest <= LAST_RAW /\ LAST_RAW <= time
  /\ pc["task"] \in {"load", "count", "publish"} => floor <= newest /\ began <= time
  /\ pc["task"] = "count" => floor <= last /\ last <= LAST_RAW
  /\ pc["task"] \in {"publish", "return"} =>
       /\ floor <= val /\ val <= time
       /\ last <= time /\ (time - last < Wrap => began <= val)
  /\ pc["task"] = "publish" => last < val

Inv == TypeOK /\ OneAtATime /\ DeltaIsSome /\ ReadInOrder

LEMMA TimesAreNat ==
  /\ Never \in Nat /\ Deadlines \cup {Never} \subseteq Nat
  /\ Wrap \in Nat /\ Wrap > 0 /\ max_arm_ticks \in Nat
BY TimeDriverAssumption, TimeMathAssumption, ArmIsNat

(* A read of the clock that nobody interrupts.                             *)
LEMMA ReadNowInOrder ==
  ASSUME TypeOK, ReadInOrder
  PROVE  /\ raw_ostm_ticks \in Nat /\ ticks_to_us(raw_ostm_ticks) \in Nat
         /\ LAST_RAW <= raw_ostm_ticks /\ raw_ostm_ticks <= time
         /\ time - LAST_RAW < Wrap => raw_ostm_ticks = time
         /\ ReadNow => /\ LAST_RAW' \in Nat /\ newest' \in Nat
                       /\ newest <= newest' /\ newest' <= LAST_RAW'
                       /\ LAST_RAW <= LAST_RAW' /\ LAST_RAW' <= time
<1>1. time \in Nat /\ LAST_RAW \in Nat /\ newest \in Nat
      /\ newest <= LAST_RAW /\ LAST_RAW <= time
  BY DEF TypeOK, ReadInOrder
<1> DEFINE v == extend(LAST_RAW, count)
<1>2. v \in Nat /\ LAST_RAW <= v /\ v <= time /\ (time - LAST_RAW < Wrap => v = time)
  BY <1>1, ExtendIsNext DEF count
<1>3. raw_ostm_ticks = v
  BY <1>1, <1>2 DEF raw_ostm_ticks, Later
<1> HIDE DEF v
<1>4. ticks_to_us(raw_ostm_ticks) \in Nat
  BY <1>2, <1>3, MicrosecondsAreNat
<1> QED BY <1>1, <1>2, <1>3, <1>4 DEF ReadNow, Later

LEMMA ExpireTypes ==
  ASSUME TypeOK, NEW us, ExpireAt(us)
  PROVE  /\ queue' \in [Tasks -> Deadlines \cup {Never}]
         /\ next' \in Deadlines \cup {Never}
<1>1. queue' \in [Tasks -> Deadlines \cup {Never}]
  BY DEF ExpireAt, Expired, TypeOK
<1> DEFINE S == {queue'[t] : t \in Tasks}
<1>2. S # {} /\ S \subseteq Deadlines \cup {Never}
  BY <1>1, TimeDriverAssumption
<1>3. \E e \in S : \A x \in S : e <= x
  BY <1>2, LeastOfNats, TimesAreNat
<1>4. \E e \in S : \A t \in Tasks : e <= queue'[t]
  BY <1>3
<1>5. Earliest(queue') \in S
  BY <1>4 DEF Earliest
<1> QED BY <1>1, <1>2, <1>5 DEF ExpireAt

LEMMA DeltaTypes ==
  ASSUME TypeOK, NEW us \in Nat, next > us
  PROVE  delta_ostm(us) \in 0 .. max_arm_ticks
<1>1. next \in Nat /\ next - us \in Nat
  BY TimesAreNat DEF TypeOK
<1>2. us_to_ticks(next - us) \in Nat
  BY <1>1, TicksAreNat
<1> QED BY <1>2, TimesAreNat DEF delta_ostm

-----------------------------------------------------------------------------
Labels == {"idle", "load", "count", "publish", "return", "stop", "now", "handle"}
          \cup CriticalSection

LEMMA InitInv == Init => Inv
<1> SUFFICES ASSUME Init PROVE Inv
  OBVIOUS
<1>1. TypeOK
  <2>1. queue \in [Tasks -> Deadlines \cup {Never}] /\ next \in Deadlines \cup {Never}
    BY DEF Init
  <2>2. pc \in [Contexts -> {"idle"}]
    BY DEF Init
  <2>3. alarm \in SUBSET [at : Nat, every : 1 .. max_arm_ticks] /\ delta \in 0 .. max_arm_ticks
    BY TimesAreNat DEF Init
  <2> QED BY <2>1, <2>2, <2>3 DEF Init, TypeOK
<1>2. OneAtATime /\ DeltaIsSome
  BY DEF Init, OneAtATime, DeltaIsSome, Contexts, CriticalSection
<1>3. ReadInOrder
  BY DEF Init, ReadInOrder, Contexts
<1> QED BY <1>1, <1>2, <1>3 DEF Inv

LEMMA TypesStep ==
  ASSUME Inv, [Next]_vars
  PROVE  TypeOK'
<1> USE DEF TypeOK, Labels
<1>i. TypeOK /\ DeltaIsSome /\ ReadInOrder
  BY DEF Inv
<1>n. /\ Never \in Nat /\ Deadlines \cup {Never} \subseteq Nat
      /\ Wrap \in Nat /\ Wrap > 0 /\ max_arm_ticks \in Nat
  BY TimesAreNat
<1>p. \A c \in Contexts, label \in Labels :
        [pc EXCEPT ![c] = label] \in [Contexts -> Labels]
  BY <1>i DEF Labels
<1>c. /\ "task" \in Contexts /\ "irq" \in Contexts
      /\ CriticalSection = {"expire", "arm", "start"}
  BY DEF Contexts, CriticalSection
<1>1. CASE Tick
  <2>1. pending' \in SUBSET {0, 1}
    BY <1>1, <1>i DEF Tick
  <2>2. time' \in Nat /\ held' \in Nat /\ lost' \in BOOLEAN
    BY <1>1, <1>i DEF Tick
  <2>3. alarm' \in SUBSET [at : Nat, every : 1 .. max_arm_ticks]
    <3>1. \A a \in alarm : a \in [at : Nat, every : 1 .. max_arm_ticks]
      BY <1>i
    <3>2. \A a \in [at : Nat, every : 1 .. max_arm_ticks] :
            [a EXCEPT !.at = @ + a.every] \in [at : Nat, every : 1 .. max_arm_ticks]
      BY <1>n
    <3> QED BY <1>1, <3>1, <3>2 DEF Tick
  <2> QED BY <1>1, <1>i, <2>1, <2>2, <2>3 DEF Tick, clock, call, timers
<1>2. CASE OtherHandlerReads
  BY <1>2, <1>i, ReadNowInOrder DEF OtherHandlerReads, call, timers, gic
<1>3. CASE Call
  BY <1>3, <1>i, <1>p, <1>c DEF Call, Goto, clock, timers, gic
<1>4. CASE Load
  BY <1>4, <1>i, <1>p, <1>c DEF Load, Goto, clock, timers, gic
<1>5. CASE Count
  <2>1. last \in Nat /\ count \in Nat /\ extend(last, count) \in Int
    <3>1. last \in Nat /\ count \in Nat
      BY <1>i, <1>n, Division DEF count
    <3>2. last \div Wrap \in Nat
      BY <3>1, <1>n, Division
    <3>3. (last \div Wrap) * Wrap \in Nat /\ ((last \div Wrap) + 1) * Wrap \in Nat
      BY <3>2, <1>n, ProductIsNat
    <3> QED BY <3>1, <3>3 DEF extend
  <2>2. val' \in Nat /\ newest' \in Nat
    BY <1>5, <1>i, <2>1 DEF Count, Return, Later
  <2>3. pc' = [pc EXCEPT !["task"] = "return"] \/ pc' = [pc EXCEPT !["task"] = "publish"]
    BY <1>5 DEF Count, Return, Goto
  <2> QED BY <1>5, <1>i, <1>p, <1>c, <2>2, <2>3 DEF Count, timers, gic
<1>6. CASE Publish
  <2>1. val' \in Nat /\ newest' \in Nat /\ LAST_RAW' \in Nat /\ last' \in Nat
    BY <1>6, <1>i DEF Publish, Return, Later, clock
  <2>2. pc' = [pc EXCEPT !["task"] = "return"] \/ pc' = [pc EXCEPT !["task"] = "load"]
    BY <1>6 DEF Publish, Return, Goto
  <2> QED BY <1>6, <1>i, <1>p, <1>c, <2>1, <2>2 DEF Publish, timers, gic
<1>7. CASE Answered
  BY <1>7, <1>i, <1>p, <1>c DEF Answered, Goto, clock, timers, gic
<1>8. ASSUME NEW t \in Tasks, NEW at \in Deadlines, ScheduleWake(t, at) PROVE TypeOK'
  BY <1>8, <1>i, <1>p, <1>c DEF ScheduleWake, Goto, clock, call, gic
<1>9. ASSUME NEW c \in Contexts, Expire(c) PROVE TypeOK'
  BY <1>9, <1>i, <1>p, <1>c, ReadNowInOrder, ExpireTypes DEF Expire, Goto, call, gic
<1>10. ASSUME NEW c \in Contexts, TrySetAlarm(c) PROVE TypeOK'
  <2>1. delta' \in 0 .. max_arm_ticks
    BY <1>10, <1>i, ReadNowInOrder, DeltaTypes DEF TrySetAlarm
  <2>2. pc' = [pc EXCEPT ![c] = "expire"] \/ pc' = [pc EXCEPT ![c] = "start"]
    BY <1>10 DEF TrySetAlarm, Goto
  <2> QED BY <1>10, <1>i, <1>p, <1>c, <2>1, <2>2, ReadNowInOrder DEF TrySetAlarm, call, gic
<1>11. ASSUME NEW c \in Contexts, StartAlarm(c) PROVE TypeOK'
  <2>1. delta \in 1 .. max_arm_ticks
    BY <1>11, <1>i, <1>n DEF StartAlarm, At, DeltaIsSome
  <2>2. alarm' \in SUBSET [at : Nat, every : 1 .. max_arm_ticks]
    BY <1>11, <1>i, <1>n, <2>1 DEF StartAlarm
  <2> QED BY <1>11, <1>i, <1>p, <1>c, <1>n, <2>2 DEF StartAlarm, Goto, clock, call
<1>12. CASE on_overflow
  BY <1>12, <1>i, ReadNowInOrder DEF on_overflow, Taken, call, timers
<1>13. CASE on_alarm
  BY <1>13, <1>i, <1>p, <1>c DEF on_alarm, Taken, Goto, clock, call, timers
<1>14. CASE StopAlarm
  BY <1>14, <1>i, <1>p, <1>c DEF StopAlarm, Goto, clock, call, timers
<1>15. CASE ReadAlarmTime
  BY <1>15, <1>i, <1>p, <1>c, ReadNowInOrder DEF ReadAlarmTime, Goto, call, timers, gic
<1>16. CASE HandleAlarm
  BY <1>16, <1>i, <1>p, <1>c, ExpireTypes DEF HandleAlarm, Goto, clock, call, gic
<1>17. CASE Stop
  BY <1>17, <1>i DEF Stop, clock, call, timers
<1>18. CASE UNCHANGED vars
  BY <1>18, <1>i DEF vars, clock, call, timers, gic
<1> QED BY <1>1, <1>2, <1>3, <1>4, <1>5, <1>6, <1>7, <1>8, <1>9, <1>10, <1>11, <1>12,
           <1>13, <1>14, <1>15, <1>16, <1>17, <1>18 DEF Next

(* The task is out of its critical section as long as a handler runs.      *)
LEMMA CriticalStep ==
  ASSUME Inv, [Next]_vars
  PROVE  OneAtATime' /\ DeltaIsSome'
<1>i. TypeOK /\ OneAtATime /\ DeltaIsSome /\ ReadInOrder
  BY DEF Inv
<1>p. /\ pc \in [Contexts -> Labels] /\ Contexts = {"task", "irq"}
      /\ CriticalSection = {"expire", "arm", "start"}
  BY <1>i DEF TypeOK, Labels, Contexts, CriticalSection
<1> DEFINE Same == UNCHANGED <<pc, delta>>
<1>1. ASSUME Same PROVE OneAtATime' /\ DeltaIsSome'
  BY <1>1, <1>i DEF OneAtATime, DeltaIsSome
<1>2. ASSUME NEW label \in {"idle", "load", "count", "publish", "return"},
             Goto("task", label), UNCHANGED delta
      PROVE  OneAtATime' /\ DeltaIsSome'
  BY <1>2, <1>i, <1>p DEF Goto, OneAtATime, DeltaIsSome
<1>3. ASSUME NEW label \in {"stop", "now", "handle", "arm"}, Goto("irq", label),
             UNCHANGED delta, pc["task"] \notin CriticalSection
      PROVE  OneAtATime' /\ DeltaIsSome'
  BY <1>3, <1>i, <1>p DEF Goto, OneAtATime, DeltaIsSome
<1>4. CASE Tick \/ OtherHandlerReads \/ on_overflow \/ Stop \/ UNCHANGED vars
  BY <1>1, <1>4 DEF Tick, OtherHandlerReads, on_overflow, Stop, vars, timers
<1>5. CASE Call \/ Load \/ Count \/ Publish \/ Answered
  BY <1>2, <1>5 DEF Call, Load, Count, Publish, Answered, Return, timers
<1>6. ASSUME NEW t \in Tasks, NEW at \in Deadlines, ScheduleWake(t, at)
      PROVE  OneAtATime' /\ DeltaIsSome'
  BY <1>6, <1>i, <1>p DEF ScheduleWake, At, Goto, OneAtATime, DeltaIsSome
<1>7. ASSUME NEW c \in Contexts, Expire(c) PROVE OneAtATime' /\ DeltaIsSome'
  BY <1>7, <1>i, <1>p DEF Expire, At, Goto, OneAtATime, DeltaIsSome
<1>8. ASSUME NEW c \in Contexts, TrySetAlarm(c) PROVE OneAtATime' /\ DeltaIsSome'
  <2>1. \/ Goto(c, "expire") /\ UNCHANGED delta
        \/ Goto(c, "start") /\ delta' > 0
    <3>1. /\ ticks_to_us(raw_ostm_ticks) \in Nat
          /\ next > ticks_to_us(raw_ostm_ticks) =>
               delta_ostm(ticks_to_us(raw_ostm_ticks)) \in Nat
      BY <1>i, ReadNowInOrder, DeltaTypes, TimesAreNat
    <3> QED BY <1>8, <3>1 DEF TrySetAlarm
  <2>2. At(c, "arm")
    BY <1>8 DEF TrySetAlarm
  <2> QED BY <2>1, <2>2, <1>i, <1>p DEF At, Goto, OneAtATime, DeltaIsSome
<1>9. ASSUME NEW c \in Contexts, StartAlarm(c) PROVE OneAtATime' /\ DeltaIsSome'
  <2>1. At(c, "start") /\ Goto(c, "idle")
    BY <1>9 DEF StartAlarm
  <2> QED BY <2>1, <1>i, <1>p DEF At, Goto, OneAtATime, DeltaIsSome
<1>10. CASE on_alarm
  BY <1>3, <1>10, <1>p DEF on_alarm, Taken, InCriticalSection, timers
<1>11. CASE StopAlarm \/ ReadAlarmTime \/ HandleAlarm
  BY <1>3, <1>11, <1>i, <1>p DEF StopAlarm, ReadAlarmTime, HandleAlarm, At, OneAtATime, timers
<1> QED BY <1>4, <1>5, <1>6, <1>7, <1>8, <1>9, <1>10, <1>11 DEF Next

LEMMA ReadStep ==
  ASSUME Inv, [Next]_vars
  PROVE  ReadInOrder'
<1>i. TypeOK /\ ReadInOrder
  BY DEF Inv
<1>n. /\ time \in Nat /\ LAST_RAW \in Nat /\ newest \in Nat
      /\ last \in Nat /\ val \in Nat /\ floor \in Nat /\ began \in Nat /\ Wrap \in Nat
  BY <1>i, TimesAreNat DEF TypeOK
<1>p. pc \in [Contexts -> Labels] /\ Contexts = {"task", "irq"}
  BY <1>i DEF TypeOK, Labels, Contexts, CriticalSection
(* What handlers do leaves the task where it is.                           *)
<1>1. ASSUME \/ ReadNow
             \/ UNCHANGED <<LAST_RAW, newest>>,
             UNCHANGED <<time, last, val, floor, began>>,
             \/ pc'["task"] = pc["task"]
             \/ pc'["task"] \in {"idle", "expire", "arm", "start"}
      PROVE  ReadInOrder'
  <2>1. /\ LAST_RAW' \in Nat /\ newest' \in Nat /\ newest <= newest'
        /\ newest' <= LAST_RAW' /\ LAST_RAW <= LAST_RAW' /\ LAST_RAW' <= time
    BY <1>1, <1>i, <1>n, ReadNowInOrder DEF ReadInOrder
  <2> QED BY <1>1, <1>i, <1>n, <2>1 DEF ReadInOrder
<1>2. CASE Tick
  BY <1>2, <1>i, <1>n DEF Tick, ReadInOrder, clock, call
<1>3. CASE OtherHandlerReads \/ on_overflow \/ Stop \/ UNCHANGED vars
  BY <1>1, <1>3 DEF OtherHandlerReads, on_overflow, Stop, clock, call, vars
<1>4. CASE Call
  BY <1>4, <1>i, <1>n, <1>p DEF Call, Goto, ReadInOrder, clock
<1>5. CASE Load
  BY <1>5, <1>i, <1>n, <1>p DEF Load, At, Goto, ReadInOrder, clock
<1>6. CASE Count
  <2>1. /\ pc["task"] = "count" /\ last <= time /\ began <= time
        /\ floor <= newest /\ floor <= last /\ last <= LAST_RAW
        /\ newest <= LAST_RAW /\ LAST_RAW <= time
    BY <1>6, <1>i, <1>n DEF Count, At, ReadInOrder
  <2> DEFINE v == extend(last, count)
  <2>2. v \in Nat /\ last <= v /\ v <= time /\ (time - last < Wrap => v = time)
    BY <2>1, <1>n, ExtendIsNext DEF count
  <2>3. /\ UNCHANGED <<time, LAST_RAW, last, floor, began>>
        /\ \/ v <= last /\ Return(last)
           \/ v > last /\ val' = v /\ Goto("task", "publish") /\ newest' = newest
    BY <1>6 DEF Count
  <2> HIDE DEF v
  <2>4. CASE v <= last
    BY <2>1, <2>2, <2>3, <2>4, <1>n, <1>p DEF Return, Goto, Later, ReadInOrder
  <2>5. CASE v > last
    BY <2>1, <2>2, <2>3, <2>5, <1>n, <1>p DEF Goto, ReadInOrder
  <2> QED BY <2>2, <2>4, <2>5, <1>n
<1>7. CASE Publish
  <2>1. /\ pc["task"] = "publish" /\ newest <= LAST_RAW /\ LAST_RAW <= time
        /\ floor <= newest /\ began <= time
        /\ floor <= val /\ val <= time /\ last <= time
        /\ time - last < Wrap => began <= val
        /\ last < val
    BY <1>7, <1>i, <1>n DEF Publish, At, ReadInOrder
  <2> QED BY <1>7, <2>1, <1>n, <1>p DEF Publish, Return, Goto, Later, ReadInOrder, clock
<1>8. CASE Answered
  BY <1>8, <1>i, <1>n, <1>p DEF Answered, Goto, ReadInOrder, clock
<1>9. ASSUME NEW t \in Tasks, NEW at \in Deadlines, ScheduleWake(t, at) PROVE ReadInOrder'
  BY <1>1, <1>9, <1>p DEF ScheduleWake, Goto, clock, call
<1>10. ASSUME NEW c \in Contexts, Expire(c) \/ TrySetAlarm(c) \/ StartAlarm(c)
       PROVE  ReadInOrder'
  BY <1>1, <1>10, <1>p DEF Expire, TrySetAlarm, StartAlarm, Goto, clock, call
<1>11. CASE on_alarm \/ StopAlarm \/ ReadAlarmTime \/ HandleAlarm
  BY <1>1, <1>11, <1>p DEF on_alarm, StopAlarm, ReadAlarmTime, HandleAlarm, Goto, clock, call
<1> QED BY <1>2, <1>3, <1>4, <1>5, <1>6, <1>7, <1>8, <1>9, <1>10, <1>11 DEF Next

(* The inductive invariant.                                                *)
LEMMA ClockInOrder == Spec => []Inv
<1>1. Inv /\ [Next]_vars => Inv'
  BY TypesStep, CriticalStep, ReadStep DEF Inv
<1> QED BY InitInv, <1>1, PTL DEF Spec

-----------------------------------------------------------------------------
(* Every variable of the driver keeps its type: in particular no time ever *)
(* becomes negative and no alarm is armed for nothing.                     *)
THEOREM TypeCorrect == Spec => []TypeOK
BY ClockInOrder, PTL DEF Inv

(* A call never returns less than a call that had returned before it       *)
(* began, whatever preempts it and however late the interrupts are.        *)
THEOREM ClockIsMonotone == Spec => []ClockNeverRunsBack
<1>1. Inv => ClockNeverRunsBack
  BY DEF Inv, ReadInOrder, ClockNeverRunsBack
<1> QED BY ClockInOrder, <1>1, PTL

(* A call that is not held for a whole wrap returns the count of a moment  *)
(* between its call and its return.                                        *)
THEOREM ClockKeepsTime == Spec => []ClockIsExact
<1>1. Inv => ClockIsExact
  BY DEF Inv, ReadInOrder, ClockIsExact
<1> QED BY ClockInOrder, <1>1, PTL

-----------------------------------------------------------------------------
(* The alarm.                                                              *)

AlarmInOrder ==
  /\ held <= MaxHold
  /\ 1 \in enabled <=> alarm # {}
  /\ \A a \in alarm : time < a.at

(* While no wrap went by unread and the alarm goes on, the clock was read  *)
(* an alarm and what holds it off ago, at most.                            *)
Longest == LAST_RAW + MaxHold + max_arm_ticks
Fed ==
  /\ time - LAST_RAW < Wrap
  /\ \A c \in Contexts : pc[c] = "start" => time <= LAST_RAW + held
  /\ AlarmGoesOn => time <= Longest + held
  /\ \A a \in alarm : 1 \in pending \/ pc["irq"] = "stop" \/ a.at <= Longest

ClockIsFed == lost \/ Fed
AlarmInv == Inv /\ AlarmInOrder /\ ClockIsFed

LEMMA LostStaysLost ==
  ASSUME Next, lost
  PROVE  lost'
BY Zenon DEF Next, Tick, OtherHandlerReads, Call, Load, Count, Publish, Answered,
     ScheduleWake, Expire, TrySetAlarm, StartAlarm, on_overflow, on_alarm, StopAlarm,
     ReadAlarmTime, HandleAlarm, Stop

(* The types of the numbers, which every step below needs.                 *)
LEMMA Numbers ==
  ASSUME TypeOK
  PROVE  /\ time \in Nat /\ LAST_RAW \in Nat /\ held \in Nat /\ MaxHold \in Nat
         /\ Wrap \in Nat /\ max_arm_ticks \in Nat /\ delta \in 0 .. max_arm_ticks
         /\ \A a \in alarm : a.at \in Nat /\ a.every \in Nat /\ a.every > 0
         /\ pc \in [Contexts -> Labels] /\ Contexts = {"task", "irq"}
         /\ CriticalSection = {"expire", "arm", "start"}
<1>1. \A a \in alarm : a.at \in Nat /\ a.every \in 1 .. max_arm_ticks
  BY DEF TypeOK
<1> QED BY <1>1, TimesAreNat, TimeDriverAssumption
           DEF TypeOK, Labels, Contexts, CriticalSection

(* The clock's reads only move the bound on.                               *)
LEMMA LongestMovesOn ==
  ASSUME TypeOK, TypeOK', LAST_RAW <= LAST_RAW'
  PROVE  Longest \in Nat /\ \E e \in Nat : Longest' = e /\ Longest <= e
<1>1. max_arm_ticks' = max_arm_ticks
  BY DEF max_arm_ticks
<1>2. LAST_RAW \in Nat /\ MaxHold \in Nat /\ max_arm_ticks \in Nat
  BY TimesAreNat, TimeDriverAssumption DEF TypeOK
<1>3. PICK r \in Nat : LAST_RAW' = r
  BY DEF TypeOK
<1>4. Longest' = r + MaxHold + max_arm_ticks
  BY <1>1, <1>3 DEF Longest
<1> QED BY <1>2, <1>3, <1>4 DEF Longest

(* Steps that neither move time nor touch the alarm or a critical section. *)
CalmActions ==
  OtherHandlerReads \/ on_overflow \/ Call \/ Load \/ Count \/ Publish \/ Answered

LEMMA CalmKeepsTheAlarm ==
  ASSUME Inv, TypeOK', AlarmInOrder, CalmActions
  PROVE  AlarmInOrder' /\ (Fed => Fed')
<1>i. TypeOK /\ ReadInOrder
  BY DEF Inv
<1>n. /\ time \in Nat /\ LAST_RAW \in Nat /\ held \in Nat /\ MaxHold \in Nat
      /\ Wrap \in Nat /\ max_arm_ticks \in Nat
      /\ pc \in [Contexts -> Labels] /\ Contexts = {"task", "irq"}
      /\ CriticalSection = {"expire", "arm", "start"}
  BY <1>i, Numbers
<1>v. val \in Nat /\ \E r \in Nat : LAST_RAW' = r
  BY <1>i DEF TypeOK
<1>1. /\ time' = time /\ alarm' = alarm /\ enabled' = enabled /\ held' = held
      /\ 1 \in pending' <=> 1 \in pending
  BY DEF CalmActions, OtherHandlerReads, on_overflow, Taken, Call, Load, Count, Publish,
         Answered, gic
<1>2. LAST_RAW <= LAST_RAW'
  <2>1. CASE OtherHandlerReads \/ on_overflow
    BY <2>1, <1>i, ReadNowInOrder DEF OtherHandlerReads, on_overflow
  <2>2. CASE Call \/ Load \/ Count \/ Answered
    BY <2>2, <1>n DEF Call, Load, Count, Answered, clock
  <2>3. CASE Publish
    BY <2>3, <1>i, <1>n, <1>v DEF Publish, At, ReadInOrder, clock
  <2> QED BY <2>1, <2>2, <2>3 DEF CalmActions
<1>3. pc'["irq"] = pc["irq"] /\ \A c \in Contexts : pc'[c] = "start" => pc[c] = "start"
  BY <1>n DEF CalmActions, OtherHandlerReads, on_overflow, Call, Load, Count, Return,
              Publish, Answered, Goto
<1>4. Longest \in Nat /\ \E e \in Nat : Longest' = e /\ Longest <= e
  BY <1>i, <1>2, LongestMovesOn
<1>5. ASSUME Fed PROVE Fed'
  <2>1. time' - LAST_RAW' < Wrap
    BY <1>5, <1>n, <1>v, <1>1, <1>2 DEF Fed
  <2>2. \A c \in Contexts : pc'[c] = "start" => time' <= LAST_RAW' + held'
    BY <1>5, <1>n, <1>v, <1>1, <1>2, <1>3 DEF Fed
  <2>3. AlarmGoesOn' => time' <= Longest' + held'
    BY <1>5, <1>n, <1>1, <1>3, <1>4 DEF Fed, AlarmGoesOn
  <2>4. \A a \in alarm' : 1 \in pending' \/ pc'["irq"] = "stop" \/ a.at <= Longest'
    <3>1. \A a \in alarm : a.at \in Nat
      BY <1>i, Numbers
    <3> QED BY <3>1, <1>5, <1>1, <1>3, <1>4 DEF Fed
  <2> QED BY <2>1, <2>2, <2>3, <2>4 DEF Fed
<1> QED BY <1>1, <1>5 DEF AlarmInOrder

LEMMA TickKeepsTheAlarm ==
  ASSUME Inv, AlarmInOrder, Tick
  PROVE  AlarmInOrder' /\ (Fed => lost' \/ Fed')
<1>i. TypeOK
  BY DEF Inv
<1>n. /\ time \in Nat /\ LAST_RAW \in Nat /\ held \in Nat /\ MaxHold \in Nat
      /\ Wrap \in Nat /\ max_arm_ticks \in Nat
      /\ pc \in [Contexts -> Labels] /\ Contexts = {"task", "irq"}
      /\ CriticalSection = {"expire", "arm", "start"}
  BY <1>i, Numbers
<1>a. \A a \in alarm : /\ a.at \in Nat /\ a.every \in Nat /\ a.every > 0
                       /\ [a EXCEPT !.at = @ + a.every].at = a.at + a.every
  BY <1>i, Numbers DEF TypeOK
<1>1. /\ time' = time + 1 /\ LAST_RAW' = LAST_RAW /\ pc' = pc /\ enabled' = enabled
      /\ held' = (IF HoldsOff THEN held + 1 ELSE 0)
      /\ HoldsOff => held < MaxHold
      /\ 1 \in pending' <=> 1 \in pending \/ Expires
  BY <1>i DEF Tick, clock, TypeOK
<1>2. held' \in Nat /\ held' <= MaxHold
  BY <1>1, <1>n DEF AlarmInOrder
<1>3. \A a \in alarm' : \E b \in alarm :
        \/ a = b /\ b.at # time + 1
        \/ b.at = time + 1 /\ a.at = b.at + b.every
  BY <1>a DEF Tick
<1>4. alarm' # {} <=> alarm # {}
  BY DEF Tick
<1>5. \A a \in alarm' : time' < a.at
  BY <1>1, <1>3, <1>a, <1>n DEF AlarmInOrder
<1>6. AlarmInOrder'
  BY <1>1, <1>2, <1>4, <1>5 DEF AlarmInOrder
<1>7. CASE time' - LAST_RAW >= Wrap
  <2>1. lost'
    BY <1>7, Zenon DEF Tick
  <2> QED BY <1>6, <2>1
<1>8. ASSUME ~(time' - LAST_RAW >= Wrap), Fed PROVE Fed'
  <2>1. time' - LAST_RAW' < Wrap
    BY <1>8, <1>1, <1>n
  <2>2. Longest' = Longest /\ Longest \in Nat
    BY <1>1, <1>n DEF Longest
  <2>3. \A c \in Contexts : pc'[c] = "start" => time' <= LAST_RAW' + held'
    <3>1. ASSUME NEW c \in Contexts, pc[c] = "start" PROVE HoldsOff
      BY <3>1, <1>n DEF HoldsOff, InCriticalSection
    <3> QED BY <1>8, <3>1, <1>1, <1>n DEF Fed
  <2>4. AlarmGoesOn' => time' <= Longest' + held'
    <3>1. AlarmGoesOn' <=> AlarmGoesOn
      BY <1>1, <1>4 DEF AlarmGoesOn
    <3>2. CASE HoldsOff
      BY <3>1, <3>2, <2>2, <1>1, <1>8, <1>n DEF Fed
    <3>3. CASE ~HoldsOff /\ AlarmGoesOn
      <4>1. PICK a \in alarm : TRUE
        BY <3>3 DEF AlarmGoesOn, HoldsOff
      <4>2. 1 \notin pending /\ pc["irq"] # "stop"
        BY <4>1, <3>3 DEF HoldsOff, AlarmInOrder
      <4>3. a.at <= Longest /\ time < a.at
        BY <4>1, <4>2, <1>8 DEF Fed, AlarmInOrder
      <4> QED BY <4>1, <4>3, <3>3, <2>2, <1>1, <1>a, <1>n
    <3> QED BY <3>1, <3>2, <3>3
  <2>5. \A a \in alarm' : 1 \in pending' \/ pc'["irq"] = "stop" \/ a.at <= Longest'
    BY <2>2, <1>1, <1>3, <1>8 DEF Fed, Expires
  <2> QED BY <2>1, <2>3, <2>4, <2>5 DEF Fed
<1> QED BY <1>6, <1>7, <1>8

(* The critical section reads the clock before it arms the alarm.          *)
LEMMA LoopKeepsTheAlarm ==
  ASSUME Inv, TypeOK', AlarmInOrder,
         NEW c \in Contexts, Expire(c) \/ TrySetAlarm(c) \/ StartAlarm(c)
  PROVE  AlarmInOrder' /\ (Fed => Fed')
<1>i. TypeOK /\ OneAtATime /\ DeltaIsSome /\ ReadInOrder
  BY DEF Inv
<1>n. /\ time \in Nat /\ LAST_RAW \in Nat /\ held \in Nat /\ MaxHold \in Nat
      /\ Wrap \in Nat /\ max_arm_ticks \in Nat /\ delta \in 0 .. max_arm_ticks
      /\ pc \in [Contexts -> Labels] /\ Contexts = {"task", "irq"}
      /\ CriticalSection = {"expire", "arm", "start"}
  BY <1>i, Numbers
<1>a. \A a \in alarm : a.at \in Nat
  BY <1>i, Numbers
<1>v. \E r \in Nat : LAST_RAW' = r
  BY DEF TypeOK
<1>1. CASE Expire(c) \/ TrySetAlarm(c)
  <2>1. /\ LAST_RAW <= LAST_RAW' /\ LAST_RAW' = raw_ostm_ticks
        /\ UNCHANGED <<time, alarm, pending, enabled, held>>
        /\ pc[c] \in {"expire", "arm"}
        /\ \E label \in {"expire", "arm", "start"} : Goto(c, label)
    BY <1>1, <1>i, ReadNowInOrder DEF Expire, TrySetAlarm, At, ReadNow, gic
  <2>2. AlarmInOrder'
    BY <2>1 DEF AlarmInOrder
  <2>3. AlarmGoesOn' = AlarmGoesOn /\ (pc["irq"] = "stop" => pc'["irq"] = "stop")
    BY <2>1, <1>n DEF Goto, AlarmGoesOn
  <2>4. ASSUME Fed PROVE Fed'
    <3>1. LAST_RAW' = time
      BY <2>1, <2>4, <1>i, ReadNowInOrder DEF Fed
    <3>2. Longest \in Nat /\ \E e \in Nat : Longest' = e /\ Longest <= e
      BY <2>1, <1>i, LongestMovesOn
    <3>a. Longest' = time + MaxHold + max_arm_ticks
      BY <3>1 DEF Longest, max_arm_ticks
    <3>3. time' - LAST_RAW' < Wrap /\ time' <= LAST_RAW' + held' /\ time' <= Longest' + held'
      BY <2>1, <3>1, <3>a, <1>n, TimesAreNat
    <3>4. \A a \in alarm' : 1 \in pending' \/ pc'["irq"] = "stop" \/ a.at <= Longest'
      BY <2>1, <2>3, <2>4, <3>2, <1>a DEF Fed
    <3> QED BY <3>3, <3>4 DEF Fed
  <2> QED BY <2>2, <2>4
<1>2. CASE StartAlarm(c)
  <2>1. /\ pc[c] = "start" /\ delta > 0
        /\ alarm' = {[at |-> time + delta, every |-> delta]}
        /\ enabled' = enabled \cup {1} /\ held' = 0
        /\ UNCHANGED <<time, LAST_RAW, pending>>
        /\ Goto(c, "idle")
    BY <1>2, <1>i DEF StartAlarm, At, DeltaIsSome, clock
  <2>2. \A a \in alarm' : a.at = time + delta
    BY <2>1
  <2>3. AlarmInOrder'
    BY <2>1, <2>2, <1>n DEF AlarmInOrder
  <2>4. \A d \in Contexts : pc'[d] # "start"
    BY <2>1, <1>2, <1>i, <1>n DEF Goto, StartAlarm, At, OneAtATime
  <2>5. ASSUME Fed PROVE Fed'
    <3>1. time <= LAST_RAW + held /\ held <= MaxHold /\ time - LAST_RAW < Wrap
      BY <2>1, <2>5 DEF Fed, AlarmInOrder
    <3>2. time + delta <= Longest' /\ time' <= Longest' + held' /\ time' - LAST_RAW' < Wrap
      BY <2>1, <3>1, <1>n DEF Longest
    <3> QED BY <2>1, <2>2, <2>4, <3>2 DEF Fed
  <2> QED BY <2>3, <2>5
<1> QED BY <1>1, <1>2

LEMMA HandlerKeepsTheAlarm ==
  ASSUME Inv, TypeOK', AlarmInOrder,
         on_alarm \/ StopAlarm \/ ReadAlarmTime \/ HandleAlarm
  PROVE  AlarmInOrder' /\ (Fed => Fed')
<1>i. TypeOK /\ ReadInOrder
  BY DEF Inv
<1>n. /\ time \in Nat /\ LAST_RAW \in Nat /\ held \in Nat /\ MaxHold \in Nat
      /\ Wrap \in Nat /\ max_arm_ticks \in Nat
      /\ pc \in [Contexts -> Labels] /\ Contexts = {"task", "irq"}
      /\ CriticalSection = {"expire", "arm", "start"}
  BY <1>i, Numbers
<1>a. \A a \in alarm : a.at \in Nat
  BY <1>i, Numbers
<1>v. \E r \in Nat : LAST_RAW' = r
  BY DEF TypeOK
<1>1. CASE on_alarm
  <2>1. alarm # {} /\ pc["irq"] = "idle" /\ pc'["irq"] = "stop" /\ pc'["task"] = pc["task"]
        /\ UNCHANGED <<time, LAST_RAW, alarm, enabled, held>>
    BY <1>1, <1>n DEF on_alarm, Taken, AlarmInOrder, Goto, clock
  <2> QED BY <2>1, <1>n DEF AlarmInOrder, Fed, Longest, AlarmGoesOn
<1>2. CASE StopAlarm
  <2>1. /\ pc["irq"] = "stop" /\ pc'["irq"] = "now" /\ pc'["task"] = pc["task"]
        /\ alarm' = {} /\ enabled' = enabled \ {1}
        /\ UNCHANGED <<time, LAST_RAW, held>>
    BY <1>2, <1>n DEF StopAlarm, At, Goto, clock
  <2> QED BY <2>1, <1>n DEF AlarmInOrder, Fed, Longest, AlarmGoesOn
<1>3. CASE ReadAlarmTime \/ HandleAlarm
  <2>1. LAST_RAW <= LAST_RAW'
    BY <1>3, <1>i, <1>n, ReadNowInOrder DEF ReadAlarmTime, HandleAlarm, clock
  <2>2. /\ UNCHANGED <<time, alarm, pending, enabled, held>>
        /\ pc["irq"] \in {"now", "handle"} /\ pc'["irq"] \in {"handle", "arm"}
        /\ pc'["task"] = pc["task"]
    BY <1>3, <1>n DEF ReadAlarmTime, HandleAlarm, At, Goto, gic
  <2>3. AlarmInOrder'
    BY <2>2 DEF AlarmInOrder
  <2>4. Longest \in Nat /\ \E e \in Nat : Longest' = e /\ Longest <= e
    BY <2>1, <1>i, LongestMovesOn
  <2>5. ASSUME Fed PROVE Fed'
    <3>1. time <= Longest + held /\ time - LAST_RAW < Wrap
      BY <2>2, <2>5 DEF Fed, AlarmGoesOn
    <3>2. time' <= Longest' + held' /\ time' - LAST_RAW' < Wrap
      BY <3>1, <2>1, <2>2, <2>4, <1>n, <1>v
    <3>3. \A d \in Contexts : pc'[d] = "start" => time' <= LAST_RAW' + held'
      BY <2>1, <2>2, <2>5, <1>n, <1>v DEF Fed
    <3>4. \A a \in alarm' : 1 \in pending' \/ a.at <= Longest'
      BY <2>2, <2>4, <2>5, <1>a DEF Fed
    <3> QED BY <3>2, <3>3, <3>4 DEF Fed
  <2> QED BY <2>3, <2>5
<1> QED BY <1>1, <1>2, <1>3

LEMMA AlarmStep ==
  ASSUME Inv, TypeOK', AlarmInOrder, Next
  PROVE  AlarmInOrder' /\ (Fed => lost' \/ Fed')
<1>1. CASE CalmActions
  BY <1>1, CalmKeepsTheAlarm
<1>2. CASE Tick
  BY <1>2, TickKeepsTheAlarm
<1>3. ASSUME NEW t \in Tasks, NEW at \in Deadlines, ScheduleWake(t, at)
      PROVE  AlarmInOrder' /\ (Fed => Fed')
  <2>1. /\ UNCHANGED <<time, LAST_RAW, alarm, pending, enabled, held>>
        /\ pc'["irq"] = pc["irq"] /\ pc'["task"] = "expire"
    BY <1>3, Numbers DEF ScheduleWake, Goto, clock, gic, Inv
  <2> QED BY <2>1 DEF AlarmInOrder, Fed, Longest, AlarmGoesOn, Contexts
<1>4. ASSUME NEW c \in Contexts, Expire(c) \/ TrySetAlarm(c) \/ StartAlarm(c)
      PROVE  AlarmInOrder' /\ (Fed => Fed')
  BY <1>4, LoopKeepsTheAlarm
<1>5. CASE on_alarm \/ StopAlarm \/ ReadAlarmTime \/ HandleAlarm
  BY <1>5, HandlerKeepsTheAlarm
<1>6. CASE Stop
  BY <1>6 DEF Stop, AlarmInOrder, Fed, Longest, AlarmGoesOn, clock, Inv
<1> QED BY <1>1, <1>2, <1>3, <1>4, <1>5, <1>6 DEF Next, CalmActions

LEMMA InitAlarm == Init => AlarmInOrder /\ Fed
<1> SUFFICES ASSUME Init PROVE AlarmInOrder /\ Fed
  OBVIOUS
<1>1. AlarmInOrder
  BY TimeDriverAssumption DEF Init, AlarmInOrder
<1>2. Fed
  BY TimesAreNat DEF Init, Fed, AlarmGoesOn, Contexts
<1> QED BY <1>1, <1>2

LEMMA AlarmIsInOrder == Spec => []AlarmInv
<1>1. Init => AlarmInv
  BY InitInv, InitAlarm DEF AlarmInv, ClockIsFed
<1>2. ASSUME AlarmInv, [Next]_vars PROVE AlarmInv'
  <2>1. Inv'
    BY <1>2, TypesStep, CriticalStep, ReadStep DEF AlarmInv, Inv
  <2>2. CASE Next
    BY <1>2, <2>1, <2>2, AlarmStep, LostStaysLost, Zenon DEF AlarmInv, ClockIsFed, Inv
  <2>3. CASE UNCHANGED vars
    <3>1. AlarmInOrder'
      BY <1>2, <2>3 DEF vars, clock, gic, AlarmInv, AlarmInOrder
    <3>2. Fed' <=> Fed
      BY <2>3 DEF vars, clock, gic, Fed, Longest, AlarmGoesOn
    <3>3. lost' <=> lost
      BY <2>3, Zenon DEF vars
    <3> QED BY <1>2, <2>1, <3>1, <3>2, <3>3 DEF AlarmInv, ClockIsFed
  <2> QED BY <1>2, <2>2, <2>3
<1> QED BY <1>1, <1>2, PTL DEF Spec

(* The tick that an unread wrap would end does not come while the alarm    *)
(* goes on.                                                                *)
LEMMA TickIsInTime ==
  ASSUME max_arm_ticks + 2 * MaxHold < Wrap, Inv, AlarmInOrder, Fed, AlarmGoesOn, Tick
  PROVE  ~(time' - LAST_RAW >= Wrap)
<1>n. /\ time \in Nat /\ LAST_RAW \in Nat /\ held \in Nat /\ MaxHold \in Nat
      /\ Wrap \in Nat /\ max_arm_ticks \in Nat /\ \A a \in alarm : a.at \in Nat
  BY Numbers DEF Inv
<1>1. time' = time + 1 /\ (HoldsOff => held < MaxHold)
  BY DEF Tick
<1>2. CASE HoldsOff
  <2>1. time <= LAST_RAW + MaxHold + max_arm_ticks + held
    BY DEF Fed, Longest
  <2> QED BY <1>1, <1>2, <1>n, <2>1
<1>3. CASE ~HoldsOff
  <2>1. PICK a \in alarm : TRUE
    BY <1>3 DEF AlarmGoesOn, HoldsOff
  <2>2. 1 \notin pending /\ pc["irq"] # "stop"
    BY <2>1, <1>3 DEF HoldsOff, AlarmInOrder
  <2>3. a.at <= LAST_RAW + MaxHold + max_arm_ticks /\ time < a.at
    BY <2>1, <2>2 DEF Fed, AlarmInOrder, Longest
  <2> QED BY <1>1, <1>n, <2>1, <2>3
<1> QED BY <1>2, <1>3

LEMMA AlarmGoesOnInAStep ==
  ASSUME Inv, Next, AlarmGoesOn, 0 \in enabled'
  PROVE  AlarmGoesOn'
<1>n. /\ pc \in [Contexts -> Labels] /\ Contexts = {"task", "irq"}
      /\ CriticalSection = {"expire", "arm", "start"}
  BY Numbers DEF Inv
<1>1. CASE Tick
  BY <1>1 DEF Tick, AlarmGoesOn
<1>2. CASE CalmActions
  BY <1>2, <1>n DEF CalmActions, OtherHandlerReads, on_overflow, Call, Load, Count, Return,
       Publish, Answered, Goto, gic, AlarmGoesOn
<1>3. ASSUME NEW t \in Tasks, NEW at \in Deadlines, ScheduleWake(t, at)
      PROVE  AlarmGoesOn'
  BY <1>3, <1>n DEF ScheduleWake, Goto, gic, AlarmGoesOn
<1>4. ASSUME NEW c \in Contexts, Expire(c) \/ TrySetAlarm(c) \/ StartAlarm(c)
      PROVE  AlarmGoesOn'
  BY <1>4, <1>n DEF Expire, TrySetAlarm, StartAlarm, Goto, gic, AlarmGoesOn
<1>5. CASE on_alarm \/ StopAlarm \/ ReadAlarmTime \/ HandleAlarm
  BY <1>5, <1>n DEF on_alarm, StopAlarm, ReadAlarmTime, HandleAlarm, Goto, AlarmGoesOn
<1>6. CASE Stop
  BY <1>6 DEF Stop
<1> QED BY <1>1, <1>2, <1>3, <1>4, <1>5, <1>6 DEF Next, CalmActions

(* From the first alarm on the driver arms the next one, and no wrap of    *)
(* the counter goes by unread, if the longest alarm and twice what holds   *)
(* one off fit into a wrap.                                                *)
THEOREM AlarmNeverRests ==
  ASSUME max_arm_ticks + 2 * MaxHold < Wrap
  PROVE  Spec => AlarmKeepsTheClock
<1> DEFINE A == AlarmGoesOn /\ 0 \in enabled' => AlarmGoesOn' /\ lost' = lost
<1>1. ASSUME AlarmInv, Next PROVE A
  <2>i. Inv /\ TypeOK /\ TypeOK' /\ lost \in BOOLEAN /\ lost' \in BOOLEAN
    BY <1>1, TypesStep DEF AlarmInv, Inv, TypeOK
  <2> SUFFICES ASSUME AlarmGoesOn, 0 \in enabled' PROVE AlarmGoesOn' /\ lost' = lost
    OBVIOUS
  <2>1. AlarmGoesOn'
    BY <1>1, <2>i, AlarmGoesOnInAStep
  <2>2. CASE lost
    BY <2>1, <2>2, <2>i, <1>1, LostStaysLost, Zenon
  <2>3. CASE ~lost /\ Tick
    <3>1. ~(time' - LAST_RAW >= Wrap)
      BY <2>3, <2>i, <1>1, TickIsInTime, Zenon DEF AlarmInv, ClockIsFed
    <3>2. ~lost'
      BY <2>3, <3>1, Zenon DEF Tick
    <3> QED BY <2>1, <2>3, <2>i, <3>2, Zenon
  <2>4. CASE ~Tick
    <3>1. lost' = lost
      BY <1>1, <2>4, Zenon DEF Next, OtherHandlerReads, Call, Load, Count, Publish,
           Answered, ScheduleWake, Expire, TrySetAlarm, StartAlarm, on_overflow,
           on_alarm, StopAlarm, ReadAlarmTime, HandleAlarm, Stop
    <3> QED BY <2>1, <3>1, Zenon
  <2> QED BY <2>2, <2>3, <2>4, Zenon
<1>2. AlarmInv /\ [Next]_vars => [A]_vars
  BY <1>1
<1> QED BY AlarmIsInOrder, <1>2, PTL DEF Spec, AlarmKeepsTheClock

-----------------------------------------------------------------------------
(* The wake-ups.  The conversions.                                         *)

LEMMA LessByFactor ==
  ASSUME NEW d \in Nat \ {0}, NEW a \in Nat, NEW b \in Nat, d * a < (d * b) + d
  PROVE  a <= b
<1> SUFFICES ASSUME b < a PROVE FALSE
  OBVIOUS
<1>1. PICK k \in Nat : a = (b + 1) + k
  <2>1. a - (b + 1) \in Nat /\ a = (b + 1) + (a - (b + 1))
    OBVIOUS
  <2> QED BY <2>1
<1>2. d * k \in Nat
  BY ProductIsNat
<1>3. d * ((b + 1) + k) = ((d * b) + d) + (d * k)
  OBVIOUS
<1> QED BY <1>1, <1>2, <1>3

LEMMA Ratio == num \in Nat \ {0} /\ den \in Nat \ {0} /\ num \div den \in Nat
BY TimeMathAssumption, Division

LEMMA Regroup ==
  ASSUME NEW a \in Nat, NEW b \in Nat, NEW c \in Nat, NEW r \in Nat
  PROVE  ((a * b) + r) * c = (a * (b * c)) + (r * c)
OBVIOUS

LEMMA CeilDivision ==
  ASSUME NEW a \in Nat, NEW b \in Nat \ {0}
  PROVE  /\ div_ceil(a, b) \in Nat
         /\ \E k \in 0 .. b - 1 : b * div_ceil(a, b) = a + k
<1> DEFINE n == a + b - 1
           c == n \div b
<1>1. n \in Nat
  OBVIOUS
<1>2. c \in Nat /\ \E m \in 0 .. b - 1 : n = (b * c) + m
  BY <1>1, Division
<1>3. c = div_ceil(a, b)
  BY DEF div_ceil
<1> HIDE DEF c
<1>4. PICK m \in 0 .. b - 1 : n = (b * c) + m
  BY <1>2
<1>5. b * c \in Nat
  BY <1>2, ProductIsNat
<1>6. (b - 1) - m \in 0 .. b - 1 /\ b * c = a + ((b - 1) - m)
  BY <1>4, <1>5
<1> QED BY <1>2, <1>3, <1>6

(* Ticks are rounded up ...                                                *)
LEMMA TicksRoundUp ==
  ASSUME NEW us \in Nat
  PROVE  /\ us_to_ticks(us) \in Nat
         /\ \E k \in 0 .. den - 1 : den * us_to_ticks(us) = (us * num) + k
<1> DEFINE q == us \div den
           r == us % den
           c == div_ceil(r * num, den)
<1>1. q \in Nat /\ r \in Nat /\ us = (den * q) + r
  BY Ratio, Division
<1> HIDE DEF q, r
<1>2. r * num \in Nat /\ q * num \in Nat /\ den * (q * num) \in Nat
  BY <1>1, ProductIsNat, Ratio
<1>3. c \in Nat /\ \E k \in 0 .. den - 1 : den * c = (r * num) + k
  BY <1>2, Ratio, CeilDivision
<1>4. us_to_ticks(us) = (q * num) + c
  BY DEF us_to_ticks, q, r
<1> HIDE DEF c
<1>5. den * ((q * num) + c) = (den * (q * num)) + (den * c)
  BY <1>2, <1>3, Ratio
<1>6. us * num = (den * (q * num)) + (r * num)
  <2>1. ((den * q) + r) * num = (den * (q * num)) + (r * num)
    <3>1. num \in Nat /\ den \in Nat
      BY Ratio
    <3> QED BY <3>1, <1>1, Regroup
  <2> QED BY <2>1, <1>1
<1>7. us_to_ticks(us) \in Nat
  BY TicksAreNat
<1>8. PICK k \in 0 .. den - 1 : den * c = (r * num) + k
  BY <1>3
<1>9. den * us_to_ticks(us) = (us * num) + k
  <2>1. den * us_to_ticks(us) = (den * (q * num)) + ((r * num) + k)
    BY <1>4, <1>5, <1>8
  <2> QED BY <2>1, <1>2, <1>6
<1> QED BY <1>7, <1>9

(* ... and microseconds down.                                              *)
LEMMA MicrosecondsRoundDown ==
  ASSUME NEW ticks \in Nat
  PROVE  /\ ticks_to_us(ticks) \in Nat
         /\ \E m \in 0 .. num - 1 : ticks * den = (num * ticks_to_us(ticks)) + m
<1> DEFINE q == ticks \div num
           r == ticks % num
           f == (r * den) \div num
<1>1. q \in Nat /\ r \in Nat /\ ticks = (num * q) + r
  BY Ratio, Division
<1> HIDE DEF q, r
<1>2. r * den \in Nat /\ q * den \in Nat /\ num * (q * den) \in Nat
  BY <1>1, ProductIsNat, Ratio
<1>3. f \in Nat /\ \E m \in 0 .. num - 1 : r * den = (num * f) + m
  BY <1>2, Ratio, Division
<1>4. ticks_to_us(ticks) = (q * den) + f
  BY DEF ticks_to_us, q, r
<1> HIDE DEF f
<1>5. num * ((q * den) + f) = (num * (q * den)) + (num * f) /\ num * f \in Nat
  BY <1>1, <1>2, <1>3, Ratio, ProductIsNat
<1>6. ticks * den = (num * (q * den)) + (r * den)
  <2>1. ((num * q) + r) * den = (num * (q * den)) + (r * den)
    <3>1. num \in Nat /\ den \in Nat
      BY Ratio
    <3> QED BY <3>1, <1>1, Regroup
  <2> QED BY <2>1, <1>1
<1>7. PICK m \in 0 .. num - 1 : r * den = (num * f) + m
  BY <1>3
<1>8. ticks * den = (num * ticks_to_us(ticks)) + m
  BY <1>2, <1>4, <1>5, <1>6, <1>7, Ratio
<1> QED BY <1>8, MicrosecondsAreNat

LEMMA TicksInOrder ==
  ASSUME NEW x \in Nat, NEW y \in Nat, x <= y
  PROVE  us_to_ticks(x) <= us_to_ticks(y)
<1> DEFINE u == us_to_ticks(x)
           v == us_to_ticks(y)
<1>1. /\ u \in Nat /\ v \in Nat
      /\ \E k \in 0 .. den - 1 : den * u = (x * num) + k
      /\ \E k \in 0 .. den - 1 : den * v = (y * num) + k
  BY TicksRoundUp
<1> HIDE DEF u, v
<1>2. x * num \in Nat /\ y * num \in Nat /\ x * num <= y * num
  <2>1. y - x \in Nat /\ (y - x) * num \in Nat
    BY Ratio, ProductIsNat
  <2>2. y * num = (x * num) + ((y - x) * num)
    BY Ratio
  <2> QED BY <2>1, <2>2, ProductIsNat, Ratio
<1>3. den * u \in Nat /\ den * v \in Nat
  BY <1>1, ProductIsNat, Ratio
<1>4. den * u < (den * v) + den
  BY <1>1, <1>2, <1>3, Ratio
<1>5. u <= v
  BY <1>1, <1>4, LessByFactor, Ratio
<1> QED BY <1>5 DEF u, v

LEMMA MicrosecondsInOrder ==
  ASSUME NEW x \in Nat, NEW y \in Nat, x <= y
  PROVE  ticks_to_us(x) <= ticks_to_us(y)
<1> DEFINE u == ticks_to_us(x)
           v == ticks_to_us(y)
<1>1. /\ u \in Nat /\ v \in Nat
      /\ \E m \in 0 .. num - 1 : x * den = (num * u) + m
      /\ \E m \in 0 .. num - 1 : y * den = (num * v) + m
  BY MicrosecondsRoundDown
<1> HIDE DEF u, v
<1>2. x * den \in Nat /\ y * den \in Nat /\ x * den <= y * den
  <2>1. y - x \in Nat /\ (y - x) * den \in Nat
    BY Ratio, ProductIsNat
  <2>2. y * den = (x * den) + ((y - x) * den)
    BY Ratio
  <2> QED BY <2>1, <2>2, ProductIsNat, Ratio
<1>3. num * u \in Nat /\ num * v \in Nat
  BY <1>1, ProductIsNat, Ratio
<1>4. num * u < (num * v) + num
  BY <1>1, <1>2, <1>3, Ratio
<1>5. u <= v
  BY <1>1, <1>4, LessByFactor, Ratio
<1> QED BY <1>5 DEF u, v

(* What is armed at a tick for a time expires when that time has come, and *)
(* no later than the two roundings allow.                                  *)
LEMMA ArmedInTime ==
  ASSUME NEW at \in Nat, NEW us \in Nat, ticks_to_us(at) < us
  PROVE  LET wait == us_to_ticks(us - ticks_to_us(at))
         IN  /\ wait \in Nat
             /\ at + wait <= us_to_ticks(us) + (num \div den) + 1
             /\ us <= ticks_to_us(at + wait)
<1> DEFINE n == ticks_to_us(at)
           d == us - n
           w == us_to_ticks(d)
           u == us_to_ticks(us)
           e == ticks_to_us(at + w)
           q == num \div den
<1>1. n \in Nat /\ \E m \in 0 .. num - 1 : at * den = (num * n) + m
  BY MicrosecondsRoundDown
<1>2. d \in Nat /\ us = n + d
  <2> HIDE DEF n
  <2> QED BY <1>1 DEF n
<1> HIDE DEF n, d
<1>3. w \in Nat /\ \E k \in 0 .. den - 1 : den * w = (d * num) + k
  BY <1>2, TicksRoundUp
<1>4. u \in Nat /\ \E k \in 0 .. den - 1 : den * u = (us * num) + k
  BY TicksRoundUp
<1> HIDE DEF w, u
<1>5. e \in Nat /\ \E m \in 0 .. num - 1 : (at + w) * den = (num * e) + m
  BY <1>3, MicrosecondsRoundDown
<1>6. q \in Nat /\ \E r \in 0 .. den - 1 : num = (den * q) + r
  BY Ratio, Division
<1> HIDE DEF e, q
<1>7. /\ num * n \in Nat /\ d * num \in Nat /\ us * num \in Nat /\ den * w \in Nat
      /\ den * u \in Nat /\ num * e \in Nat /\ den * q \in Nat /\ at * den \in Nat
      /\ (at + w) * den \in Nat
  BY <1>1, <1>2, <1>3, <1>4, <1>5, <1>6, Ratio, ProductIsNat
<1>8. us * num = (num * n) + (d * num) /\ (at + w) * den = (at * den) + (den * w)
  <2>1. (n + d) * num = (num * n) + (d * num)
    BY <1>1, <1>2, Ratio
  <2>2. (at + w) * den = (at * den) + (den * w)
    BY <1>3, Ratio
  <2> QED BY <1>2, <2>1, <2>2
<1>9. at + w <= (u + q) + 1
  <2>1. (at + w) * den < ((den * u) + (den * q)) + (den + den)
    BY <1>1, <1>3, <1>4, <1>6, <1>7, <1>8, Ratio
  <2>2. /\ den * (at + w) = (at + w) * den
        /\ den * ((u + q) + 1) = ((den * u) + (den * q)) + den
    BY <1>3, <1>4, <1>6, Ratio
  <2>3. den * (at + w) < (den * ((u + q) + 1)) + den
    BY <2>1, <2>2, <1>7, Ratio
  <2> QED BY <2>3, <1>3, <1>4, <1>6, Ratio, LessByFactor
<1>10. us <= e
  <2>1. num * us = us * num
    BY Ratio
  <2>2. num * us < (num * e) + num
    BY <2>1, <1>1, <1>3, <1>5, <1>7, <1>8, Ratio
  <2> QED BY <2>2, <1>5, Ratio, LessByFactor
<1> QED BY <1>3, <1>4, <1>6, <1>9, <1>10 DEF w, d, n, u, e, q

-----------------------------------------------------------------------------
(* The invariant.                                                          *)

(* What the queue answered is its earliest time until an alarm is armed    *)
(* for it, and whoever waits has an alarm or its handler ahead.            *)
AnswerInOrder ==
  /\ \A c \in Contexts : pc[c] \in {"arm", "start"} =>
       /\ \A t \in Tasks : next <= queue[t]
       /\ \E t \in Tasks : next = queue[t]
  /\ pc["irq"] \in {"now", "handle"} \cup CriticalSection => alarm = {}
  /\ pc["task"] \notin CriticalSection /\ 0 \in enabled =>
       \A t \in Tasks : Waiting(t) => AlarmGoesOn

(* The alarm is armed for what the roundings allow, later by what arming   *)
(* takes; the time is past it by no more than it is held off.              *)
Due(us) == us_to_ticks(us) + num \div den + 1
InTime ==
  /\ pc["task"] \notin CriticalSection =>
       \A t \in Tasks : Waiting(t) =>
         /\ time <= Due(queue[t]) + MaxHold + held
         /\ \A a \in alarm :
              1 \in pending \/ pc["irq"] = "stop" \/ a.at <= Due(queue[t]) + MaxHold
  /\ \A c \in Contexts : pc[c] = "start" =>
       \A t \in Tasks : Waiting(t) => time + delta <= Due(queue[t]) + held

SomebodyIsDue(at) == \E t \in Tasks : queue[t] <= ticks_to_us(at)
NotEarly ==
  /\ \A c \in Contexts : pc[c] = "start" =>
       delta = max_arm_ticks \/ SomebodyIsDue(time + delta)
  /\ ~InCriticalSection =>
       \A a \in alarm : a.every = max_arm_ticks \/ SomebodyIsDue(a.at)

WakesInTime == InTime /\ NotEarly
WakeInv == AlarmInv /\ AnswerInOrder /\ (lost \/ WakesInTime)

LEMMA DueIsNat ==
  ASSUME TypeOK, NEW t \in Tasks
  PROVE  queue[t] \in Nat /\ Due(queue[t]) \in Nat
<1>1. queue[t] \in Nat
  BY TimesAreNat DEF TypeOK
<1>2. us_to_ticks(queue[t]) \in Nat
  BY <1>1, TicksAreNat
<1> QED BY <1>1, <1>2, Ratio DEF Due

(* An answer of the queue.                                                 *)
LEMMA ExpireAnswers ==
  ASSUME TypeOK, NEW us, ExpireAt(us)
  PROVE  /\ \A t \in Tasks : next' <= queue'[t]
         /\ \E t \in Tasks : next' = queue'[t]
         /\ \A t \in Tasks : queue'[t] # Never => queue'[t] = queue[t]
<1>1. queue' \in [Tasks -> Deadlines \cup {Never}]
  BY ExpireTypes
<1> DEFINE S == {queue'[t] : t \in Tasks}
<1>2. S # {} /\ S \subseteq Nat
  BY <1>1, TimesAreNat, TimeDriverAssumption
<1>3. \E e \in S : \A x \in S : e <= x
  BY <1>2, LeastOfNats
<1>4. \E e \in S : \A t \in Tasks : e <= queue'[t]
  BY <1>3
<1>5. next' \in S /\ \A t \in Tasks : next' <= queue'[t]
  BY <1>4 DEF ExpireAt, Earliest
<1>6. \A t \in Tasks : queue'[t] # Never => queue'[t] = queue[t]
  BY DEF ExpireAt, Expired
<1> QED BY <1>5, <1>6

(* Steps that leave the times, the queue and the alarm alone, and neither  *)
(* enter nor leave a critical section.                                     *)
LEMMA CalmKeepsWakes ==
  ASSUME Inv, AnswerInOrder, CalmActions
  PROVE  AnswerInOrder' /\ (WakesInTime => WakesInTime')
<1>n. /\ pc \in [Contexts -> Labels] /\ Contexts = {"task", "irq"}
      /\ CriticalSection = {"expire", "arm", "start"}
  BY Numbers DEF Inv
<1>1. /\ UNCHANGED <<time, queue, next, delta, alarm, enabled, held>>
      /\ 1 \in pending' <=> 1 \in pending
  BY DEF CalmActions, OtherHandlerReads, on_overflow, Taken, Call, Load, Count, Publish,
         Answered, timers, gic
<1>2. /\ pc'["irq"] = pc["irq"] /\ ~InCriticalSection
      /\ \A c \in Contexts : pc'[c] \notin CriticalSection
  BY <1>n DEF CalmActions, OtherHandlerReads, on_overflow, Taken, Call, Load, Count, Return,
              Publish, Answered, At, Goto, InCriticalSection
<1>3. \A c \in Contexts : pc[c] \notin CriticalSection
  BY <1>2 DEF InCriticalSection
<1>4. AnswerInOrder'
  BY <1>1, <1>2, <1>3, <1>n DEF AnswerInOrder, Waiting, AlarmGoesOn
<1>5. InTime => InTime'
  BY <1>1, <1>2, <1>3, <1>n DEF InTime, Waiting
<1>6. NotEarly => NotEarly'
  BY <1>1, <1>2, <1>3, <1>n DEF NotEarly, SomebodyIsDue
<1> QED BY <1>4, <1>5, <1>6 DEF WakesInTime

LEMMA DueIsDueLater ==
  ASSUME TypeOK, NEW x \in Nat, NEW y \in Nat, x <= y, SomebodyIsDue(x)
  PROVE  SomebodyIsDue(y)
<1>1. PICK t \in Tasks : queue[t] <= ticks_to_us(x)
  BY DEF SomebodyIsDue
<1>2. ticks_to_us(x) \in Nat /\ ticks_to_us(y) \in Nat /\ ticks_to_us(x) <= ticks_to_us(y)
  BY MicrosecondsInOrder, MicrosecondsAreNat
<1>3. queue[t] \in Nat
  BY DueIsNat
<1>4. queue[t] <= ticks_to_us(y)
  BY <1>1, <1>2, <1>3
<1> QED BY <1>4 DEF SomebodyIsDue

LEMMA TickKeepsWakes ==
  ASSUME Inv, AlarmInOrder, AnswerInOrder, Tick
  PROVE  AnswerInOrder' /\ (WakesInTime => WakesInTime')
<1>i. TypeOK
  BY DEF Inv
<1>n. /\ time \in Nat /\ held \in Nat /\ MaxHold \in Nat /\ delta \in Nat
      /\ pc \in [Contexts -> Labels] /\ Contexts = {"task", "irq"}
      /\ CriticalSection = {"expire", "arm", "start"}
  BY <1>i, Numbers
<1>a. \A a \in alarm :
        /\ a.at \in Nat /\ a.every \in Nat /\ a.every > 0
        /\ [a EXCEPT !.at = @ + a.every].at = a.at + a.every
        /\ [a EXCEPT !.at = @ + a.every].every = a.every
  BY <1>i, Numbers DEF TypeOK
<1>1. /\ time' = time + 1 /\ UNCHANGED <<pc, queue, next, delta, enabled>> /\ 0 \in enabled
      /\ held' = (IF HoldsOff THEN held + 1 ELSE 0)
      /\ HoldsOff => held < MaxHold
      /\ 1 \in pending' <=> 1 \in pending \/ Expires
  BY <1>i DEF Tick, timers, TypeOK
<1>2. \A a \in alarm' : \E b \in alarm :
        \/ a = b /\ b.at # time + 1
        \/ b.at = time + 1 /\ a.at = b.at + b.every /\ a.every = b.every
  <2> TAKE a \in alarm'
  <2>1. PICK b \in alarm :
          a = IF b.at = time + 1 THEN [b EXCEPT !.at = @ + b.every] ELSE b
    BY DEF Tick
  <2>2. \/ a = b /\ b.at # time + 1
        \/ b.at = time + 1 /\ a.at = b.at + b.every /\ a.every = b.every
    BY <2>1, <1>a
  <2> QED BY <2>2
<1>3. alarm' # {} <=> alarm # {}
  BY DEF Tick
<1>4. AnswerInOrder'
  BY <1>1, <1>3 DEF AnswerInOrder, AlarmGoesOn, Waiting
<1>5. ASSUME InTime PROVE InTime'
  <2>1. ASSUME pc["task"] \notin CriticalSection, NEW t \in Tasks, Waiting(t)
        PROVE  /\ time' <= Due(queue[t]) + MaxHold + held'
               /\ \A a \in alarm' : \/ 1 \in pending' \/ pc["irq"] = "stop"
                                    \/ a.at <= Due(queue[t]) + MaxHold
    <3>1. Due(queue[t]) \in Nat
      BY <1>i, DueIsNat
    <3>2. CASE HoldsOff
      <4>1. time <= Due(queue[t]) + MaxHold + held
        BY <1>5, <2>1 DEF InTime
      <4> QED BY <4>1, <3>1, <3>2, <1>1, <1>2, <1>n, <1>5, <2>1 DEF InTime, Expires
    <3>3. CASE ~HoldsOff
      <4>1. AlarmGoesOn
        BY <1>1, <2>1 DEF AnswerInOrder
      <4>2. PICK a \in alarm : TRUE
        BY <3>3, <4>1 DEF AlarmGoesOn, HoldsOff
      <4>3. 1 \notin pending /\ pc["irq"] # "stop"
        BY <4>2, <3>3 DEF HoldsOff, AlarmInOrder
      <4>4. a.at <= Due(queue[t]) + MaxHold /\ time < a.at
        BY <4>2, <4>3, <1>5, <2>1 DEF InTime, AlarmInOrder
      <4>5. time' <= Due(queue[t]) + MaxHold + held'
        BY <4>2, <4>4, <3>1, <3>3, <1>1, <1>a, <1>n
      <4> QED BY <4>5, <1>1, <1>2, <1>5, <2>1 DEF InTime, Expires
    <3> QED BY <3>2, <3>3
  <2>2. ASSUME NEW c \in Contexts, pc[c] = "start", NEW t \in Tasks, Waiting(t)
        PROVE  time' + delta <= Due(queue[t]) + held'
    <3>1. Due(queue[t]) \in Nat
      BY <1>i, DueIsNat
    <3>2. HoldsOff
      BY <2>2, <1>n DEF HoldsOff, InCriticalSection
    <3>3. time + delta <= Due(queue[t]) + held
      BY <1>5, <2>2 DEF InTime
    <3> QED BY <3>1, <3>2, <3>3, <1>1, <1>n
  <2> QED BY <1>1, <2>1, <2>2 DEF InTime, Waiting
<1>6. ASSUME NotEarly PROVE NotEarly'
  <2>1. ASSUME NEW c \in Contexts, pc[c] = "start"
        PROVE  delta = max_arm_ticks \/ SomebodyIsDue((time + 1) + delta)
    <3>1. /\ time + delta \in Nat /\ (time + 1) + delta \in Nat
          /\ time + delta <= (time + 1) + delta
      BY <1>n
    <3> QED BY <3>1, <1>6, <2>1, <1>i, DueIsDueLater DEF NotEarly
  <2>2. ASSUME ~InCriticalSection, NEW b \in alarm
        PROVE  /\ b.every = max_arm_ticks \/ SomebodyIsDue(b.at)
               /\ b.every = max_arm_ticks \/ SomebodyIsDue(b.at + b.every)
    <3>1. b.at \in Nat /\ b.at + b.every \in Nat /\ b.at <= b.at + b.every
      BY <1>a
    <3> QED BY <3>1, <1>6, <2>2, <1>i, DueIsDueLater DEF NotEarly
  <2>3. ASSUME ~InCriticalSection, NEW a \in alarm'
        PROVE  a.every = max_arm_ticks \/ SomebodyIsDue(a.at)
    BY <2>2, <2>3, <1>2
  <2>4. InCriticalSection' <=> InCriticalSection
    BY <1>1 DEF InCriticalSection
  <2> QED BY <1>1, <2>1, <2>3, <2>4 DEF NotEarly, SomebodyIsDue
<1> QED BY <1>4, <1>5, <1>6 DEF WakesInTime

(* A round of the loop.                                                    *)
LEMMA OneRound ==
  ASSUME Inv, AnswerInOrder, NEW c \in Contexts,
         Expire(c) \/ TrySetAlarm(c) \/ StartAlarm(c)
  PROVE  /\ pc[c] \in CriticalSection
         /\ \A d \in Contexts \ {c} : pc[d] \notin CriticalSection /\ pc'[d] = pc[d]
         /\ c = "task" => pc["irq"] = "idle"
         /\ c = "irq" => alarm = {}
<1>n. /\ pc \in [Contexts -> Labels] /\ Contexts = {"task", "irq"}
      /\ CriticalSection = {"expire", "arm", "start"}
  BY Numbers DEF Inv
<1>1. /\ pc[c] \in CriticalSection /\ (c = "task" => pc["irq"] = "idle")
      /\ \E label \in Labels : Goto(c, label)
  BY <1>n DEF Expire, TrySetAlarm, StartAlarm, At, Labels
<1>2. \A d \in Contexts \ {c} : pc[d] \notin CriticalSection /\ pc'[d] = pc[d]
  BY <1>1, <1>n DEF Inv, OneAtATime, Goto
<1>3. c = "irq" => alarm = {}
  BY <1>1 DEF AnswerInOrder
<1> QED BY <1>1, <1>2, <1>3

LEMMA ExpireKeepsWakes ==
  ASSUME Inv, AnswerInOrder, NEW c \in Contexts, Expire(c)
  PROVE  AnswerInOrder' /\ (WakesInTime => WakesInTime')
<1>n. /\ pc \in [Contexts -> Labels] /\ Contexts = {"task", "irq"}
      /\ CriticalSection = {"expire", "arm", "start"}
  BY Numbers DEF Inv
<1>1. /\ UNCHANGED <<time, alarm, pending, enabled, held>> /\ pc'[c] = "arm"
  BY <1>n DEF Expire, Goto, gic
<1>2. /\ \A t \in Tasks : next' <= queue'[t]
      /\ \E t \in Tasks : next' = queue'[t]
      /\ \A t \in Tasks : queue'[t] # Never => queue'[t] = queue[t]
  BY ExpireAnswers DEF Expire, Inv
<1>3. /\ pc[c] \in CriticalSection
      /\ \A d \in Contexts \ {c} : pc[d] \notin CriticalSection /\ pc'[d] = pc[d]
      /\ c = "task" => pc["irq"] = "idle"
      /\ c = "irq" => alarm = {}
  BY OneRound
<1>4. AnswerInOrder'
  BY <1>1, <1>2, <1>3, <1>n DEF AnswerInOrder, AlarmGoesOn
<1>5. InTime => InTime'
  BY <1>1, <1>2, <1>3, <1>n DEF InTime, Waiting
<1>6. NotEarly'
  BY <1>1, <1>3, <1>n DEF NotEarly, InCriticalSection
<1> QED BY <1>4, <1>5, <1>6 DEF WakesInTime

LEMMA TrySetAlarmKeepsWakes ==
  ASSUME Inv, AnswerInOrder, NEW c \in Contexts, TrySetAlarm(c)
  PROVE  AnswerInOrder' /\ (Fed /\ WakesInTime => WakesInTime')
<1>i. TypeOK /\ ReadInOrder
  BY DEF Inv
<1>n. /\ time \in Nat /\ held \in Nat /\ max_arm_ticks \in Nat
      /\ pc \in [Contexts -> Labels] /\ Contexts = {"task", "irq"}
      /\ CriticalSection = {"expire", "arm", "start"}
  BY <1>i, Numbers
<1>1. /\ UNCHANGED <<time, queue, next, alarm, pending, enabled, held>>
      /\ pc[c] = "arm" /\ pc'[c] \in {"expire", "start"}
  BY <1>n DEF TrySetAlarm, Goto, At, gic
<1>3. /\ \A d \in Contexts \ {c} : pc[d] \notin CriticalSection /\ pc'[d] = pc[d]
      /\ c = "task" => pc["irq"] = "idle"
      /\ c = "irq" => alarm = {}
  BY OneRound
<1>4. AnswerInOrder'
  BY <1>1, <1>3, <1>n DEF AnswerInOrder, AlarmGoesOn
<1>5. ASSUME Fed, pc'[c] = "start"
      PROVE  /\ \A t \in Tasks : time + delta' <= Due(queue[t]) + held
             /\ delta' = max_arm_ticks \/ SomebodyIsDue(time + delta')
  <2> DEFINE us == ticks_to_us(time)
             wait == us_to_ticks(next - us)
  <2>1. raw_ostm_ticks = time
    BY <1>5, <1>i, ReadNowInOrder DEF Fed
  <2>2. next > us /\ delta' = delta_ostm(us)
    BY <2>1, <1>5, <1>n DEF TrySetAlarm, Goto
  <2>3. next \in Nat /\ us \in Nat
    BY <1>i, <1>n, TimesAreNat, MicrosecondsAreNat DEF TypeOK
  <2>4. /\ wait \in Nat
        /\ time + wait <= us_to_ticks(next) + (num \div den) + 1
        /\ next <= ticks_to_us(time + wait)
    <3>1. us < next
      BY <2>2, <2>3
    <3> QED BY <3>1, <2>3, <1>n, ArmedInTime
  <2>5. delta' = wait \/ (delta' = max_arm_ticks /\ max_arm_ticks <= wait)
    BY <2>2, <2>4, <1>n DEF delta_ostm
  <2> HIDE DEF us, wait
  <2>6. ASSUME NEW t \in Tasks PROVE time + delta' <= Due(queue[t]) + held
    <3>1. queue[t] \in Nat /\ next <= queue[t]
      BY <1>1, <1>i, DueIsNat DEF AnswerInOrder
    <3>2. us_to_ticks(next) <= us_to_ticks(queue[t])
      BY <3>1, <2>3, TicksInOrder
    <3>3. us_to_ticks(next) \in Nat /\ us_to_ticks(queue[t]) \in Nat
      BY <3>1, <2>3, TicksAreNat
    <3> QED BY <3>2, <3>3, <2>4, <2>5, <1>n, Ratio DEF Due
  <2>7. SomebodyIsDue(time + wait)
    <3>1. PICK t \in Tasks : next = queue[t]
      BY <1>1 DEF AnswerInOrder
    <3> QED BY <3>1, <2>4 DEF SomebodyIsDue
  <2> QED BY <2>5, <2>6, <2>7
<1>6. ASSUME Fed, InTime PROVE InTime'
  <2>1. \A d \in Contexts : pc'[d] = "start" => d = c
    BY <1>3, <1>n
  <2> QED BY <2>1, <1>1, <1>3, <1>5, <1>6, <1>n DEF InTime, Waiting
<1>7. ASSUME Fed PROVE NotEarly'
  <2>1. \A d \in Contexts : pc'[d] = "start" => d = c
    BY <1>3, <1>n
  <2>2. InCriticalSection'
    BY <1>1, <1>n DEF InCriticalSection
  <2> QED BY <2>1, <2>2, <1>1, <1>5, <1>7 DEF NotEarly, SomebodyIsDue
<1> QED BY <1>4, <1>6, <1>7 DEF WakesInTime

LEMMA StartAlarmKeepsWakes ==
  ASSUME Inv, AlarmInOrder, AnswerInOrder, NEW c \in Contexts, StartAlarm(c)
  PROVE  AnswerInOrder' /\ (WakesInTime => WakesInTime')
<1>i. TypeOK
  BY DEF Inv
<1>n. /\ time \in Nat /\ held \in Nat /\ MaxHold \in Nat /\ delta \in Nat
      /\ pc \in [Contexts -> Labels] /\ Contexts = {"task", "irq"}
      /\ CriticalSection = {"expire", "arm", "start"}
  BY <1>i, Numbers
<1>1. /\ UNCHANGED <<time, queue, pending>> /\ held' = 0
      /\ pc[c] = "start" /\ pc'[c] = "idle"
      /\ alarm' = {[at |-> time + delta, every |-> delta]}
  BY <1>n DEF StartAlarm, Goto, At
<1>2. /\ alarm' # {}
      /\ \A a \in alarm' : a.at = time + delta /\ a.every = delta
  BY <1>1
<1>3. /\ \A d \in Contexts \ {c} : pc[d] \notin CriticalSection /\ pc'[d] = pc[d]
      /\ c = "task" => pc["irq"] = "idle"
  BY OneRound
<1>4. /\ \A d \in Contexts : pc'[d] \notin CriticalSection
      /\ pc'["irq"] = "idle" \/ c = "irq"
  BY <1>1, <1>3, <1>n
<1>5. AnswerInOrder'
  BY <1>1, <1>2, <1>3, <1>4, <1>n DEF AnswerInOrder, AlarmGoesOn
<1>6. ASSUME InTime PROVE InTime'
  <2>1. ASSUME NEW t \in Tasks, Waiting(t)
        PROVE  time <= Due(queue[t]) + MaxHold /\ time + delta <= Due(queue[t]) + MaxHold
    <3>1. time + delta <= Due(queue[t]) + held /\ held <= MaxHold
      BY <1>1, <1>6, <2>1 DEF InTime, AlarmInOrder
    <3> QED BY <3>1, <2>1, <1>i, <1>n, DueIsNat
  <2>2. ASSUME NEW t \in Tasks, Waiting(t)
        PROVE  time' <= Due(queue[t]) + MaxHold + held'
    <3>1. Due(queue[t]) \in Nat
      BY <1>i, DueIsNat
    <3> QED BY <2>1, <2>2, <3>1, <1>1, <1>n
  <2> QED BY <2>1, <2>2, <1>1, <1>2, <1>4, <1>n DEF InTime, Waiting
<1>7. ASSUME NotEarly PROVE NotEarly'
  <2>1. delta = max_arm_ticks \/ SomebodyIsDue(time + delta)
    BY <1>1, <1>7 DEF NotEarly
  <2>2. \A d \in Contexts : pc'[d] # "start"
    BY <1>4, <1>n
  <2> QED BY <2>1, <2>2, <1>1, <1>2 DEF NotEarly, SomebodyIsDue
<1> QED BY <1>5, <1>6, <1>7 DEF WakesInTime

LEMMA HandlerKeepsWakes ==
  ASSUME Inv, AnswerInOrder,
         on_alarm \/ StopAlarm \/ ReadAlarmTime \/ HandleAlarm
  PROVE  AnswerInOrder' /\ (WakesInTime => WakesInTime')
<1>n. /\ pc \in [Contexts -> Labels] /\ Contexts = {"task", "irq"}
      /\ CriticalSection = {"expire", "arm", "start"}
  BY Numbers DEF Inv
<1>1. CASE on_alarm
  <2>1. /\ UNCHANGED <<time, queue, next, delta, alarm, enabled, held>>
        /\ ~InCriticalSection /\ pc'["irq"] = "stop" /\ pc'["task"] = pc["task"]
    BY <1>1, <1>n DEF on_alarm, Taken, Goto, timers
  <2>2. \A c \in Contexts : pc[c] \notin CriticalSection /\ pc'[c] \notin CriticalSection
    BY <2>1, <1>n DEF InCriticalSection
  <2>3. AnswerInOrder'
    BY <2>1, <2>2, <1>n DEF AnswerInOrder, AlarmGoesOn, Waiting
  <2>4. InTime => InTime'
    BY <2>1, <2>2, <1>n DEF InTime, Waiting
  <2>5. NotEarly => NotEarly'
    BY <2>1, <2>2, <1>n DEF NotEarly, SomebodyIsDue
  <2> QED BY <2>3, <2>4, <2>5 DEF WakesInTime
<1>2. CASE StopAlarm \/ ReadAlarmTime
  <2>1. /\ UNCHANGED <<time, queue, next, delta, held>> /\ alarm' = {}
        /\ pc["irq"] # "idle" /\ pc'["irq"] \in {"now", "handle"}
        /\ pc["irq"] \notin CriticalSection /\ pc'["task"] = pc["task"]
        /\ 0 \in enabled' => 0 \in enabled
    BY <1>2, <1>n DEF StopAlarm, ReadAlarmTime, At, Goto, timers, gic, AnswerInOrder
  <2>2. \A c \in Contexts : pc'[c] \notin CriticalSection
    BY <2>1, <1>n DEF Inv, OneAtATime
  <2>3. AnswerInOrder'
    BY <2>1, <2>2, <1>n DEF AnswerInOrder, AlarmGoesOn
  <2>4. InTime => InTime'
    BY <2>1, <2>2, <1>n DEF InTime, Waiting, Inv, OneAtATime
  <2>5. NotEarly'
    BY <2>1, <2>2, <1>n DEF NotEarly
  <2> QED BY <2>3, <2>4, <2>5 DEF WakesInTime
<1>3. CASE HandleAlarm
  <2>1. /\ UNCHANGED <<time, alarm, enabled, held>> /\ alarm = {}
        /\ pc["irq"] = "handle" /\ pc'["irq"] = "arm" /\ pc'["task"] = pc["task"]
    BY <1>3, <1>n DEF HandleAlarm, At, Goto, gic, AnswerInOrder
  <2>2. /\ \A t \in Tasks : next' <= queue'[t]
        /\ \E t \in Tasks : next' = queue'[t]
        /\ \A t \in Tasks : queue'[t] # Never => queue'[t] = queue[t]
    BY <1>3, ExpireAnswers DEF HandleAlarm, Inv
  <2>3. pc["task"] \notin CriticalSection /\ InCriticalSection'
    BY <2>1, <1>n DEF Inv, OneAtATime, InCriticalSection
  <2>4. AnswerInOrder'
    BY <2>1, <2>2, <2>3, <1>n DEF AnswerInOrder, AlarmGoesOn
  <2>5. InTime => InTime'
    BY <2>1, <2>2, <2>3, <1>n DEF InTime, Waiting
  <2>6. NotEarly'
    BY <2>1, <2>3, <1>n DEF NotEarly
  <2> QED BY <2>4, <2>5, <2>6 DEF WakesInTime
<1> QED BY <1>1, <1>2, <1>3

LEMMA WakeStep ==
  ASSUME Inv, AlarmInOrder, AnswerInOrder, Next
  PROVE  AnswerInOrder' /\ (Fed /\ WakesInTime => WakesInTime')
<1>n. /\ pc \in [Contexts -> Labels] /\ Contexts = {"task", "irq"}
      /\ CriticalSection = {"expire", "arm", "start"}
  BY Numbers DEF Inv
<1>1. CASE CalmActions
  BY <1>1, CalmKeepsWakes
<1>2. CASE Tick
  BY <1>2, TickKeepsWakes
<1>3. ASSUME NEW t \in Tasks, NEW at \in Deadlines, ScheduleWake(t, at)
      PROVE  AnswerInOrder' /\ (WakesInTime => WakesInTime')
  <2>1. pc["irq"] = "idle" /\ pc'["irq"] = "idle" /\ pc'["task"] = "expire"
    BY <1>3, <1>n DEF ScheduleWake, At, Goto
  <2>2. InCriticalSection'
    BY <2>1, <1>n DEF InCriticalSection
  <2>3. AnswerInOrder' /\ InTime' /\ NotEarly'
    BY <2>1, <2>2, <1>n DEF AnswerInOrder, InTime, NotEarly
  <2> QED BY <2>3 DEF WakesInTime
<1>4. ASSUME NEW c \in Contexts, Expire(c) \/ TrySetAlarm(c) \/ StartAlarm(c)
      PROVE  AnswerInOrder' /\ (Fed /\ WakesInTime => WakesInTime')
  BY <1>4, ExpireKeepsWakes, TrySetAlarmKeepsWakes, StartAlarmKeepsWakes
<1>5. CASE on_alarm \/ StopAlarm \/ ReadAlarmTime \/ HandleAlarm
  BY <1>5, HandlerKeepsWakes
<1>6. CASE Stop
  <2>1. /\ UNCHANGED <<time, pc, queue, next, delta, held>> /\ alarm' = {}
        /\ 0 \notin enabled'
    BY <1>6 DEF Stop, timers
  <2>2. AnswerInOrder'
    BY <2>1 DEF AnswerInOrder
  <2>3. InTime => InTime'
    BY <2>1 DEF InTime, Waiting
  <2>4. NotEarly => NotEarly'
    BY <2>1 DEF NotEarly, SomebodyIsDue
  <2> QED BY <2>2, <2>3, <2>4 DEF WakesInTime
<1> QED BY <1>1, <1>2, <1>3, <1>4, <1>5, <1>6 DEF Next, CalmActions

LEMMA InitWakes == Init => AnswerInOrder /\ WakesInTime
<1> SUFFICES ASSUME Init PROVE AnswerInOrder /\ WakesInTime
  OBVIOUS
<1>1. /\ \A c \in Contexts : pc[c] = "idle"
      /\ \A t \in Tasks : ~Waiting(t)
      /\ alarm = {}
  BY DEF Init, Waiting
<1> QED BY <1>1 DEF AnswerInOrder, WakesInTime, InTime, NotEarly, Contexts, CriticalSection

(* The inductive invariant.                                                *)
LEMMA WakesAreInOrder == Spec => []WakeInv
<1>1. Init => WakeInv
  BY InitInv, InitAlarm, InitWakes DEF WakeInv, AlarmInv, ClockIsFed
<1>2. ASSUME WakeInv, AlarmInv', [Next]_vars PROVE WakeInv'
  <2>1. CASE Next
    <3>1. AnswerInOrder' /\ (Fed /\ WakesInTime => WakesInTime')
      BY <1>2, <2>1, WakeStep, Zenon DEF WakeInv, AlarmInv
    <3>2. lost => lost'
      BY <2>1, LostStaysLost, Zenon
    <3> QED BY <1>2, <3>1, <3>2, Zenon DEF WakeInv, AlarmInv, ClockIsFed
  <2>2. CASE UNCHANGED vars
    <3>1. (AnswerInOrder' <=> AnswerInOrder) /\ (WakesInTime' <=> WakesInTime)
      BY <2>2 DEF vars, timers, gic, AnswerInOrder, WakesInTime, InTime, NotEarly,
           InCriticalSection, SomebodyIsDue, Waiting, AlarmGoesOn
    <3>2. lost' <=> lost
      BY <2>2, Zenon DEF vars
    <3> QED BY <1>2, <3>1, <3>2, Zenon DEF WakeInv
  <2> QED BY <1>2, <2>1, <2>2
<1> QED BY AlarmIsInOrder, <1>1, <1>2, PTL DEF Spec

-----------------------------------------------------------------------------
(* No wake-up is lost: whoever waits outside a critical section is overdue *)
(* by no more than what arming takes, what the interrupt is held off, and  *)
(* the rounding of the two conversions.                                    *)
THEOREM WakesAreKept == Spec => []NoWakeIsLost
<1>1. ASSUME WakeInv PROVE NoWakeIsLost
  <2> SUFFICES ASSUME ~lost, pc["task"] \notin CriticalSection,
                      NEW t \in Tasks, Waiting(t)
               PROVE  time <= us_to_ticks(queue[t]) + Late
    BY Zenon DEF NoWakeIsLost
  <2>1. TypeOK /\ held <= MaxHold /\ InTime
    BY <1>1, Zenon DEF WakeInv, AlarmInv, Inv, AlarmInOrder, WakesInTime
  <2>2. time <= us_to_ticks(queue[t]) + num \div den + 1 + MaxHold + held
    BY <2>1 DEF InTime, Due
  <2>3. us_to_ticks(queue[t]) \in Nat
    BY <2>1, DueIsNat, TicksAreNat
  <2> QED BY <2>1, <2>2, <2>3, Numbers, Ratio DEF Late
<1> QED BY WakesAreInOrder, <1>1, PTL

(* An alarm that was not cut short finds somebody to wake when it expires. *)
THEOREM AlarmsAreNotEarly == Spec => AlarmIsNeverEarly
<1> DEFINE A == Expires /\ time' # time /\ ~InCriticalSection /\ ~lost =>
                  \/ \E a \in alarm : a.every = max_arm_ticks
                  \/ \E t \in Tasks : queue[t] <= ticks_to_us(time')
<1>1. ASSUME WakeInv, Next PROVE A
  <2> SUFFICES ASSUME Expires, time' # time, ~InCriticalSection, ~lost
               PROVE  \/ \E a \in alarm : a.every = max_arm_ticks
                      \/ \E t \in Tasks : queue[t] <= ticks_to_us(time')
    BY Zenon
  <2>1. NotEarly
    BY <1>1, Zenon DEF WakeInv, WakesInTime
  <2>2. time' = time + 1
    BY <1>1 DEF Next, Tick, OtherHandlerReads, Call, Load, Count, Publish, Answered,
         ScheduleWake, Expire, TrySetAlarm, StartAlarm, on_overflow, on_alarm, StopAlarm,
         ReadAlarmTime, HandleAlarm, Stop
  <2>3. PICK a \in alarm : a.at = time'
    BY <2>2 DEF Expires
  <2> QED BY <2>1, <2>3 DEF NotEarly, SomebodyIsDue
<1>2. WakeInv /\ [Next]_vars => [A]_vars
  BY <1>1
<1> QED BY WakesAreInOrder, <1>2, PTL DEF Spec, AlarmIsNeverEarly
====
