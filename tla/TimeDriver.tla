---- MODULE TimeDriver ----
(***************************************************************************)
(* The Embassy time driver (rza1-hal time_driver.rs) on one core: a task,  *)
(* the handlers of OSTM0 and OSTM1, which share a priority and so do not   *)
(* nest, and handlers of any priority that read the clock (as the trigger  *)
(* clock's does).  The task may be left between any two steps of a read    *)
(* for as long as the handlers like.  A read by a handler is one step:     *)
(* a preemption inside it is one inside the task's read again.  Nothing    *)
(* preempts a critical section, but time goes on in it.                    *)
(*                                                                         *)
(* `time` is what a counter that never wraps would show; OSTM0 shows it    *)
(* modulo Wrap.  The timer queue is embassy-time-queue-utils', external.   *)
(***************************************************************************)
EXTENDS TimeMath, FiniteSets

CONSTANTS
  Tasks,      (* the tasks that may wait for a time                        *)
  Deadlines,  (* the times they may ask for, in microseconds               *)
  Never,      (* u64::MAX: the queue is empty                              *)
  MaxHold,    (* bound: ticks an alarm may be held off by others           *)
  MaxTime     (* bound: ticks of a behaviour                               *)

ASSUME TimeDriverAssumption ==
  /\ Tasks # {}
  /\ Never \in Nat
  /\ Deadlines \subseteq 0 .. Never - 1
  /\ MaxHold \in Nat /\ MaxTime \in Nat

VARIABLES
  time,       (* ticks since the start                                     *)
  LAST_RAW,
  pc,         (* where the task and the interrupt handler are              *)
  last, val,  (* the locals of the task's raw_ostm_ticks                   *)
  now,        (* the local of on_alarm                                     *)
  queue,      (* the timer queue: the time each waiting task is due        *)
  next,       (* in a critical section: next_expiration's answer,          *)
  delta,      (* and the ticks try_set_alarm arms OSTM1 for                *)
  alarm,      (* OSTM1: when it will expire and how often, {} if stopped   *)
  pending,    (* the interrupts that wait in the GIC                       *)
  enabled,    (* the interrupts that are not masked                        *)
  held,       (* ticks the alarm has been held off for                     *)
  newest,     (* history: the latest time any call returned                *)
  floor,      (* history: newest when the task called,                     *)
  began,      (* history: and the time then                                *)
  lost        (* history: was the clock once left unread for a whole wrap? *)

call == <<last, val, floor, began>>
clock == <<LAST_RAW, newest>>
timers == <<queue, next, delta>>
gic == <<alarm, pending, enabled>>
vars == <<time, clock, pc, call, now, timers, gic, held, lost>>

Contexts == {"task", "irq"}
CriticalSection == {"expire", "arm", "start"}
InCriticalSection == \E c \in Contexts : pc[c] \in CriticalSection

At(c, label) == pc[c] = label /\ (c = "task" => pc["irq"] = "idle")
Goto(c, label) == pc' = [pc EXCEPT ![c] = label]

Later(a, b) == IF a < b THEN b ELSE a

-----------------------------------------------------------------------------
(* The task calls `now`: raw_ostm_ticks, step by step.                     *)

count == time % Wrap

Call ==
  /\ At("task", "idle")
  /\ floor' = newest
  /\ began' = time
  /\ Goto("task", "load")
  /\ UNCHANGED <<time, clock, last, val, now, timers, gic, held, lost>>

Load ==
  /\ At("task", "load")
  /\ last' = LAST_RAW
  /\ Goto("task", "count")
  /\ UNCHANGED <<time, clock, val, floor, began, now, timers, gic, held, lost>>

Return(v) ==
  /\ val' = v
  /\ newest' = Later(newest, v)
  /\ Goto("task", "return")

Count ==
  /\ At("task", "count")
  /\ LET v == extend(last, count)
     IN  \/ /\ v <= last
            /\ Return(last)
         \/ /\ v > last
            /\ val' = v
            /\ Goto("task", "publish")
            /\ UNCHANGED newest
  /\ UNCHANGED <<time, LAST_RAW, last, floor, began, now, timers, gic, held, lost>>
(* Seeded bug: a plain store, whoever published in between.                *)
PublishOver ==
  /\ At("task", "publish")
  /\ LAST_RAW' = val
  /\ Return(val)
  /\ UNCHANGED <<time, last, floor, began, now, timers, gic, held, lost>>

(* compare_exchange_weak: it fails when somebody published in between, and *)
(* it may fail for no reason.                                              *)
Publish ==
  /\ At("task", "publish")
  /\ \/ /\ LAST_RAW = last
        /\ LAST_RAW' = val
        /\ Return(val)
        /\ UNCHANGED last
     \/ /\ Goto("task", "load")
        /\ last' = 0 /\ val' = 0
        /\ UNCHANGED clock
  /\ UNCHANGED <<time, floor, began, now, timers, gic, held, lost>>

Answered ==
  /\ At("task", "return")
  /\ last' = 0 /\ val' = 0 /\ floor' = 0 /\ began' = 0
  /\ Goto("task", "idle")
  /\ UNCHANGED <<time, clock, now, timers, gic, held, lost>>

(* The same with nobody in between.                                        *)
raw_ostm_ticks == Later(LAST_RAW, extend(LAST_RAW, count))

ReadNow ==
  /\ LAST_RAW' = raw_ostm_ticks
  /\ newest' = Later(newest, raw_ostm_ticks)

-----------------------------------------------------------------------------
(* The timer queue, and the loop that arms OSTM1 for its earliest entry.   *)

(* Queue::schedule_wake: a task is queued once, for the earliest time it   *)
(* asked for; true, and the loop follows, when that changed the queue.     *)
Waiting(t) == queue[t] # Never
Sooner(t, at) == Waiting(t) => at < queue[t]

ScheduleWake(t, at) ==
  /\ At("task", "idle")
  /\ 0 \in enabled
  /\ Sooner(t, at)
  /\ queue' = [queue EXCEPT ![t] = at]
  /\ Goto("task", "expire")
  /\ UNCHANGED <<time, clock, call, now, next, delta, gic, held, lost>>

(* Queue::next_expiration: wakes every task that is due.                   *)
Expired(us) == [t \in Tasks |-> IF queue[t] <= us THEN Never ELSE queue[t]]
Earliest(q) == CHOOSE e \in {q[t] : t \in Tasks} : \A t \in Tasks : e <= q[t]

ExpireAt(us) ==
  /\ queue' = Expired(us)
  /\ next' = Earliest(queue')

(* The rounds of the loop that read the clock themselves.                  *)
Expire(c) ==
  /\ At(c, "expire")
  /\ ReadNow
  /\ ExpireAt(ticks_to_us(raw_ostm_ticks))
  /\ Goto(c, "arm")
  /\ UNCHANGED <<time, call, now, delta, gic, held, lost>>
(* Seeded bug: a wait is armed in one piece.                               *)
delta_in_one(us) == us_to_ticks(next - us)

delta_ostm(us) ==
  LET ticks == us_to_ticks(next - us)
  IN  IF ticks < max_arm_ticks THEN ticks ELSE max_arm_ticks

(* try_set_alarm up to its early returns: false goes round the loop.       *)
TrySetAlarm(c) ==
  /\ At(c, "arm")
  /\ ReadNow
  /\ LET us == ticks_to_us(raw_ostm_ticks)
     IN  \/ /\ next <= us \/ delta_ostm(us) = 0
            /\ Goto(c, "expire")
            /\ UNCHANGED delta
         \/ /\ next > us /\ delta_ostm(us) # 0
            /\ delta' = delta_ostm(us)
            /\ Goto(c, "start")
  /\ UNCHANGED <<time, call, now, queue, next, gic, held, lost>>

(* start_alarm and OSTMI1::enable, and the critical section ends.          *)
StartAlarm(c) ==
  /\ At(c, "start")
  /\ alarm' = {[at |-> time + delta, every |-> delta]}
  /\ enabled' = enabled \cup {1}
  /\ Goto(c, "idle")
  /\ next' = Never /\ delta' = 0
  /\ held' = 0
  /\ UNCHANGED <<time, clock, call, now, queue, pending, lost>>

-----------------------------------------------------------------------------
(* The handlers.  The GIC offers an interrupt when it is pending, not      *)
(* masked, and nothing of its priority runs.                               *)

Taken(i) ==
  /\ i \in pending \cap enabled
  /\ pc["irq"] = "idle" /\ ~InCriticalSection
  /\ pending' = pending \ {i}

on_overflow ==
  /\ Taken(0)
  /\ ReadNow
  /\ UNCHANGED <<time, pc, call, now, timers, alarm, enabled, held, lost>>

OtherHandlerReads ==
  /\ ~InCriticalSection
  /\ ReadNow
  /\ UNCHANGED <<time, pc, call, now, timers, gic, held, lost>>

on_alarm ==
  /\ Taken(1)
  /\ Goto("irq", "stop")
  /\ UNCHANGED <<time, clock, call, now, timers, alarm, enabled, held, lost>>

(* OSTM1 may have expired again before it is stopped: that one stays       *)
(* pending behind the mask.                                                *)
StopAlarm ==
  /\ At("irq", "stop")
  /\ alarm' = {}
  /\ enabled' = enabled \ {1}
  /\ Goto("irq", "now")
  /\ UNCHANGED <<time, clock, call, now, timers, pending, held, lost>>

ReadAlarmTime ==
  /\ At("irq", "now")
  /\ ReadNow
  /\ now' = raw_ostm_ticks
  /\ Goto("irq", "handle")
  /\ UNCHANGED <<time, call, timers, gic, held, lost>>
(* Seeded bug: the alarm is not armed again.                               *)
HandleAlarmOnce ==
  /\ At("irq", "handle")
  /\ queue' = Expired(ticks_to_us(now))
  /\ now' = 0
  /\ Goto("irq", "idle")
  /\ UNCHANGED <<time, clock, call, next, delta, gic, held, lost>>

(* Into the critical section, with the time read before it.                *)
HandleAlarm ==
  /\ At("irq", "handle")
  /\ ExpireAt(ticks_to_us(now))
  /\ now' = 0
  /\ Goto("irq", "arm")
  /\ UNCHANGED <<time, clock, call, delta, gic, held, lost>>

(* `stop`: both channels halt and are masked, for good.                    *)
Stop ==
  /\ At("task", "idle")
  /\ 0 \in enabled
  /\ enabled' = {}
  /\ alarm' = {}
  /\ UNCHANGED <<time, clock, pc, call, now, timers, pending, held, lost>>

-----------------------------------------------------------------------------
(* A tick of P0.  OSTM0 interrupts as it wraps; OSTM1 when its interval is *)
(* over, and starts the next one.  What holds the alarm off (a critical    *)
(* section, its own handler, handlers of its priority or above) lasts at   *)
(* most MaxHold ticks; OSTM0's interrupt may be as late as it likes.       *)

Expires == \E a \in alarm : a.at = time + 1
HoldsOff ==
  \/ 1 \in pending \cap enabled
  \/ InCriticalSection
  \/ pc["irq"] # "idle"

Tick ==
  /\ 0 \in enabled
  /\ time < MaxTime
  /\ HoldsOff => held < MaxHold
  /\ time' = time + 1
  /\ held' = IF HoldsOff THEN held + 1 ELSE 0
  /\ lost' = (lost \/ time' - LAST_RAW >= Wrap)
  /\ pending' = pending \cup (IF time' % Wrap = 0 THEN {0} ELSE {})
                        \cup (IF Expires THEN {1} ELSE {})
  /\ alarm' = {IF a.at = time + 1 THEN [a EXCEPT !.at = @ + a.every] ELSE a :
                 a \in alarm}
  /\ UNCHANGED <<clock, pc, call, now, timers, enabled>>

Init ==
  /\ time = 0 /\ LAST_RAW = 0 /\ newest = 0
  /\ pc = [c \in Contexts |-> "idle"]
  /\ last = 0 /\ val = 0 /\ floor = 0 /\ began = 0 /\ now = 0
  /\ queue = [t \in Tasks |-> Never] /\ next = Never /\ delta = 0
  /\ alarm = {} /\ pending = {} /\ enabled = {0}
  /\ held = 0 /\ lost = FALSE

Next ==
  \/ Tick \/ OtherHandlerReads
  \/ Call \/ Load \/ Count \/ Publish \/ Answered
  \/ \E t \in Tasks, at \in Deadlines : ScheduleWake(t, at)
  \/ \E c \in Contexts : Expire(c) \/ TrySetAlarm(c) \/ StartAlarm(c)
  \/ on_overflow \/ on_alarm \/ StopAlarm \/ ReadAlarmTime \/ HandleAlarm
  \/ Stop

Spec == Init /\ [][Next]_vars

-----------------------------------------------------------------------------
TypeOK ==
  /\ time \in Nat /\ LAST_RAW \in Nat /\ newest \in Nat
  /\ pc \in [Contexts -> {"idle", "load", "count", "publish", "return", "stop",
                           "now", "handle"} \cup CriticalSection]
  /\ last \in Nat /\ val \in Nat /\ floor \in Nat /\ began \in Nat /\ now \in Nat
  /\ queue \in [Tasks -> Deadlines \cup {Never}]
  /\ next \in Deadlines \cup {Never} /\ delta \in 0 .. max_arm_ticks
  /\ alarm \in SUBSET [at : Nat, every : 1 .. max_arm_ticks]
  /\ pending \in SUBSET {0, 1} /\ enabled \in SUBSET {0, 1}
  /\ held \in Nat /\ lost \in BOOLEAN

(* Whoever calls, whatever preempts the call and however late the          *)
(* interrupts are: a call never returns less than a call that had returned *)
(* before it began (time_driver.rs:91-92).                                 *)
ClockNeverRunsBack == pc["task"] = "return" => val >= floor

(* While the clock is never left unread for a whole wrap, and the call is  *)
(* not itself held for one between its load and its return, what it        *)
(* returns is the true 64-bit count at a moment between call and return:   *)
(* no epoch is missed and none is counted twice (time_driver.rs:64 and     *)
(* time_math.rs extend).  A call held for exactly a wrap takes an old      *)
(* `last` for current (time_driver.rs:100-104).                            *)
ClockIsExact ==
  /\ pc["task"] = "return" /\ ~lost
  /\ time - last < Wrap
  => began <= val /\ val <= time

(* From the first alarm on, the clock keeps its epochs by the alarm alone: *)
(* with nobody waiting and OSTM0's interrupt never served it is armed      *)
(* again each time, and never for so long that a wrap goes by unread       *)
(* (on_alarm, max_arm_ticks).                                              *)
AlarmGoesOn == alarm # {} \/ pc["irq"] # "idle"
AlarmKeepsTheClock ==
  [][AlarmGoesOn /\ 0 \in enabled' => AlarmGoesOn' /\ lost' = lost]_vars

(* No wake-up is lost between the queue, OSTM1, the GIC and the handler:   *)
(* a task still queued outside a critical section is overdue by no more    *)
(* than the time arming takes, the time the interrupt is held off, and the *)
(* rounding of the two conversions (schedule_wake, try_set_alarm,          *)
(* on_alarm).                                                              *)
Late == 2 * MaxHold + num \div den + 1
NoWakeIsLost ==
  ~lost /\ pc["task"] \notin CriticalSection =>
    \A t \in Tasks : Waiting(t) => time <= us_to_ticks(queue[t]) + Late

(* An alarm that was not cut short by max_arm_ticks finds somebody to wake *)
(* when it expires (time_math.rs:61-62: rounded up, a short alarm never    *)
(* fires early).                                                           *)
AlarmIsNeverEarly ==
  [][Expires /\ time' # time /\ ~InCriticalSection /\ ~lost =>
       \/ \E a \in alarm : a.every = max_arm_ticks
       \/ \E t \in Tasks : queue[t] <= ticks_to_us(time')]_vars
====
