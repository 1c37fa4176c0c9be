---- MODULE TimeMath ----
(***************************************************************************)
(* The arithmetic of the time driver (rza1-hal time_math.rs): the ratio of *)
(* OSTM0 ticks to Embassy's microseconds, and the extension of the 32-bit  *)
(* count.  Wrap stands for 2^32.  The 64-bit results do not overflow: the  *)
(* quotient is multiplied before the remainder is added.                   *)
(***************************************************************************)
EXTENDS Integers

CONSTANTS
  num, den,     (* ticks per microsecond, TickRatio                        *)
  Wrap,         (* values of OSTM0's counter                               *)
  LongestArm    (* the 100_000 of max_arm_ticks, in microseconds           *)

ASSUME TimeMathAssumption ==
  /\ num \in Nat \ {0} /\ den \in Nat \ {0} /\ den <= num
  /\ Wrap \in Nat \ {0, 1}
  /\ LongestArm \in Nat \ {0}

div_ceil(a, b) == (a + b - 1) \div b

ticks_to_us(ticks) ==
  (ticks \div num) * den + ((ticks % num) * den) \div num
(* Seeded bug: rounded down.                                               *)
us_to_ticks_down(us) == (us * num) \div den

us_to_ticks(us) ==
  (us \div den) * num + div_ceil((us % den) * num, den)

max_arm_ticks == (num \div den) * LongestArm
(* Seeded bug: a count that did not move is taken for a wrap.              *)
extend_standing(last, cnt) ==
  LET epoch == last \div Wrap
  IN  (IF cnt <= last % Wrap THEN epoch + 1 ELSE epoch) * Wrap + cnt

extend(last, cnt) ==
  LET epoch == last \div Wrap
  IN  (IF cnt < last % Wrap THEN epoch + 1 ELSE epoch) * Wrap + cnt
====
