---- MODULE MCTimeDriver ----
(***************************************************************************)
(* TimeDriver with a counter that wraps every 7 ticks, three ticks to two  *)
(* microseconds, and alarms of at most 4 ticks: a wait of one microsecond  *)
(* (2 ticks) or two (3 ticks) is armed whole, a longer one is cut short.   *)
(***************************************************************************)
EXTENDS TimeDriver, TLC

MCDeadlines == {0, 3, 6}
MCSymmetry == Permutations(Tasks)
====
