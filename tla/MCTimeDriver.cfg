SPECIFICATION Spec
CONSTANTS
  num = 3
  den = 2
  Wrap = 7
  LongestArm = 4
  Tasks = {t1, t2}
  Deadlines <- MCDeadlines
  Never = 100
  MaxHold = 1
  MaxTime = 15
INVARIANTS
  ClockNeverRunsBack
  ClockIsExact
  NoWakeIsLost
PROPERTIES
  AlarmKeepsTheClock
  AlarmIsNeverEarly
SYMMETRY MCSymmetry
