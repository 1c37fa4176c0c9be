SPECIFICATION Spec
CONSTANTS
  Faults = {"none", "deaf", "timeout", "stuck", "swapped", "restart"}
  InitSR1 <- MCInitSR1
  InitSR2 <- MCInitSR2
INVARIANTS NothingPermanent LockedOverARegion RehearsalIsUndone
PROPERTIES ReportsAreTrue OnlyFaultsStopWrites
