SPECIFICATION Spec
CONSTANTS
  Faults = {"none", "restart"}
  InitSR1 <- MCInitSR1
  InitSR2 <- MCInitSR2
PROPERTY ProvisionPersists
