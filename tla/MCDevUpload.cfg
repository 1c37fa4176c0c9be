SPECIFICATION FairSpec
CONSTANT Frames <- MCFrames
INVARIANTS
  TypeOK
  LaunchedImageIsWhole
  OneUsbSession
PROPERTIES
  SelectionIsAFreshPress
  RejectedGivesTheMenuBack
  GoodUploadLaunches
