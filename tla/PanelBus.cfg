SPECIFICATION FairSpec
CONSTANTS
  FrameBytes = 3
  FifoBytes = 1
  MaxLink = 3
  MaxContent = 2
INVARIANTS
  TypeOK
  FreeBusIsDeselected
  FrameReachesThePanel
  PanelStaysAnchored
PROPERTIES
  BusIsReleased
  LatestIsShown
