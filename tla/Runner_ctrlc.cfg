SPECIFICATION FairSpec
CONSTANTS
  Services     <- ElClDb
  HostOrder    <- NoHost
  Checked      <- NoCheck
  NeedsRunning <- DbAfterCl
  NeedsHealthy <- NoDependency
  ExtraStops   =  {}
  ExitCap      =  2
  MaxQueued    =  0
CHECK_DEADLOCK FALSE
PROPERTY CtrlCStops
