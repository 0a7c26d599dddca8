SPECIFICATION DisplaySpec
CONSTANTS
  Services     <- ElHost
  HostOrder    <- OneHost
  Checked      <- OnlyEl
  NeedsRunning <- NoDependency
  NeedsHealthy <- NoDependency
  ExtraStops   =  {}
  ExitCap      =  2
  MaxQueued    =  1
PROPERTIES
  CtrlCStops
  FailureEndsSession
  ReadinessIsNoticed
  ImplementsSession
  StatusIsShown
