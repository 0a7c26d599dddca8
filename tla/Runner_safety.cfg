SPECIFICATION FairSpec
CONSTANTS
  Services     <- ElClHost
  HostOrder    <- OneHost
  Checked      <- ElAndCl
  NeedsRunning <- NoDependency
  NeedsHealthy <- ClAfterEl
  ExtraStops   =  {"watchdog", "timer"}
  ExitCap      =  2
  MaxQueued    =  1
CHECK_DEADLOCK FALSE
INVARIANTS
  ServingWasReady
  DeathIsNoticed
  FailurePending
  NoContainerOutlivesStop
  CleanExit
PROPERTY VerdictIsCurrent
