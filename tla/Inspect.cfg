SPECIFICATION FairSpec
CONSTANTS
  Sessions = {"s1", "s2"}
  Labelled = {"s1"}
  Services = {"el", "beacon"}
  Exposing = {"el"}
  Custom   = "custom"
CHECK_DEADLOCK FALSE
INVARIANTS CaptureIsOfService StopsItsOwn
PROPERTY InterruptCleansUp
