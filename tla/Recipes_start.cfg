SPECIFICATION Spec
CONSTANTS
  Strings    <- AnyString
  Requests   <- AllRequests
  Apply      <- ApplyRecipeOf
  Components <- Catalog
  Releases   <- ReleaseServices
CHECK_DEADLOCK FALSE
INVARIANTS
  StillValid
  FailuresExplained
  ComposeStarts
  OverridesApplied
  BuilderReached
