SPECIFICATION FairSpec
CONSTANTS
  Validators = {"v1", "v2"}
  MaxStamp   = 2
  MaxSlot    = 3
INVARIANTS LatestRegistrationKept PrintedInOrder
PROPERTY PayloadReported
