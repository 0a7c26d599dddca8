SPECIFICATION Spec
CONSTANTS
  Kinds        = {"newPayload", "fcuAttributes", "fcuNoParams", "getPayload", "malformed"}
  MaxRequests  = 3
  MaxOpen      = 1
  HasSecondary = TRUE
INVARIANTS SecondaryFollows SecondaryNeverBuilds
PROPERTY AnswerDelivered
