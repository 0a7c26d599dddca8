SPECIFICATION WFairSpec
CONSTANTS
  Period    = 24
  BlockTime = 24
  Wiggle    = 2
  Poll      = 1
  Latency   = 0
  MaxHead   = 2
  SlotTicks = 24
  Early     = 16
  Silence   = 40
  Room      = 2
  Streams   = {FALSE}
INVARIANT HealthySessionGoesOn
