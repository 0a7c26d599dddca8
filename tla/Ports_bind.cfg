SPECIFICATION Spec
CONSTANTS
  NumServices = 2
  Names       = {"http", "p2p"}
  Numbers     = {8545, 8546}
  Window      = 2
  MaxPorts    = 3
  MaxTaken    = 1
INVARIANTS TypeOK HostPortsDistinct MentionsPublished ReferencesReach
