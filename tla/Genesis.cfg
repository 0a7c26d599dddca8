SPECIFICATION Spec
CONSTANTS
  Second     = 4
  Word       = 1024
  Clocks     = {163, 200}
  Delays     = {0, 12, 127, 250}
  BlockTimes = {0, 1, 2}
  Forks      = {{}, {0}, {1}, {3}, {600}}
  MaxBuilds  = 2
INVARIANTS
  ChainsAgree
  HeaderFitsForks
  ForkAtBlock
  NoStaleVolume
