SPECIFICATION FairSpec
CONSTANTS
  g = g
  a1 = a1
  a2 = a2
  b1 = b1
  b2 = b2
  b3 = b3
  b4 = b4
  c2 = c2
  c3 = c3
  Nil = Nil
  Headers <- LateHeaders
  Genesis = g
  Parent <- LateParent
  Height <- MCHeight
  TotalWork <- MCWork
  MaxHeight = 3
  Malformed = {}
  Misclaimed = {}
  Bad = {}
  SpendsGenesis = {}
  MaxChains = 4
  Mined = {}
  Announced = {a1, a2, c2, c3}
  MaxAnnounce = 1
  MaxBoots = 1
  Gap = 1
  Faults = {}
\* Once every input was handled the node has nothing left to do.
CHECK_DEADLOCK FALSE
INVARIANT HeadPresent
 
 
