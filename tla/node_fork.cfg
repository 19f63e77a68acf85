SPECIFICATION Spec
CONSTANTS
  g = g
  a1 = a1
  a2 = a2
  b1 = b1
  b2 = b2
  b3 = b3
  b4 = b4
  c2 = c2
  c3 = c3
  Nil = Nil
  Headers <- BroadHeaders
  Genesis = g
  Parent <- BroadParent
  Height <- MCHeight
  TotalWork <- MCWork
  MaxHeight = 3
  Malformed = {}
  Misclaimed = {b1}
  Bad = {b3}
  SpendsGenesis = {}
  MaxChains = 4
  Mined = {c2}
  Announced = {a1, b1, b3}
  MaxAnnounce = 1
  MaxBoots = 2
  Gap = 1
  Faults = {"timeout", "empty", "partial"}
\* Once every input was handled the node has nothing left to do.
CHECK_DEADLOCK FALSE
INVARIANT TypeOK
INVARIANT IInv
 
INVARIANT HeadOnItsChain
INVARIANT HeadServable
 
