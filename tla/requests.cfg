SPECIFICATION FairSpec
CONSTANTS
  full = full
  half = half
  late = late
  h1 = h1
  h2 = h2
  c1 = c1
  c2 = c2
  Callers = {c1, c2}
  MaxRequests = 2
  Peers = {full, half, late}
  Connected <- MCConnected
  MaxPeersForRequest = 2
  Hashes = {h1, h2}
  Holds <- MCHolds
\* Once every request was made and answered there is nothing left to do.
CHECK_DEADLOCK FALSE
INVARIANT RInv
INVARIANT NoSecondClose
INVARIANT WokenHasAnswer
INVARIANT WakeUpPending
PROPERTY StoredAnswerWakes
PROPERTY KeepsPromise
