CONSTANTS
  self = self  a = a  e = e  c1 = c1  c2 = c2
  Self = self
  Listening <- OneOther
  Inbound <- OneInbound
  Ephemeral <- Nobody
  Bootstrap <- Nobody
  Saved <- Nobody
  Announced <- SelfAndOther
  Conn <- OneConn
  Keyed = FALSE
  None = None
  MaxPeers = 3
  MaxFailedPings = 2
  MaxDials = 1
  MaxRounds = 1
  MaxList = 1
  MaxFaults = 1
SPECIFICATION FairSpec
INVARIANTS TypeOK SelfIsNoPeer
PROPERTIES SilentIsForgotten InactiveIsResolved
