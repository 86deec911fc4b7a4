CONSTANTS
  self = self  a = a  e = e  c1 = c1  c2 = c2
  Self = self
  Listening <- OneOther
  Inbound <- Nobody
  Ephemeral <- Nobody
  Bootstrap <- OneOther
  Saved <- Nobody
  Announced <- Nobody
  Conn <- TwoConns
  Keyed = FALSE
  None = None
  MaxPeers = 3
  MaxFailedPings = 2
  MaxDials = 2
  MaxRounds = 1
  MaxList = 0
  MaxFaults = 0
SPECIFICATION Spec
INVARIANTS EveryConnectionIsAPeer
