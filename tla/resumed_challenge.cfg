SPECIFICATION Spec
CONSTANTS
  Follower = Follower
  Leader = Leader
  l1 = l1
  l2 = l2
  NoLogin = NoLogin
  LoginSeq <- OneLogin
  Pwd = {p1, p2, p3}
  NoPwd = NoPwd
  MIdCount = 2
  ExpiringSites = {Follower, Leader}
  ExternalSites = {}
  MaxFaults = 1
  MaxOutgoing = 2
SYMMETRY PwdSymmetry
INVARIANT PongReadable
