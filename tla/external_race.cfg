SPECIFICATION Spec
CONSTANTS
  Follower = Follower
  Leader = Leader
  l1 = l1
  l2 = l2
  NoLogin = NoLogin
  LoginSeq <- OneLogin
  Pwd = {p1, p2, p3}
  NoPwd = NoPwd
  MIdCount = 2
  ExpiringSites = {Follower, Leader}
  ExternalSites = {Follower}
  MaxFaults = 0
  MaxOutgoing = 2
SYMMETRY PwdSymmetry
INVARIANT ExternalReadable
