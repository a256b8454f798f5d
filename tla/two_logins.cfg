SPECIFICATION Spec
CONSTANTS
  Follower = Follower
  Leader = Leader
  l1 = l1
  l2 = l2
  NoLogin = NoLogin
  LoginSeq <- TwoLogins
  Pwd = {p1, p2}
  NoPwd = NoPwd
  MIdCount = 2
  ExpiringSites = {Follower}
  ExternalSites = {}
  MaxFaults = 2
  MaxOutgoing = 1
SYMMETRY PwdSymmetry
INVARIANT ChallengeInv
