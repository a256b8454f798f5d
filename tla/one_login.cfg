SPECIFICATION Spec
CONSTANTS
  Follower = Follower
  Leader = Leader
  l1 = l1
  l2 = l2
  NoLogin = NoLogin
  LoginSeq <- OneLogin
  Pwd = {p1, p2, p3}
  NoPwd = NoPwd
  MIdCount = 2
  ExpiringSites = {Follower, Leader}
  ExternalSites = {Leader}
  MaxFaults = 1
  MaxOutgoing = 1
SYMMETRY PwdSymmetry
INVARIANT TypeOK
INVARIANT CredentialAgreement
INVARIANT AcceptedWhenAvailable
INVARIANT AllClearReadable
INVARIANT OneAnswerPerChallenge
INVARIANT BusyLeavesPassword
INVARIANT SecretsCurrent
INVARIANT ResponseReadable
