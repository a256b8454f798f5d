SPECIFICATION FairSpec
CONSTANTS
  Follower = Follower
  Leader = Leader
  aes128 = aes128
  aes256 = aes256
  gcm = gcm
  NoCipher = NoCipher
  Id = {f, l}
  NoId = NoId
  CipherTable <- Tables
  ForeignLists <- AnyList
  ForeignSets <- OneForeign
INVARIANT Negotiated
PROPERTY HandshakeEnds
PROPERTY NoHalfOpenSession
CHECK_DEADLOCK FALSE
