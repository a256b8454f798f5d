SPECIFICATION FairListenerSpec
CONSTANTS
    Conn = {c1, c2, c3}
    Fd = {f1, f2, f3, f4}
    MAX_THREADS = 2
    ShadowCloses = FALSE
INVARIANT OwnSocket
INVARIANT EntryPerThread
PROPERTY PeerIsAnswered
PROPERTY SocketIsReleased
CHECK_DEADLOCK FALSE
