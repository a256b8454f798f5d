SPECIFICATION CredentialsSpec
CONSTANTS
    User = {u1, u2}
    Internal = internal
    MaxPwd = 3
    To = {"to"}
    From = {"from"}
    Order <- MCOrder
    Pwd <- MCPwd
    Size <- MCSize
    First <- MCFirst
    MinSize = 2
    MaxChanges = 4
    MaxCrashes = 2
INVARIANT CacheIsCurrent
INVARIANT FileIsFaithful
PROPERTY SecretIsGiven
CHECK_DEADLOCK FALSE
