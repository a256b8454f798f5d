SPECIFICATION MessagesSpec
CONSTANTS
    MaxEdits = 1
    MaxItems = 1
    MaxChanges = 1
    Labels = {"sId", "cId", "vers", "aCId"}
    Values = {"a", "b"}
    MaxOptions = 4
    Known = {c1, c2}
    Unknown = c3
    MaxAdds = 3
    MaxMsgs = 2
    Id = {i1, i2}
    Body = {b1}
    MaxList = 2
    Login = {l1}
    Key = {k1, k2}
    MaxSend = 2
    MaxOther = 1
    MaxJunk = 1
INVARIANT RoundTrip
INVARIANT DecodedIsSound
INVARIANT IdentityAsGiven
INVARIANT RequestsAreAnswered
INVARIANT SignIsFaithful
INVARIANT SessionIsFaithful
SYMMETRY KeySymmetry
CHECK_DEADLOCK FALSE
