SPECIFICATION FairSpec
CONSTANTS
    Plain = {r1, r2}
    Streams = {s1, s2}
    Keys = {k1, k2}
    NoKey = NoKey
    NoStream = NoStream
INVARIANTS OneStream LogInHolds
PROPERTY Settles
