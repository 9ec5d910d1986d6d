SPECIFICATION FairSpec
CONSTANTS
    Clients = {c1, c2, c3}
    LanChannels = {1, 2}
INVARIANT TypeOK
INVARIANT SessionExclusive
INVARIANT SessionLatched
PROPERTY LatchReleased
