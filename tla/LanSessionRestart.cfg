SPECIFICATION SpecRestarts
CONSTANTS
    Clients = {c1, c2, c3}
    LanChannels = {1, 2}
INVARIANT SessionExclusive
