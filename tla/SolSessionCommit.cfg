SPECIFICATION Spec
CONSTANTS
    Clients = {c1, c2}
INVARIANT SolSessionExclusive
