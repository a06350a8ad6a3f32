SPECIFICATION Spec
CONSTANTS
    Hosts = {h1, h2}
    Threads = {t1}
    Jobs = {j1, j2}
    None = None
SYMMETRY Symmetry
INVARIANT ClaimShields DeletesUnderClaim
PROPERTY ReportsAreFinal
