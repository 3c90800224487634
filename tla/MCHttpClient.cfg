SPECIFICATION FairSpec
CONSTANTS
    Callers = {a, b, d}
    Configured <- RetriesToConfigure
    DefaultRetries = 1
    MaxFailures = 2
    ProbeLimit = 2
    Base = 2
    Cap = 3
    MaxInt = 7
    a = a
    b = b
    d = d
INVARIANTS
    TypeOK
    BreakerConsistent
    PanicsOnOverflowOnly
PROPERTIES
    MovesOnRuns
    OpenHoldsBack
    CallsReturn
    BreakerRecovers
