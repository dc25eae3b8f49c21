CONSTANTS
    m1 = m1
    m2 = m2
    u1 = u1
    Monitors = {m1, m2}
    Users = {u1}
    Owner <- OneOwner
    Lanes = {1, 2}
    IncidentIds = {1, 2, 3}
    NoIncident = 0
    Retries = 2
    Interval = 0
    MuteLens = {1}
    BatchSize = 2
    Flaky = {m1}
    Commands = {"remove"}
    Faults = {}
    MaxFaults = 0
SPECIFICATION Spec
INVARIANT NeverOverlapTicks
