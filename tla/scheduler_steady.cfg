CONSTANTS
    m1 = m1
    m2 = m2
    u1 = u1
    Monitors = {m1, m2}
    Users = {u1}
    Owner <- OneOwner
    Lanes = {1}
    IncidentIds = {1, 2}
    NoIncident = 0
    Retries = 2
    Interval = 1
    MuteLens = {1}
    BatchSize = 1
    Flaky = {m1, m2}
    Commands = {"mute"}
    Faults = {}
    MaxFaults = 0
SPECIFICATION Spec
INVARIANTS TypeOK StatusMatchesIncidents
PROPERTIES OutageAnnounced ImplementsOutage
