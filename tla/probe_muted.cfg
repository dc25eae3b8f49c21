CONSTANTS
    m1 = m1
    m2 = m2
    Monitors = {m1}
    Retries = 2
    Attempts = 2
    Handlers = {1}
    EventIds = {1, 2, 3}
    NoEvent = 0
    IncidentIds = {1, 2, 3}
    NoIncident = 0
    Upsets = {"mute"}
    MaxUpsets = 1
SPECIFICATION Spec
INVARIANT RecoveryClosesIncident
