CONSTANTS
    m1 = m1
    m2 = m2
    Monitors = {m1}
    Retries = 2
    Attempts = 2
    Handlers = {1, 2}
    EventIds = {1, 2}
    NoEvent = 0
    IncidentIds = {1, 2}
    NoIncident = 0
    Upsets = {"mute", "crash", "db", "network", "slow", "telegram"}
    MaxUpsets = 2
SPECIFICATION Spec
INVARIANT AlertOncePerOutage
PROPERTIES StatusFollowsSite TickEnds
