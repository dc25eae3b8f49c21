CONSTANTS
    c1 = c1
    c2 = c2
    u1 = u1
    u2 = u2
    Chats = {c1}
    Urls = {u1}
    Ids = {1}
    Events = 2
    Kind <- OutageAndEnd
    Mutes = {0}
    MaxOpen = 2
    Backlogs <- OneMonitor
    Limit = 1
    Capacity = 1
    Cost = 1
    Batch = 1
    Retries = 1
    Enabled = TRUE
    Sent = {"remove", "mute"}
    Faults = {"crash", "db", "telegram"}
    MaxFaults = 1
SPECIFICATION Spec
INVARIANTS  StatusMatchesIncidents AnnouncedOnce AtMostOneLate
PROPERTIES EventsHandled
