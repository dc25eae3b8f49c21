CONSTANTS
    c1 = c1
    c2 = c2
    u1 = u1
    u2 = u2
    Chats = {c1, c2}
    Urls = {u1, u2}
    Ids = {1, 2}
    Events = 1
    Kind <- Outages
    Mutes = {0}
    MaxOpen = 2
    Backlogs <- NoMonitor
    Limit = 1
    Capacity = 1
    Cost = 2
    Batch = 1
    Retries = 1
    Enabled = FALSE
    Sent = {"add", "remove", "mute", "list"}
    Faults = {"crash", "db", "telegram"}
    MaxFaults = 2
SPECIFICATION Spec
INVARIANTS TypeOK WithinLimit AnsweredWithinRate
PROPERTIES RefusedOnlyAtRate NotStarved
