CONSTANTS
    m1 = m1
    m2 = m2
    u1 = u1
    Monitors = {m1}
    Users = {u1}
    Owner <- OneOwner
    Lanes = {1}
    IncidentIds = {1, 2, 3, 4}
    NoIncident = 0
    Retries = 3
    Interval = 1
    MuteLens = {1, 2}
    BatchSize = 1
    Flaky = {m1}
    Commands = {"mute", "remove"}
    Faults = {"crash", "db", "telegram"}
    MaxFaults = 2
SPECIFICATION Spec
INVARIANTS AlertOncePerOutage RemovedLeavesNothing LateOnlyOfRunningCalls
PROPERTIES ThresholdRespected StatusFollowsSite TickEnds
