SPECIFICATION BackgroundSpec
CONSTANTS
    Workers = {w1, w2}
    Hours = {9}
    Weekdays = {1, 4}
    Gaps = {67, 101}
    Horizon = 190
    Services = {s1}
    Operations = {"SUSPEND", "RESTORE"}
    Plans = {a}
    Unconfigured = Unconfigured
    MaxAttempts = 2
    BatchSize = 2
    MaxJobs = 2
    Routers = 2
    RolloutWorkers = {w1, w2}
    MaxDeaths = 1
    Purchases = {p1, p2}
    DurationHours = 1
    AbandonAfter = 0
    AddOnWorkers = {w1, w2}
    NoPurchase = NoPurchase
    LastHour = 1
    Recipients = {r1, r2, r3}
    CampaignWorkers = {w1, w2}
    Batch = 2
    MaxFaults = 1
INVARIANTS
    BackgroundTypeOK
    NoSlotTwice
    LatestIsLatest
    StatusIsConfirmed
    CanaryGoesFirst
    StartsOnceForItsHours
    MessagesRepeatOnlyByFaults
PROPERTIES
    DueIsRun
    RolloutEnds
CHECK_DEADLOCK FALSE
