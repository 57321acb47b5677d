SPECIFICATION Spec
CONSTANTS
    r1 = r1  r2 = r2
    NoTime = NoTime  Nobody = Nobody
    Replicas = {r1, r2}
    Editors = {1}
    Schedules <- CronOrInterval
    Second = 2
    MaxClock = 5
    MaxEdits = 1
    MaxManual = 0
    MaxFailures = 1
SYMMETRY Interchangeable
INVARIANTS EveryClaimShows SlotIsLatest MissedSlotsCoalesce
