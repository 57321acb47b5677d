SPECIFICATION FairSpec
CONSTANTS
    r1 = r1  r2 = r2
    NoTime = NoTime  Nobody = Nobody
    Replicas = {r1}
    Editors = {1}
    Schedules <- CronOrInterval
    Second = 2
    MaxClock = 4
    MaxEdits = 1
    MaxManual = 1
    MaxFailures = 1
PROPERTIES KeepsFiring
