SPECIFICATION Spec
CONSTANTS
    r1 = r1  r2 = r2  x1 = x1  x2 = x2  e1 = e1  e2 = e2  e3 = e3
    NoTime = NoTime  Nobody = Nobody  Gap = Gap  Api = Api  Saver = Saver
    Replicas = {r1, r2}
    Runs = {x1, x2}
    Events = {e1, e2, e3}
    OwnEvents = {e3}
    Settings <- QueueOrOff
    MinGap = 0
    OtherSchedules = TRUE
    MaxClock = 0
    MaxSkew = 0
    MaxOutages = 1
    MaxManual = 1
SYMMETRY Interchangeable
INVARIANTS NeverTwice NothingVanishes OneActiveRun BurstHasExit
