SPECIFICATION Spec
CONSTANTS
    r1 = r1  r2 = r2  x1 = x1  x2 = x2  e1 = e1  e2 = e2  e3 = e3
    NoTime = NoTime  Nobody = Nobody  Gap = Gap  Api = Api  Saver = Saver
    Replicas = {r1}
    Runs = {x1}
    Events = {e1, e2}
    OwnEvents = {}
    Settings <- Timed
    MinGap = 2
    OtherSchedules = TRUE
    MaxClock = 5
    MaxSkew = 1
    MaxOutages = 0
    MaxManual = 0
SYMMETRY Interchangeable
INVARIANTS TimerInWindow Accounted
PROPERTIES FiresKeepTheirDistance
