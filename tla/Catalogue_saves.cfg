SPECIFICATION Spec
CONSTANTS
  t1 = t1
  Limits <- SomeLimits
  Specs <- SomeSpecs
  Shapes <- SomeShapes
  MaxParams = 1
  Pipelines = {p1}
  Tasks = {t1}
  Runs = {x1, x2}
  Replicas = {r1, r2}
  Requests = {q1, q2}
  Me = Me
  Service = Service
  None = None
  MaxVersions = 2
  MaxOps = 4
  MaxListed = 1
SYMMETRY Interchangeable
CONSTRAINT RunsOfOneSpec
INVARIANTS RefsHold SavedRuns DraftFresh GenuineCode 
CHECK_DEADLOCK FALSE
