SPECIFICATION Spec
CONSTANTS
  a1 = a1
  a2 = a2
  Attempts <- TwoAttempts
  MaxConcurrent = 1
  Templates <- SomeTemplates
  Limits <- SomeLimits
  Configs <- SomeConfigs
  Runners <- TwoRunners
  SavedImages <- OldImages
  PipRoute = TRUE
  Images <- TwoImages
  Pullable <- OneImage
  MaxLeaks = 1
INVARIANTS OutcomeIsTheTasks NothingLeftBehind PodFits GivenAsListed
CHECK_DEADLOCK FALSE
PROPERTIES HangUpStops OrphansEnd
