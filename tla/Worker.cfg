\* Two findings over three runs; every sample of the rules; one collection of three resources.
SPECIFICATION PartsSpec
CONSTANTS
  s1 = s1
  s2 = s2
  Subjects = {s1, s2}
  Layouts <- ThreeLayouts
  Watched = {s1}
  AlertLimit = 1
  MaxRuns = 3
  MaxChanges = 1
  Samples <- AllSamples
  Things = {a, b, c}
  CollectorIds = {"instances", "apis", "tables", "ecs", "buckets"}
  AwsErrors <- SomeErrors
  MaxPages = 2
  MaxItems = 3
  MaxTries = 2
  Parallel = 2
  MaxMoved = 1
INVARIANTS
  ReturnsAreComplete
PROPERTIES
  StatusIsBacked
  MissedEvaluationIsMadeUp
  VerdictsSurviveUnknowns
SYMMETRY Alike
CHECK_DEADLOCK FALSE
