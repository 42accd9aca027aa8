\* Two calls, or two scorers, at a time; one failure, one piece of news.
SPECIFICATION MCSpec
CONSTANTS
  c1 = c1
  c2 = c2
  Calls = {c1, c2}
  Askers = {c1, c2}
  Repos = {"r"}
  PlanNames = {"free", "pro"}
  SourceSets <- SetsOfSources
  RowTTL <- OneTick
  MemTTL = 1
  CallTime = 1
  LastTick = 5
  MaxNews = 1
  MaxErrors = 1
  Contributors = {"u", "v", "w"}
  Plans = {"free", "pro"}
  MaxContributors <- PlanContributors
  MaxAPIKeys <- PlanKeys
  DefaultPlan = "free"
  MaxKeys = 3
  MaxIds = 2
  MaxChanges = 1
  MaxMisses = 1
  Scorers = {c1, c2}
  Grades = {"A", "B"}
  MaxPRs = 1
  MaxFaults = 1
  MaxScores = 3
  MaxMoves = 1
  LogCurve <- SampledLog
  Recency <- SampledRecency
  Least <- Stranger
  Best <- Maintainer
  Samples <- SampledSignals
  MaxDifferences = 3
SYMMETRY Symmetry
CHECK_DEADLOCK FALSE
INVARIANTS
  AnswersAreTrue
  AnswersFitPlan
  AnswersAreFresh
  QuotaWithinRace
  KeysWithinRace
  GradeChangesAreTold
  StoresAgree
  CategoriesAddUp
PROPERTIES
  FloorKept
  MoreIsNoWorse
