SPECIFICATION MCSpec
CONSTANTS
  MaxVar = 4
  Problems <- MCProblems
  FreshSeen = {1, 2}
  ReduceEvery = 3
  LearntNum = 1
  Points <- MCPoints
  Theories <- MCTheories
  IntervalUses = {TRUE, FALSE}
  MaxClauses = 7
  MaxAttempts = 2
  Modulus = 1009
  StandIn <- MCStandIn
  Assignments2D <- MCAssignments2D
  MaxBuilds = 2
  MaxLogic = 3
  MaxChanges = 1
  MaxCalls = 2
  Limits <- MCLimits
  MaxPropagations = 2
  MaxRounds = 40
  Callers = {"getSolution", "existsSolution", "solveSimple", "probe"}
  Objectives <- MCObjectives
  RangeLists <- MCRangeLists
  SeedLists <- MCSeedLists
  LowestSpot = 0
  HighestSpot = 4
  MaxIter = 3
  MaxBad = 2
  InitialStep = 2
  ConvergedStep = 2
  MaxStep = 4
  Significance = 5
  ExtraRuns = 2
  MaxFree = 2
  ConfigFiles <- MCConfigFiles
  QueryPaths <- MCQueryPaths
  SetTexts <- MCSetTexts
  NumberTexts = {"0", "1", "2"}
  Targets = {"string", "int", "bool"}
  MaxEdits = 1
  ConfigNames = {"Test", "Globals", "Odd"}
  Hosts = {"here", "there"}
  OwnHost = "here"
  FilesThere <- MCFilesThere
  MalformedFiles <- MCMalformedFiles
  ConfigThreads = {"t1", "t2"}
  MaxLoaded = 3
INVARIANTS AnswerRight LearntFollows TrailRight SolutionFits MeaningKept GradientRight ClausesEquivalent NoSolutionCut FeasiblePoint BestReturned GetIsExact ReadBack HandedOutAlive
PROPERTIES Returns OffendersClash
CHECK_DEADLOCK FALSE
