SPECIFICATION FairSpec
CONSTANTS
  Pids = {p1, p2}
  Params = {a, b}
  NOTHING_MANAGED = NOTHING_MANAGED
  UNKNOWN_PARAMS = UNKNOWN_PARAMS
  Foreign = Foreign
  BareParams = {a}
  ManualParams = {}
  CommandParams = {a, b}
  LogCommands = {TRUE, FALSE}
  Crashes = FALSE
  Prompt = TRUE
  Interleaved = FALSE
PROPERTIES KeepsRightParams CpuOfOneProcess StopFulfilled MainThreadAlive
