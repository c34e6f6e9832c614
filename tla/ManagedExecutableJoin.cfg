SPECIFICATION FairSpec
CONSTANTS
  Pids = {p1}
  Params = {a}
  NOTHING_MANAGED = NOTHING_MANAGED
  UNKNOWN_PARAMS = UNKNOWN_PARAMS
  Foreign = Foreign
  BareParams = {a}
  ManualParams = {}
  CommandParams = {a}
  LogCommands = {TRUE}
  Crashes = TRUE
  Prompt = TRUE
  Interleaved = FALSE
PROPERTIES MainThreadAlive
CHECK_DEADLOCK FALSE
