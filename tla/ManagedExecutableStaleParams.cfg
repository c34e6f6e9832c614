SPECIFICATION FairSpec
CONSTANTS
  Pids = {p1, p2}
  Params = {a, b}
  NOTHING_MANAGED = NOTHING_MANAGED
  UNKNOWN_PARAMS = UNKNOWN_PARAMS
  Foreign = Foreign
  BareParams = {a}
  ManualParams = {}
  CommandParams = {a, b}
  LogCommands = {}
  Crashes = TRUE
  Prompt = TRUE
  Interleaved = FALSE
PROPERTIES KeepsRightParams
