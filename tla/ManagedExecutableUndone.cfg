SPECIFICATION Spec
CONSTANTS
  Pids = {p1}
  Params = {a}
  NOTHING_MANAGED = NOTHING_MANAGED
  UNKNOWN_PARAMS = UNKNOWN_PARAMS
  Foreign = Foreign
  BareParams = {a}
  ManualParams = {a}
  CommandParams = {a}
  LogCommands = {}
  Crashes = FALSE
  Prompt = TRUE
  Interleaved = TRUE
INVARIANTS WishRespected
CHECK_DEADLOCK FALSE
