SPECIFICATION Spec
CONSTANTS
  Pids = {p1}
  Params = {a}
  NOTHING_MANAGED = NOTHING_MANAGED
  UNKNOWN_PARAMS = UNKNOWN_PARAMS
  Foreign = Foreign
  BareParams = {a}
  ManualParams = {}
  CommandParams = {a, unregistered}
  LogCommands = {}
  Crashes = FALSE
  Prompt = TRUE
  Interleaved = FALSE
INVARIANTS ForkHasParams
