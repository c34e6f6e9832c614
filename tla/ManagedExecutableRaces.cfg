SPECIFICATION Spec
CONSTANTS
  Pids = {p1, p2, p3}
  Params = {a}
  NOTHING_MANAGED = NOTHING_MANAGED
  UNKNOWN_PARAMS = UNKNOWN_PARAMS
  Foreign = Foreign
  BareParams = {a}
  ManualParams = {a, Foreign}
  CommandParams = {a}
  LogCommands = {}
  Crashes = TRUE
  Prompt = FALSE
  Interleaved = TRUE
SYMMETRY PidSymmetry
INVARIANTS TypeOK ForkHasParams
PROPERTIES NoPidForgotten ManagedSpared
