SPECIFICATION FairSpec
CONSTANTS
  Pids = {p1, p2}
  Params = {a}
  NOTHING_MANAGED = NOTHING_MANAGED
  UNKNOWN_PARAMS = UNKNOWN_PARAMS
  Foreign = Foreign
  BareParams = {a}
  ManualParams = {a}
  CommandParams = {a, unregistered}
  LogCommands = {}
  Crashes = TRUE
  Prompt = TRUE
  Interleaved = FALSE
INVARIANTS WishRespected QueueDrained
PROPERTIES KeepsPromise StartFulfilled
