SPECIFICATION FleetSpec
CONSTANTS
  Robots = {1, 2}
  Managers = {1, 2}
  Arguments <- FleetArguments
  Execs = {7, 8}
  AutostartExecs = {7}
  Params = {0, 1}
  PublishedCommands <- FleetCommands
  MaxPublished = 3
  QueueSize = 2
  StartedByUsers <- ByUsers
  MaxDisturbances = 1
INVARIANTS LastCommandWins
PROPERTIES NeverKillsWanted StartReaches
