SPECIFICATION MCSpec
CONSTANTS
  Robots = {1}
  Managers = {1}
  Arguments <- ControlArguments
  Execs = {7, 8}
  AutostartExecs = {8}
  Params = {0, 1}
  PublishedCommands = {}
  MaxPublished = 2
  QueueSize = 1
  StartedByUsers <- ByNobody
  MaxDisturbances = 1
  Bundles <- ControlBundles
  MsgTimeOut = 1
  MaxUnread = 3
  Clickable = {7}
  Selectable = {"vision", "ALL", "RUNNING"}
  MaxHiccups = 2
  ShownRobots = {1}
  HeardRobots = {1, 2}
  RobotTimeOut = 1
  StatKeys = {7, 9}
  MaxWaiting = 2
INVARIANTS GreenRan NothingStale
PROPERTIES ShowsWhatRuns StopIsShown
