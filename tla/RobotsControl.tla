---------------------------- MODULE RobotsControl ----------------------------
(***************************************************************************)
(* The plug-in robot_control: one Robot per robot of the registry, with    *)
(* what its ALICA engine last said and the ControlledRobot widget of       *)
(* pm_control.  Two queues are filled by ROS threads and worked off when   *)
(* the refresh timer fires, the process statistics first.  Times are ages  *)
(* as in PMControl.                                                        *)
(***************************************************************************)
EXTENDS PMControl

CONSTANTS
  ShownRobots,      \* the robots of the registry
  HeardRobots,      \* robots that messages are about; the registry may not know some
  RobotTimeOut,     \* one second (Robot.cpp, line 122)
  StatKeys,         \* process keys in messages; the registry may not know some
  MaxWaiting        \* bound: messages in a queue

ASSUME RobotsControlAssumption == RobotTimeOut \in 0..MsgTimeOut /\ MaxWaiting \in Nat

VARIABLES
  alicaInfoMsgQueue,
  controlledRobotsMap,
  crashed,          \* the null pointer of an unknown robot was used
  upToDate,         \* nothing happened since the last refresh
  lastHeard         \* history: the age of the last message about each robot

robotsVars == <<processStatMsgQueue, alicaInfoMsgQueue, controlledRobotsMap, crashed, upToDate, lastHeard>>

\* -1 stands for no process manager; a time stamp starts at the epoch.
NewRobot == [heard |-> Silent, alica |-> "", widget |-> NewControlledRobot(-1), shown |-> TRUE]

RobotsInit ==
  /\ alicaInfoMsgQueue = <<>>
  /\ controlledRobotsMap = [r \in ShownRobots |-> NewRobot]
  /\ crashed = FALSE /\ upToDate = FALSE
  /\ lastHeard = [r \in HeardRobots |-> Silent]

Heard(r) == lastHeard' = [lastHeard EXCEPT ![r] = 0]

receiveRobotStats(senderId, r, stats) ==
  /\ Len(processStatMsgQueue) < MaxWaiting
  /\ processStatMsgQueue' = Append(processStatMsgQueue, [senderId |-> senderId, stats |-> stats, age |-> 0])
  /\ Heard(r) /\ upToDate' = FALSE
  /\ UNCHANGED <<alicaInfoMsgQueue, controlledRobotsMap, crashed>>

receiveAlicaInfo(r, plan) ==
  /\ Len(alicaInfoMsgQueue) < MaxWaiting
  /\ alicaInfoMsgQueue' = Append(alicaInfoMsgQueue, [senderId |-> r, plan |-> plan, age |-> 0])
  /\ Heard(r) /\ upToDate' = FALSE
  /\ UNCHANGED <<processStatMsgQueue, controlledRobotsMap, crashed>>

\* Robot::handleProcessStat for the statistics of one message, also of unknown executables
StatsOfRobots(robots, msg) ==
  [r \in DOMAIN robots |->
     IF \E k \in DOMAIN msg.stats : k[1] = r
     THEN [robots[r] EXCEPT !.heard = msg.age,
             !.widget = handleProcessStat(@, r, msg.stats, msg.age, msg.senderId)]
     ELSE robots[r]]
\* Robot::handleAlicaInfo that takes the time of the refresh.
InfoOfRobots_Now(robots, msg) ==
  [robots EXCEPT ![msg.senderId] = [@ EXCEPT !.heard = 0, !.alica = msg.plan]]
\* Robot::handleAlicaInfo
InfoOfRobots(robots, msg) ==
  [robots EXCEPT ![msg.senderId] = [@ EXCEPT !.heard = msg.age, !.alica = msg.plan]]

\* operator[] of the map makes a null pointer for a robot that is not there.
Unknown ==
  \/ \E i \in DOMAIN processStatMsgQueue : \E k \in DOMAIN processStatMsgQueue[i].stats : k[1] \notin ShownRobots
  \/ \E i \in DOMAIN alicaInfoMsgQueue : alicaInfoMsgQueue[i].senderId \notin ShownRobots

processMessages ==
  FoldLeft(InfoOfRobots, FoldLeft(StatsOfRobots, controlledRobotsMap, processStatMsgQueue), alicaInfoMsgQueue)

\* Robot::updateGUI; the ControlledRobot of robot_control is never erased.
RobotUpdated(robot) ==
  [robot EXCEPT
     !.alica = IF robot.heard > RobotTimeOut THEN "" ELSE @,
     !.widget.execs = [e \in Execs |-> updateExecutable(@[e])]]

\* The refresh timer fires.
runRobots ==
  /\ IF Unknown
     THEN crashed' = TRUE /\ UNCHANGED <<controlledRobotsMap, upToDate>>
     ELSE /\ controlledRobotsMap' = [r \in ShownRobots |-> RobotUpdated(processMessages[r])]
          /\ upToDate' = TRUE /\ UNCHANGED crashed
  /\ processStatMsgQueue' = <<>> /\ alicaInfoMsgQueue' = <<>>
  /\ UNCHANGED lastHeard

\* The context menu
toggle(r) ==
  /\ controlledRobotsMap' = [controlledRobotsMap EXCEPT ![r].shown = ~@]
  /\ UNCHANGED <<processStatMsgQueue, alicaInfoMsgQueue, crashed, upToDate, lastHeard>>

RobotsTick ==
  /\ processStatMsgQueue' = [i \in DOMAIN processStatMsgQueue |-> [processStatMsgQueue[i] EXCEPT !.age = Older(@)]]
  /\ alicaInfoMsgQueue' = [i \in DOMAIN alicaInfoMsgQueue |-> [alicaInfoMsgQueue[i] EXCEPT !.age = Older(@)]]
  /\ controlledRobotsMap' =
       [r \in ShownRobots |-> [Aged(controlledRobotsMap[r]) EXCEPT !.widget = AgedRobot(@)]]
  /\ lastHeard' = [r \in HeardRobots |-> Older(lastHeard[r])]
  /\ upToDate' = FALSE
  /\ UNCHANGED crashed

\* The plug-in is loaded anew.
ReopenRobots ==
  /\ crashed
  /\ processStatMsgQueue' = <<>> /\ alicaInfoMsgQueue' = <<>>
  /\ controlledRobotsMap' = [r \in ShownRobots |-> NewRobot]
  /\ crashed' = FALSE /\ upToDate' = FALSE
  /\ UNCHANGED lastHeard

RobotsRun == ~crashed /\
  \/ \E r \in HeardRobots, e \in StatKeys, s \in {"S", "T"} :
       receiveRobotStats(r, r, [k \in {<<r, e>>} |-> [paramSet |-> Lowest(Params), state |-> s]])
  \/ \E r \in HeardRobots : receiveAlicaInfo(r, "plan")
  \/ runRobots \/ RobotsTick
  \/ \E r \in ShownRobots : toggle(r)
RobotsNext == RobotsRun \/ ReopenRobots

RobotsSpec == processStatMsgQueue = <<>> /\ RobotsInit /\ [][RobotsNext]_robotsVars

\* A refreshed display shows a plan only of a robot a message came from within the last second,
\* and a green light only with one within the time-out, although the queues hold messages of any
\* age and a younger one may be followed by an older one of the other queue.
NothingStale ==
  upToDate => \A r \in ShownRobots :
    /\ controlledRobotsMap[r].alica # "" => lastHeard[r] <= RobotTimeOut
    /\ (\E e \in Execs : controlledRobotsMap[r].widget.execs[e].light = "green") => lastHeard[r] <= MsgTimeOut

=============================================================================
