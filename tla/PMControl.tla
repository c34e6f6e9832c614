----------------------------- MODULE PMControl -----------------------------
(***************************************************************************)
(* The operators' view: the plug-in pm_control with its widgets            *)
(* ControlledProcessManager, ControlledRobot and ControlledExecutable. It  *)
(* queues the ProcessStats messages as they are received and works them    *)
(* off whenever the refresh timer fires. What was not heard of for longer  *)
(* than MsgTimeOut vanishes or turns red. All times are ages: they grow    *)
(* with Tick and are capped at Silent.                                     *)
(***************************************************************************)
EXTENDS ExecutableRegistry, Integers, Sequences, SequencesExt

CONSTANTS
  Bundles,          \* bundle |-> (executable |-> parameter set), from Processes.Bundles
  MsgTimeOut,       \* PMControl.timeLastMsgReceivedTimeOut
  MaxUnread         \* bound: messages waiting for the refresh timer

ASSUME PMControlAssumption ==
  /\ MsgTimeOut \in Nat /\ MaxUnread \in Nat
  /\ \A b \in DOMAIN Bundles : DOMAIN Bundles[b] \subseteq Execs
                               /\ \A e \in DOMAIN Bundles[b] : Bundles[b][e] \in Params

VARIABLES
  processStatMsgQueue,
  processManagersMap    \* id of a manager |-> its age and, by id, the robots it reports

guiVars == <<processStatMsgQueue, processManagersMap>>

Silent == MsgTimeOut + 1
Ages   == 0 .. Silent
GuiInit == processStatMsgQueue = <<>> /\ processManagersMap = <<>>

-----------------------------------------------------------------------------
(* ControlledExecutable *)

NewControlledExecutable ==
  [heard |-> Silent, state |-> "U", runningParamSet |-> UNKNOWN_PARAMS,
   desiredParamSet |-> Lowest(Params), light |-> "none",
   checked |-> FALSE, enabled |-> TRUE, shown |-> TRUE]

handleStat(x, stat, age) ==
  [x EXCEPT !.heard = age, !.state = stat.state, !.runningParamSet = stat.paramSet]

updateExecutable_KeepsGreen(x) ==             \* mutant: the time-out is not looked at
  CASE x.state = "S" -> [x EXCEPT !.light = "green"]
    [] x.state \in {"T", "Z"} -> [x EXCEPT !.light = "red", !.runningParamSet = UNKNOWN_PARAMS]
    [] OTHER         -> [x EXCEPT !.light = "gray"]

\* ControlledExecutable::updateGUI: R, S, D and W are S here.
updateExecutable(x) ==
  CASE x.heard > MsgTimeOut -> [x EXCEPT !.light = "red", !.runningParamSet = UNKNOWN_PARAMS]
    [] x.heard <= MsgTimeOut /\ x.state = "S" -> [x EXCEPT !.light = "green"]
    [] x.heard <= MsgTimeOut /\ x.state \in {"T", "Z"} ->
         [x EXCEPT !.light = "red", !.runningParamSet = UNKNOWN_PARAMS]
    [] x.heard <= MsgTimeOut /\ x.state \in {"U", "X"} -> [x EXCEPT !.light = "gray"]

\* handleBundleComboBoxChanged
BundleChanged(x, e, bundle) ==
  LET lowest == [x EXCEPT !.desiredParamSet = Lowest(Params \cup {@})]
  IN  CASE bundle = "ALL" -> [lowest EXCEPT !.shown = TRUE, !.enabled = TRUE]
        [] bundle = "RUNNING" -> IF x.state \in {"S", "Z"}
                                 THEN [lowest EXCEPT !.shown = TRUE, !.enabled = TRUE]
                                 ELSE [lowest EXCEPT !.shown = FALSE]
        [] bundle \in DOMAIN Bundles \ {"ALL", "RUNNING"} ->
             IF e \in DOMAIN Bundles[bundle]
             THEN [x EXCEPT !.shown = TRUE, !.desiredParamSet = Bundles[bundle][e],
                            !.enabled = x.runningParamSet \in {Bundles[bundle][e], UNKNOWN_PARAMS}]
             ELSE [lowest EXCEPT !.shown = FALSE]

-----------------------------------------------------------------------------
(* ControlledRobot, ControlledProcessManager *)

NewControlledRobot(m) ==
  [parentPMid |-> m, heard |-> Silent, execs |-> [e \in Execs |-> NewControlledExecutable]]

handleProcessStat_NotStamped(robot, r, stats, age, senderId) ==   \* mutant: the robot's own time stamp
  [robot EXCEPT
     !.parentPMid = senderId,
     !.execs = [e \in Execs |-> IF <<r, e>> \in DOMAIN stats
                                THEN handleStat(robot.execs[e], stats[<<r, e>>], age)
                                ELSE robot.execs[e]]]

\* handleProcessStat, for all stats of a message that are about robot r.
handleProcessStat(robot, r, stats, age, senderId) ==
  [robot EXCEPT
     !.parentPMid = senderId,
     !.heard = IF \E e \in Execs : <<r, e>> \in DOMAIN stats THEN age ELSE @,
     !.execs = [e \in Execs |-> IF <<r, e>> \in DOMAIN stats
                                THEN handleStat(robot.execs[e], stats[<<r, e>>], age)
                                ELSE robot.execs[e]]]

Reported(stats) == {k[1] : k \in DOMAIN stats} \cap Robots

\* ControlledProcessManager::handleProcessStats
ManagerHeard(pm, m, msg) ==
  [heard |-> msg.age,
   robots |-> [r \in DOMAIN pm.robots \cup Reported(msg.stats) |->
                 LET robot == IF r \in DOMAIN pm.robots THEN pm.robots[r] ELSE NewControlledRobot(m)
                 IN  IF r \in Reported(msg.stats)
                     THEN handleProcessStat(robot, r, msg.stats, msg.age, msg.senderId)
                     ELSE robot]]

\* updateGUI of the manager: robots not heard of are erased, the others updated.
ManagerUpdated(pm) ==
  [pm EXCEPT !.robots =
     [r \in {r \in DOMAIN pm.robots : pm.robots[r].heard <= MsgTimeOut} |->
        [pm.robots[r] EXCEPT !.execs = [e \in Execs |-> updateExecutable(@[e])]]]]

-----------------------------------------------------------------------------
(* PMControl *)

NewManager == [heard |-> Silent, robots |-> <<>>]

\* One message of the queue; a sender the registry does not know is refused.
StatsHandled(managers, msg) ==
  LET m == msg.senderId
  IN  [i \in DOMAIN managers \cup ({m} \cap Robots) |->
         IF i # m THEN managers[i]
         ELSE ManagerHeard(IF m \in DOMAIN managers THEN managers[m] ELSE NewManager, m, msg)]

handleProcessStats == FoldLeft(StatsHandled, processManagersMap, processStatMsgQueue)

updateGUI(managers) ==
  [m \in {m \in DOMAIN managers : managers[m].heard <= MsgTimeOut} |-> ManagerUpdated(managers[m])]

\* The refresh timer fires.
runGUI ==
  /\ processManagersMap' = updateGUI(handleProcessStats)
  /\ processStatMsgQueue' = <<>>

receiveProcessStats(senderId, stats) ==
  /\ Len(processStatMsgQueue) < MaxUnread
  /\ processStatMsgQueue' =
       Append(processStatMsgQueue, [senderId |-> senderId, stats |-> stats, age |-> 0])
  /\ UNCHANGED processManagersMap

\* A second passes for every time stamp.
Older(age) == IF age < Silent THEN age + 1 ELSE Silent

Aged(x) == [x EXCEPT !.heard = Older(@)]
AgedRobot(robot) == [Aged(robot) EXCEPT !.execs = [e \in Execs |-> Aged(@[e])]]

GuiTick ==
  /\ processStatMsgQueue' = [i \in DOMAIN processStatMsgQueue |->
                               [processStatMsgQueue[i] EXCEPT !.age = Older(@)]]
  /\ processManagersMap' =
       [m \in DOMAIN processManagersMap |->
          [Aged(processManagersMap[m]) EXCEPT
             !.robots = [r \in DOMAIN @ |-> AgedRobot(@[r])]]]

-----------------------------------------------------------------------------
(* The operator's hand. *)

OnScreen(m, r) == m \in DOMAIN processManagersMap /\ r \in DOMAIN processManagersMap[m].robots

Exec(m, r, e) == processManagersMap[m].robots[r].execs[e]

\* updateBundles
SelectBundle(m, r, bundle) ==
  /\ OnScreen(m, r)
  /\ processManagersMap' =
       [processManagersMap EXCEPT ![m].robots[r].execs =
          [e \in Execs |-> BundleChanged(@[e], e, bundle)]]
  /\ UNCHANGED processStatMsgQueue

\* handleCheckBoxStateChanged: the command that a click on the check box publishes
CommandOf(m, r, e) ==
  [receiverId |-> processManagersMap[m].robots[r].parentPMid,
   cmd |-> IF Exec(m, r, e).checked THEN "STOP" ELSE "START",
   robotIds |-> <<r>>, processKeys |-> <<e>>, paramSets |-> <<Exec(m, r, e).desiredParamSet>>]

CheckBoxClicked(m, r, e) ==
  /\ OnScreen(m, r) /\ Exec(m, r, e).shown /\ Exec(m, r, e).enabled
  /\ processManagersMap' = [processManagersMap EXCEPT ![m].robots[r].execs[e].checked = ~@]
  /\ UNCHANGED processStatMsgQueue

=============================================================================
