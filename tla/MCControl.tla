----------------------------- MODULE MCControl -----------------------------
(***************************************************************************)
(* The displays.  A behaviour is about one of them: pm_control with its    *)
(* managers and operator (one machine with two executables, one of which   *)
(* is started with the manager), or robot_control with the robots that     *)
(* send it messages (one that the registry knows and one that it does not) *)
(***************************************************************************)
EXTENDS Control, RobotsControl

VARIABLE display

ControlArguments == [m \in Managers |-> <<"-autostart">>]
ControlBundles   == "vision" :> (7 :> 1)
ByNobody         == {}

\* What only robot_control has; both displays have a queue of process statistics.
OnlyRobots == <<alicaInfoMsgQueue, controlledRobotsMap, crashed, upToDate, lastHeard>>
OnlyControl == <<pmVars, processManagersMap, timeVars>>
mcVars == <<display, controlVars, robotsVars>>

MCInit == display \in {"pm_control", "robot_control"} /\ ControlInit /\ RobotsInit

Here == display = "pm_control" /\ UNCHANGED <<display, OnlyRobots>>
MCNext ==
  \/ Here /\ ControlNext
  \/ display = "robot_control" /\ UNCHANGED <<display, OnlyControl>> /\ RobotsNext

\* ControlSpec, and any behaviour of robot_control
MCSpec ==
  /\ MCInit /\ [][MCNext]_mcVars
  /\ WF_refreshed(display = "pm_control" /\ RefreshDue) /\ WF_controlVars(Here /\ ControlTick)
  /\ \A m \in Managers : WF_controlVars(Here /\ Iterate(m)) /\ WF_controlVars(Here /\ Command(m))
=============================================================================
