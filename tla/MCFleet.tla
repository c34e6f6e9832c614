------------------------------ MODULE MCFleet ------------------------------
(* Two managers, one of them in simulation mode, for robots 1 and 2. *)
EXTENDS ProcessManager

FleetArguments == [m \in Managers |-> IF m = 1 THEN <<"-autostart", "-sim">> ELSE <<"-sim">>]

\* A START for everybody, a STOP and a START for single machines (the START names a robot and
\* an executable nobody knows), the example of ProcessCommand.msg, a command for the logs, and a
\* START with a parameter set that is not registered.
FleetCommands ==
  {[receiverId |-> 0, cmd |-> "START", robotIds |-> <<1>>, processKeys |-> <<7, 8>>, paramSets |-> <<1, 0>>],
   [receiverId |-> 2, cmd |-> "STOP", robotIds |-> <<1, 2>>, processKeys |-> <<7>>, paramSets |-> <<0>>],
   [receiverId |-> 1, cmd |-> "START", robotIds |-> <<9, 1>>, processKeys |-> <<6, 7>>, paramSets |-> <<0, 1>>],
   [receiverId |-> 2, cmd |-> "STOP", robotIds |-> <<1>>, processKeys |-> <<7, 8>>, paramSets |-> <<>>],
   [receiverId |-> 2, cmd |-> "START_LOG_PUBLISHING", robotIds |-> <<1>>, processKeys |-> <<7>>, paramSets |-> <<>>],
   [receiverId |-> 2, cmd |-> "START", robotIds |-> <<2>>, processKeys |-> <<8, 7>>, paramSets |-> <<5, 0>>]}

ByUsers == {<<2, <<1, 7>>, 0>>}
=============================================================================
