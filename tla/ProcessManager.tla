--------------------------- MODULE ProcessManager ---------------------------
(***************************************************************************)
(* The process managers of a team: one per machine, all of them subscribed *)
(* to the topic of ProcessCommand messages. A manager dispatches a command *)
(* to its ManagedRobots and their ManagedExecutables, which are created on *)
(* first use, and its main loop updates them all once per iteration.       *)
(* Managers crash and are started again; the processes they started are    *)
(* session leaders of their own and stay.                                  *)
(*                                                                         *)
(* An iteration is one step here: how commands interleave with the update  *)
(* of one executable is the subject of module ManagedExecutable. At most   *)
(* one process per executable and ROBOT variable runs on a machine, and    *)
(* processes end only when a manager kills them. A START may name a        *)
(* parameter set that is not registered: it ends the manager.              *)
(***************************************************************************)
EXTENDS ExecutableRegistry, Integers, Sequences

CONSTANTS
  Managers,         \* the robots a process manager runs on
  Arguments,        \* the command line of each manager
  AutostartExecs,   \* those with mode autostart
  PublishedCommands,\* the ProcessCommands operators may publish
  MaxPublished,     \* bound: commands published
  QueueSize,        \* of the subscription
  StartedByUsers,   \* <<manager, <<robot, executable>>, parameter set>> users start by hand
  MaxDisturbances   \* bound: crashes of managers and processes started by hand

NoProcess == -2
WILDCARD  == 0

\* ProcessCommand.msg. Its numbers are any: a START may name robots and executables nobody knows.
\* The ids of parameter sets are not negative, but need not be registered where they arrive.
ProcessCommands ==
  [receiverId : Int, cmd : {"START", "STOP", "START_LOG_PUBLISHING", "STOP_LOG_PUBLISHING"},
   robotIds : Seq(Int), processKeys : Seq(Int), paramSets : Seq(Nat)]

ASSUME ProcessManagerAssumption ==
  /\ Managers \subseteq Robots /\ WILDCARD \notin Robots
  /\ Arguments \in [Managers -> Seq({"-autostart", "-sim"})]
  /\ AutostartExecs \subseteq Execs
  /\ MaxPublished \in Nat /\ MaxDisturbances \in Nat /\ QueueSize \in Nat \ {0}
  /\ PublishedCommands \subseteq ProcessCommands
  /\ StartedByUsers \subseteq Managers \X (Robots \X Execs) \X Params

VARIABLES
  alive,            \* is the manager running?
  executables,      \* robotMap and the executableMaps in it, by robot id and executable id
  commandQueue,     \* of the subscription to ProcessCommand
  todo,             \* what handleProcessCommand has left to do
  procs,            \* the parameter set each process on the machine runs with
  published,        \* commands published so far
  disturbances,     \* crashes and processes started by hand so far
  wish,             \* history: the last command for each executable that reached the manager
  commanded         \* history: the executables commanded since the manager started

managerVars == <<alive, executables, commandQueue, todo>>
historyVars == <<published, disturbances, wish, commanded>>
pmVars      == <<managerVars, procs, historyVars>>

Keys     == Robots \X Execs
NoWish   == [cmd |-> "none", params |-> UNKNOWN_PARAMS]      \* never commanded, or the command got lost
-----------------------------------------------------------------------------
(* One ManagedExecutable. *)

NewExecutable ==
  [desiredRunState |-> "SHOULDNT_RUN", desiredParamSet |-> UNKNOWN_PARAMS, managed |-> FALSE,
   runningParamSet |-> UNKNOWN_PARAMS, need2ReadParams |-> TRUE]

Desiring(x, run, params) ==
  [x EXCEPT !.desiredRunState = IF run THEN "SHOULD_RUN" ELSE "SHOULDNT_RUN",
            !.desiredParamSet = params]

Cleared_KeepsParams(x) == [x EXCEPT !.managed = FALSE]   \* mutant: what was read stays

Cleared(x) ==
  [x EXCEPT !.managed = FALSE, !.runningParamSet = UNKNOWN_PARAMS, !.need2ReadParams = TRUE]

\* updateStats of a process that runs with parameter set p.
StatsUpdated(x, p) ==
  IF ~x.need2ReadParams THEN x
  ELSE [x EXCEPT !.need2ReadParams = FALSE, !.runningParamSet = p,
                 !.desiredParamSet = IF @ = UNKNOWN_PARAMS THEN p ELSE @]

\* The process with parameter set p becomes, or stays, the managed one.
Adopted(x, p) == [exec |-> [StatsUpdated(x, p) EXCEPT !.managed = TRUE], proc |-> p]

Killed(x) == [exec |-> Cleared(x), proc |-> NoProcess]

\* startProcess looks the parameter set up with map::at, which throws; nothing catches it.
StartThrows(x, p) ==
  /\ p = NoProcess /\ x.desiredRunState = "SHOULD_RUN"
  /\ x.desiredParamSet \notin Params \cup {UNKNOWN_PARAMS}

\* update, when nothing runs and nothing is thrown
UpdatedNothingRuns(x) ==
  IF x.desiredRunState # "SHOULD_RUN" THEN [exec |-> Cleared(x), proc |-> NoProcess]
  ELSE IF x.desiredParamSet = UNKNOWN_PARAMS THEN [exec |-> x, proc |-> NoProcess]
  ELSE [exec |-> [x EXCEPT !.managed = TRUE], proc |-> x.desiredParamSet]

UpdatedSomethingRuns_KillsUnmanaged(x, p) ==  \* mutant: what a new manager finds is killed
  LET y == StatsUpdated(x, p)
      right == y.desiredParamSet = y.runningParamSet \/ y.desiredRunState = "MANUAL_STARTED"
  IN  IF x.desiredRunState = "SHOULDNT_RUN" \/ (x.managed /\ ~right) THEN Killed(y) ELSE Adopted(x, p)

\* update, when a process with parameter set p runs
UpdatedSomethingRuns(x, p) ==
  LET y == StatsUpdated(x, p)
      right == y.desiredParamSet = y.runningParamSet \/ y.desiredRunState = "MANUAL_STARTED"
  IN  IF x.desiredRunState = "SHOULDNT_RUN"
      THEN IF x.managed THEN Killed(x)
           ELSE Adopted([x EXCEPT !.desiredRunState = "MANUAL_STARTED"], p)
      ELSE IF x.managed /\ ~right THEN Killed(y) ELSE Adopted(x, p)

Updated(x, p) == IF p = NoProcess THEN UpdatedNothingRuns(x) ELSE UpdatedSomethingRuns(x, p)

-----------------------------------------------------------------------------
(* Construction. *)

\* The loop over the arguments ends at -autostart.
autostart(m) == \E i \in DOMAIN Arguments[m] : Arguments[m][i] = "-autostart"
simMode(m) ==
  \E i \in DOMAIN Arguments[m] :
    /\ Arguments[m][i] = "-sim"
    /\ \A j \in 1 .. i - 1 : Arguments[m][j] # "-autostart"

Constructed(m) ==
  [k \in IF autostart(m) THEN {m} \X AutostartExecs ELSE {} |->
     Desiring(NewExecutable, TRUE, Lowest(Params))]

ManagersInit ==
  /\ alive = [m \in Managers |-> TRUE]
  /\ executables = [m \in Managers |-> Constructed(m)]
  /\ commandQueue = [m \in Managers |-> <<>>]
  /\ todo = [m \in Managers |-> <<>>]
  /\ procs = [m \in Managers |-> [k \in Keys |-> NoProcess]]
  /\ published = 0
  /\ disturbances = 0
  /\ wish = [m \in Managers |-> [k \in Keys |-> NoWish]]
  /\ commanded = [m \in Managers |-> {}]

\* A manager and all it has in memory are gone; its processes stay.
Ends(m) ==
  /\ alive[m]
  /\ alive' = [alive EXCEPT ![m] = FALSE]
  /\ executables' = [executables EXCEPT ![m] = <<>>]
  /\ commandQueue' = [commandQueue EXCEPT ![m] = <<>>]
  /\ todo' = [todo EXCEPT ![m] = <<>>]

Crash(m) ==
  /\ Ends(m)
  /\ disturbances < MaxDisturbances
  /\ disturbances' = disturbances + 1
  /\ UNCHANGED <<procs, published, wish, commanded>>

Start(m) ==
  /\ ~alive[m]
  /\ alive' = [alive EXCEPT ![m] = TRUE]
  /\ executables' = [executables EXCEPT ![m] = Constructed(m)]
  /\ commanded' = [commanded EXCEPT ![m] = {}]
  /\ UNCHANGED <<commandQueue, todo, procs, published, disturbances, wish>>

-----------------------------------------------------------------------------
(* Commands. *)

IsForMe_AnyReceiver(m, c) == simMode(m) \/ c.receiverId = m   \* mutant: simulators take everything

\* "check whether this message is for me"
IsForMe(m, c) == c.receiverId = m \/ (simMode(m) /\ c.receiverId = WILDCARD)

Malformed(c) == c.cmd \in {"START", "STOP"} /\ Len(c.processKeys) # Len(c.paramSets)

\* The calls a command causes: for each robot, for each process key.
JobsOf(c) ==
  LET n == Len(c.processKeys)
  IN  [i \in 1 .. Len(c.robotIds) * n |->
         LET key == ((i - 1) % n) + 1
         IN  [cmd |-> c.cmd, robot |-> c.robotIds[((i - 1) \div n) + 1], exec |-> c.processKeys[key],
              params |-> IF c.cmd \in {"START", "STOP"} THEN c.paramSets[key] ELSE UNKNOWN_PARAMS]]

\* The last command of c for executable k of manager m, as the message reads: receiverId,
\* robotIds and processKeys name whom it addresses.
Meant(m, c, k) ==
  {i \in IF Malformed(c) THEN {} ELSE DOMAIN JobsOf(c) :
     /\ c.receiverId = m \/ (c.receiverId = WILDCARD /\ simMode(m))
     /\ c.cmd \in {"START", "STOP"}
     /\ JobsOf(c)[i].robot = k[1] /\ JobsOf(c)[i].exec = k[2]}
Wished(m, c, k) ==
  LET i == CHOOSE i \in Meant(m, c, k) : \A j \in Meant(m, c, k) : j <= i
  IN  [cmd |-> c.cmd, params |-> JobsOf(c)[i].params]

\* The subscription holds QueueSize messages and drops the oldest one.
Enqueue(q, c) == IF Len(q) < QueueSize THEN Append(q, c) ELSE Append(Tail(q), c)

Publish(c) ==
  /\ published < MaxPublished
  /\ published' = published + 1
  /\ commandQueue' = [m \in Managers |-> IF alive[m] THEN Enqueue(commandQueue[m], c) ELSE <<>>]
  /\ LET dropped(m, k) == Len(commandQueue[m]) = QueueSize /\ Meant(m, Head(commandQueue[m]), k) # {}
     IN  wish' = [m \in Managers |-> [k \in Keys |->
                    IF ~alive[m] THEN wish[m][k]
                    ELSE IF Meant(m, c, k) # {} THEN Wished(m, c, k)
                    ELSE IF dropped(m, k) THEN NoWish ELSE wish[m][k]]]
  /\ commanded' = [m \in Managers |->
                     commanded[m] \cup {k \in Keys : alive[m] /\ Meant(m, c, k) # {}}]
  /\ UNCHANGED <<alive, executables, todo, procs, disturbances>>

\* handleProcessCommand: the command is taken from the queue and refused, or its calls follow.
handleProcessCommand(m) ==
  /\ alive[m] /\ todo[m] = <<>> /\ commandQueue[m] # <<>>
  /\ LET c == Head(commandQueue[m])
     IN  todo' = [todo EXCEPT ![m] = IF IsForMe(m, c) /\ ~Malformed(c) THEN JobsOf(c) ELSE <<>>]
  /\ commandQueue' = [commandQueue EXCEPT ![m] = Tail(@)]
  /\ UNCHANGED <<alive, executables, procs, historyVars>>

Commanded_StartsOnly(x, job) ==               \* mutant: STOP is taken for a command about logs
  IF job.cmd = "START" THEN Desiring(x, TRUE, job.params) ELSE x

\* What changeDesiredState and changeLogPublishing of ManagedRobot do to the executable.
Commanded(x, job) ==
  IF job.cmd \in {"START", "STOP"} THEN Desiring(x, job.cmd = "START", job.params) ELSE x

\* The next call: ids the registry does not know are skipped, the executable is created lazily.
changeDesiredState(m) ==
  /\ alive[m] /\ todo[m] # <<>>
  /\ LET job == Head(todo[m])
         k   == <<job.robot, job.exec>>
         x   == IF k \in DOMAIN executables[m] THEN executables[m][k] ELSE NewExecutable
     IN  executables' = IF k \in Keys
                        THEN [executables EXCEPT ![m] = [j \in DOMAIN @ \cup {k} |->
                                                           IF j = k THEN Commanded(x, job) ELSE @[j]]]
                        ELSE executables
  /\ todo' = [todo EXCEPT ![m] = Tail(@)]
  /\ UNCHANGED <<alive, commandQueue, procs, historyVars>>

-----------------------------------------------------------------------------
(* The main loop. *)

\* searchProcFS creates what it finds and does not know yet, by the ROBOT variable of the process.
Found(m) ==
  [k \in DOMAIN executables[m] \cup {k \in Keys : procs[m][k] # NoProcess} |->
     IF k \in DOMAIN executables[m] THEN executables[m][k] ELSE NewExecutable]

\* The executables whose update throws in the iteration that begins
Throwing(m) == {k \in DOMAIN Found(m) : StartThrows(Found(m)[k], procs[m][k])}

\* One iteration of run: searchProcFS, update and (see Stats) report.
run(m) ==
  /\ alive[m] /\ Throwing(m) = {}
  /\ LET after == [k \in DOMAIN Found(m) |-> Updated(Found(m)[k], procs[m][k])]
     IN  /\ executables' = [executables EXCEPT ![m] = [k \in DOMAIN after |-> after[k].exec]]
         /\ procs' = [procs EXCEPT ![m] = [k \in Keys |-> IF k \in DOMAIN after THEN after[k].proc
                                                          ELSE procs[m][k]]]
  /\ UNCHANGED <<alive, commandQueue, todo, historyVars>>

\* robotMap and executableMap are sorted.
Before(j, k) == j[1] < k[1] \/ (j[1] = k[1] /\ j[2] < k[2])

\* The iteration that ends the manager: those before the first that throws have been updated.
runThrows(m) ==
  /\ Ends(m)
  /\ \E k \in Throwing(m) :
       /\ \A j \in Throwing(m) : ~Before(j, k)
       /\ procs' = [procs EXCEPT ![m] = [j \in Keys |-> IF j \in DOMAIN Found(m) /\ Before(j, k)
                                                       THEN Updated(Found(m)[j], procs[m][j]).proc
                                                       ELSE procs[m][j]]]
  /\ UNCHANGED historyVars

\* report: the parameter set of every managed executable.
Stats(execs) == [k \in {k \in DOMAIN execs : execs[k].managed} |-> execs[k].runningParamSet]

StartedByHand(m, k, p) ==
  /\ disturbances < MaxDisturbances
  /\ disturbances' = disturbances + 1
  /\ procs[m][k] = NoProcess
  /\ procs' = [procs EXCEPT ![m][k] = p]
  /\ UNCHANGED <<managerVars, published, wish, commanded>>

-----------------------------------------------------------------------------

ManagerStep(m) == handleProcessCommand(m) \/ changeDesiredState(m) \/ run(m)

\* What ends and begins: managers, also by their own hand, and the processes of users
Environment ==
  \/ \E m \in Managers : Crash(m) \/ runThrows(m) \/ Start(m)
  \/ \E s \in StartedByUsers : StartedByHand(s[1], s[2], s[3])

FleetNext ==
  \/ \E m \in Managers : ManagerStep(m)
  \/ \E c \in PublishedCommands : Publish(c)
  \/ Environment

FleetSpec ==
  /\ ManagersInit /\ [][FleetNext]_pmVars
  /\ \A m \in Managers : /\ WF_pmVars(handleProcessCommand(m) \/ changeDesiredState(m))
                         /\ WF_pmVars(run(m) \/ runThrows(m))

-----------------------------------------------------------------------------
(* Properties. *)

Settled(m) == alive[m] /\ commandQueue[m] = <<>> /\ todo[m] = <<>>

\* Once a manager has handled its queue, each executable is desired to run exactly if the last
\* command that named it said so, with the parameters that command named: whoever else the
\* commands named, in whatever order they came and wherever they were meant for another manager.
LastCommandWins ==
  \A m \in Managers : Settled(m) =>
    \A k \in Keys :
      LET x == IF k \in DOMAIN executables[m] THEN executables[m][k] ELSE NewExecutable
      IN  /\ k \in commanded[m] /\ wish[m][k].cmd = "START" =>
               x.desiredRunState = "SHOULD_RUN" /\ x.desiredParamSet = wish[m][k].params
          /\ k \in commanded[m] /\ wish[m][k].cmd = "STOP" => x.desiredRunState # "SHOULD_RUN"
          /\ k \notin commanded[m] \cup DOMAIN Constructed(m) => x.desiredRunState # "SHOULD_RUN"

\* A process that runs as the last command wished is not killed, not even by a manager that was
\* restarted since and knows nothing of the command. (A manager with -autostart wishes by itself.)
NeverKillsWanted ==
  [][\A m \in Managers : Settled(m) =>
       \A k \in Keys \ DOMAIN Constructed(m) :
         wish[m][k] = [cmd |-> "START", params |-> procs[m][k]] => procs'[m][k] = procs[m][k]]_pmVars

\* A START that reached a manager which stays up is fulfilled on its machine, unless a later
\* command says otherwise.
StartReaches ==
  \A m \in Managers : \A k \in Keys : \A p \in Params :
    <>[](alive[m] /\ k \in commanded[m] /\ wish[m][k] = [cmd |-> "START", params |-> p])
      => <>[](procs[m][k] = p)

=============================================================================
