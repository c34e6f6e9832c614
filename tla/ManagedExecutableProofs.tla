---------------------- MODULE ManagedExecutableProofs ----------------------
(***************************************************************************)
(* Theorems about ManagedExecutable for every set of processes and         *)
(* parameter sets, with and without commands handled during an iteration.  *)
(***************************************************************************)
EXTENDS ManagedExecutable, TLAPS

(***************************************************************************)
(* Type correctness.                                                       *)
(***************************************************************************)

LEMMA TypeInit == Init => TypeOK
BY ConstantsAssumption DEF Init, TypeOK, ParamSets, Logs, RunState, Commands, NoCommand, Labels

LEMMA TypeOfProcesses == TypeOK /\ Processes => TypeOK'
<1> SUFFICES ASSUME TypeOK, Processes PROVE TypeOK'
  OBVIOUS
<1> USE ConstantsAssumption DEF TypeOK, ParamSets, Logs, RunState, Labels, commandVars, desiredVars,
        managedVars, publishVars
<1>1. ASSUME NEW p \in Pids, Exec(p) PROVE TypeOK'
  BY <1>1 DEF Exec
<1>2. ASSUME NEW p \in Pids, Exit(p) PROVE TypeOK'
  BY <1>2 DEF Exit
<1>3. ASSUME NEW p \in Pids, NEW a \in ManualParams, StartedByHand(p, a) PROVE TypeOK'
  BY <1>3 DEF StartedByHand
<1>4. QED
  BY <1>1, <1>2, <1>3 DEF Processes

LEMMA TypeOfRosThread == TypeOK /\ RosThread => TypeOK'
<1> SUFFICES ASSUME TypeOK, RosThread PROVE TypeOK'
  OBVIOUS
<1> USE ConstantsAssumption DEF TypeOK, ParamSets, Logs, RunState, Labels, Commands, NoCommand,
        osVars, commandVars, managedVars, publishVars
<1>1. ASSUME NEW c \in Commands, ChangeDesiredRunState(c) PROVE TypeOK'
  BY <1>1 DEF ChangeDesiredRunState
<1>2. CASE ChangeDesiredParamSet
  BY <1>2 DEF ChangeDesiredParamSet
<1>3. ASSUME NEW b \in LogCommands, ChangeDesiredLogPublishingState(b) PROVE TypeOK'
  BY <1>3 DEF ChangeDesiredLogPublishingState
<1>4. QED
  BY <1>1, <1>2, <1>3 DEF RosThread

LEMMA SignalTyped ==
  ASSUME os \in [Pids -> {"free", "hidden", "up", "dying"}], NEW S, KillQueuedProcesses(S)
  PROVE  /\ os' \in [Pids -> {"free", "hidden", "up", "dying"}]
         /\ queuedPids' = {}
         /\ \A p \in Pids : os'[p] # os[p] => p \in S /\ os[p] = "up" /\ os'[p] = "dying"
         /\ \A p \in Pids : p \in S => os'[p] # "up"
BY DEF KillQueuedProcesses

LEMMA UpdateStatsTyped ==
  ASSUME TypeOK, NEW p \in Pids, NEW next, NEW nextAdapt, UpdateStats(p, next, nextAdapt)
  PROVE  /\ sample' \in Pids \cup {NOTHING_MANAGED}
         /\ need2ReadParams' = FALSE
         /\ runningParamSet' \in ParamSets
         /\ pc' \in {next, nextAdapt}
         /\ pc' # next => /\ runningParamSet' # UNKNOWN_PARAMS
                          /\ desiredParamSet = UNKNOWN_PARAMS
<1>1. ParamSetsRead(p) \subseteq ParamSets
  BY ConstantsAssumption DEF ParamSetsRead, TypeOK, ParamSets
<1>2. QED
  BY <1>1 DEF UpdateStats, TypeOK

LEMMA TypeOfUpdate == TypeOK /\ Update => TypeOK'
<1> SUFFICES ASSUME TypeOK, Update PROVE TypeOK'
  OBVIOUS
<1> USE ConstantsAssumption DEF TypeOK, ParamSets, Logs, RunState, Labels,
        osVars, commandVars, desiredVars, managedVars, publishVars
<1>1. CASE UpdateNothingRuns
  BY <1>1 DEF UpdateNothingRuns, Clear
<1>2. CASE StartProcess
  <2>1. UNCHANGED <<commandVars, desiredVars, queuedPids, runningParamSet, need2ReadParams, sample,
                    publisher>>
    BY <1>2 DEF StartProcess
  <2>2. CASE \A p \in Pids : os[p] # "free"
    BY <1>2, <2>1, <2>2 DEF StartProcess
  <2>3. ASSUME NEW p \in Pids, os[p] = "free", desiredParamSet \in Params,
               os' = [os EXCEPT ![p] = "hidden"], args' = [args EXCEPT ![p] = desiredParamSet],
               managedPid' = p, recent' = TRUE,
               IF shouldPublish THEN publishing' = TRUE /\ pc' = "joinStd"
                                ELSE UNCHANGED publishing /\ pc' = "report"
        PROVE  TypeOK'
    BY <2>1, <2>3
  <2>4. QED
    BY <1>2, <2>2, <2>3 DEF StartProcess
<1>3. CASE UpdateSomethingRuns \/ LookUpThrows
  BY <1>3 DEF UpdateSomethingRuns, LookUpThrows
<1>4. CASE FindOwn
  <2>1. managedPid \in Pids
    BY <1>4 DEF FindOwn
  <2>2. pc' \in {"judge", "adaptAndJudge"}
    BY <1>4, <2>1, UpdateStatsTyped DEF FindOwn
  <2>3. QED
    BY <1>4, <2>1, <2>2, UpdateStatsTyped, ZenonT(60) DEF FindOwn
<1>5. CASE AdoptFirst
  <2>1. PICK p \in queuedPids : /\ managedPid' = p
                                /\ KillQueuedProcesses(queuedPids \ {p})
                                /\ UpdateStats(p, "report", "adaptAndReport")
    BY <1>5 DEF AdoptFirst
  <2>2. pc' \in {"report", "adaptAndReport"} /\ sample' \in Pids \cup {NOTHING_MANAGED}
        /\ need2ReadParams' = FALSE /\ runningParamSet' \in ParamSets
    BY <2>1, UpdateStatsTyped
  <2>3. os' \in [Pids -> {"free", "hidden", "up", "dying"}] /\ queuedPids' = {}
    BY <2>1, SignalTyped
  <2>4. QED
    BY <1>5, <2>1, <2>2, <2>3 DEF AdoptFirst
<1>6. CASE AdaptDesiredParamSet
  BY <1>6 DEF AdaptDesiredParamSet
<1>7. CASE StopPublishing \/ CompareParams \/ KeepManuallyStarted \/ TestManualStarted
  BY <1>7 DEF StopPublishing, CompareParams, KeepManuallyStarted, TestManualStarted
<1>15. CASE KeepOwn
  <2>1. UNCHANGED <<args, commandVars, desiredVars, managedVars, recent, publisher>>
        /\ pc' \in {"joinStd", "report"} /\ publishing' \in BOOLEAN
    BY <1>15 DEF KeepOwn
  <2>2. os' \in [Pids -> {"free", "hidden", "up", "dying"}] /\ queuedPids' \subseteq Pids
    BY <1>15, SignalTyped DEF KeepOwn
  <2>3. QED
    BY <2>1, <2>2
<1>8. CASE KillOwn
  BY <1>8 DEF KillOwn, KillQueuedProcesses, Clear
<1>9. CASE JoinStdPublisher
  BY <1>9 DEF JoinStdPublisher, JoinPublisher
<1>10. CASE JoinErrPublisher
  BY <1>10 DEF JoinErrPublisher, JoinPublisher, KillQueuedProcesses
<1>11. CASE TestShouldntRun
  BY <1>11 DEF TestShouldntRun
<1>12. CASE KillAll
  BY <1>12 DEF KillAll, KillQueuedProcesses, Clear
<1>13. CASE AdoptManuallyStarted
  <2>1. PICK p \in queuedPids : /\ managedPid' = p
                                /\ KillQueuedProcesses(queuedPids \ {p})
                                /\ UpdateStats(p, "report", "adaptAndReport")
    BY <1>13 DEF AdoptManuallyStarted
  <2>2. pc' \in {"report", "adaptAndReport"} /\ sample' \in Pids \cup {NOTHING_MANAGED}
        /\ need2ReadParams' = FALSE /\ runningParamSet' \in ParamSets
    BY <2>1, UpdateStatsTyped
  <2>3. os' \in [Pids -> {"free", "hidden", "up", "dying"}] /\ queuedPids' = {}
    BY <2>1, SignalTyped
  <2>4. QED
    BY <1>13, <2>1, <2>2, <2>3 DEF AdoptManuallyStarted
<1>14. QED
  BY <1>1, <1>2, <1>3, <1>4, <1>5, <1>6, <1>7, <1>8, <1>9, <1>10, <1>11, <1>12, <1>13, <1>15 DEF Update

LEMMA TypeOfPublisher == ASSUME TypeOK, NEW l \in Logs, Publisher(l) PROVE TypeOK'
BY ConstantsAssumption DEF TypeOK, Publisher, Attach, EndPublishing, osVars, commandVars, desiredVars,
   managedVars, Logs

LEMMA TypeStep == TypeOK /\ [Next]_vars => TypeOK'
<1> SUFFICES ASSUME TypeOK, [Next]_vars PROVE TypeOK'
  OBVIOUS
<1> USE DEF TypeOK, Labels, osVars, commandVars, desiredVars, managedVars, publishVars
<1>1. CASE SearchProcFS
  BY <1>1 DEF SearchProcFS
<1>2. CASE Report
  BY <1>2 DEF Report
<1>3. CASE RetryTimePasses
  BY <1>3, ZenonT(60) DEF RetryTimePasses
<1>4. CASE UNCHANGED vars
  BY <1>4 DEF vars
<1>5. QED
  BY <1>1, <1>2, <1>3, <1>4, TypeOfProcesses, TypeOfRosThread, TypeOfUpdate, TypeOfPublisher
  DEF Next, MainThread

\* Every variable of ManagedExecutable keeps its type, for all constants.
THEOREM TypeCorrect == Spec => []TypeOK
BY TypeInit, TypeStep, PTL DEF Spec

-----------------------------------------------------------------------------
(***************************************************************************)
(* startProcess never looks up an unknown parameter set, however commands  *)
(* interleave with the update: desiredParamSet never becomes unknown again *)
(* because readProcParams only writes to it what it has just matched.      *)
(***************************************************************************)

ForkInv ==
  /\ TypeOK
  /\ pc = "fork" => desiredParamSet # UNKNOWN_PARAMS
  /\ pc \in {"adaptAndJudge", "adaptAndReport"} => runningParamSet # UNKNOWN_PARAMS

LEMMA AdoptedParams ==
  ASSUME TypeOK, NEW p \in Pids, UpdateStats(p, "report", "adaptAndReport")
  PROVE  /\ pc' \in {"report", "adaptAndReport"}
         /\ pc' # "report" => runningParamSet' # UNKNOWN_PARAMS /\ desiredParamSet = UNKNOWN_PARAMS
BY UpdateStatsTyped

LEMMA ForkInvUpdate == ForkInv /\ Update => ForkInv'
<1> SUFFICES ASSUME ForkInv, Update PROVE ForkInv'
  OBVIOUS
<1>0. TypeOK /\ TypeOK'
  BY TypeOfUpdate DEF ForkInv
<1> USE DEF ForkInv
<1>1. CASE UpdateNothingRuns
  BY <1>0, <1>1 DEF UpdateNothingRuns, desiredVars
<1>2. CASE StartProcess
  BY <1>0, <1>2 DEF StartProcess
<1>3. CASE UpdateSomethingRuns \/ LookUpThrows
  BY <1>0, <1>3 DEF UpdateSomethingRuns, LookUpThrows
<1>4. CASE FindOwn
  <2>1. managedPid \in Pids /\ UpdateStats(managedPid, "judge", "adaptAndJudge")
    BY <1>0, <1>4 DEF FindOwn, TypeOK
  <2>2. /\ pc' \in {"judge", "adaptAndJudge"}
        /\ pc' # "judge" => runningParamSet' # UNKNOWN_PARAMS
    BY <1>0, <2>1, UpdateStatsTyped
  <2>3. QED
    BY <1>0, <2>2
<1>5. CASE AdoptFirst
  <2>1. PICK p \in Pids : UpdateStats(p, "report", "adaptAndReport")
    BY <1>0, <1>5 DEF AdoptFirst, TypeOK
  <2>2. QED
    BY <1>0, <2>1, AdoptedParams
<1>6. CASE AdaptDesiredParamSet
  BY <1>0, <1>6 DEF AdaptDesiredParamSet
<1>7. CASE StopPublishing \/ CompareParams \/ KeepManuallyStarted \/ TestManualStarted \/ KeepOwn
  BY <1>0, <1>7 DEF StopPublishing, CompareParams, KeepManuallyStarted, TestManualStarted, KeepOwn
<1>8. CASE KillOwn
  BY <1>0, <1>8 DEF KillOwn
<1>9. CASE JoinStdPublisher
  BY <1>0, <1>9 DEF JoinStdPublisher, JoinPublisher
<1>10. CASE JoinErrPublisher
  BY <1>0, <1>10 DEF JoinErrPublisher, JoinPublisher
<1>11. CASE TestShouldntRun
  BY <1>0, <1>11 DEF TestShouldntRun
<1>12. CASE KillAll
  BY <1>0, <1>12 DEF KillAll
<1>13. CASE AdoptManuallyStarted
  <2>1. PICK p \in Pids : UpdateStats(p, "report", "adaptAndReport")
    BY <1>0, <1>13 DEF AdoptManuallyStarted, TypeOK
  <2>2. QED
    BY <1>0, <2>1, AdoptedParams
<1>14. QED
  BY <1>1, <1>2, <1>3, <1>4, <1>5, <1>6, <1>7, <1>8, <1>9, <1>10, <1>11, <1>12, <1>13 DEF Update

\* Every step keeps the types, and the parameter set stays one the map knows between the test
\* in update and the fork.
THEOREM ForkInvariant == Spec => []ForkInv
<1>1. Init => ForkInv
  BY TypeInit DEF Init, ForkInv
<1>2. ForkInv /\ [Next]_vars => ForkInv'
  <2> SUFFICES ASSUME ForkInv, [Next]_vars PROVE ForkInv'
    OBVIOUS
  <2>0. TypeOK
    BY DEF ForkInv
  <2>1. CASE Processes
    BY <2>0, <2>1, TypeOfProcesses DEF ForkInv, Processes, Exec, Exit, StartedByHand, desiredVars, managedVars
  <2>2. CASE RosThread
    <3>1. TypeOK'
      BY <2>0, <2>2, TypeOfRosThread
    <3>2. ASSUME NEW c \in Commands, ChangeDesiredRunState(c) PROVE ForkInv'
      BY <3>1, <3>2 DEF ForkInv, ChangeDesiredRunState, managedVars
    <3>3. CASE ChangeDesiredParamSet
      BY <2>0, <3>1, <3>3, ConstantsAssumption DEF ForkInv, ChangeDesiredParamSet, managedVars, TypeOK,
         Commands
    <3>4. ASSUME NEW b \in LogCommands, ChangeDesiredLogPublishingState(b) PROVE ForkInv'
      BY <3>1, <3>4 DEF ForkInv, ChangeDesiredLogPublishingState, managedVars
    <3>5. QED
      BY <2>2, <3>2, <3>3, <3>4 DEF RosThread
  <2>3. CASE Update
    BY <2>3, ForkInvUpdate
  <2>4. CASE SearchProcFS
    BY <2>0, <2>4, TypeStep DEF ForkInv, SearchProcFS
  <2>5. CASE Report
    BY <2>0, <2>5, TypeStep DEF ForkInv, Report
  <2>6. CASE RetryTimePasses
    BY <2>0, <2>6, TypeStep DEF ForkInv, RetryTimePasses, desiredVars, managedVars
  <2>7. ASSUME NEW l \in Logs, Publisher(l) PROVE ForkInv'
    BY <2>0, <2>7, TypeStep DEF ForkInv, Publisher, Attach, EndPublishing, desiredVars, managedVars
  <2>8. CASE UNCHANGED vars
    BY <2>0, <2>8, TypeStep DEF ForkInv, vars, desiredVars, managedVars
  <2>9. QED
    BY <2>1, <2>2, <2>3, <2>4, <2>5, <2>6, <2>7, <2>8 DEF Next, MainThread
<1>3. QED
  BY <1>1, <1>2, PTL DEF Spec

\* If commands name registered parameter sets only, startProcess never asks the parameter map
\* for another one, even when a command is handled between the test in update and the fork.
THEOREM ForkAlwaysHasParams == ASSUME CommandParams \subseteq Params PROVE Spec => []ForkHasParams
<1>1. ForkInv => ForkHasParams
  BY DEF ForkInv, ForkHasParams, TypeOK, ParamSets
<1>2. QED
  BY <1>1, ForkInvariant, PTL

-----------------------------------------------------------------------------
(***************************************************************************)
(* What one step of update does to the queue and to the managed process.   *)
(***************************************************************************)

SafeStep ==
  /\ \A p \in queuedPids \ queuedPids' : p = managedPid' \/ os'[p] # "up"
  /\ \A p \in Pids : os[p] = "up" /\ os'[p] = "dying" => p # managedPid'

\* Signals are only sent together with the emptying of the queue, to all but the pid kept.
LEMMA SignalIsSafe ==
  ASSUME TypeOK, NEW S, KillQueuedProcesses(S), queuedPids \ {managedPid'} \subseteq S,
         managedPid' \notin S
  PROVE  SafeStep
<1>1. /\ \A p \in Pids : os'[p] # os[p] => p \in S /\ os[p] = "up" /\ os'[p] = "dying"
      /\ \A p \in Pids : p \in S => os'[p] # "up"
  BY SignalTyped DEF TypeOK
<1>2. QED
  BY <1>1 DEF SafeStep, TypeOK

LEMMA UpdateIsSafe == TypeOK /\ Update => SafeStep
<1> SUFFICES ASSUME TypeOK, Update PROVE SafeStep
  OBVIOUS
<1>1. ASSUME UNCHANGED <<os, queuedPids>> PROVE SafeStep
  BY <1>1 DEF SafeStep
<1>2. CASE UpdateNothingRuns \/ UpdateSomethingRuns \/ FindOwn \/ AdaptDesiredParamSet \/ LookUpThrows
           \/ JoinStdPublisher \/ TestShouldntRun
           \/ StopPublishing \/ CompareParams \/ KeepManuallyStarted \/ TestManualStarted
  BY <1>1, <1>2 DEF UpdateNothingRuns, UpdateSomethingRuns, FindOwn, AdaptDesiredParamSet,
     JoinStdPublisher, TestShouldntRun, StopPublishing, CompareParams, KeepManuallyStarted, TestManualStarted,
     LookUpThrows, osVars
<1>3. CASE StartProcess
  BY <1>3 DEF StartProcess, SafeStep, TypeOK, osVars
<1>4. CASE AdoptFirst \/ AdoptManuallyStarted
  <2>1. PICK p \in queuedPids : managedPid' = p /\ KillQueuedProcesses(queuedPids \ {p})
    BY <1>4 DEF AdoptFirst, AdoptManuallyStarted
  <2>2. QED
    BY <2>1, SignalIsSafe
<1>5. CASE KeepOwn
  <2>1. managedPid' = managedPid
    BY <1>5 DEF KeepOwn, managedVars
  <2>2. CASE UNCHANGED <<os, queuedPids>>
    BY <1>1, <2>2
  <2>3. CASE KillQueuedProcesses(queuedPids \ {managedPid})
    BY <2>1, <2>3, SignalIsSafe
  <2>4. QED
    BY <1>5, <2>2, <2>3 DEF KeepOwn
<1>6. CASE KillOwn \/ KillAll
  <2>1. managedPid' \notin Pids /\ KillQueuedProcesses(queuedPids)
    BY <1>6, ConstantsAssumption DEF KillOwn, KillAll, Clear
  <2>2. QED
    BY <2>1, SignalIsSafe DEF TypeOK
<1>7. CASE JoinErrPublisher
  <2>1. managedPid' = managedPid /\ KillQueuedProcesses(queuedPids \ {managedPid})
    BY <1>7 DEF JoinErrPublisher, managedVars
  <2>2. QED
    BY <2>1, SignalIsSafe
<1>8. QED
  BY <1>2, <1>3, <1>4, <1>5, <1>6, <1>7 DEF Update

LEMMA EveryStepIsSafe == TypeOK /\ [Next]_vars => SafeStep
<1> SUFFICES ASSUME TypeOK, [Next]_vars PROVE SafeStep
  OBVIOUS
<1>1. CASE Processes
  BY <1>1 DEF Processes, Exec, Exit, StartedByHand, SafeStep, TypeOK
<1>2. CASE RosThread
  BY <1>2 DEF RosThread, ChangeDesiredRunState, ChangeDesiredParamSet, ChangeDesiredLogPublishingState,
     SafeStep, osVars
<1>3. CASE SearchProcFS
  BY <1>3 DEF SearchProcFS, SafeStep, TypeOK, osVars, Running
<1>4. CASE Report \/ RetryTimePasses
  BY <1>4 DEF Report, RetryTimePasses, SafeStep, osVars
<1>5. ASSUME NEW l \in Logs, Publisher(l) PROVE SafeStep
  BY <1>5 DEF Publisher, Attach, EndPublishing, SafeStep, osVars
<1>6. CASE UNCHANGED vars
  BY <1>6 DEF vars, SafeStep, osVars
<1>7. QED
  BY <1>1, <1>2, <1>3, <1>4, <1>5, <1>6, UpdateIsSafe DEF Next, MainThread

\* No process that was queued for an update is overlooked: it is managed or has been signalled.
THEOREM NoneForgotten == Spec => NoPidForgotten
<1>1. TypeOK /\ [Next]_vars
        => [\A p \in queuedPids \ queuedPids' : p = managedPid' \/ os'[p] # "up"]_vars
  BY EveryStepIsSafe DEF SafeStep
<1>2. QED
  BY <1>1, TypeCorrect, PTL DEF Spec, NoPidForgotten

\* The process that is managed after a step was not signalled in it.
THEOREM ManagedIsSpared == Spec => ManagedSpared
<1>1. TypeOK /\ [Next]_vars
        => [\A p \in Pids : os[p] = "up" /\ os'[p] = "dying" => p # managedPid']_vars
  BY EveryStepIsSafe DEF SafeStep
<1>2. QED
  BY <1>1, TypeCorrect, PTL DEF Spec, ManagedSpared

-----------------------------------------------------------------------------
(***************************************************************************)
(* Commands handled between the iterations only. The invariant says what   *)
(* each point of update may rely on: which run states lead there, and that *)
(* the desired state is the operator's last command.                       *)
(***************************************************************************)

Pending == inFlight # NoCommand

AtPoint ==
  /\ pc # "aborted"
  /\ pc \in {"test", "stop"} => desiredRunState = "SHOULDNT_RUN"
  /\ pc = "either" => desiredRunState # "SHOULD_RUN"
  /\ pc \in {"keep", "judge", "adaptAndJudge", "compare", "manual"}
       => desiredRunState # "SHOULDNT_RUN"
  /\ pc = "fork" => desiredRunState = "SHOULD_RUN"
  /\ pc \in {"judge", "adaptAndJudge", "compare", "manual", "keepOwn", "joinStd", "joinErr"}
       => managedPid \in Pids
  /\ pc \in {"adaptAndJudge", "adaptAndReport"} => desiredParamSet = UNKNOWN_PARAMS

AsCommanded ==
  /\ Pending => pc = "sleep"
  /\ Pending => (desiredRunState = IF inFlight.cmd = "START" THEN "SHOULD_RUN" ELSE "SHOULDNT_RUN")
  /\ WishRespected
  /\ ~Pending /\ desiredRunState = "SHOULD_RUN" => wish # NoCommand
  /\ ~Pending /\ desiredRunState = "SHOULDNT_RUN" /\ managedPid # NOTHING_MANAGED
       => wish # NoCommand

CalmInv == TypeOK /\ AtPoint /\ AsCommanded

LEMMA CalmInit == Init => CalmInv
BY TypeInit DEF Init, CalmInv, AtPoint, AsCommanded, Pending, WishRespected, NoCommand

LEMMA CalmUpdate == CalmInv /\ Update => AtPoint' /\ AsCommanded'
<1> SUFFICES ASSUME CalmInv, Update PROVE AtPoint' /\ AsCommanded'
  OBVIOUS
<1>0. /\ TypeOK /\ AtPoint /\ AsCommanded
      /\ pc # "sleep" /\ ~Pending
      /\ UNCHANGED <<inFlight, wish>>
  BY DEF CalmInv, AsCommanded, Update, UpdateNothingRuns, LookUpThrows, StartProcess, UpdateSomethingRuns, FindOwn,
     AdoptFirst, AdaptDesiredParamSet, KeepOwn, KillOwn, JoinStdPublisher, JoinErrPublisher,
     StopPublishing, CompareParams, KeepManuallyStarted, TestManualStarted,
     JoinPublisher, TestShouldntRun, KillAll, AdoptManuallyStarted, commandVars
<1> USE DEF Pending, WishRespected
<1>1. CASE UpdateNothingRuns
  BY <1>0, <1>1 DEF UpdateNothingRuns, desiredVars, Clear, managedVars, AtPoint, AsCommanded
<1>2. CASE StartProcess
  BY <1>0, <1>2 DEF StartProcess, desiredVars, AtPoint, AsCommanded
<1>3. CASE UpdateSomethingRuns \/ LookUpThrows
  BY <1>0, <1>3 DEF UpdateSomethingRuns, LookUpThrows, desiredVars, managedVars, AtPoint, AsCommanded, TypeOK, RunState
<1>4. CASE FindOwn
  <2>1. /\ managedPid \in Pids /\ UpdateStats(managedPid, "judge", "adaptAndJudge")
        /\ UNCHANGED <<desiredRunState, desiredParamSet, managedPid>>
    BY <1>0, <1>4 DEF FindOwn, TypeOK, desiredVars
  <2>2. /\ pc' \in {"judge", "adaptAndJudge"}
        /\ pc' # "judge" => desiredParamSet = UNKNOWN_PARAMS
    BY <1>0, <2>1, UpdateStatsTyped
  <2>3. desiredRunState # "SHOULDNT_RUN"
    BY <1>0, <1>4 DEF FindOwn, AtPoint
  <2>4. QED
    BY <1>0, <2>1, <2>2, <2>3 DEF AtPoint, AsCommanded
<1>5. CASE AdoptFirst
  <2>1. PICK p \in Pids : UpdateStats(p, "report", "adaptAndReport")
    BY <1>0, <1>5 DEF AdoptFirst, TypeOK
  <2>2. /\ pc' \in {"report", "adaptAndReport"}
        /\ pc' # "report" => desiredParamSet = UNKNOWN_PARAMS
    BY <1>0, <2>1, AdoptedParams
  <2>3. desiredRunState # "SHOULDNT_RUN" /\ UNCHANGED <<desiredRunState, desiredParamSet>>
    BY <1>0, <1>5 DEF AdoptFirst, AtPoint, desiredVars
  <2>4. QED
    BY <1>0, <2>2, <2>3 DEF AtPoint, AsCommanded
<1>6. CASE AdaptDesiredParamSet
  <2>1. wish.cmd # "START"
    BY <1>0, <1>6, ConstantsAssumption DEF AdaptDesiredParamSet, AtPoint, AsCommanded, TypeOK, Commands,
       NoCommand
  <2>2. QED
    BY <1>0, <1>6, <2>1 DEF AdaptDesiredParamSet, AtPoint, AsCommanded, managedVars
<1>7. CASE KeepOwn
  BY <1>0, <1>7 DEF KeepOwn, desiredVars, managedVars, AtPoint, AsCommanded
<1>15. CASE StopPublishing \/ CompareParams \/ KeepManuallyStarted \/ TestManualStarted
  BY <1>0, <1>15 DEF StopPublishing, CompareParams, KeepManuallyStarted, TestManualStarted,
     desiredVars, managedVars, AtPoint, AsCommanded, TypeOK, RunState
<1>8. CASE KillOwn
  BY <1>0, <1>8 DEF KillOwn, Clear, desiredVars, AtPoint, AsCommanded
<1>9. CASE JoinStdPublisher
  BY <1>0, <1>9 DEF JoinStdPublisher, JoinPublisher, desiredVars, managedVars, AtPoint, AsCommanded
<1>10. CASE JoinErrPublisher
  BY <1>0, <1>10 DEF JoinErrPublisher, JoinPublisher, desiredVars, managedVars, AtPoint, AsCommanded
<1>11. CASE TestShouldntRun
  BY <1>0, <1>11 DEF TestShouldntRun, desiredVars, managedVars, AtPoint, AsCommanded
<1>12. CASE KillAll
  BY <1>0, <1>12 DEF KillAll, Clear, desiredVars, AtPoint, AsCommanded
<1>13. CASE AdoptManuallyStarted
  <2>1. PICK p \in Pids : UpdateStats(p, "report", "adaptAndReport")
    BY <1>0, <1>13 DEF AdoptManuallyStarted, TypeOK
  <2>2. /\ pc' \in {"report", "adaptAndReport"}
        /\ pc' # "report" => desiredParamSet = UNKNOWN_PARAMS
    BY <1>0, <2>1, AdoptedParams
  <2>3. /\ desiredRunState = "SHOULDNT_RUN" /\ desiredRunState' = "MANUAL_STARTED"
        /\ UNCHANGED desiredParamSet
    BY <1>0, <1>13 DEF AdoptManuallyStarted, AtPoint
  <2>4. QED
    BY <1>0, <2>2, <2>3 DEF AtPoint, AsCommanded
<1>14. QED
  BY <1>1, <1>2, <1>3, <1>4, <1>5, <1>6, <1>7, <1>8, <1>9, <1>10, <1>11, <1>12, <1>13, <1>15 DEF Update

LEMMA CalmStep == ASSUME ~Interleaved PROVE CalmInv /\ [Next]_vars => CalmInv'
<1> SUFFICES ASSUME CalmInv, [Next]_vars PROVE CalmInv'
  OBVIOUS
<1>0. TypeOK /\ TypeOK' /\ AtPoint /\ AsCommanded
  BY TypeStep DEF CalmInv
<1> USE DEF CalmInv
<1>1. ASSUME UNCHANGED <<inFlight, wish, desiredRunState, desiredParamSet, pc, managedPid>>
      PROVE  CalmInv'
  BY <1>0, <1>1 DEF AtPoint, AsCommanded, Pending, WishRespected
<1>2. CASE Processes
  BY <1>1, <1>2 DEF Processes, Exec, Exit, StartedByHand, commandVars, desiredVars, managedVars
<1>3. ASSUME NEW c \in Commands, ChangeDesiredRunState(c) PROVE CalmInv'
  <2>1. pc = "sleep" /\ pc' = "sleep" /\ c # NoCommand
    BY <1>3, ConstantsAssumption DEF ChangeDesiredRunState, MayHandle, Commands, NoCommand
  <2>2. QED
    BY <1>0, <1>3, <2>1 DEF ChangeDesiredRunState, AtPoint, AsCommanded, Pending, WishRespected
<1>4. CASE ChangeDesiredParamSet
  <2>1. pc = "sleep" /\ pc' = "sleep" /\ inFlight \in Commands
    BY <1>0, <1>4 DEF ChangeDesiredParamSet, AsCommanded, Pending, TypeOK
  <2>2. inFlight.cmd \in {"START", "STOP"} /\ wish' = inFlight /\ wish' # NoCommand
    BY <1>4, <2>1 DEF ChangeDesiredParamSet, Commands
  <2>3. QED
    BY <1>0, <1>4, <2>1, <2>2 DEF ChangeDesiredParamSet, AtPoint, AsCommanded, Pending, WishRespected
<1>5. ASSUME NEW b \in LogCommands, ChangeDesiredLogPublishingState(b) PROVE CalmInv'
  BY <1>1, <1>5 DEF ChangeDesiredLogPublishingState, commandVars, managedVars
<1>6. CASE SearchProcFS
  <2>1. ~Pending
    BY <1>6 DEF SearchProcFS, Pending
  <2>2. QED
    BY <1>0, <1>6, <2>1 DEF SearchProcFS, AtPoint, AsCommanded, Pending, WishRespected, commandVars,
       desiredVars, managedVars
<1>7. CASE Update
  BY <1>0, <1>7, CalmUpdate
<1>8. CASE Report
  BY <1>0, <1>8 DEF Report, AtPoint, AsCommanded, Pending, WishRespected, commandVars, desiredVars,
     managedVars
<1>9. CASE RetryTimePasses
  BY <1>1, <1>9 DEF RetryTimePasses, commandVars, desiredVars, managedVars
<1>10. ASSUME NEW l \in Logs, Publisher(l) PROVE CalmInv'
  BY <1>1, <1>10 DEF Publisher, Attach, EndPublishing, commandVars, desiredVars, managedVars
<1>11. CASE UNCHANGED vars
  BY <1>1, <1>11 DEF vars, commandVars, desiredVars, managedVars
<1>12. QED
  BY <1>2, <1>3, <1>4, <1>5, <1>6, <1>7, <1>8, <1>9, <1>10, <1>11 DEF Next, RosThread, MainThread

THEOREM Calm == ASSUME ~Interleaved PROVE Spec => []CalmInv
<1>1. Init => CalmInv
  BY CalmInit
<1>2. CalmInv /\ [Next]_vars => CalmInv'
  BY CalmStep
<1>3. QED
  BY <1>1, <1>2, PTL DEF Spec

\* The assertion at the end of update cannot fail as long as no command is handled during it.
THEOREM AssertionHolds == ASSUME ~Interleaved PROVE Spec => []QueueDrained
<1>1. CalmInv => QueueDrained
  BY DEF CalmInv, AtPoint, QueueDrained
<1>2. QED
  BY <1>1, Calm, PTL

\* As long as no command is handled during an update, the manager never loses one.
THEOREM WishIsRespected == ASSUME ~Interleaved PROVE Spec => []WishRespected
<1>1. CalmInv => WishRespected
  BY DEF CalmInv, AsCommanded
<1>2. QED
  BY <1>1, Calm, PTL

-----------------------------------------------------------------------------
(***************************************************************************)
(* The refinement: every step of ManagedExecutable is a step or a stutter  *)
(* of Supervision, as long as no command is handled during an update.      *)
(***************************************************************************)

PromiseVars == <<os, args, wish, managedPid>>

LEMMA PromiseInit == Init => Promise!Init
BY DEF Init, Promise!Init, NoCommand

LEMMA SignalKeeps ==
  ASSUME NEW p \in Pids, NEW S \in SUBSET Pids, p \notin S, managedPid' = p,
         KillQueuedProcesses(S), UNCHANGED <<args, wish>>
  PROVE  Promise!Next
<1>1. Promise!Keep(p, S)
  BY DEF KillQueuedProcesses, Promise!Keep, Promise!Terminated
<1>2. QED
  BY <1>1 DEF Promise!Next

LEMMA SignalReleases ==
  ASSUME NEW S \in SUBSET Pids, S # {} => wish # NoCommand, managedPid' = NOTHING_MANAGED,
         KillQueuedProcesses(S), UNCHANGED <<args, wish>>
  PROVE  Promise!Next
<1>1. Promise!Release(S)
  BY DEF KillQueuedProcesses, Promise!Release, Promise!Terminated
<1>2. QED
  BY <1>1 DEF Promise!Next

LEMMA NoneManaged ==
  ASSUME TypeOK, managedPid' = NOTHING_MANAGED, UNCHANGED <<os, args, wish>>
  PROVE  Promise!Next
<1>1. Promise!Release({})
  BY DEF Promise!Release, Promise!Terminated, TypeOK
<1>2. QED
  BY <1>1 DEF Promise!Next

LEMMA PromiseStart ==
  ASSUME CalmInv, StartProcess
  PROVE  Promise!Next
<1>0. UNCHANGED wish
  BY DEF StartProcess, commandVars
<1>1. CASE \A p \in Pids : os[p] # "free"
  <2>1. managedPid' = NOTHING_MANAGED /\ UNCHANGED <<os, args>>
    BY <1>1 DEF StartProcess, osVars
  <2>2. QED
    BY <1>0, <2>1, NoneManaged DEF CalmInv
<1>2. ASSUME NEW p \in Pids, os[p] = "free",
             os' = [os EXCEPT ![p] = "hidden"], args' = [args EXCEPT ![p] = desiredParamSet],
             managedPid' = p
      PROVE  Promise!Next
  <2>1. pc = "fork" /\ ~Pending /\ desiredRunState = "SHOULD_RUN"
    BY DEF CalmInv, AtPoint, AsCommanded, StartProcess
  <2>2. wish \in Commands /\ wish # NoCommand
    BY <2>1 DEF CalmInv, AsCommanded, TypeOK
  <2>3. wish.cmd = "START" /\ wish.params = desiredParamSet
    BY <2>1, <2>2 DEF CalmInv, AsCommanded, Pending, WishRespected, Commands
  <2>4. Promise!Start(p)
    BY <1>0, <1>2, <2>3 DEF Promise!Start
  <2>5. QED
    BY <2>4 DEF Promise!Next
<1>3. QED
  BY <1>1, <1>2 DEF StartProcess

LEMMA PromiseUpdate ==
  ASSUME CalmInv, Update
  PROVE  Promise!Next \/ UNCHANGED PromiseVars
<1>0. TypeOK /\ AtPoint /\ AsCommanded /\ queuedPids \subseteq Pids
  BY DEF CalmInv, TypeOK
<1>1. CASE UpdateNothingRuns
  <2>1. UNCHANGED <<os, args, wish>>
        /\ (managedPid' = NOTHING_MANAGED \/ UNCHANGED managedPid)
    BY <1>1 DEF UpdateNothingRuns, Clear, osVars, commandVars, managedVars
  <2>2. QED
    BY <1>0, <2>1, NoneManaged DEF PromiseVars
<1>2. CASE StartProcess
  BY <1>2, PromiseStart
<1>3. CASE UpdateSomethingRuns \/ FindOwn \/ AdaptDesiredParamSet \/ JoinStdPublisher \/ TestShouldntRun
           \/ LookUpThrows \/ StopPublishing \/ CompareParams \/ KeepManuallyStarted \/ TestManualStarted
  BY <1>3 DEF UpdateSomethingRuns, FindOwn, AdaptDesiredParamSet, JoinStdPublisher, TestShouldntRun, LookUpThrows,
     StopPublishing, CompareParams, KeepManuallyStarted, TestManualStarted, osVars, commandVars, managedVars, PromiseVars
<1>4. CASE AdoptFirst \/ AdoptManuallyStarted
  <2>1. PICK p \in queuedPids : managedPid' = p /\ KillQueuedProcesses(queuedPids \ {p})
    BY <1>4 DEF AdoptFirst, AdoptManuallyStarted
  <2>2. UNCHANGED <<args, wish>>
    BY <1>4 DEF AdoptFirst, AdoptManuallyStarted, commandVars
  <2>3. QED
    BY <1>0, <2>1, <2>2, SignalKeeps
<1>5. CASE KeepOwn
  <2>1. UNCHANGED <<args, wish, managedPid>> /\ managedPid \in Pids
    BY <1>0, <1>5 DEF KeepOwn, commandVars, managedVars, AtPoint
  <2>2. CASE UNCHANGED os
    BY <2>1, <2>2 DEF PromiseVars
  <2>3. CASE KillQueuedProcesses(queuedPids \ {managedPid})
    BY <1>0, <2>1, <2>3, SignalKeeps
  <2>4. QED
    BY <1>5, <2>2, <2>3 DEF KeepOwn
<1>6. CASE JoinErrPublisher
  <2>1. UNCHANGED <<args, wish, managedPid>> /\ managedPid \in Pids
        /\ KillQueuedProcesses(queuedPids \ {managedPid})
    BY <1>0, <1>6 DEF JoinErrPublisher, JoinPublisher, commandVars, managedVars, AtPoint
  <2>2. QED
    BY <1>0, <2>1, SignalKeeps
<1>7. CASE KillOwn
  <2>1. UNCHANGED <<args, wish>> /\ managedPid' = NOTHING_MANAGED /\ KillQueuedProcesses(queuedPids)
    BY <1>7 DEF KillOwn, Clear, commandVars
  <2>2. pc = "manual" /\ desiredRunState # "MANUAL_STARTED"
    BY <1>7 DEF KillOwn
  <2>3. wish # NoCommand
    BY <1>0, <2>2 DEF AtPoint, AsCommanded, TypeOK, RunState
  <2>4. QED
    BY <1>0, <2>1, <2>3, SignalReleases
<1>8. CASE KillAll
  <2>1. UNCHANGED <<args, wish>> /\ managedPid' = NOTHING_MANAGED /\ KillQueuedProcesses(queuedPids)
    BY <1>8 DEF KillAll, Clear, commandVars
  <2>2. pc = "stop" /\ managedPid # NOTHING_MANAGED
    BY <1>8 DEF KillAll
  <2>3. wish # NoCommand
    BY <1>0, <2>2 DEF AtPoint, AsCommanded
  <2>4. QED
    BY <1>0, <2>1, <2>3, SignalReleases
<1>9. QED
  BY <1>1, <1>2, <1>3, <1>4, <1>5, <1>6, <1>7, <1>8 DEF Update

LEMMA PromiseProcesses == ASSUME TypeOK, Processes PROVE Promise!Next
<1>1. UNCHANGED <<wish, managedPid>>
  BY DEF Processes, Exec, Exit, StartedByHand, commandVars, managedVars
<1>2. ASSUME NEW p \in Pids, Exec(p) PROVE Promise!Next
  <2>1. Promise!ExecDone(p)
    BY <1>1, <1>2 DEF Exec, Promise!ExecDone
  <2>2. QED
    BY <2>1 DEF Promise!Next
<1>3. ASSUME NEW p \in Pids, Exit(p) PROVE Promise!Next
  <2>1. Promise!Vanish(p)
    BY <1>1, <1>3 DEF Exit, Promise!Vanish
  <2>2. QED
    BY <2>1 DEF Promise!Next
<1>4. ASSUME NEW p \in Pids, NEW a \in ManualParams, StartedByHand(p, a) PROVE Promise!Next
  <2>1. a \in Params \cup {Foreign}
    BY ConstantsAssumption
  <2>2. Promise!Appear(p)
    BY <1>1, <1>4, <2>1 DEF StartedByHand, Promise!Appear
  <2>3. QED
    BY <2>2 DEF Promise!Next
<1>5. QED
  BY <1>2, <1>3, <1>4 DEF Processes

LEMMA PromiseStep ==
  ASSUME CalmInv, [Next]_vars
  PROVE  Promise!Next \/ UNCHANGED PromiseVars
<1>1. CASE Processes
  BY <1>1, PromiseProcesses DEF CalmInv
<1>2. ASSUME NEW c \in Commands, ChangeDesiredRunState(c) PROVE UNCHANGED PromiseVars
  BY <1>2 DEF ChangeDesiredRunState, osVars, managedVars, PromiseVars
<1>3. CASE ChangeDesiredParamSet
  <2>1. wish' \in Commands /\ UNCHANGED <<os, args, managedPid>>
    BY <1>3 DEF ChangeDesiredParamSet, CalmInv, TypeOK, osVars, managedVars
  <2>2. Promise!Command
    BY <2>1 DEF Promise!Command
  <2>3. QED
    BY <2>2 DEF Promise!Next
<1>4. ASSUME NEW b \in LogCommands, ChangeDesiredLogPublishingState(b) PROVE UNCHANGED PromiseVars
  BY <1>4 DEF ChangeDesiredLogPublishingState, osVars, commandVars, managedVars, PromiseVars
<1>5. CASE SearchProcFS \/ Report \/ RetryTimePasses
  BY <1>5 DEF SearchProcFS, Report, RetryTimePasses, osVars, commandVars, managedVars, PromiseVars
<1>6. CASE Update
  BY <1>6, PromiseUpdate
<1>7. ASSUME NEW l \in Logs, Publisher(l) PROVE UNCHANGED PromiseVars
  BY <1>7 DEF Publisher, Attach, EndPublishing, osVars, commandVars, managedVars, PromiseVars
<1>8. CASE UNCHANGED vars
  BY <1>8 DEF vars, osVars, commandVars, managedVars, PromiseVars
<1>9. QED
  BY <1>1, <1>2, <1>3, <1>4, <1>5, <1>6, <1>7, <1>8 DEF Next, RosThread, MainThread

\* As long as no command is handled during an update, the executable keeps the promise of
\* Supervision: it starts only what the last command asks for and, before any command, ends
\* nothing but surplus processes.
THEOREM PromiseIsKept == ASSUME ~Interleaved PROVE Spec => KeepsPromise
<1>1. CalmInv /\ [Next]_vars => [Promise!Next]_(Promise!vars)
  BY PromiseStep DEF PromiseVars, Promise!vars
<1>2. QED
  BY <1>1, PromiseInit, Calm, PTL DEF Spec, KeepsPromise, Promise!Spec

-----------------------------------------------------------------------------
(***************************************************************************)
(* What is kept, and measured, is the manager's own process: when nobody   *)
(* else starts or ends processes, and exec and exit take less than an      *)
(* iteration, each iteration finds the process it manages in its queue.    *)
(* With crashes, slow processes or users this is false, as the runs show.  *)
(***************************************************************************)

Surveyed == {"update", "either", "keep", "judge", "adaptAndJudge", "compare", "manual", "keepOwn",
             "test", "stop"}
OwnFound == {"judge", "adaptAndJudge", "compare", "manual", "keepOwn"}

\* The managed process lives, has registered parameters, and they are what was read of it; the
\* CPU times are its own.
OwnProcess ==
  /\ \A p \in Pids : os[p] # "free" => args[p] \in Params
  /\ managedPid # NOTHING_MANAGED => os[managedPid] \in {"hidden", "up"}
  /\ managedPid # NOTHING_MANAGED /\ ~need2ReadParams => runningParamSet = args[managedPid]
  /\ managedPid = NOTHING_MANAGED => need2ReadParams
  /\ sample \in {NOTHING_MANAGED, managedPid}

\* The queue is what runs, until update has decided whom to kill.
OwnQueue ==
  /\ pc \in Surveyed => /\ queuedPids = {p \in Pids : os[p] = "up"}
                        /\ \A p \in Pids : os[p] # "hidden"
  /\ pc = "fork" => managedPid = NOTHING_MANAGED
  /\ pc \in OwnFound => managedPid # NOTHING_MANAGED /\ ~need2ReadParams

OwnInv == ForkInv /\ OwnProcess /\ OwnQueue

Undisturbed == ~Crashes /\ ManualParams = {}

LEMMA OwnInit == Init => OwnInv
BY ConstantsAssumption, TypeInit DEF Init, OwnInv, ForkInv, OwnProcess, OwnQueue, Surveyed, OwnFound

LEMMA OwnProcesses ==
  ASSUME OwnInv, Undisturbed, Processes
  PROVE  OwnProcess' /\ OwnQueue'
<1>0. TypeOK /\ OwnProcess /\ OwnQueue
  BY DEF OwnInv, ForkInv
<1> USE DEF OwnProcess, OwnQueue, TypeOK, commandVars, desiredVars, managedVars, publishVars
<1>1. ASSUME NEW p \in Pids, Exec(p) PROVE OwnProcess' /\ OwnQueue'
  BY <1>0, <1>1 DEF Exec
<1>2. ASSUME NEW p \in Pids, Exit(p) PROVE OwnProcess' /\ OwnQueue'
  <2>1. os[p] = "dying" /\ p # managedPid
    <3>1. os[p] = "dying"
      BY <1>2, Zenon DEF Exit, Undisturbed
    <3>2. QED
      BY <1>0, <3>1, ConstantsAssumption
  <2>2. QED
    BY <1>0, <1>2, <2>1 DEF Exit
<1>3. ASSUME NEW p \in Pids, NEW a \in ManualParams PROVE FALSE
  BY <1>3 DEF Undisturbed
<1>4. QED
  BY <1>1, <1>2, <1>3 DEF Processes

\* What a kill that spares the managed process, or clears it, leaves of OwnProcess.
LEMMA OwnSurvives ==
  ASSUME OwnInv, NEW S \in SUBSET Pids, KillQueuedProcesses(S),
         managedPid' \notin S, UNCHANGED <<args, managedVars>>
  PROVE  OwnProcess'
<1>0. TypeOK /\ OwnProcess
  BY DEF OwnInv, ForkInv
<1>1. QED
  BY <1>0 DEF OwnProcess, TypeOK, KillQueuedProcesses, managedVars

LEMMA OwnCleared ==
  ASSUME OwnInv, Clear, UNCHANGED args, \A p \in Pids : os'[p] # "free" => os[p] # "free"
  PROVE  OwnProcess'
BY DEF OwnInv, OwnProcess, Clear

\* A process of the queue is adopted: it runs, so it and its parameters are read.
LEMMA OwnAdopted ==
  ASSUME OwnInv, NEW p \in queuedPids, os[p] = "up", managedPid = NOTHING_MANAGED, managedPid' = p,
         KillQueuedProcesses(queuedPids \ {p}), UpdateStats(p, "report", "adaptAndReport"),
         UNCHANGED args
  PROVE  OwnProcess' /\ OwnQueue'
<1>0. TypeOK /\ OwnProcess
  BY DEF OwnInv, ForkInv
<1>1. p \in Pids /\ Running(p) /\ args[p] \in Params /\ need2ReadParams
  BY <1>0 DEF Running, OwnProcess, TypeOK
<1>2. sample' = p /\ need2ReadParams' = FALSE /\ runningParamSet' = args[p]
  BY <1>1 DEF UpdateStats, ParamSetsRead
<1>3. pc' \in {"report", "adaptAndReport"}
  BY <1>0, <1>1, AdoptedParams
<1>4. os'[p] = "up" /\ \A q \in Pids : os'[q] # "free" => os[q] # "free"
  BY <1>0, <1>1 DEF KillQueuedProcesses, TypeOK
<1>5. OwnProcess'
  BY <1>0, <1>1, <1>2, <1>4, ConstantsAssumption DEF OwnProcess
<1>6. QED
  BY <1>3, <1>5 DEF OwnQueue, Surveyed, OwnFound

LEMMA OwnUpdate ==
  ASSUME OwnInv, Update
  PROVE  OwnProcess' /\ OwnQueue'
<1>0. TypeOK /\ OwnProcess /\ OwnQueue /\ NOTHING_MANAGED \notin Pids
  BY ConstantsAssumption DEF OwnInv, ForkInv
<1> USE DEF Surveyed, OwnFound
<1>1. ASSUME UNCHANGED <<os, args, managedVars>> PROVE OwnProcess'
  BY <1>0, <1>1 DEF OwnProcess, managedVars
<1>2. CASE UpdateNothingRuns
  <2>1. managedPid = NOTHING_MANAGED
    BY <1>0, <1>2 DEF UpdateNothingRuns, OwnQueue, OwnProcess, TypeOK
  <2>2. UNCHANGED <<os, args>> /\ (Clear \/ UNCHANGED managedVars)
    BY <1>2 DEF UpdateNothingRuns, osVars
  <2>3. OwnProcess'
    BY <1>1, <2>2, OwnCleared
  <2>4. managedPid' = NOTHING_MANAGED /\ pc' \in {"fork", "report"}
    BY <1>2, <2>1, <2>2 DEF Clear, managedVars, UpdateNothingRuns
  <2>5. QED
    BY <2>3, <2>4 DEF OwnQueue
<1>3. CASE StartProcess
  <2>0. managedPid = NOTHING_MANAGED /\ desiredParamSet \in Params
    BY <1>0, <1>3 DEF StartProcess, OwnQueue
  <2>1. pc' \in {"joinStd", "report"}
    BY <1>3 DEF StartProcess
  <2>2. OwnQueue'
    BY <2>1 DEF OwnQueue
  <2>3. need2ReadParams /\ need2ReadParams' = need2ReadParams /\ sample = NOTHING_MANAGED
        /\ sample' = NOTHING_MANAGED
    BY <1>0, <1>3, <2>0 DEF StartProcess, OwnProcess
  <2>4. CASE \A p \in Pids : os[p] # "free"
    <3>1. UNCHANGED <<os, args>> /\ managedPid' = NOTHING_MANAGED
      BY <1>3, <2>4 DEF StartProcess, osVars
    <3>2. QED
      BY <1>0, <2>2, <2>3, <3>1 DEF OwnProcess
  <2>5. CASE ~(\A p \in Pids : os[p] # "free")
    <3>1. PICK p \in Pids : /\ os[p] = "free" /\ managedPid' = p
                            /\ os' = [os EXCEPT ![p] = "hidden"]
                            /\ args' = [args EXCEPT ![p] = desiredParamSet]
      BY <1>3, <2>5 DEF StartProcess
    <3>2. \A q \in Pids : os'[q] # "free" => args'[q] \in Params
      BY <1>0, <2>0, <3>1 DEF OwnProcess, TypeOK
    <3>3. os'[p] = "hidden"
      BY <1>0, <3>1 DEF TypeOK
    <3>4. QED
      BY <1>0, <2>2, <2>3, <3>1, <3>2, <3>3 DEF OwnProcess
  <2>6. QED
    BY <2>4, <2>5
<1>4. CASE UpdateSomethingRuns \/ TestManualStarted \/ CompareParams \/ KeepManuallyStarted
           \/ StopPublishing \/ TestShouldntRun \/ JoinStdPublisher \/ LookUpThrows
  <2>1. UNCHANGED <<os, args, managedVars, queuedPids>>
    BY <1>4 DEF UpdateSomethingRuns, TestManualStarted, CompareParams, KeepManuallyStarted,
       StopPublishing, TestShouldntRun, JoinStdPublisher, LookUpThrows, osVars
  <2>2. /\ pc' \in {"keep", "either", "test", "stop", "compare", "keepOwn", "manual", "aborted", "joinErr", "thrown"}
        /\ pc' \in Surveyed => pc \in Surveyed
        /\ pc' \in OwnFound => pc \in OwnFound
    BY <1>4 DEF UpdateSomethingRuns, TestManualStarted, CompareParams, KeepManuallyStarted,
       StopPublishing, TestShouldntRun, JoinStdPublisher, JoinPublisher, LookUpThrows
  <2>3. OwnQueue'
    BY <1>0, <2>1, <2>2 DEF OwnQueue, managedVars
  <2>4. QED
    BY <1>1, <2>1, <2>3
<1>5. CASE AdaptDesiredParamSet
  <2>1. UNCHANGED <<os, args, managedVars, queuedPids>>
    BY <1>5 DEF AdaptDesiredParamSet, osVars
  <2>2. (pc = "adaptAndJudge" /\ pc' = "judge") \/ pc' = "report"
    BY <1>5 DEF AdaptDesiredParamSet
  <2>3. OwnQueue'
    BY <1>0, <2>1, <2>2 DEF OwnQueue, managedVars
  <2>4. QED
    BY <1>1, <2>1, <2>3
<1>6. CASE FindOwn
  <2>0. managedPid \in Pids /\ os[managedPid] = "up" /\ args[managedPid] \in Params
    BY <1>0, <1>6 DEF FindOwn, OwnQueue, OwnProcess
  <2>1. Running(managedPid) /\ managedPid # NOTHING_MANAGED
    BY <1>0, <2>0 DEF Running
  <2>2. UNCHANGED <<os, args, queuedPids, managedPid>> /\ pc = "keep"
    BY <1>6 DEF FindOwn, osVars
  <2>3. UpdateStats(managedPid, "judge", "adaptAndJudge")
    BY <1>6 DEF FindOwn
  <2>4. sample' = managedPid /\ need2ReadParams' = FALSE /\ runningParamSet' = args[managedPid]
    BY <1>0, <2>0, <2>1, <2>3 DEF UpdateStats, ParamSetsRead, OwnProcess
  <2>5. pc' \in {"judge", "adaptAndJudge"}
    BY <1>0, <2>0, <2>3, UpdateStatsTyped
  <2>6. OwnProcess'
    BY <1>0, <2>1, <2>2, <2>4 DEF OwnProcess
  <2>7. QED
    BY <1>0, <2>1, <2>2, <2>4, <2>5, <2>6 DEF OwnQueue
<1>7. CASE AdoptFirst
  <2>1. managedPid = NOTHING_MANAGED
    BY <1>0, <1>7 DEF AdoptFirst, OwnQueue, OwnProcess, TypeOK
  <2>2. PICK p \in queuedPids : /\ managedPid' = p
                                /\ KillQueuedProcesses(queuedPids \ {p})
                                /\ UpdateStats(p, "report", "adaptAndReport")
    BY <1>7 DEF AdoptFirst
  <2>3. os[p] = "up" /\ UNCHANGED args
    BY <1>0, <1>7 DEF AdoptFirst, OwnQueue
  <2>4. QED
    BY <2>1, <2>2, <2>3, OwnAdopted
<1>8. CASE AdoptManuallyStarted
  <2>1. managedPid = NOTHING_MANAGED
    BY <1>8 DEF AdoptManuallyStarted
  <2>2. PICK p \in queuedPids : /\ managedPid' = p
                                /\ KillQueuedProcesses(queuedPids \ {p})
                                /\ UpdateStats(p, "report", "adaptAndReport")
    BY <1>8 DEF AdoptManuallyStarted
  <2>3. os[p] = "up" /\ UNCHANGED args
    BY <1>0, <1>8 DEF AdoptManuallyStarted, OwnQueue
  <2>4. QED
    BY <2>1, <2>2, <2>3, OwnAdopted
<1>9. CASE KeepOwn \/ JoinErrPublisher
  <2>1. UNCHANGED <<args, managedVars>> /\ pc' \in {"joinStd", "report"}
    BY <1>9 DEF KeepOwn, JoinErrPublisher, JoinPublisher
  <2>2. UNCHANGED os \/ KillQueuedProcesses(queuedPids \ {managedPid})
    BY <1>9 DEF KeepOwn, JoinErrPublisher
  <2>3. managedPid' = managedPid /\ queuedPids \ {managedPid} \in SUBSET Pids
    BY <1>0, <2>1 DEF managedVars, TypeOK
  <2>4. OwnProcess'
    BY <1>1, <2>1, <2>2, <2>3, OwnSurvives
  <2>5. QED
    BY <2>1, <2>4 DEF OwnQueue
<1>10. CASE KillOwn \/ KillAll
  <2>1. Clear /\ UNCHANGED args /\ pc' = "report" /\ KillQueuedProcesses(queuedPids)
    BY <1>10 DEF KillOwn, KillAll
  <2>2. \A p \in Pids : os'[p] # "free" => os[p] # "free"
    BY <1>0, <2>1 DEF KillQueuedProcesses, TypeOK
  <2>3. QED
    BY <2>1, <2>2, OwnCleared DEF OwnQueue
<1>11. QED
  BY <1>2, <1>3, <1>4, <1>5, <1>6, <1>7, <1>8, <1>9, <1>10 DEF Update

LEMMA OwnStep ==
  ASSUME Undisturbed, Prompt, OwnInv, ForkInv', [Next]_vars
  PROVE  OwnInv'
<1>0. TypeOK /\ OwnProcess /\ OwnQueue
  BY DEF OwnInv, ForkInv
<1>1. ASSUME UNCHANGED <<os, args, managedVars, queuedPids>>, pc' = pc \/ pc' = "sleep" PROVE OwnInv'
  BY <1>0, <1>1 DEF OwnInv, OwnProcess, OwnQueue, managedVars, Surveyed, OwnFound
<1>2. CASE Processes
  BY <1>2, OwnProcesses DEF OwnInv
<1>3. CASE RosThread
  BY <1>1, <1>3 DEF RosThread, ChangeDesiredRunState, ChangeDesiredParamSet,
     ChangeDesiredLogPublishingState, osVars
<1>4. CASE SearchProcFS
  <2>1. /\ \A p \in Pids : os[p] # "hidden" /\ os[p] # "dying"
        /\ queuedPids' = {p \in Pids : Running(p)} /\ pc' = "update"
        /\ UNCHANGED <<os, args, managedVars>>
    BY <1>4 DEF SearchProcFS, osVars
  <2>2. {p \in Pids : Running(p)} = {p \in Pids : os[p] = "up"}
    BY <2>1 DEF Running
  <2>3. QED
    BY <1>0, <2>1, <2>2 DEF OwnInv, OwnProcess, OwnQueue, managedVars, OwnFound
<1>5. CASE Update
  BY <1>5, OwnUpdate DEF OwnInv
<1>6. CASE Report
  BY <1>1, <1>6 DEF Report, osVars
<1>7. CASE RetryTimePasses
  BY <1>1, <1>7 DEF RetryTimePasses, osVars
<1>8. ASSUME NEW l \in Logs, Publisher(l) PROVE OwnInv'
  BY <1>1, <1>8 DEF Publisher, Attach, EndPublishing, osVars
<1>9. CASE UNCHANGED vars
  BY <1>1, <1>9 DEF vars, osVars
<1>10. QED
  BY <1>2, <1>3, <1>4, <1>5, <1>6, <1>7, <1>8, <1>9 DEF Next, MainThread

\* Where nobody else starts or ends processes, every iteration finds the managed process running.
THEOREM OwnInvariant ==
  ASSUME Undisturbed, Prompt
  PROVE  Spec => []OwnInv
BY OwnInit, OwnStep, ForkInvariant, PTL DEF Spec

\* The CPU load is computed from two samples of the same process (updateStats keeps the times of
\* the last one, and startProcess does not reset them).
THEOREM TimesAreOfOneProcess ==
  ASSUME Undisturbed, Prompt
  PROVE  Spec => CpuOfOneProcess
<1>1. OwnInv /\ [Next]_vars
        => [pc = "keep" /\ managedPid \in queuedPids /\ sample # NOTHING_MANAGED
              => sample = managedPid]_vars
  BY DEF OwnInv, OwnProcess
<1>2. QED
  BY <1>1, OwnInvariant, PTL DEF Spec, CpuOfOneProcess

\* The comparisons of lines 127 and 128 still hold when line 132 acts on them.
Compared == pc = "keepOwn" => desiredRunState = "MANUAL_STARTED" \/ desiredParamSet = runningParamSet

LEMMA ComparedStep ==
  ASSUME ~Interleaved, CalmInv, Compared, [Next]_vars
  PROVE  Compared'
<1>1. ASSUME UNCHANGED <<pc, desiredRunState, desiredParamSet, runningParamSet>> PROVE Compared'
  BY <1>1 DEF Compared
<1>2. ASSUME pc' # "keepOwn" PROVE Compared'
  BY <1>2 DEF Compared
<1>3. CASE Processes
  BY <1>1, <1>3 DEF Processes, Exec, Exit, StartedByHand, desiredVars, managedVars
<1>4. CASE RosThread
  <2>1. pc = "sleep" /\ pc' = pc
    BY <1>4 DEF RosThread, ChangeDesiredRunState, ChangeDesiredParamSet,
       ChangeDesiredLogPublishingState, MayHandle, CalmInv, AsCommanded, Pending
  <2>2. QED
    BY <1>2, <2>1
<1>5. CASE SearchProcFS \/ Report
  BY <1>2, <1>5 DEF SearchProcFS, Report
<1>6. CASE CompareParams \/ KeepManuallyStarted
  BY <1>6 DEF CompareParams, KeepManuallyStarted, Compared, desiredVars, managedVars
<1>7. CASE FindOwn \/ AdoptFirst \/ AdoptManuallyStarted
  <2>1. pc' \in {"judge", "adaptAndJudge", "report", "adaptAndReport"}
    BY <1>7 DEF FindOwn, AdoptFirst, AdoptManuallyStarted, UpdateStats
  <2>2. QED
    BY <1>2, <2>1
<1>8. CASE Update /\ ~(CompareParams \/ KeepManuallyStarted \/ FindOwn \/ AdoptFirst \/ AdoptManuallyStarted)
  BY <1>2, <1>8 DEF Update, UpdateNothingRuns, StartProcess, UpdateSomethingRuns, TestManualStarted,
     LookUpThrows, AdaptDesiredParamSet, StopPublishing, KeepOwn, KillOwn, JoinStdPublisher, JoinErrPublisher,
     JoinPublisher, TestShouldntRun, KillAll
<1>9. CASE RetryTimePasses \/ (\E l \in Logs : Publisher(l)) \/ UNCHANGED vars
  BY <1>1, <1>9 DEF RetryTimePasses, Publisher, Attach, EndPublishing, vars, desiredVars, managedVars
<1>10. QED
  BY <1>3, <1>4, <1>5, <1>6, <1>7, <1>8, <1>9 DEF Next, MainThread

\* "our process is running with the right parameters": when update keeps its own process on
\* behalf of START, what it compared are the parameters that process was started with.
THEOREM RightParamsAreKept ==
  ASSUME Undisturbed, Prompt, ~Interleaved
  PROVE  Spec => KeepsRightParams
<1>1. Init => Compared
  BY DEF Init, Compared
<1>2. CalmInv /\ Compared /\ [Next]_vars => Compared'
  BY ComparedStep
<1>3. OwnInv /\ Compared /\ [Next]_vars
        => [pc = "keepOwn" /\ pc' # "keepOwn" /\ desiredRunState = "SHOULD_RUN"
              /\ Running(managedPid) => args[managedPid] = desiredParamSet]_vars
  BY DEF OwnInv, OwnProcess, OwnQueue, OwnFound, Compared
<1>4. QED
  BY <1>1, <1>2, <1>3, OwnInvariant, Calm, PTL DEF Spec, KeepsRightParams

=============================================================================
