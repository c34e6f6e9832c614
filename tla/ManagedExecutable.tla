------------------------- MODULE ManagedExecutable -------------------------
(***************************************************************************)
(* One executable under the care of a process manager: the class           *)
(* ManagedExecutable of process_manager, driven by mainThread              *)
(* (ProcessManager::run), by the ROS thread that handles ProcessCommand    *)
(* messages, and by the two log publishing threads; the operating system's *)
(* processes are the environment.                                          *)
(*                                                                         *)
(* update() runs without a lock against the command handler, so a read of  *)
(* a field the handler writes is a step of its own. (The package is built  *)
(* without optimisation unless told otherwise, so every read in the source *)
(* is one.) Lines 67 and 74 read two fields in one step: the handler       *)
(* writes them in the same order, and startProcess reads the second again. *)
(***************************************************************************)
EXTENDS FiniteSets

CONSTANTS
  Pids,             \* process ids the operating system hands out
  Params,           \* ids in ExecutableMetaData::parameterMap
  NOTHING_MANAGED,  \* managedPid when nothing is managed
  UNKNOWN_PARAMS,   \* parameter set id "unknown"
  Foreign,          \* a command line that matches no parameter set
  BareParams,       \* the parameter sets that consist of the executable's name only
  ManualParams,     \* the command lines users start by hand
  CommandParams,    \* the parameter sets commands name, in parameterMap or not
  LogCommands,      \* the values log publishing commands may carry
  Crashes,          \* may processes exit on their own?
  Prompt,           \* are exec, exit on SIGTERM and the end of a publisher over in one iteration?
  Interleaved       \* may a command be handled during an iteration of mainThread?

ASSUME ConstantsAssumption ==
  /\ NOTHING_MANAGED \notin Pids
  /\ UNKNOWN_PARAMS \notin Params
  /\ Foreign \notin Params /\ Foreign # UNKNOWN_PARAMS
  /\ BareParams \subseteq Params
  /\ ManualParams \subseteq Params \cup {Foreign}
  /\ UNKNOWN_PARAMS \notin CommandParams     \* -1: displays send the ids of Processes.conf
  /\ LogCommands \subseteq BOOLEAN
  /\ Crashes \in BOOLEAN /\ Prompt \in BOOLEAN /\ Interleaved \in BOOLEAN

VARIABLES
  os,               \* what each pid is: free, hidden (forked, no exec yet), up, dying (got SIGTERM)
  args,             \* the parameter set of each process' command line
  inFlight,         \* the command the ROS thread is half way through, if any
  wish,             \* history: the last START or STOP that was handled completely
  desiredRunState, desiredParamSet, shouldPublish,     \* written by the ROS thread
  pc,               \* where mainThread is
  queuedPids,       \* queuedPids4Update
  managedPid, runningParamSet, need2ReadParams,
  sample,           \* the process whose CPU times currentUTime and currentSTime hold
  recent,           \* lastTimeTried is less than 1000 ms ago
  publishing,
  publisher         \* the std and err log publishing threads

osVars       == <<os, args>>
commandVars  == <<inFlight, wish>>
desiredVars  == <<desiredRunState, desiredParamSet, shouldPublish>>
managedVars  == <<managedPid, runningParamSet, need2ReadParams, sample>>
publishVars  == <<publishing, publisher>>
vars == <<osVars, commandVars, desiredVars, pc, queuedPids, managedVars, recent, publishVars>>

ParamSets == Params \cup {UNKNOWN_PARAMS}
Logs      == {"std", "err"}
RunState  == {"SHOULD_RUN", "SHOULDNT_RUN", "MANUAL_STARTED"}
Commands  == [cmd : {"START", "STOP"}, params : CommandParams]
NoCommand == [cmd |-> "none", params |-> UNKNOWN_PARAMS]
Labels    == {"sleep", "update", "fork", "either", "keep", "judge", "compare", "manual", "keepOwn",
              "joinStd", "joinErr", "test", "stop", "adaptAndJudge", "adaptAndReport", "report",
              "aborted", "thrown"}
Ended     == {"aborted", "thrown"}            \* mainThread is over, and with it the process

TypeOK ==
  /\ os \in [Pids -> {"free", "hidden", "up", "dying"}]
  /\ args \in [Pids -> ParamSets \cup {Foreign}]
  /\ inFlight \in Commands \cup {NoCommand}
  /\ wish \in Commands \cup {NoCommand}
  /\ desiredRunState \in RunState
  /\ desiredParamSet \in ParamSets \cup CommandParams
  /\ shouldPublish \in BOOLEAN
  /\ pc \in Labels
  /\ queuedPids \subseteq Pids
  /\ managedPid \in Pids \cup {NOTHING_MANAGED}
  /\ runningParamSet \in ParamSets
  /\ need2ReadParams \in BOOLEAN
  /\ sample \in Pids \cup {NOTHING_MANAGED}
  /\ recent \in BOOLEAN
  /\ publishing \in BOOLEAN
  /\ publisher \in [Logs -> {"none", "attach", "loop", "ended"}]

Init ==
  /\ os = [p \in Pids |-> "free"]
  /\ args = [p \in Pids |-> UNKNOWN_PARAMS]
  /\ inFlight = NoCommand
  /\ wish = NoCommand
  /\ desiredRunState = "SHOULDNT_RUN"
  /\ desiredParamSet = UNKNOWN_PARAMS
  /\ shouldPublish = FALSE
  /\ pc = "sleep"
  /\ queuedPids = {}
  /\ managedPid = NOTHING_MANAGED
  /\ runningParamSet = UNKNOWN_PARAMS
  /\ need2ReadParams = TRUE
  /\ sample = NOTHING_MANAGED
  /\ recent = FALSE
  /\ publishing = FALSE
  /\ publisher = [l \in Logs |-> "none"]

-----------------------------------------------------------------------------
(* Processes of the operating system. *)

Running(p) == os[p] \in {"up", "dying"}      \* has a command line in /proc that matches

Exec(p) ==
  /\ os[p] = "hidden"
  /\ os' = [os EXCEPT ![p] = "up"]
  /\ UNCHANGED <<args, commandVars, desiredVars, pc, queuedPids, managedVars, recent, publishVars>>

\* A process ends: after SIGTERM, on its own, or because execvp failed and it aborts.
Exit(p) ==
  /\ \/ os[p] = "dying"
     \/ Crashes /\ os[p] \in {"hidden", "up"}
  /\ os' = [os EXCEPT ![p] = "free"]
  /\ args' = [args EXCEPT ![p] = UNKNOWN_PARAMS]
  /\ UNCHANGED <<commandVars, desiredVars, pc, queuedPids, managedVars, recent, publishVars>>

StartedByHand(p, a) ==
  /\ os[p] = "free"
  /\ os' = [os EXCEPT ![p] = "up"]
  /\ args' = [args EXCEPT ![p] = a]
  /\ UNCHANGED <<commandVars, desiredVars, pc, queuedPids, managedVars, recent, publishVars>>

-----------------------------------------------------------------------------
(* The ROS thread: changeDesiredState writes desiredRunState first and     *)
(* desiredParamSet last; START and STOP both carry a parameter set.        *)

MayHandle == IF Interleaved THEN pc \notin Ended ELSE pc = "sleep"

ChangeDesiredRunState(c) ==
  /\ MayHandle
  /\ inFlight = NoCommand
  /\ inFlight' = c
  /\ desiredRunState' = IF c.cmd = "START" THEN "SHOULD_RUN" ELSE "SHOULDNT_RUN"
  /\ UNCHANGED <<osVars, wish, desiredParamSet, shouldPublish, pc, queuedPids, managedVars,
                 recent, publishVars>>

ChangeDesiredParamSet ==
  /\ inFlight # NoCommand
  /\ pc \notin Ended
  /\ desiredParamSet' = inFlight.params
  /\ wish' = inFlight
  /\ inFlight' = NoCommand
  /\ UNCHANGED <<osVars, desiredRunState, shouldPublish, pc, queuedPids, managedVars,
                 recent, publishVars>>

ChangeDesiredLogPublishingState(b) ==
  /\ MayHandle
  /\ inFlight = NoCommand
  /\ shouldPublish' = b
  /\ UNCHANGED <<osVars, commandVars, desiredRunState, desiredParamSet, pc, queuedPids,
                 managedVars, recent, publishVars>>

-----------------------------------------------------------------------------
(* mainThread. *)

\* searchProcFS: every process whose command line belongs to this executable is queued.
SearchProcFS ==
  /\ pc = "sleep"
  /\ ~Interleaved => inFlight = NoCommand
  /\ Prompt => /\ \A p \in Pids : os[p] \notin {"hidden", "dying"}
               /\ \A l \in Logs : publisher[l] = "attach" \/ publisher[l] = "loop" => publishing
  /\ queuedPids' = {p \in Pids : Running(p)}
  /\ pc' = "update"
  /\ UNCHANGED <<osVars, commandVars, desiredVars, managedVars, recent, publishVars>>

\* killQueuedProcesses: SIGTERM to the given pids, which leave the queue.
KillQueuedProcesses(S) ==
  /\ os' = [p \in Pids |-> IF p \in S /\ os[p] = "up" THEN "dying" ELSE os[p]]
  /\ queuedPids' = {}

Clear_KeepsParams ==                          \* mutant: what was read of the old process stays
  /\ managedPid' = NOTHING_MANAGED
  /\ UNCHANGED <<runningParamSet, need2ReadParams>>
  /\ sample' = NOTHING_MANAGED

Clear_KeepsTimes ==                           \* mutant: the CPU times of the old process stay
  /\ managedPid' = NOTHING_MANAGED
  /\ runningParamSet' = UNKNOWN_PARAMS
  /\ need2ReadParams' = TRUE
  /\ UNCHANGED sample

Clear ==
  /\ managedPid' = NOTHING_MANAGED
  /\ runningParamSet' = UNKNOWN_PARAMS
  /\ need2ReadParams' = TRUE
  /\ sample' = NOTHING_MANAGED

ParamSetsRead_Unmatched(p) == {args[p]}       \* mutant: adopts what runs, registered or not

\* What runningParamSet may hold after the command line of p was compared with the
\* parameter map. No match leaves it alone; the empty command line of a process that is
\* gone is either too short, matches nothing or matches the bare executable name.
ParamSetsRead(p) ==
  IF Running(p)
  THEN {IF args[p] \in Params THEN args[p] ELSE runningParamSet}
  ELSE BareParams \cup {runningParamSet, UNKNOWN_PARAMS}

UpdateStats_Overwrites(p, next, nextAdapt) == \* mutant: line 431 is missing
  /\ sample' = IF Running(p) THEN p ELSE sample
  /\ need2ReadParams' = FALSE
  /\ IF need2ReadParams
     THEN \E a \in ParamSetsRead(p) :
            /\ runningParamSet' = a
            /\ pc' = IF a # UNKNOWN_PARAMS THEN nextAdapt ELSE next
     ELSE /\ UNCHANGED runningParamSet
          /\ pc' = next

\* updateStats(p), with readProcParams: desiredParamSet is compared here and, when it was
\* unknown, written in a later step.
UpdateStats(p, next, nextAdapt) ==
  /\ sample' = IF Running(p) THEN p ELSE sample
  /\ need2ReadParams' = FALSE
  /\ IF need2ReadParams
     THEN \E a \in ParamSetsRead(p) :
            /\ runningParamSet' = a
            /\ pc' = IF a # UNKNOWN_PARAMS /\ desiredParamSet = UNKNOWN_PARAMS
                     THEN nextAdapt ELSE next
     ELSE /\ UNCHANGED runningParamSet
          /\ pc' = next

UpdateNothingRuns_AnyParams ==                \* mutant: line 74 is missing
  /\ pc = "update"
  /\ queuedPids = {}
  /\ IF desiredRunState = "SHOULD_RUN"
     THEN /\ pc' = IF ~recent THEN "fork" ELSE "report"
          /\ UNCHANGED managedVars
     ELSE /\ pc' = "report"
          /\ Clear
  /\ UNCHANGED <<osVars, commandVars, desiredVars, queuedPids, recent, publishVars>>

UpdateNothingRuns_Once ==                     \* mutant: what was started once is not restarted
  /\ pc = "update"
  /\ queuedPids = {}
  /\ IF desiredRunState = "SHOULD_RUN"
     THEN /\ pc' = IF ~recent /\ desiredParamSet # UNKNOWN_PARAMS
                      /\ managedPid = NOTHING_MANAGED THEN "fork" ELSE "report"
          /\ UNCHANGED managedVars
     ELSE /\ pc' = "report"
          /\ Clear
  /\ UNCHANGED <<osVars, commandVars, desiredVars, queuedPids, recent, publishVars>>

UpdateNothingRuns_RestartsManual ==           \* mutant: restarts what a user started and ended
  /\ pc = "update"
  /\ queuedPids = {}
  /\ IF desiredRunState # "SHOULDNT_RUN"
     THEN /\ pc' = IF ~recent /\ desiredParamSet # UNKNOWN_PARAMS THEN "fork" ELSE "report"
          /\ UNCHANGED managedVars
     ELSE /\ pc' = "report"
          /\ Clear
  /\ UNCHANGED <<osVars, commandVars, desiredVars, queuedPids, recent, publishVars>>

\* update, lines 65 to 94: nothing runs.
UpdateNothingRuns ==
  /\ pc = "update"
  /\ queuedPids = {}
  /\ IF desiredRunState = "SHOULD_RUN"
     THEN /\ pc' = IF ~recent /\ desiredParamSet # UNKNOWN_PARAMS THEN "fork" ELSE "report"
          /\ UNCHANGED managedVars
     ELSE /\ pc' = "report"
          /\ Clear
  /\ UNCHANGED <<osVars, commandVars, desiredVars, queuedPids, recent, publishVars>>

\* startProcess: parameterMap.at throws for a parameter set that is not registered.
LookUpThrows ==
  /\ pc = "fork"
  /\ desiredParamSet \notin Params
  /\ pc' = "thrown"
  /\ UNCHANGED <<osVars, commandVars, desiredVars, queuedPids, managedVars, recent, publishVars>>

\* Otherwise it forks, which fails when there is no process left to hand out.
StartProcess ==
  /\ pc = "fork"
  /\ desiredParamSet \in Params
  /\ \/ \E p \in Pids :
          /\ os[p] = "free"
          /\ os' = [os EXCEPT ![p] = "hidden"]
          /\ args' = [args EXCEPT ![p] = desiredParamSet]
          /\ managedPid' = p
          /\ recent' = TRUE
          /\ IF shouldPublish
             THEN publishing' = TRUE /\ pc' = "joinStd"
             ELSE UNCHANGED publishing /\ pc' = "report"
     \/ /\ \A p \in Pids : os[p] # "free"
        /\ managedPid' = NOTHING_MANAGED
        /\ pc' = "report"
        /\ UNCHANGED <<osVars, recent, publishing>>
  /\ UNCHANGED <<commandVars, desiredVars, queuedPids, runningParamSet, need2ReadParams, sample,
                 publisher>>

\* lines 95 to 106: something runs, and desiredRunState is read for the first time.
UpdateSomethingRuns ==
  /\ pc = "update"
  /\ queuedPids # {}
  /\ pc' = IF desiredRunState = "SHOULD_RUN" THEN "keep" ELSE "either"
  /\ UNCHANGED <<osVars, commandVars, desiredVars, queuedPids, managedVars, recent, publishVars>>

TestManualStarted_Never ==                    \* mutant: MANUAL_STARTED is forgotten in line 106
  /\ pc = "either"
  /\ pc' = "test"
  /\ UNCHANGED <<osVars, commandVars, desiredVars, queuedPids, managedVars, recent, publishVars>>

\* ... and for the second time.
TestManualStarted ==
  /\ pc = "either"
  /\ pc' = IF desiredRunState = "MANUAL_STARTED" THEN "keep" ELSE "test"
  /\ UNCHANGED <<osVars, commandVars, desiredVars, queuedPids, managedVars, recent, publishVars>>

\* lines 109 to 120: our own process is in the list.
FindOwn ==
  /\ pc = "keep"
  /\ managedPid \in queuedPids
  /\ UpdateStats(managedPid, "judge", "adaptAndJudge")
  /\ UNCHANGED <<osVars, commandVars, desiredVars, queuedPids, managedPid, recent, publishVars>>

AdoptFirst_KillsAll ==                        \* mutant: line 166, the erase, is missing
  /\ pc = "keep"
  /\ managedPid \notin queuedPids
  /\ \E p \in queuedPids :
       /\ managedPid' = p
       /\ KillQueuedProcesses(queuedPids)
       /\ UpdateStats(p, "report", "adaptAndReport")
  /\ UNCHANGED <<args, commandVars, desiredVars, recent, publishVars>>

AdoptFirst_KillsNone ==                       \* mutant: line 167, the kill, is missing
  /\ pc = "keep"
  /\ managedPid \notin queuedPids
  /\ \E p \in queuedPids :
       /\ managedPid' = p
       /\ KillQueuedProcesses({})
       /\ UpdateStats(p, "report", "adaptAndReport")
  /\ UNCHANGED <<args, commandVars, desiredVars, recent, publishVars>>

\* lines 158 to 169: it is not, so the first of the list is adopted and the others are killed.
AdoptFirst ==
  /\ pc = "keep"
  /\ managedPid \notin queuedPids
  /\ \E p \in queuedPids :
       /\ managedPid' = p
       /\ KillQueuedProcesses(queuedPids \ {p})
       /\ UpdateStats(p, "report", "adaptAndReport")
  /\ UNCHANGED <<args, commandVars, desiredVars, recent, publishVars>>

\* readProcParams, lines 431 to 434: the write that follows the comparison.
AdaptDesiredParamSet ==
  /\ pc \in {"adaptAndJudge", "adaptAndReport"}
  /\ desiredParamSet' = runningParamSet
  /\ pc' = IF pc = "adaptAndJudge" THEN "judge" ELSE "report"
  /\ UNCHANGED <<osVars, commandVars, desiredRunState, shouldPublish, queuedPids, managedVars,
                 recent, publishVars>>

\* lines 122 to 125
StopPublishing ==
  /\ pc = "judge"
  /\ publishing' = (publishing /\ shouldPublish)
  /\ pc' = "compare"
  /\ UNCHANGED <<osVars, commandVars, desiredVars, queuedPids, managedVars, recent, publisher>>

\* line 127
CompareParams ==
  /\ pc = "compare"
  /\ pc' = IF desiredParamSet = runningParamSet THEN "keepOwn" ELSE "manual"
  /\ UNCHANGED <<osVars, commandVars, desiredVars, queuedPids, managedVars, recent, publishVars>>

\* line 128: other parameters are fine if a user chose them.
KeepManuallyStarted ==
  /\ pc = "manual"
  /\ desiredRunState = "MANUAL_STARTED"
  /\ pc' = "keepOwn"
  /\ UNCHANGED <<osVars, commandVars, desiredVars, queuedPids, managedVars, recent, publishVars>>

\* lines 132 to 141: our own process is kept, and all others are killed.
KeepOwn ==
  /\ pc = "keepOwn"
  /\ IF shouldPublish /\ ~publishing
     THEN /\ publishing' = TRUE
          /\ pc' = "joinStd"
          /\ UNCHANGED <<os, queuedPids>>
     ELSE /\ KillQueuedProcesses(queuedPids \ {managedPid})
          /\ pc' = "report"
          /\ UNCHANGED publishing
  /\ UNCHANGED <<args, commandVars, desiredVars, managedVars, recent, publisher>>

KillOwn_StillPublishes ==                     \* mutant: line 150 is missing
  /\ pc = "manual"
  /\ desiredRunState # "MANUAL_STARTED"
  /\ Clear
  /\ KillQueuedProcesses(queuedPids)
  /\ pc' = "report"
  /\ UNCHANGED <<args, commandVars, desiredVars, recent, publishVars>>

\* lines 142 to 152: our own process has the wrong parameters, so it is killed as well.
KillOwn ==
  /\ pc = "manual"
  /\ desiredRunState # "MANUAL_STARTED"
  /\ Clear
  /\ KillQueuedProcesses(queuedPids)
  /\ publishing' = FALSE
  /\ pc' = "report"
  /\ UNCHANGED <<args, commandVars, desiredVars, recent, publisher>>

\* startPublishingLogs: publishing was set before; wait for the old thread, start a new one.
JoinPublisher(l, here, next) ==
  /\ pc = here
  /\ publisher[l] \in {"none", "ended"}
  /\ publisher' = [publisher EXCEPT ![l] = "attach"]
  /\ pc' = next

JoinStdPublisher ==
  /\ JoinPublisher("std", "joinStd", "joinErr")
  /\ UNCHANGED <<osVars, commandVars, desiredVars, queuedPids, managedVars, recent, publishing>>

\* ... after which update goes on to kill what else is in the queue.
JoinErrPublisher ==
  /\ JoinPublisher("err", "joinErr", "report")
  /\ KillQueuedProcesses(queuedPids \ {managedPid})
  /\ UNCHANGED <<args, commandVars, desiredVars, managedVars, recent, publishing>>

\* line 172: desiredRunState is read again.
TestShouldntRun ==
  /\ pc = "test"
  /\ pc' = IF desiredRunState = "SHOULDNT_RUN" THEN "stop" ELSE "aborted"   \* the assert, line 203
  /\ UNCHANGED <<osVars, commandVars, desiredVars, queuedPids, managedVars, recent, publishVars>>

KillAll_ButOwn ==                             \* mutant: own process was erased before the kill
  /\ pc = "stop"
  /\ managedPid # NOTHING_MANAGED
  /\ Clear
  /\ publishing' = FALSE
  /\ KillQueuedProcesses(queuedPids \ {managedPid})
  /\ pc' = "report"
  /\ UNCHANGED <<args, commandVars, desiredVars, recent, publisher>>

\* lines 174 to 183
KillAll ==
  /\ pc = "stop"
  /\ managedPid # NOTHING_MANAGED
  /\ Clear
  /\ publishing' = FALSE
  /\ KillQueuedProcesses(queuedPids)
  /\ pc' = "report"
  /\ UNCHANGED <<args, commandVars, desiredVars, recent, publisher>>

\* lines 184 to 200: nothing is managed, so what runs must have been started by hand.
AdoptManuallyStarted ==
  /\ pc = "stop"
  /\ managedPid = NOTHING_MANAGED
  /\ desiredRunState' = "MANUAL_STARTED"
  /\ \E p \in queuedPids :
       /\ managedPid' = p
       /\ KillQueuedProcesses(queuedPids \ {p})
       /\ UpdateStats(p, "report", "adaptAndReport")
  /\ UNCHANGED <<args, commandVars, desiredParamSet, shouldPublish, recent, publishVars>>

\* The ProcessStats message is sent, and mainThread sleeps for the rest of the second.
Report ==
  /\ pc = "report"
  /\ pc' = "sleep"
  /\ UNCHANGED <<osVars, commandVars, desiredVars, queuedPids, managedVars, recent, publishVars>>

\* 1000 ms have passed since lastTimeTried.
RetryTimePasses ==
  /\ recent
  /\ recent' = FALSE
  /\ UNCHANGED <<osVars, commandVars, desiredVars, pc, queuedPids, managedVars, publishVars>>

-----------------------------------------------------------------------------
(* publishLogFile, once per log. *)

\* The thread waits up to three times for the log file, which it may never see.
Attach(l) ==
  /\ publisher[l] = "attach"
  /\ \E s \in {"loop", "ended"} : publisher' = [publisher EXCEPT ![l] = s]
  /\ UNCHANGED <<osVars, commandVars, desiredVars, pc, queuedPids, managedVars, recent, publishing>>

EndPublishing(l) ==
  /\ publisher[l] = "loop"
  /\ ~publishing
  /\ publisher' = [publisher EXCEPT ![l] = "ended"]
  /\ UNCHANGED <<osVars, commandVars, desiredVars, pc, queuedPids, managedVars, recent, publishing>>

-----------------------------------------------------------------------------

Processes == \E p \in Pids : Exec(p) \/ Exit(p) \/ (\E a \in ManualParams : StartedByHand(p, a))

RosThread ==
  \/ \E c \in Commands : ChangeDesiredRunState(c)
  \/ ChangeDesiredParamSet
  \/ \E b \in LogCommands : ChangeDesiredLogPublishingState(b)

Update ==
  \/ UpdateNothingRuns \/ LookUpThrows \/ StartProcess
  \/ UpdateSomethingRuns \/ TestManualStarted
  \/ FindOwn \/ AdoptFirst \/ AdaptDesiredParamSet
  \/ StopPublishing \/ CompareParams \/ KeepManuallyStarted \/ KeepOwn \/ KillOwn
  \/ JoinStdPublisher \/ JoinErrPublisher
  \/ TestShouldntRun \/ KillAll \/ AdoptManuallyStarted

MainThread == SearchProcFS \/ Update \/ Report

Publisher(l) == Attach(l) \/ EndPublishing(l)

Next == Processes \/ RosThread \/ MainThread \/ RetryTimePasses \/ (\E l \in Logs : Publisher(l))

Spec == Init /\ [][Next]_vars

-----------------------------------------------------------------------------
(* Fairness: the threads are scheduled, exec succeeds or fails in finite   *)
(* time, and a process that got SIGTERM ends. Nothing else must happen.    *)
(* SearchProcFS gets strong fairness: mainThread is woken by a timer, and  *)
(* a stream of commands, each over in microseconds, does not hold it back. *)

Fairness ==
  /\ SF_vars(SearchProcFS)
  /\ WF_vars(Update \/ Report)
  /\ WF_vars(ChangeDesiredParamSet)
  /\ WF_vars(RetryTimePasses)
  /\ \A l \in Logs : WF_vars(Publisher(l))
  /\ \A p \in Pids : WF_vars(Exec(p)) /\ WF_vars(os[p] = "dying" /\ Exit(p))

FairSpec == Spec /\ Fairness

-----------------------------------------------------------------------------
(* Properties. *)

\* The assertion at the end of update: nothing stays in the queue.
QueueDrained == pc # "aborted"

\* startProcess looks the desired parameter set up with map::at, which throws for an id that
\* is not registered and so ends mainThread: whenever a fork is due it must be registered,
\* however commands interleave with the update. It is if the commands name registered ones.
ForkHasParams == pc = "fork" => desiredParamSet \in Params

\* Every process update takes off the queue is the one it manages from then on, or has been
\* sent SIGTERM (or is gone): no surplus instance of the executable is overlooked.
NoPidForgotten ==
  [][\A p \in queuedPids \ queuedPids' : p = managedPid' \/ os'[p] # "up"]_vars

\* The process the manager goes on managing is never sent SIGTERM in the same step.
ManagedSpared ==
  [][\A p \in Pids : os[p] = "up" /\ os'[p] = "dying" => p # managedPid']_vars

\* The fields update works from say what the operator asked for last, although update writes
\* them too, when it adopts what users have started (lines 190 and 433).
WishRespected ==
  inFlight = NoCommand =>
    /\ wish.cmd = "START" => desiredRunState = "SHOULD_RUN" /\ desiredParamSet = wish.params
    /\ wish.cmd = "STOP"  => desiredRunState # "SHOULD_RUN"

\* Seen through its processes, its managed pid and the commands, the executable behaves as
\* the promise of module Supervision says.
Promise == INSTANCE Supervision WITH Args <- Params \cup {Foreign}, Nobody <- NOTHING_MANAGED,
                                     NoArgs <- UNKNOWN_PARAMS, kept <- managedPid
KeepsPromise == Promise!Spec

\* "our process is running with the right parameters" (line 128): when update keeps its own
\* process on behalf of START, the command line of that process has the desired parameters.
KeepsRightParams ==
  [][pc = "keepOwn" /\ pc' # "keepOwn" /\ desiredRunState = "SHOULD_RUN"
       /\ Running(managedPid) => args[managedPid] = desiredParamSet]_vars

\* The CPU percentage is computed from two samples of the same process.
CpuOfOneProcess == [][pc = "keep" /\ managedPid \in queuedPids /\ sample # NOTHING_MANAGED
                        => sample = managedPid]_vars

\* After the last command, and once users and crashes leave the processes alone, START(a) is
\* fulfilled: one process runs, it is managed and it has the parameters a.
Disturbance == \E p \in Pids : \/ Crashes /\ os[p] \in {"hidden", "up"} /\ Exit(p)
                              \/ \E a \in ManualParams : StartedByHand(p, a)
Quiet == <>[][~Disturbance]_vars

OnlyRuns(a) ==
  /\ managedPid \in Pids
  /\ os[managedPid] = "up" /\ args[managedPid] = a
  /\ \A p \in Pids \ {managedPid} : os[p] = "free"

StartFulfilled ==
  Quiet => \A a \in Params :
             <>[](inFlight = NoCommand /\ wish = [cmd |-> "START", params |-> a]) => <>[]OnlyRuns(a)

\* After the last command, a STOP, the executable's processes end and stay away.
StopFulfilled ==
  Quiet => (<>[](inFlight = NoCommand /\ wish.cmd = "STOP") => <>[](\A p \in Pids : os[p] = "free"))

\* mainThread starts a new iteration again and again: it is never stuck in a join.
MainThreadAlive == []<>(pc = "update")

=============================================================================
