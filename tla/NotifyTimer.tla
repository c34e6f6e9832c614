---------------------------- MODULE NotifyTimer ----------------------------
(***************************************************************************)
(* The class template NotifyTimer of event_handling: a thread that calls a *)
(* method of an object in intervals, while the timer runs. Nothing is      *)
(* locked: the thread polls started and running, and it is created before  *)
(* the constructor stores the object and the callback.                     *)
(***************************************************************************)

VARIABLES
  nStarted, nRunning,    \* the fields started and running
  callee,                \* callback and obj are stored
  runner,                \* where runThread is: "none" before it is created, "ended" in the end
  user                   \* what the owner of the timer is doing

notifyVars == <<nStarted, nRunning, callee, runner, user>>

NotifyInit ==                       \* constructor, lines 55 to 57
  /\ nStarted = TRUE /\ nRunning = FALSE
  /\ callee = FALSE
  /\ runner = "none" /\ user = "thread"

CreateThread ==                     \* line 58
  /\ user = "thread" /\ user' = "callee"
  /\ runner' = "test"
  /\ UNCHANGED <<nStarted, nRunning, callee>>

StoreCallee ==                      \* lines 59 and 60
  /\ user = "callee" /\ user' = "idle"
  /\ callee' = TRUE
  /\ UNCHANGED <<nStarted, nRunning, runner>>

StartCalls ==                       \* start
  /\ user = "idle" /\ nStarted /\ ~nRunning
  /\ nRunning' = TRUE
  /\ UNCHANGED <<nStarted, callee, runner, user>>

StopCalls ==                        \* stop
  /\ user = "idle" /\ nStarted /\ nRunning
  /\ nRunning' = FALSE
  /\ UNCHANGED <<nStarted, callee, runner, user>>

ClearRunning ==                     \* ~NotifyTimer, line 87
  /\ user = "idle" /\ user' = "dtorStarted"
  /\ nRunning' = FALSE
  /\ UNCHANGED <<nStarted, callee, runner>>

ClearStarted ==                     \* line 88
  /\ user = "dtorStarted" /\ user' = "joining"
  /\ nStarted' = FALSE
  /\ UNCHANGED <<nRunning, callee, runner>>

JoinRunner_Detached ==              \* mutant: the thread is not joined
  /\ user = "joining" /\ user' = "destroyed"
  /\ UNCHANGED <<nStarted, nRunning, callee, runner>>

JoinRunner ==                       \* line 89
  /\ user = "joining" /\ user' = "destroyed"
  /\ runner = "ended"
  /\ UNCHANGED <<nStarted, nRunning, callee, runner>>

-----------------------------------------------------------------------------
(* runThread, which executes run. *)

Run(from, to) == runner = from /\ runner' = to /\ UNCHANGED <<nStarted, nRunning, callee, user>>

TestLoop    == Run("test", IF nStarted THEN "check" ELSE "ended")      \* line 66
CheckLoop   == Run("check", IF nStarted THEN "read" ELSE "ended")      \* line 68
ReadRunning == Run("read", IF nRunning THEN "call" ELSE "pause")       \* line 72
Call        == Run("call", "calling")                                  \* line 74
Return      == Run("calling", "pause")
SleepOver   == Run("pause", "test")                                    \* line 80

RunNotifyTimer == TestLoop \/ CheckLoop \/ ReadRunning \/ Call \/ Return \/ SleepOver

NotifyNext ==
  \/ CreateThread \/ StoreCallee \/ StartCalls \/ StopCalls
  \/ ClearRunning \/ ClearStarted \/ JoinRunner
  \/ RunNotifyTimer

NotifySpec == NotifyInit /\ [][NotifyNext]_notifyVars

-----------------------------------------------------------------------------

\* The thread, which exists before callback and obj are stored, never uses them unset, and
\* when the destructor has returned no callback is under way, so obj may be deleted.
CallsWhileAlive ==
  /\ runner \in {"call", "calling"} => callee
  /\ user = "destroyed" => runner = "ended"

=============================================================================
