------------------------------- MODULE Timer -------------------------------
(***************************************************************************)
(* The class Timer of event_handling: a thread that notifies the           *)
(* registered condition variables in intervals, while the timer runs.      *)
(*                                                                         *)
(* start(), stop(), registerCV() and the destructor are called by the      *)
(* owner of the timer and take no lock the thread's wait releases. So a    *)
(* notification may come when the thread has already found the predicate   *)
(* of its wait false and does not sleep yet: nobody hears it. The history  *)
(* variable unheard remembers that.                                        *)
(***************************************************************************)
EXTENDS Integers

CONSTANT CVs             \* condition variables that may be registered

VARIABLES
  started, running, registeredCVs,
  thread,                \* where runThread is
  owner,                 \* what the owner of the timer is doing
  late,                  \* history: firings since the last stop
  unheard                \* history: the thread's predicate became true and nobody told it

timerVars == <<started, running, registeredCVs, thread, owner, late, unheard>>

NotStopped == -1         \* late while the timer is not stopped
MaxLate    == 2          \* bound: firings after stop that are told apart

TimerTypeOK ==
  /\ started \in BOOLEAN /\ running \in BOOLEAN
  /\ registeredCVs \subseteq CVs
  /\ thread \in {"delay", "test", "predicate", "blocking", "asleep", "check", "fire", "pause", "ended"}
  /\ owner \in {"idle", "starting", "dtorFlag", "dtorNotify", "joining", "destroyed"}
  /\ late \in NotStopped..MaxLate
  /\ unheard \in BOOLEAN

\* The constructor has returned; whether stop was called or start not yet is all the same.
TimerInit ==
  /\ started = TRUE /\ running = FALSE
  /\ registeredCVs = {}
  /\ thread = "delay"
  /\ owner = "idle"
  /\ late = 0
  /\ unheard = FALSE

-----------------------------------------------------------------------------
(* The owner. *)

\* registerCV notifies nobody: a thread that sleeps for want of condition variables goes on.
registerCV(cv) ==
  /\ owner = "idle"
  /\ registeredCVs' = registeredCVs \cup {cv}
  /\ unheard' = (unheard \/ (running /\ registeredCVs = {} /\ thread \in {"blocking", "asleep"}))
  /\ UNCHANGED <<started, running, thread, owner, late>>

start ==
  /\ owner = "idle"
  /\ ~running                       \* and started, as the timer is not destroyed
  /\ running' = TRUE
  /\ owner' = "starting"
  /\ late' = NotStopped
  /\ UNCHANGED <<started, registeredCVs, thread, unheard>>

\* notify_one: the thread wakes up if it sleeps.
Notify ==
  /\ thread' = IF thread = "asleep" THEN "predicate" ELSE thread
  /\ unheard' = (unheard \/ thread = "blocking")

NotifyStart_Skipped ==              \* mutant: line 63 is missing
  /\ owner = "starting"
  /\ owner' = "idle"
  /\ UNCHANGED <<started, running, registeredCVs, thread, late, unheard>>

NotifyStart ==
  /\ owner = "starting"
  /\ Notify
  /\ owner' = "idle"
  /\ UNCHANGED <<started, running, registeredCVs, late>>

stop_Forgets ==                     \* mutant: the flag is not reset
  /\ owner = "idle"
  /\ running
  /\ late' = 0
  /\ UNCHANGED <<started, running, registeredCVs, thread, owner, unheard>>

stop ==
  /\ owner = "idle"
  /\ running
  /\ running' = FALSE
  /\ late' = 0
  /\ UNCHANGED <<started, registeredCVs, thread, owner, unheard>>

DestroyRunning ==                   \* ~Timer, line 25
  /\ owner = "idle"
  /\ running' = TRUE
  /\ owner' = "dtorFlag"
  /\ late' = NotStopped
  /\ UNCHANGED <<started, registeredCVs, thread, unheard>>

DestroyStarted ==                   \* line 26
  /\ owner = "dtorFlag"
  /\ started' = FALSE
  /\ owner' = "dtorNotify"
  /\ UNCHANGED <<running, registeredCVs, thread, late, unheard>>

DestroyNotify ==                    \* line 27
  /\ owner = "dtorNotify"
  /\ Notify
  /\ owner' = "joining"
  /\ UNCHANGED <<started, running, registeredCVs, late>>

DestroyJoin ==                      \* line 28
  /\ owner = "joining"
  /\ thread = "ended"
  /\ owner' = "destroyed"
  /\ UNCHANGED <<started, running, registeredCVs, thread, late, unheard>>

-----------------------------------------------------------------------------
(* runThread, which executes run. *)

Step(from, to) == thread = from /\ thread' = to
OwnerVars == <<started, running, registeredCVs, owner, unheard>>

Delay == Step("delay", "test") /\ UNCHANGED <<OwnerVars, late>>

TestStarted == Step("test", IF started THEN "predicate" ELSE "ended") /\ UNCHANGED <<OwnerVars, late>>

EvaluatePredicate ==
  /\ Step("predicate", IF ~started \/ (running /\ registeredCVs # {}) THEN "check" ELSE "blocking")
  /\ UNCHANGED <<OwnerVars, late>>

Block == Step("blocking", "asleep") /\ UNCHANGED <<OwnerVars, late>>

WakeUpSpuriously == Step("asleep", "predicate") /\ UNCHANGED <<OwnerVars, late>>

CheckStarted == Step("check", IF started THEN "fire" ELSE "ended") /\ UNCHANGED <<OwnerVars, late>>

\* notifyAll tells every condition variable that is registered by then.
Fire ==
  /\ Step("fire", "pause")
  /\ late' = IF late = NotStopped \/ late = MaxLate THEN late ELSE late + 1
  /\ UNCHANGED OwnerVars

Pause == Step("pause", "test") /\ UNCHANGED <<OwnerVars, late>>

-----------------------------------------------------------------------------

Owner ==
  \/ \E cv \in CVs : registerCV(cv)
  \/ start \/ NotifyStart \/ stop
  \/ DestroyRunning \/ DestroyStarted \/ DestroyNotify \/ DestroyJoin

RunThread ==
  \/ Delay \/ TestStarted \/ EvaluatePredicate \/ Block \/ CheckStarted \/ Fire \/ Pause

TimerNext == Owner \/ RunThread \/ WakeUpSpuriously

TimerSpec == TimerInit /\ [][TimerNext]_timerVars

-----------------------------------------------------------------------------

\* When stop has returned, at most the firing that was under way still comes.
AtMostOneLateFiring == late < MaxLate

\* A timer that is started and not stopped fires again and again, unless a wake-up was missed.
KeepsFiring == [](~unheard) =>
  (<>[](running /\ owner = "idle" /\ registeredCVs # {}) => []<>(thread = "fire"))

Destroying == owner \in {"dtorFlag", "dtorNotify", "joining"}

\* The destructor returns, unless a wake-up was missed.
DestructorMayReturn == [](~unheard) => (Destroying ~> owner = "destroyed")

\* Unless a wake-up was missed, the runner answers start() by firing and the destructor by ending.
RunnerAnswers == KeepsFiring /\ DestructorMayReturn

\* "for destroying the timer" (Timer.cpp, line 46): the thread ends and the destructor returns.
DestructorReturns == Destroying ~> owner = "destroyed"

\* "The condition variables are notified according to the timers configuration" (Timer.h, line
\* 24): a timer that is started with condition variables registered fires again and again.
StartedFires == [](running => registeredCVs # {}) =>
  (<>[](running /\ owner = "idle") => []<>(thread = "fire"))

=============================================================================
