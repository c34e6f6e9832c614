--------------------------- MODULE AutoResetEvent ---------------------------
(***************************************************************************)
(* The class AutoResetEvent of event_handling: waitOne() lets one thread   *)
(* pass for each set(), and the thread that passes resets the event.       *)
(*                                                                         *)
(* All methods but isThreadWaiting() hold the mutex protect from end to    *)
(* end, waiting on the condition variable aside, so each piece between two *)
(* waits is one step. isThreadWaiting() may see waitingThread between the  *)
(* two increments of a waitOne() that does not wait; it answers the same.  *)
(***************************************************************************)
EXTENDS Integers, FiniteSets

CONSTANTS Waiters,       \* threads that call waitOne
          MaxSets        \* bound: calls of set

ASSUME EventAssumption == IsFiniteSet(Waiters) /\ MaxSets \in Nat

VARIABLES
  flag,
  waitingThread,
  waiter,                \* where each thread is: outside, blocked in wait, or notified
  sets, releases         \* history: calls of set (and an initial TRUE), returns of waitOne

eventVars == <<flag, waitingThread, waiter, sets, releases>>

EventTypeOK ==
  /\ flag \in BOOLEAN
  /\ waitingThread \in Nat
  /\ waiter \in [Waiters -> {"outside", "blocked", "notified"}]
  /\ sets \in Nat /\ releases \in Nat

EventInit ==
  /\ flag \in BOOLEAN
  /\ waitingThread = 0
  /\ waiter = [w \in Waiters |-> "outside"]
  /\ sets = IF flag THEN 1 ELSE 0
  /\ releases = 0

Blocked == {w \in Waiters : waiter[w] = "blocked"}
Inside  == {w \in Waiters : waiter[w] # "outside"}

SetEvent_Quiet ==                   \* mutant: nobody is notified
  /\ sets < MaxSets
  /\ flag' = TRUE
  /\ sets' = sets + 1
  /\ UNCHANGED <<waiter, waitingThread, releases>>

\* set
SetEvent ==
  /\ sets < MaxSets
  /\ flag' = TRUE
  /\ sets' = sets + 1
  /\ IF Blocked = {} THEN UNCHANGED waiter
     ELSE \E w \in Blocked : waiter' = [waiter EXCEPT ![w] = "notified"]
  /\ UNCHANGED <<waitingThread, releases>>

\* reset
ResetEvent ==
  /\ flag' = FALSE
  /\ UNCHANGED <<waitingThread, waiter, sets, releases>>

PassOrBlock_NoReset(w, counted) ==  \* mutant: the event stays set when a thread has passed
  IF flag
  THEN /\ waiter' = [waiter EXCEPT ![w] = "outside"]
       /\ waitingThread' = waitingThread + counted + 1
       /\ releases' = releases + 1
       /\ UNCHANGED <<flag, sets>>
  ELSE /\ waiter' = [waiter EXCEPT ![w] = "blocked"]
       /\ waitingThread' = waitingThread + counted
       /\ UNCHANGED <<flag, sets, releases>>

\* The loop of waitOne, from holding the mutex to the next wait or to the end.
PassOrBlock(w, counted) ==
  IF flag
  THEN /\ flag' = FALSE
       /\ waiter' = [waiter EXCEPT ![w] = "outside"]
       /\ waitingThread' = waitingThread + counted + 1
       /\ releases' = releases + 1
       /\ UNCHANGED sets
  ELSE /\ waiter' = [waiter EXCEPT ![w] = "blocked"]
       /\ waitingThread' = waitingThread + counted
       /\ UNCHANGED <<flag, sets, releases>>

WaitOne(w) ==
  /\ waiter[w] = "outside"
  /\ PassOrBlock(w, 1)

Resume(w) ==
  /\ waiter[w] = "notified"
  /\ PassOrBlock(w, 0)

\* A condition variable may wake a thread nobody notified.
WakeSpuriously(w) ==
  /\ waiter[w] = "blocked"
  /\ waiter' = [waiter EXCEPT ![w] = "notified"]
  /\ UNCHANGED <<flag, waitingThread, sets, releases>>

EventNext ==
  \/ SetEvent \/ ResetEvent
  \/ \E w \in Waiters : WaitOne(w) \/ Resume(w) \/ WakeSpuriously(w)

EventSpec == EventInit /\ [][EventNext]_eventVars

-----------------------------------------------------------------------------

\* No wake-up is lost: while the event is set and threads are blocked, one of them is on its
\* way to see it, however set, reset, late arrivals and spurious wake-ups interleave.
NoWakeupLost == flag /\ Blocked # {} => \E w \in Waiters : waiter[w] = "notified"

\* No set lets two threads pass.
OneReleasePerSet == releases + (IF flag THEN 1 ELSE 0) <= sets

\* A set is used up or reset as long as some thread waits for it.
SetReleases == flag /\ Inside # {} ~> ~flag \/ Inside = {}

=============================================================================
