--------------------------- MODULE MCEventHandling ---------------------------
(***************************************************************************)
(* The three synchronisation classes of event_handling, checked in one     *)
(* run. They share no state, so a behaviour is about one of them and the   *)
(* others keep their initial state: TLC explores the sum of the three      *)
(* state spaces, not the product.                                          *)
(***************************************************************************)
EXTENDS AutoResetEvent, Timer, NotifyTimer

VARIABLE subject         \* the class this behaviour is about

allVars == <<subject, eventVars, timerVars, notifyVars>>

MCInit ==
  /\ subject \in {"AutoResetEvent", "Timer", "NotifyTimer"}
  /\ EventInit /\ TimerInit /\ NotifyInit

EventTurn  == subject = "AutoResetEvent" /\ UNCHANGED <<subject, timerVars, notifyVars>>
TimerTurn  == subject = "Timer" /\ UNCHANGED <<subject, eventVars, notifyVars>>
NotifyTurn == subject = "NotifyTimer" /\ UNCHANGED <<subject, eventVars, timerVars>>

MCNext ==
  \/ EventTurn /\ EventNext
  \/ TimerTurn /\ TimerNext
  \/ NotifyTurn /\ NotifyNext

\* Fairness: a notified waiter gets the mutex, the threads of the timers are scheduled (a
\* callback returns), and an owner finishes the method it has begun.
MCFairness ==
  /\ \A w \in Waiters : WF_allVars(EventTurn /\ Resume(w))
  /\ WF_allVars(TimerTurn /\ RunThread)
  /\ WF_allVars(TimerTurn /\ (NotifyStart \/ DestroyStarted \/ DestroyNotify \/ DestroyJoin))
  /\ WF_allVars(NotifyTurn /\ RunNotifyTimer)
  /\ WF_allVars(NotifyTurn /\ (CreateThread \/ StoreCallee \/ ClearStarted \/ JoinRunner))

MCSpec == MCInit /\ [][MCNext]_allVars /\ MCFairness

=============================================================================
