------------------------------ MODULE Control ------------------------------
(***************************************************************************)
(* The loop that is closed over an operator: process managers report what  *)
(* runs, pm_control shows it, the operator clicks, the command goes back.  *)
(* A Tick is a second, the time a manager's iteration takes at least; the  *)
(* display is refreshed several times a second. What goes wrong now and    *)
(* then (a report is lost, an iteration or a refresh comes late, a process *)
(* is suspended, the display is opened anew) counts as a hiccup.           *)
(***************************************************************************)
EXTENDS ProcessManager, PMControl

CONSTANTS
  Clickable,        \* the executables the operator's hand is on
  Selectable,       \* the bundles she selects
  MaxHiccups        \* bound

ASSUME ControlAssumption ==
  /\ Clickable \subseteq Execs /\ MaxHiccups \in Nat
  /\ Selectable \subseteq DOMAIN Bundles \cup {"ALL", "RUNNING"}

VARIABLES
  reported,         \* the managers that iterated since the last tick
  refreshed,        \* was the display refreshed since the last tick?
  hiccups,
  lastRan           \* history: age of the last iteration at whose end a process ran

timeVars    == <<reported, refreshed, hiccups, lastRan>>
controlVars == <<pmVars, guiVars, timeVars>>

ControlInit ==
  /\ ManagersInit /\ GuiInit
  /\ reported = {} /\ refreshed = FALSE /\ hiccups = 0
  /\ lastRan = [m \in Managers |-> [k \in Keys |-> Silent]]

\* All is well, or one of the hiccups happens.
WellOrHiccup(well) ==
  \/ well /\ UNCHANGED hiccups
  \/ ~well /\ hiccups < MaxHiccups /\ hiccups' = hiccups + 1

\* report: what is managed, with the state /proc/<pid>/stat shows once it was read.
StatsOf(m, states) ==
  [k \in DOMAIN Stats(executables'[m]) |->
     [paramSet |-> Stats(executables'[m])[k],
      state    |-> IF executables'[m][k].need2ReadParams THEN "X" ELSE states[k[2]]]]

\* One iteration of a manager; its report arrives, or is lost.
Iterate(m) ==
  /\ m \notin reported
  /\ run(m)
  /\ reported' = reported \cup {m}
  /\ lastRan' = [lastRan EXCEPT ![m] = [k \in Keys |-> IF procs'[m][k] # NoProcess THEN 0 ELSE @[k]]]
  /\ UNCHANGED refreshed
  /\ \/ \E suspended \in SUBSET Clickable :
          /\ WellOrHiccup(suspended = {})
          /\ receiveProcessStats(m, StatsOf(m, [e \in Execs |-> IF e \in suspended THEN "T" ELSE "S"]))
     \/ WellOrHiccup(FALSE) /\ UNCHANGED guiVars

\* The timer fires; no other step sets refreshed, so fairness of RefreshDue is fairness of Refresh.
RefreshDue == ~refreshed /\ refreshed' = TRUE

Refresh ==
  /\ RefreshDue
  /\ runGUI
  /\ UNCHANGED <<pmVars, reported, hiccups, lastRan>>

ControlTick ==
  /\ WellOrHiccup(refreshed /\ {m \in Managers : alive[m]} \subseteq reported)
  /\ GuiTick
  /\ reported' = {} /\ refreshed' = FALSE
  /\ lastRan' = [m \in Managers |-> [k \in Keys |-> Older(lastRan[m][k])]]
  /\ UNCHANGED pmVars

\* The display is closed and opened again.
Reopen ==
  /\ WellOrHiccup(FALSE)
  /\ processStatMsgQueue' = <<>> /\ processManagersMap' = <<>>
  /\ UNCHANGED <<pmVars, reported, refreshed, lastRan>>

Click(m, r, e) == CheckBoxClicked(m, r, e) /\ Publish(CommandOf(m, r, e)) /\ UNCHANGED timeVars

Operator ==
  \E m \in Managers : \E r \in Robots :
    \/ \E e \in Clickable : Click(m, r, e)
    \/ \E b \in Selectable : SelectBundle(m, r, b) /\ UNCHANGED <<pmVars, timeVars>>

Command(m) == (handleProcessCommand(m) \/ changeDesiredState(m)) /\ UNCHANGED <<guiVars, timeVars>>

ControlNext ==
  \/ \E m \in Managers : Iterate(m) \/ Command(m)
  \/ Refresh \/ ControlTick \/ Reopen
  \/ Operator
  \/ Environment /\ UNCHANGED <<guiVars, timeVars>>

ControlSpec ==
  /\ ControlInit /\ [][ControlNext]_controlVars
  /\ WF_refreshed(RefreshDue) /\ WF_controlVars(ControlTick)
  /\ \A m \in Managers : WF_controlVars(Iterate(m)) /\ WF_controlVars(Command(m))

-----------------------------------------------------------------------------
(* Properties. *)

Green(m, r, e) == OnScreen(m, r) /\ Exec(m, r, e).light = "green"

\* What a refreshed display shows in green ran at most MsgTimeOut seconds ago, however many
\* messages were lost, late or waiting for the refresh, and whoever crashed since.
GreenRan ==
  refreshed =>
    \A m \in Managers : \A r \in Robots : \A e \in Execs :
      Green(m, r, e) => lastRan[m][<<r, e>>] <= MsgTimeOut

\* What runs for good under a manager that stays up is, in the end, always shown in green and with
\* the parameters it runs with.
ShowsRunning ==
  \A m \in Managers : \A r \in Robots : \A e \in Execs : \A p \in Params :
    <>[](alive[m] /\ procs[m][<<r, e>>] = p)
      => <>[](Green(m, r, e) /\ Exec(m, r, e).runningParamSet = p)

\* A manager that is dead for good is, in the end, not shown any more.
HidesDead == \A m \in Managers : <>[]~alive[m] => <>[](m \notin DOMAIN processManagersMap)

\* In the end the display shows what runs and nothing of a manager that does not.
ShowsWhatRuns == ShowsRunning /\ HidesDead

\* A click on a green executable's ticked box ends it for good, unless the operator clicks again,
\* a user starts the executable by hand or the manager crashes.
StopIsShown ==
  \A m \in Managers : \A k \in Keys :
    <>[](alive[m] /\ k \in commanded[m] /\ wish[m][k].cmd = "STOP" /\ disturbances = 0)
      => <>[](~Green(m, k[1], k[2]))

=============================================================================
