---------------------------- MODULE Supervision ----------------------------
(***************************************************************************)
(* What a process manager promises the people who use it, for one          *)
(* executable on one robot:                                                *)
(*                                                                         *)
(*  - it starts a process only while the operator's last command is START, *)
(*    and with the parameters of that command;                             *)
(*  - as long as no command was ever given it only thins out: of the       *)
(*    processes it sees it keeps one, and ends none but the others;        *)
(*  - it does not end the process it has decided to keep.                  *)
(*                                                                         *)
(* The module says nothing of how or how often the manager looks; the      *)
(* operating system is free to end or start processes on its own.          *)
(***************************************************************************)
CONSTANTS Pids, Args, Commands, NoCommand, Nobody, NoArgs

VARIABLES
  os,     \* free, hidden, up or dying, for each pid
  args,   \* what each process was started with
  wish,   \* the operator's last command
  kept    \* the process under management

vars == <<os, args, wish, kept>>

Init ==
  /\ os = [p \in Pids |-> "free"]
  /\ args = [p \in Pids |-> NoArgs]
  /\ wish = NoCommand
  /\ kept = Nobody

Command ==
  /\ wish' \in Commands
  /\ UNCHANGED <<os, args, kept>>

Appear(p) ==
  /\ os[p] = "free"
  /\ os' = [os EXCEPT ![p] = "up"]
  /\ \E a \in Args : args' = [args EXCEPT ![p] = a]
  /\ UNCHANGED <<wish, kept>>

ExecDone(p) ==
  /\ os[p] = "hidden"
  /\ os' = [os EXCEPT ![p] = "up"]
  /\ UNCHANGED <<args, wish, kept>>

Vanish(p) ==
  /\ os' = [os EXCEPT ![p] = "free"]
  /\ args' = [args EXCEPT ![p] = NoArgs]
  /\ UNCHANGED <<wish, kept>>

Start(p) ==
  /\ wish.cmd = "START"
  /\ os[p] = "free"
  /\ os' = [os EXCEPT ![p] = "hidden"]
  /\ args' = [args EXCEPT ![p] = wish.params]
  /\ kept' = p
  /\ UNCHANGED wish

Terminated(S) == [p \in Pids |-> IF p \in S /\ os[p] = "up" THEN "dying" ELSE os[p]]

Keep(p, S) ==
  /\ p \notin S
  /\ os' = Terminated(S)
  /\ kept' = p
  /\ UNCHANGED <<args, wish>>

Release(S) ==
  /\ S # {} => wish # NoCommand
  /\ os' = Terminated(S)
  /\ kept' = Nobody
  /\ UNCHANGED <<args, wish>>

Next ==
  \/ Command
  \/ \E p \in Pids : Appear(p) \/ ExecDone(p) \/ Vanish(p) \/ Start(p)
  \/ \E S \in SUBSET Pids : Release(S) \/ \E p \in Pids : Keep(p, S)

Spec == Init /\ [][Next]_vars

=============================================================================
