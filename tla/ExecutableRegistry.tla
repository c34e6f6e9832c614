------------------------- MODULE ExecutableRegistry -------------------------
(***************************************************************************)
(* What RobotExecutableRegistry and ExecutableMetaData know from the       *)
(* configuration: the robots, the executables and their parameter sets.    *)
(* The process managers and the operators' displays share it.              *)
(***************************************************************************)
EXTENDS Integers

CONSTANTS
  Robots,           \* robot ids in Globals.conf
  Execs,            \* executable ids in ProcessManaging.conf
  Params            \* parameter set ids of each executable

ASSUME RegistryAssumption ==
  Robots \subseteq Int /\ Execs \subseteq Int /\ Params \subseteq Nat /\ Params # {}

UNKNOWN_PARAMS == -1

\* The parameter set an executable has unless a command or a bundle names another.
Lowest(S) == CHOOSE p \in S : \A q \in S : p <= q

=============================================================================
