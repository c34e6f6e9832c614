------------------------ MODULE MCManagedExecutable ------------------------
(***************************************************************************)
(* The instances of ManagedExecutable that TLC checks. Pids are            *)
(* interchangeable: the code only compares them.                           *)
(***************************************************************************)
EXTENDS ManagedExecutable, TLC

PidSymmetry == Permutations(Pids)

=============================================================================
