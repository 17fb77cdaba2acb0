------------------------------- MODULE MCLocks -------------------------------
(***************************************************************************)
(* Constants for model checking Locks: one goroutine of each kind.         *)
(***************************************************************************)
EXTENDS Locks

CONSTANTS r1, p1, c1

=============================================================================
