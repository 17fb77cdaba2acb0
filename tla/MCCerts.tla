------------------------------- MODULE MCCerts -------------------------------
(***************************************************************************)
(* Constants for model checking Certs: three handshakes for the same host. *)
(***************************************************************************)
EXTENDS Certs, TLC

CONSTANTS c1, c2, c3

ConnSymmetry == Permutations(Conn)

=============================================================================
