------------------------------ MODULE MCDaemon ------------------------------
(***************************************************************************)
(* Instances of the daemon for TLC.  Tasks that are all in agent mode are  *)
(* interchangeable, and so are clients.                                    *)
(***************************************************************************)
EXTENDS Correctness, TLC

Symmetry == Permutations(Tasks) \cup Permutations(Clients)
=============================================================================
