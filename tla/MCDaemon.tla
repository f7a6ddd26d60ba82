------------------------------ MODULE MCDaemon ------------------------------
(* Instances of Daemon for TLC. *)
EXTENDS Daemon, TLC

\* Clients differ in name only.
ClientSymmetry == Permutations(Clients)
=============================================================================
