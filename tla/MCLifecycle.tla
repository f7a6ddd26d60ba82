---------------------------- MODULE MCLifecycle ----------------------------
(* Constant values for checking Lifecycle. *)
EXTENDS Lifecycle, TLC

\* Sound for invariants only.
ProcessSymmetry == Permutations(Clients) \cup Permutations(Daemons)

=============================================================================
