-------------------------- MODULE MCSlackDelivery --------------------------
(* Instance of SlackDelivery for TLC: see the cfg file for its constants.    *)
EXTENDS SlackDelivery, TLC

Symmetry == Permutations(Procs)
============================================================================
