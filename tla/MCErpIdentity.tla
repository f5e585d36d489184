--------------------------- MODULE MCErpIdentity ---------------------------
(* Instance of ErpIdentity for TLC: see the cfg file for its constants.      *)
EXTENDS ErpIdentity, TLC

ThreadSymmetry == Permutations(Threads)
============================================================================
