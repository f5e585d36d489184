--------------------------- MODULE MCSharedAgent ---------------------------
(* Instance of SharedAgent for TLC: see the cfg files for its constants.     *)
EXTENDS SharedAgent, TLC
============================================================================
