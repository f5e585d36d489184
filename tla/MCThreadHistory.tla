--------------------------- MODULE MCThreadHistory ---------------------------
(* Instance of ThreadHistory for TLC.                                       *)
EXTENDS ThreadHistory

UserSymmetry == Permutations(Users)
=============================================================================
