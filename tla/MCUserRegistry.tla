--------------------------- MODULE MCUserRegistry ---------------------------
(* UserRegistry on a small instance: see the cfg files for its constants.   *)
EXTENDS UserRegistry, TLC

CONSTANTS root, c1, c2, b1, r1, r2, d1, u1, ann, bob

Symmetry ==
  Permutations(Employees) \cup (Permutations(Scripts) \cup Permutations(Registrations))
=============================================================================
