--------------------------- MODULE MCRequestPath ---------------------------
(* RequestPath on small instances: queries q1 and q2, Slack events s1 and s2. *)
EXTENDS RequestPath

CONSTANTS q1, q2, s1, s2, ann
=============================================================================
