--------------------------- MODULE MCMemberships ---------------------------
(* Model values for the run of Memberships.                                *)
EXTENDS Memberships

CONSTANTS u1, u2, u3, q1, q2
=============================================================================
