---------------------------- MODULE MCEnrollment ----------------------------
(* Model values and symmetry for the runs of Enrollment.                   *)
EXTENDS Enrollment, TLC

CONSTANTS u1, u2, u3, i1, i2, j1, s1, s2

(* u1 founds the organization; everybody and everything else is            *)
(* interchangeable.                                                        *)
EnrollmentSymmetry ==
  Permutations({u2, u3}) \cup Permutations({i1, i2}) \cup Permutations({s1, s2})
=============================================================================
