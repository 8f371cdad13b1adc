----------------------- MODULE MCSnowflakeConnections -----------------------
(* Model values and symmetry for the runs of SnowflakeConnections.         *)
EXTENDS SnowflakeConnections, TLC

CONSTANTS c1, c2, r1, r2, s1, s2, k1, k2, a1, a2, h1, h2, l1, l2

(* SomeScope is chosen, so scopes are not interchangeable; the rest is.    *)
ConnectionSymmetry ==
  Permutations({c1, c2}) \cup Permutations({r1, r2}) \cup Permutations({s1, s2})
    \cup Permutations({k1, k2})
=============================================================================
