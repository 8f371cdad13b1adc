---------------------------- MODULE MCDbtManifest ----------------------------
(* Instances of DbtManifest: two manifests of two resources.               *)
EXTENDS DbtManifest, TLC

CONSTANTS a, b, k, dependsOn, other, s1, s2

(* A dependency listed twice; a resource that disappears, and dependencies *)
(* that point nowhere or at itself.                                        *)
Both     == [resources |-> {a, b}, depends |-> {<<<<a, b>>, 1>>, <<<<a, b>>, 2>>}]
Dangling == [resources |-> {b}, depends |-> {<<<<a, b>>, 1>>, <<<<b, b>>, 2>>}]
TwoManifests == {Both, Dangling}

SessionSymmetry == Permutations(Sessions)
=============================================================================
