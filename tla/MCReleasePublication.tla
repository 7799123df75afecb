------------------------ MODULE MCReleasePublication ------------------------
(***************************************************************************)
(* ReleasePublication for TLC: the publisher that takes tag pushes has the *)
(* whole build on its disk, the one that reconciles only a part of it.     *)
(***************************************************************************)
EXTENDS ReleasePublication

CONSTANTS Full, Part

MCDestinations == {1, 2}
MCAssets == {1, 2}
MCArtifactDir == [p \in {Full, Part} |-> IF p = Full THEN {1, 2} ELSE {2}]
=============================================================================
