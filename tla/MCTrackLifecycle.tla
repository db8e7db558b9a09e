-------------------------- MODULE MCTrackLifecycle --------------------------
(* A small instance of TrackLifecycle for TLC.                             *)
EXTENDS TrackLifecycle, TLC

CONSTANTS front, door, t1, t2, ann, bob

Symmetry == Permutations(Students) \cup Permutations(Cameras)
=============================================================================
