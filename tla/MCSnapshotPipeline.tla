------------------------- MODULE MCSnapshotPipeline -------------------------
(* Small instances of SnapshotPipeline for TLC.                            *)
EXTENDS SnapshotPipeline, TLC

CONSTANTS ann, bob, mon, tue, up1, up2, up3, clip1, w1, w2

(* Every upload is for Monday's schedule, except up3.                      *)
MCScheduleOf == [t \in Tasks |-> IF t = up3 THEN tue ELSE mon]

Symmetry == Permutations(Workers) \cup Permutations(Students)
                \cup Permutations(SnapTasks \ {up3})
=============================================================================
