-------------------------- MODULE MCCaptureSignals --------------------------
(* A process started in an odd minute, with an interval of two minutes.    *)
EXTENDS CaptureSignals, TLC

TheOwner == "c1" :> "cam1"
TheRoom == "cam1" :> "r"
TheClasses == {[room |-> "r", from |-> 2, to |-> 5]}
=============================================================================
