--------------------------- MODULE MCTritonBatcher ---------------------------
(* A small instance of TritonBatcher for TLC. The first crop that c2 sends *)
(* is of another size than all others.                                     *)
EXTENDS TritonBatcher

CONSTANTS c1, c2

MCShapeOf == [r \in Requests |-> IF r = <<c2, 1>> THEN "80x80" ELSE "112x112"]
=============================================================================
