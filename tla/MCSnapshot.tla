----------------------------- MODULE MCSnapshot -----------------------------
(***************************************************************************)
(* Constants for TLC: f1, f2 and f3 are of three sessions of two image     *)
(* categories, for one camera; f4 and f5 are of the session of f1 and have *)
(* its frame number, and f5 costs nothing.  Session d has no category.     *)
(* The run uses f1 and f2; the other tasks are for the further instances   *)
(* that the README names.                                                  *)
(***************************************************************************)
EXTENDS Snapshot
CONSTANTS a, b, c, d, f1, f2, f3, f4, f5, m1
MCSessionOf == [f \in Tasks |-> IF f = f2 THEN b ELSE IF f = f3 THEN c ELSE a]
MCFrameNum == [f \in Tasks |-> 1]
MCConsumption == [f \in Tasks |-> IF f = f1 THEN 2 ELSE IF f = f5 THEN 0 ELSE 1]
MCCategory == [s \in Sessions |->
    IF s = d THEN NoCategory ELSE IF s = b THEN "large" ELSE "small"]
=============================================================================
