----------------------------- MODULE MCMiaNode -----------------------------
EXTENDS MiaNode, TLC

CONSTANTS r1, r2, r3

(* Pipelines reach a node in any order, so one ranking stands for FIFO and   *)
(* for LIFO priorities.                                                      *)
Ranking == r1 :> 3 @@ r2 :> 2 @@ r3 :> 1

(* The camera reuses a name (or both have none).                             *)
Names == r1 :> "a" @@ r2 :> "a" @@ r3 :> "b"
=============================================================================
