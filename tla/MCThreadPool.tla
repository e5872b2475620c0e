---------------------------- MODULE MCThreadPool ----------------------------
(* The instance of ThreadPool for TLC. *)
EXTENDS ThreadPool, TLC

CONSTANTS t1, t2, t3, t4

(* A pipeline task that waits for the task of its node, and other tasks.     *)
Nested == t1 :> {t2} @@ [t \in Task |-> {}]
=============================================================================
