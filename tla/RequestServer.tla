--------------------------- MODULE RequestServer ---------------------------
(***************************************************************************)
(* What a node of the engine promises to the pipelines that enqueue        *)
(* themselves at it: every request is served once, and a node that is not  *)
(* concurrent serves one request at a time.                                *)
(***************************************************************************)
EXTENDS Naturals, FiniteSets

CONSTANTS Request, Parallel

VARIABLES waiting, busy, served

serverVars == <<waiting, busy, served>>

Init == waiting = {} /\ busy = {} /\ served = {}

Submit(r) ==
  /\ r \notin waiting \cup busy \cup served
  /\ waiting' = waiting \cup {r}
  /\ UNCHANGED <<busy, served>>

Serve(r) ==
  /\ r \in waiting
  /\ Parallel \/ busy = {}
  /\ waiting' = waiting \ {r}
  /\ busy' = busy \cup {r}
  /\ UNCHANGED served

Complete(r) ==
  /\ r \in busy
  /\ busy' = busy \ {r}
  /\ served' = served \cup {r}
  /\ UNCHANGED waiting

Next == \E r \in Request : Submit(r) \/ Serve(r) \/ Complete(r)

Spec == Init /\ [][Next]_serverVars
=============================================================================
