---------------------------- MODULE TaskExecutor ----------------------------
(***************************************************************************)
(* What the engine's thread pool promises, without threads: tasks are      *)
(* accepted into a queue, started in the order of acceptance while at most *)
(* Capacity of them run, and a closing executor refuses new tasks and      *)
(* closes when nothing is queued or running.                               *)
(***************************************************************************)
EXTENDS Naturals, Sequences, FiniteSets

CONSTANTS Task, Capacity

VARIABLES
  queue,     \* accepted and not started
  running,   \* started and not finished
  finished,
  refused,
  phase      \* "open", "closing" or "closed"

execVars == <<queue, running, finished, refused, phase>>

Queued == {queue[i] : i \in DOMAIN queue}
Fresh(t) == t \notin Queued \cup running \cup finished \cup refused

Init ==
  /\ queue = <<>>
  /\ running = {}
  /\ finished = {}
  /\ refused = {}
  /\ phase = "open"

Accept(t) ==
  /\ phase = "open"
  /\ Fresh(t)
  /\ queue' = Append(queue, t)
  /\ UNCHANGED <<running, finished, refused, phase>>

Refuse(t) ==
  /\ phase # "open"
  /\ Fresh(t)
  /\ refused' = refused \cup {t}
  /\ UNCHANGED <<queue, running, finished, phase>>

Start ==
  /\ queue # <<>>
  /\ Cardinality(running) < Capacity
  /\ Head(queue) \notin running
  /\ queue' = Tail(queue)
  /\ running' = running \cup {Head(queue)}
  /\ UNCHANGED <<finished, refused, phase>>

Finish(t) ==
  /\ t \in running
  /\ running' = running \ {t}
  /\ finished' = finished \cup {t}
  /\ UNCHANGED <<queue, refused, phase>>

BeginClose ==
  /\ phase = "open"
  /\ phase' = "closing"
  /\ UNCHANGED <<queue, running, finished, refused>>

Close ==
  /\ phase = "closing"
  /\ queue = <<>>
  /\ running = {}
  /\ phase' = "closed"
  /\ UNCHANGED <<queue, running, finished, refused>>

Next ==
  \/ \E t \in Task : Accept(t) \/ Refuse(t) \/ Finish(t)
  \/ Start
  \/ BeginClose
  \/ Close

Spec == Init /\ [][Next]_execVars
=============================================================================
