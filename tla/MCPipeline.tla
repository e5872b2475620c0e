----------------------------- MODULE MCPipeline -----------------------------
(* The graphs on which TLC runs Pipeline.                                    *)
EXTENDS Pipeline, TLC

CONSTANTS a, b, c, d, p, q, s, t

Plain == [n \in Node |-> {}]
Stream == {"SIGFRAME", "SIGGETOUTPUT", "SIGRELEASEINPUT", "SIGRELEASEOUTPUT",
           "FOLLOWINPUT"}
Graph(links, mask) == [links |-> links, mask |-> mask]

(* Two sources processed in parallel and joined.                             *)
Join == Graph({<<p, a>>, <<q, b>>, <<a, c>>, <<b, c>>, <<c, s>>}, Plain)
(* A frame-by-frame merge with two sinks behind it.                          *)
Merge == Graph({<<p, a>>, <<a, b>>, <<b, s>>, <<b, t>>},
               a :> {"SIGFRAME"} @@ Plain)
(* An in-place node, whose input images go on to its child.                  *)
InPlace == Graph({<<p, a>>, <<a, b>>, <<b, s>>}, a :> {"INPLACE"} @@ Plain)
(* A virtual node that hands each frame to two children.                     *)
Fork == Graph({<<p, a>>, <<a, b>>, <<a, c>>, <<b, c>>, <<c, s>>},
              a :> {"VIRTUAL", "SIGFRAME"} @@ Plain)
(* Not a legal graph: a frame-by-frame node with two inputs.                 *)
Illegal == Graph({<<p, a>>, <<q, a>>, <<a, s>>}, a :> {"SIGFRAME"} @@ Plain)
(* A frame-by-frame node that feeds another one as it goes.                  *)
Chain == Graph({<<p, a>>, <<a, b>>, <<b, s>>},
               a :> Stream @@ b :> {"SIGFRAME"} @@ Plain)
(* A graph with a node that the session does not have.                       *)
Absent == Graph({<<p, a>>, <<a, d>>, <<d, s>>}, Plain)
(* A virtual node that takes whole sets.                                     *)
Virtual == Graph({<<p, a>>, <<a, b>>, <<b, s>>}, a :> {"VIRTUAL"} @@ Plain)
(* A node that follows its input with two outputs: it gets none.             *)
Dry == Graph({<<p, a>>, <<a, s>>, <<a, t>>}, a :> {"FOLLOWINPUT"} @@ Plain)
Barriers == {Join, Merge, InPlace, Illegal}
Streams == {Chain}
Others == {Chain, Fork, Virtual, Absent, Dry}

(* The graphs that the theorems about the flow of images speak of.           *)
ASSUME GraphsOfTheTheorems ==
  \A g \in {Join, Merge, InPlace, Fork, Illegal, Chain} :
    Flows(g) /\ PassesWholeSets(g) /\ Completes(g)

(* quickFinish calls; a run need not make all of them.                       *)
AnyFlush == {<<"Expediting", "ForcedFlush">>, <<"ForcedFlush", "Expediting">>}
Forced == {<<"ForcedFlush">>}
Expedite == {<<"Expediting">>}
=============================================================================
