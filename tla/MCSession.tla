----------------------------- MODULE MCSession -----------------------------
(* Two requests of one name, a burst and a single frame, and one of another *)
(* name; the last one lacks the tag.                                        *)
EXTENDS Session
MCRequests == 1..3
MCName == <<<<1>>, <<1>>, <<2>>>>
MCTotal == <<2, 1, 0>>
MCFrames == <<2, 1, 1>>
=============================================================================
