--------------------------- MODULE MCBufferQueue ---------------------------
(* Two node tasks, the timer and a request thread. *)
EXTENDS BufferQueue
CONSTANTS yuv, raw, timer, request
MCUsers == 1..2
=============================================================================
