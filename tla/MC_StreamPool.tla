---------------------------- MODULE MC_StreamPool ----------------------------
(* One request thread and the keep-alive thread: two slots. *)
EXTENDS StreamPool

CONSTANTS w1

MC_Workers == {w1}
=============================================================================
