---------------------------- MODULE MCEventLoop -----------------------------
(* EventLoop for TLC: two caller threads beside the loop's own. *)
EXTENDS EventLoop

CONSTANTS c1, c2

MCCallers == {c1, c2}
=============================================================================
