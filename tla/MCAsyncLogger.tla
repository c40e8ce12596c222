--------------------------- MODULE MCAsyncLogger ----------------------------
(***************************************************************************)
(* AsyncLogger for TLC.  A buffer of three bytes holds two messages of one *)
(* byte or one of two: avail() must exceed the length.                     *)
(***************************************************************************)
EXTENDS AsyncLogger

AllLens == 0..(Capacity + 1)
=============================================================================
