------------------------------- MODULE Stores -------------------------------
(***************************************************************************)
(* Three that keep what passes through them, side by side: Buffer, with    *)
(* the names of NetBuffer, BoundedBlockingQueue, and Event, which keeps a  *)
(* log line until it is whole.  They do not interact.                      *)
(***************************************************************************)
EXTENDS NetBuffer

CONSTANTS
  Threads, Capacity, MaxPuts,
  Writers, Nm, MinConvert, Places, Texts, Digits, Levels, NoLogger, Times, MaxPieces

(* convert() asks for more room than the longest integer takes. *)
ASSUME EventAssumption ==
  /\ Nm \in Nat /\ MinConvert \in Nat /\ Times \subseteq Nat
  /\ Places \subseteq Nat /\ Texts \subseteq Nat
  /\ 1 < MinConvert /\ Digits \subseteq 1..(MinConvert - 1)

VARIABLES
  ring, queue_pc, puts, takes, taken, queue_failed,
  default_logger, event_now, cache, event, event_pc, broken

queue_vars == <<ring, queue_pc, puts, takes, taken, queue_failed>>
event_vars == <<default_logger, event_now, cache, event, event_pc, broken>>

Q == INSTANCE BlockingQueue WITH failed <- queue_failed, pc <- queue_pc
E == INSTANCE LogEvent WITH now <- event_now, pc <- event_pc

(* BoundedBlockingQueue: take() returns the values in the order of put(). *)
QueueFifo == Q!QueueFifo

(* Event: a line handed to log() is complete, but for integers at its end. *)
LineWhole == E!LineWhole

(* Event: streaming an integer never fails an assert. *)
IntegersFit == E!IntegersFit

(* Event: a line shows the time of its construction. *)
StampIsCurrent == E!StampIsCurrent
=============================================================================
