--------------------------- MODULE BlockingQueue ----------------------------
(***************************************************************************)
(* clia::container::BoundedBlockingQueue and the CircularBuffer under it,  *)
(* used by any number of threads.                                          *)
(*                                                                         *)
(* The values put in are numbered in the order of their push_back(), so    *)
(* that the slots show where each came from.  The critical sections of     *)
(* put() and take() are single steps; the notification of put() comes      *)
(* after the mutex is released and is a step of its own.  A wait may end   *)
(* without a notification.                                                 *)
(***************************************************************************)
EXTENDS Naturals, FiniteSets

CONSTANTS
  Threads,    \* threads that call put() and take()
  Capacity,   \* the capacity given to the constructor
  MaxPuts     \* bound: values put in during one behaviour

VARIABLES
  ring,     \* buffer_: its slots, start_, end_ and count_
  pc,       \* where each thread is
  puts,     \* values put in so far
  takes,    \* values taken so far
  taken,    \* the value that the latest take() returned
  failed    \* the assert that failed

vars == <<ring, pc, puts, takes, taken, failed>>

Init ==
  /\ ring = [slots |-> [i \in 0..(Capacity - 1) |-> 0], start |-> 0, end |-> 0, count |-> 0]
  /\ pc = [t \in Threads |-> "idle"]
  /\ puts = 0 /\ takes = 0 /\ taken = 0
  /\ failed = "none"

-----------------------------------------------------------------------------
(* Mutant of Wrap: an index runs one past the last slot. *)
WrapLate(i) == IF i = Capacity + 1 THEN 0 ELSE i

(* An index that has reached capacity() starts again at the first slot. *)
Wrap(i) == IF i = Capacity THEN 0 ELSE i

Full(r) == r.count = Capacity
Empty(r) == r.count = 0

PushBack(r, v) ==
  [slots |-> [r.slots EXCEPT ![r.end] = v],
   start |-> r.start, end |-> Wrap(r.end + 1), count |-> r.count + 1]

Front(r) == r.slots[r.start]

PopFront(r) ==
  [slots |-> r.slots, start |-> Wrap(r.start + 1), end |-> r.end, count |-> r.count - 1]

-----------------------------------------------------------------------------
Goes(t, from, to) == pc[t] = from /\ pc' = [pc EXCEPT ![t] = to]

Putting == {t \in Threads : pc[t] \in {"put", "not_full"}}

(* A thread calls put(), or take(). *)
Call(t) ==
  /\ failed = "none"
  /\ \/ Goes(t, "idle", "put") /\ puts + Cardinality(Putting) < MaxPuts
     \/ Goes(t, "idle", "take")
  /\ UNCHANGED <<ring, puts, takes, taken, failed>>

(* put(), with the mutex: wait, or push_back(). *)
PutWait(t) ==
  /\ failed = "none"
  /\ Full(ring)
  /\ Goes(t, "put", "not_full")
  /\ UNCHANGED <<ring, puts, takes, taken, failed>>

PutPush(t) ==
  /\ failed = "none"
  /\ ~Full(ring)
  /\ Goes(t, "put", "notify")
  /\ ring' = PushBack(ring, puts + 1)
  /\ puts' = puts + 1
  /\ UNCHANGED <<takes, taken, failed>>

(* ... and not_empty_.notify_one() without it. *)
PutNotify(t) ==
  /\ failed = "none"
  /\ pc[t] = "notify"
  /\ \/ \E w \in Threads : /\ pc[w] = "not_empty"
                           /\ pc' = [pc EXCEPT ![t] = "idle", ![w] = "take"]
     \/ /\ \A w \in Threads : pc[w] # "not_empty"
        /\ pc' = [pc EXCEPT ![t] = "idle"]
  /\ UNCHANGED <<ring, puts, takes, taken, failed>>

(* take() waits on not_empty_ while the buffer is full. *)
TakeWait(t) ==
  /\ failed = "none"
  /\ Full(ring)
  /\ Goes(t, "take", "not_empty")
  /\ UNCHANGED <<ring, puts, takes, taken, failed>>

(* Otherwise front() and pop_front(), which assert that there is a value, *)
(* and not_full_.notify_one().                                             *)
TakePop(t) ==
  /\ failed = "none"
  /\ ~Full(ring) /\ ~Empty(ring)
  /\ pc[t] = "take"
  /\ \/ \E w \in Threads : /\ pc[w] = "not_full"
                           /\ pc' = [pc EXCEPT ![t] = "idle", ![w] = "put"]
     \/ /\ \A w \in Threads : pc[w] # "not_full"
        /\ pc' = [pc EXCEPT ![t] = "idle"]
  /\ ring' = PopFront(ring)
  /\ taken' = Front(ring)
  /\ takes' = takes + 1
  /\ UNCHANGED <<puts, failed>>

TakeEmpty(t) ==
  /\ failed = "none"
  /\ ~Full(ring) /\ Empty(ring)
  /\ pc[t] = "take"
  /\ failed' = "front"
  /\ UNCHANGED <<ring, pc, puts, takes, taken>>

SpuriousWake(t) ==
  /\ failed = "none"
  /\ Goes(t, "not_full", "put") \/ Goes(t, "not_empty", "take")
  /\ UNCHANGED <<ring, puts, takes, taken, failed>>

(* An assert has ended the program. *)
Terminated ==
  /\ failed # "none"
  /\ UNCHANGED vars

Step(t) ==
  \/ Call(t)
  \/ PutWait(t) \/ PutPush(t) \/ PutNotify(t)
  \/ TakeWait(t) \/ TakePop(t) \/ TakeEmpty(t)
  \/ SpuriousWake(t)

Next == (\E t \in Threads : Step(t)) \/ Terminated

Spec == Init /\ [][Next]_vars

-----------------------------------------------------------------------------
Holds(r) ==
  \A i \in 0..(Capacity - 1) :
    i < r.count =>
      LET at == IF r.start + i < Capacity THEN r.start + i ELSE r.start + i - Capacity
      IN r.slots[at] = takes + 1 + i

(***************************************************************************)
(* take() returns the values in the order of put(), each once, whichever   *)
(* threads call: the value that the latest take() returned is the one due, *)
(* and from start_ on, around the end of the array, the slots hold what    *)
(* was put in and not yet taken; push_back() never overwrites one of these.*)
(***************************************************************************)
QueueFifo ==
  /\ taken = takes
  /\ puts = takes + ring.count
  /\ ring.count <= Capacity
  /\ Holds(ring)

(* take() calls front() only when there is a value, as front() asserts.    *)
TakeAssertHolds == failed # "front"
=============================================================================
