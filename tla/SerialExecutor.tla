--------------------------- MODULE SerialExecutor ---------------------------
(***************************************************************************)
(* What an EventLoop promises to the code that hands it functors: the      *)
(* functors are executed one at a time, each once, in the order in which   *)
(* they were queued.  Nothing is said here of threads, of the eventfd or   *)
(* of batches; module EventLoop shows that the code implements this.       *)
(***************************************************************************)
EXTENDS Naturals, Sequences

CONSTANT MaxFunctors

VARIABLES
  submitted,  \* number of functors queued so far; functor n is the n-th
  waiting,    \* queued and not yet executed, oldest first
  done        \* executed, in execution order

xvars == <<submitted, waiting, done>>

Init ==
  /\ submitted = 0
  /\ waiting = <<>>
  /\ done = <<>>

Submit ==
  /\ submitted < MaxFunctors
  /\ submitted' = submitted + 1
  /\ waiting' = Append(waiting, submitted + 1)
  /\ UNCHANGED done

Execute ==
  /\ waiting # <<>>
  /\ done' = Append(done, Head(waiting))
  /\ waiting' = Tail(waiting)
  /\ UNCHANGED submitted

Next == Submit \/ Execute

Spec == Init /\ [][Next]_xvars
=============================================================================
