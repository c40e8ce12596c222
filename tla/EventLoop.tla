----------------------------- MODULE EventLoop ------------------------------
(***************************************************************************)
(* clia::reactor::EventLoop: one thread that alternates between epoll_wait *)
(* and the functors other threads queue for it.  The loop's own thread and *)
(* any number of caller threads share pending_functors_ (under mutex_),    *)
(* the atomics quit_ and calling_pending_functors_, and the eventfd with   *)
(* which a caller interrupts epoll_wait.                                   *)
(*                                                                         *)
(* A step is a mutex_ critical section, an access to one atomic or one     *)
(* system call.  Channels other than the wakeup channel are the single     *)
(* element "io" of the active list: their handlers matter here only for    *)
(* the calls they make on the loop.                                        *)
(***************************************************************************)
EXTENDS Naturals, Sequences

CONSTANTS
  Loop,         \* the thread whose id is tid_
  Callers,      \* the other threads that hold a pointer to the loop
  MaxFunctors   \* bound: functors queued in one behaviour

ASSUME LoopAssumption ==
  /\ Loop \notin Callers
  /\ MaxFunctors \in Nat

Threads == Callers \cup {Loop}

VARIABLES
  lpc,                       \* where the loop's thread is
  cpc,                       \* where each thread is in a call on the loop
  quit,                      \* quit_
  calling_pending_functors,  \* calling_pending_functors_
  wakeup_fd,                 \* the counter of wakeup_fd_ is not zero
  active_channels,           \* active_channels_ still to be handled
  pending_functors,          \* pending_functors_
  functors,                  \* the local vector of do_pending_functors()
  pushed,                    \* functors queued so far; the n-th is called n
  executed,                  \* history: functors in execution order
  early                      \* history: functors that the loop's thread
                             \* queued while it was not inside loop()

vars == <<lpc, cpc, quit, calling_pending_functors, wakeup_fd,
          active_channels, pending_functors, functors, pushed, executed, early>>

callVars == <<pending_functors, pushed, early>>

(***************************************************************************)
(* Positions of the loop's thread: outside loop() ("created" before the    *)
(* first call, "returned" after one), at the test of quit_, in epoll_wait, *)
(* walking active_channels_, in the body of an I/O handler, about to swap  *)
(* pending_functors_, walking the local vector, in the body of a functor.  *)
(***************************************************************************)
Outside == {"created", "returned"}
LoopPositions ==
  Outside \cup {"check", "poll", "dispatch", "handler", "swap", "next", "functor"}

Init ==
  /\ lpc = "created"
  /\ cpc = [t \in Threads |-> "idle"]
  /\ quit = FALSE
  /\ calling_pending_functors = FALSE
  /\ wakeup_fd = FALSE
  /\ active_channels = {}
  /\ pending_functors = <<>>
  /\ functors = <<>>
  /\ pushed = 0
  /\ executed = <<>>
  /\ early = {}

-----------------------------------------------------------------------------
(***************************************************************************)
(* Calls on the loop.  The loop's own thread makes them from user code:    *)
(* before or after loop(), in a handler, or in a functor.                  *)
(***************************************************************************)
MayCall(t) ==
  /\ cpc[t] = "idle"
  /\ t = Loop => lpc \in Outside \cup {"handler", "functor"}

(***************************************************************************)
(* queue_in_loop(), first half: push_back under mutex_.  run_in_loop() on  *)
(* another thread is this call too; on the loop's thread it runs the       *)
(* functor in place and touches nothing modelled here.                     *)
(***************************************************************************)
QueuePush(t) ==
  /\ MayCall(t)
  /\ pushed < MaxFunctors
  /\ pushed' = pushed + 1
  /\ pending_functors' = Append(pending_functors, pushed + 1)
  /\ early' = IF t = Loop /\ lpc \in Outside THEN early \cup {pushed + 1} ELSE early
  /\ cpc' = [cpc EXCEPT ![t] = "queued"]
  /\ UNCHANGED <<lpc, quit, calling_pending_functors, wakeup_fd,
                 active_channels, functors, executed>>

(***************************************************************************)
(* queue_in_loop(), second half: the test that decides whether the loop    *)
(* has to be woken, and wakeup().                                          *)
(***************************************************************************)
(* Mutant of NeedsWakeup: the second disjunct is forgotten. *)
NeedsWakeupForeignOnly(t) == t # Loop

NeedsWakeup(t) == t # Loop \/ calling_pending_functors

QueueWakeup(t) ==
  /\ cpc[t] = "queued"
  /\ wakeup_fd' = (wakeup_fd \/ NeedsWakeup(t))
  /\ cpc' = [cpc EXCEPT ![t] = "idle"]
  /\ UNCHANGED <<lpc, quit, calling_pending_functors, active_channels, functors, executed>>
  /\ UNCHANGED callVars

(***************************************************************************)
(* quit(): the flag first, then a wakeup unless the caller is the loop.    *)
(***************************************************************************)
QuitSet(t) ==
  /\ MayCall(t)
  /\ quit' = TRUE
  /\ cpc' = IF t = Loop THEN cpc ELSE [cpc EXCEPT ![t] = "quitting"]
  /\ UNCHANGED <<lpc, calling_pending_functors, wakeup_fd, active_channels, functors, executed>>
  /\ UNCHANGED callVars

(* Mutant of QuitWakeup: quit() does not wake the loop. *)
QuitWakeupMissing(t) ==
  /\ cpc[t] = "quitting"
  /\ cpc' = [cpc EXCEPT ![t] = "idle"]
  /\ UNCHANGED <<lpc, quit, calling_pending_functors, wakeup_fd,
                 active_channels, functors, executed>>
  /\ UNCHANGED callVars

QuitWakeup(t) ==
  /\ cpc[t] = "quitting"
  /\ wakeup_fd' = TRUE
  /\ cpc' = [cpc EXCEPT ![t] = "idle"]
  /\ UNCHANGED <<lpc, quit, calling_pending_functors, active_channels, functors, executed>>
  /\ UNCHANGED callVars

-----------------------------------------------------------------------------
(***************************************************************************)
(* loop().  Every step waits for the call that user code on this thread    *)
(* may be in the middle of.                                                *)
(***************************************************************************)
LoopAt(p) == lpc = p /\ cpc[Loop] = "idle"

(* looping_ = true; quit_ = false.  A quit() that came before is erased. *)
LoopEnter ==
  /\ lpc \in Outside
  /\ cpc[Loop] = "idle"
  /\ lpc' = "check"
  /\ quit' = FALSE
  /\ UNCHANGED <<cpc, calling_pending_functors, wakeup_fd, active_channels, functors, executed>>
  /\ UNCHANGED callVars

LoopCheck ==
  /\ LoopAt("check")
  /\ lpc' = IF quit THEN "returned" ELSE "poll"
  /\ active_channels' = {}
  /\ UNCHANGED <<cpc, quit, calling_pending_functors, wakeup_fd, functors, executed>>
  /\ UNCHANGED callVars

(***************************************************************************)
(* epoll_wait returns with some ready channels.  The eventfd is among them *)
(* only when it is readable; it may be missing from a full event array.    *)
(***************************************************************************)
PollReady(ready) ==
  /\ LoopAt("poll")
  /\ ready # {}
  /\ "wakeup" \in ready => wakeup_fd
  /\ active_channels' = ready
  /\ lpc' = "dispatch"
  /\ UNCHANGED <<cpc, quit, calling_pending_functors, wakeup_fd, functors, executed>>
  /\ UNCHANGED callVars

(* Mutant of PollNothing: a poll without events skips the functors. *)
PollNothingContinues ==
  /\ LoopAt("poll")
  /\ active_channels' = {}
  /\ lpc' = "check"
  /\ UNCHANGED <<cpc, quit, calling_pending_functors, wakeup_fd, functors, executed>>
  /\ UNCHANGED callVars

(* epoll_wait returns 0 after kPollTimeMs, or fails (EINTR or any error). *)
PollNothing ==
  /\ LoopAt("poll")
  /\ active_channels' = {}
  /\ lpc' = "dispatch"
  /\ UNCHANGED <<cpc, quit, calling_pending_functors, wakeup_fd, functors, executed>>
  /\ UNCHANGED callVars

(* The wakeup channel's callback: handle_read() empties the eventfd. *)
HandleRead ==
  /\ LoopAt("dispatch")
  /\ "wakeup" \in active_channels
  /\ active_channels' = active_channels \ {"wakeup"}
  /\ wakeup_fd' = FALSE
  /\ UNCHANGED <<lpc, cpc, quit, calling_pending_functors, functors, executed>>
  /\ UNCHANGED callVars

HandleIo ==
  /\ LoopAt("dispatch")
  /\ "io" \in active_channels
  /\ active_channels' = active_channels \ {"io"}
  /\ lpc' = "handler"
  /\ UNCHANGED <<cpc, quit, calling_pending_functors, wakeup_fd, functors, executed>>
  /\ UNCHANGED callVars

HandlerReturn ==
  /\ LoopAt("handler")
  /\ lpc' = "dispatch"
  /\ UNCHANGED <<cpc, quit, calling_pending_functors, wakeup_fd,
                 active_channels, functors, executed>>
  /\ UNCHANGED callVars

(***************************************************************************)
(* do_pending_functors(): the flag, the swap under mutex_, the walk.       *)
(***************************************************************************)
DoPendingBegin ==
  /\ LoopAt("dispatch")
  /\ active_channels = {}
  /\ calling_pending_functors' = TRUE
  /\ lpc' = "swap"
  /\ UNCHANGED <<cpc, quit, wakeup_fd, active_channels, functors, executed>>
  /\ UNCHANGED callVars

SwapPending ==
  /\ LoopAt("swap")
  /\ functors' = pending_functors
  /\ pending_functors' = <<>>
  /\ lpc' = "next"
  /\ UNCHANGED <<cpc, quit, calling_pending_functors, wakeup_fd,
                 active_channels, pushed, executed, early>>

RunFunctor ==
  /\ LoopAt("next")
  /\ functors # <<>>
  /\ executed' = Append(executed, Head(functors))
  /\ functors' = Tail(functors)
  /\ lpc' = "functor"
  /\ UNCHANGED <<cpc, quit, calling_pending_functors, wakeup_fd, active_channels>>
  /\ UNCHANGED callVars

FunctorReturn ==
  /\ LoopAt("functor")
  /\ lpc' = "next"
  /\ UNCHANGED <<cpc, quit, calling_pending_functors, wakeup_fd,
                 active_channels, functors, executed>>
  /\ UNCHANGED callVars

(* Mutant of DoPendingEnd: quit_ cuts the walk short. *)
DoPendingEndOnQuit ==
  /\ LoopAt("next")
  /\ functors = <<>> \/ quit
  /\ functors' = <<>>
  /\ calling_pending_functors' = FALSE
  /\ lpc' = "check"
  /\ UNCHANGED <<cpc, quit, wakeup_fd, active_channels, executed>>
  /\ UNCHANGED callVars

DoPendingEnd ==
  /\ LoopAt("next")
  /\ functors = <<>>
  /\ calling_pending_functors' = FALSE
  /\ lpc' = "check"
  /\ UNCHANGED <<cpc, quit, wakeup_fd, active_channels, functors, executed>>
  /\ UNCHANGED callVars

-----------------------------------------------------------------------------
Call(t) == QueuePush(t) \/ QuitSet(t)

FinishCall(t) == QueueWakeup(t) \/ QuitWakeup(t)

(* Everything the loop's thread does between two calls of user code. *)
LoopStep ==
  \/ LoopCheck
  \/ HandleRead
  \/ HandleIo
  \/ HandlerReturn
  \/ DoPendingBegin
  \/ SwapPending
  \/ RunFunctor
  \/ FunctorReturn
  \/ DoPendingEnd

PollAny == \E ready \in SUBSET {"wakeup", "io"} : PollReady(ready)

Next ==
  \/ LoopEnter
  \/ LoopStep
  \/ PollAny
  \/ PollNothing
  \/ \E t \in Threads : Call(t) \/ FinishCall(t)

Spec == Init /\ [][Next]_vars

(***************************************************************************)
(* Fairness.  A thread that is not blocked goes on: started calls are      *)
(* finished, and the loop's thread leaves handlers and functors, which do  *)
(* not block forever.  epoll_wait returns once the eventfd is readable.    *)
(* Nobody is obliged to make a call, to enter loop() or to produce I/O.    *)
(***************************************************************************)
LiveSpec ==
  /\ Spec
  /\ WF_vars(LoopStep)
  /\ WF_vars(wakeup_fd /\ PollAny)
  /\ \A t \in Threads : WF_vars(FinishCall(t))

-----------------------------------------------------------------------------
(***************************************************************************)
(* The type invariant of the loop's state, in which the flag that          *)
(* queue_in_loop() reads is set exactly while do_pending_functors() runs.  *)
(***************************************************************************)
TypeOK ==
  /\ lpc \in LoopPositions
  /\ cpc \in [Threads -> {"idle", "queued", "quitting"}]
  /\ quit \in BOOLEAN
  /\ calling_pending_functors \in BOOLEAN
  /\ calling_pending_functors <=> lpc \in {"swap", "next", "functor"}
  /\ wakeup_fd \in BOOLEAN
  /\ active_channels \subseteq {"wakeup", "io"}
  /\ pending_functors \in Seq(Nat)
  /\ functors \in Seq(Nat)
  /\ pushed \in 0..MaxFunctors
  /\ executed \in Seq(Nat)
  /\ early \subseteq 1..MaxFunctors

(***************************************************************************)
(* Functors are executed once each, in the order of push_back, whichever   *)
(* threads queue them and however the swap of do_pending_functors() falls  *)
(* between their calls: what was executed, the batch being walked and      *)
(* pending_functors_ are together the sequence 1, 2, ..., pushed.          *)
(***************************************************************************)
QueueOrder ==
  /\ pushed = Len(executed) + Len(functors) + Len(pending_functors)
  /\ \A i \in 1..Len(executed) : executed[i] = i
  /\ \A i \in 1..Len(functors) : functors[i] = Len(executed) + i
  /\ \A i \in 1..Len(pending_functors) :
        pending_functors[i] = Len(executed) + Len(functors) + i

(* Some functor is pending that was queued while loop() was to be woken. *)
WakeablePending ==
  \E i \in 1..Len(pending_functors) : pending_functors[i] \notin early

(***************************************************************************)
(* No wakeup is lost: when the loop's thread is in epoll_wait while a      *)
(* functor is pending, the eventfd is readable or the thread that queued   *)
(* the functor has still to write it.  The functors that the loop's own    *)
(* thread queued outside loop() are the exception: nothing wakes the loop  *)
(* for them.                                                               *)
(***************************************************************************)
NoLostWakeup ==
  lpc = "poll" /\ WakeablePending
    => wakeup_fd \/ \E t \in Callers : cpc[t] = "queued"

(***************************************************************************)
(* No quit is lost once loop() has reset quit_: the loop's thread is in    *)
(* epoll_wait with quit_ set only while the eventfd is readable or the     *)
(* thread that called quit() has still to write it.                        *)
(***************************************************************************)
NoLostQuit ==
  lpc = "poll" /\ quit
    => wakeup_fd \/ \E t \in Callers : cpc[t] = "quitting"

Executed(f) == f <= Len(executed)

(***************************************************************************)
(* A functor queued for a running loop is executed or the loop returns,    *)
(* without any help from the poll timeout.                                 *)
(***************************************************************************)
QueuedIsExecuted ==
  \A f \in 1..MaxFunctors :
    (f <= pushed /\ f \notin early /\ lpc \notin Outside)
      ~> (Executed(f) \/ lpc = "returned")

(* A quit() that a running loop has not erased makes loop() return. *)
QuitReturns == (quit /\ lpc \notin Outside) ~> (lpc = "returned")

(***************************************************************************)
(* If epoll_wait also honours its timeout of kPollTimeMs, even the         *)
(* functors that were queued before loop() are executed, unless the loop   *)
(* is told to quit first.                                                  *)
(***************************************************************************)
EarlyIsExecuted ==
  WF_vars(PollNothing) =>
    \A f \in 1..MaxFunctors :
      (f \in early /\ lpc \notin Outside) ~> (Executed(f) \/ lpc = "returned")

(***************************************************************************)
(* The loop implements the serial executor: functors wait in the batch and *)
(* behind it in pending_functors_.                                         *)
(***************************************************************************)
Executor == INSTANCE SerialExecutor WITH
  submitted <- pushed,
  waiting <- functors \o pending_functors,
  done <- executed

ImplementsExecutor == Executor!Spec
=============================================================================
