-------------------------- MODULE EventLoopProofs ---------------------------
(***************************************************************************)
(* For every set of caller threads and every number of functors: the       *)
(* loop's state is well typed, functors run once and in order, neither a   *)
(* wakeup nor a quit is lost, and the loop implements SerialExecutor.      *)
(***************************************************************************)
EXTENDS EventLoop, SequenceTheorems, TLAPS

(* Zenon proves the steps below, and SMT those that need arithmetic or      *)
(* reason about sequences and records.                                     *)
USE ZenonT(60)

(***************************************************************************)
(* Where the loop's own thread can be in the middle of queue_in_loop(),    *)
(* and where a batch can be unfinished.  Its quit() is a single step.      *)
(***************************************************************************)
PhaseInv ==
  /\ cpc[Loop] # "quitting"
  /\ cpc[Loop] = "queued" => lpc \in Outside \cup {"handler", "functor"}
  /\ functors # <<>> => lpc \in {"next", "functor"}

(***************************************************************************)
(* NoLostWakeup, strengthened to every position from which the loop can    *)
(* reach epoll_wait without passing the swap.  The loop's own thread will  *)
(* write the eventfd only if it is inside a functor.                       *)
(***************************************************************************)
WakeInv ==
  lpc \notin {"dispatch", "handler", "swap"} /\ WakeablePending
    => wakeup_fd \/ \E t \in Threads : cpc[t] = "queued" /\ (t = Loop => lpc = "functor")

IInv == TypeOK /\ PhaseInv /\ QueueOrder /\ WakeInv /\ NoLostQuit

-----------------------------------------------------------------------------
(* The type invariant and the positions of the loop's thread. *)
LEMMA TypeStep == TypeOK /\ PhaseInv /\ [Next]_vars => TypeOK' /\ PhaseInv'
<1> SUFFICES ASSUME TypeOK, PhaseInv, [Next]_vars PROVE TypeOK' /\ PhaseInv'
  OBVIOUS
<1> USE LoopAssumption DEF TypeOK, PhaseInv, LoopPositions, Outside, Threads
<1>1. CASE LoopEnter
  BY <1>1 DEF LoopEnter, callVars
<1>2. CASE LoopCheck
  BY <1>2 DEF LoopCheck, LoopAt, callVars
<1>3. CASE HandleRead
  BY <1>3 DEF HandleRead, LoopAt, callVars
<1>4. CASE HandleIo
  BY <1>4 DEF HandleIo, LoopAt, callVars
<1>5. CASE HandlerReturn
  BY <1>5 DEF HandlerReturn, LoopAt, callVars
<1>6. CASE DoPendingBegin
  BY <1>6 DEF DoPendingBegin, LoopAt, callVars
<1>7. CASE SwapPending
  BY <1>7 DEF SwapPending, LoopAt
<1>8. CASE RunFunctor
  BY <1>8, SMT DEF RunFunctor, LoopAt, callVars
<1>9. CASE FunctorReturn
  BY <1>9 DEF FunctorReturn, LoopAt, callVars
<1>10. CASE DoPendingEnd
  BY <1>10 DEF DoPendingEnd, LoopAt, callVars
<1>11. CASE PollAny
  BY <1>11, SMT DEF PollAny, PollReady, LoopAt, callVars
<1>12. CASE PollNothing
  BY <1>12 DEF PollNothing, LoopAt, callVars
<1>13. ASSUME NEW t \in Threads, QueuePush(t) PROVE TypeOK' /\ PhaseInv'
  BY <1>13, SMT DEF QueuePush, MayCall
<1>14. ASSUME NEW t \in Threads, QuitSet(t) PROVE TypeOK' /\ PhaseInv'
  BY <1>14 DEF QuitSet, MayCall, callVars
<1>15. ASSUME NEW t \in Threads, QueueWakeup(t) PROVE TypeOK' /\ PhaseInv'
  BY <1>15 DEF QueueWakeup, NeedsWakeup, callVars
<1>16. ASSUME NEW t \in Threads, QuitWakeup(t) PROVE TypeOK' /\ PhaseInv'
  BY <1>16 DEF QuitWakeup, callVars
<1>17. CASE UNCHANGED vars
  BY <1>17 DEF vars
<1> QED
  BY <1>1, <1>2, <1>3, <1>4, <1>5, <1>6, <1>7, <1>8, <1>9, <1>10, <1>11, <1>12, <1>13, <1>14,
     <1>15, <1>16, <1>17 DEF Next, LoopStep, Call, FinishCall

(* Only the push, the swap and the start of a functor move functors. *)
LEMMA OrderStep == TypeOK /\ PhaseInv /\ QueueOrder /\ [Next]_vars => QueueOrder'
<1> SUFFICES ASSUME TypeOK, PhaseInv, QueueOrder, [Next]_vars PROVE QueueOrder'
  OBVIOUS
<1>1. ASSUME NEW t \in Threads, QueuePush(t) PROVE QueueOrder'
  <2>1. /\ Len(pending_functors') = Len(pending_functors) + 1
        /\ \A i \in 1..Len(pending_functors) : pending_functors'[i] = pending_functors[i]
        /\ pending_functors'[Len(pending_functors) + 1] = pushed + 1
        /\ Len(pending_functors) \in Nat
    BY <1>1, LoopAssumption, SMT DEF QueuePush, TypeOK
  <2>2. pushed' = pushed + 1 /\ UNCHANGED <<executed, functors>>
    BY <1>1 DEF QueuePush
  <2>3. \A i \in 1..Len(pending_functors') :
           pending_functors'[i] = Len(executed) + Len(functors) + i
    <3>1. \A i \in 1..Len(pending_functors') :
             i \in 1..Len(pending_functors) \/ i = Len(pending_functors) + 1
      BY <2>1, SMT
    <3>2. pushed + 1 = Len(executed) + Len(functors) + (Len(pending_functors) + 1)
      BY SMT DEF QueueOrder, TypeOK
    <3> QED
      BY <2>1, <3>1, <3>2 DEF QueueOrder
  <2> QED
    BY <2>1, <2>2, <2>3, SMT DEF QueueOrder, TypeOK
<1>2. CASE SwapPending
  <2>1. functors = <<>>
    BY <1>2 DEF SwapPending, LoopAt, PhaseInv
  <2> QED
    BY <1>2, <2>1, SMT DEF SwapPending, QueueOrder, TypeOK
<1>3. CASE RunFunctor
  <2>1. /\ functors \in Seq(Nat) /\ executed \in Seq(Nat) /\ functors # <<>>
        /\ functors' = Tail(functors) /\ executed' = Append(executed, Head(functors))
        /\ UNCHANGED <<pushed, pending_functors>>
    BY <1>3 DEF RunFunctor, TypeOK, callVars
  <2>2. /\ Len(executed') = Len(executed) + 1
        /\ Len(functors') = Len(functors) - 1
        /\ Len(executed) \in Nat /\ Len(functors) \in Nat \ {0}
    BY <2>1, SMT
  <2>3. /\ \A i \in 1..Len(executed') :
              executed'[i] = IF i <= Len(executed) THEN executed[i] ELSE functors[1]
        /\ \A i \in 1..Len(functors') : functors'[i] = functors[i + 1]
    BY <2>1, <2>2, SMT
  <2>4. functors[1] = Len(executed) + 1
    BY <2>2, SMT DEF QueueOrder
  <2>5. \A i \in 1..Len(executed') : executed'[i] = i
    BY <2>2, <2>3, <2>4, SMT DEF QueueOrder
  <2>6. \A i \in 1..Len(functors') : functors'[i] = Len(executed') + i
    BY <2>2, <2>3, SMT DEF QueueOrder
  <2>7. Len(executed') + Len(functors') = Len(executed) + Len(functors)
    BY <2>2, SMT
  <2> QED
    BY <2>1, <2>5, <2>6, <2>7 DEF QueueOrder
<1>4. ASSUME UNCHANGED <<executed, functors, pending_functors, pushed>>
      PROVE QueueOrder'
  BY <1>4 DEF QueueOrder
<1> QED
  BY <1>1, <1>2, <1>3, <1>4
  DEF Next, LoopStep, Call, FinishCall, vars, callVars, LoopEnter, LoopCheck,
      PollAny, PollReady, PollNothing, HandleRead, HandleIo, HandlerReturn,
      DoPendingBegin, FunctorReturn, DoPendingEnd, QuitSet, QueueWakeup, QuitWakeup

-----------------------------------------------------------------------------
(* The wakeup invariant is preserved by every step. *)
LEMMA WakeStep ==
  TypeOK /\ PhaseInv /\ WakeInv /\ [Next]_vars => WakeInv'
<1> SUFFICES ASSUME TypeOK, PhaseInv, WakeInv, [Next]_vars PROVE WakeInv'
  OBVIOUS
<1> USE LoopAssumption DEF TypeOK, PhaseInv, Threads, Outside
(* A step that leaves the queue and the callers alone, and does not enter
   one of the guarded positions from an unguarded one. *)
<1>1. ASSUME UNCHANGED <<pending_functors, early, cpc, wakeup_fd>>,
             lpc' \notin {"dispatch", "handler", "swap"}
                => lpc \notin {"dispatch", "handler", "swap"},
             cpc[Loop] = "idle"
      PROVE  WakeInv'
  BY <1>1 DEF WakeInv, WakeablePending
<1>2. CASE SwapPending
  BY <1>2, SMT DEF SwapPending, WakeInv, WakeablePending
<1>3. CASE HandleRead
  BY <1>3 DEF HandleRead, LoopAt, WakeInv
<1>4. ASSUME NEW t \in Threads, QueuePush(t) PROVE WakeInv'
  <2>1. CASE t = Loop /\ lpc \in Outside
    <3>1. WakeablePending' => WakeablePending
      BY <1>4, <2>1, SMT DEF QueuePush, WakeablePending
    <3>2. \A u \in Threads : cpc[u] = "queued" => cpc'[u] = "queued"
      BY <1>4 DEF QueuePush
    <3> QED
      BY <1>4, <2>1, <3>1, <3>2 DEF QueuePush, WakeInv
  <2>2. CASE t # Loop
    BY <1>4, <2>2 DEF QueuePush, WakeInv
  <2>3. CASE t = Loop /\ lpc \in {"handler", "functor"}
    BY <1>4, <2>3 DEF QueuePush, WakeInv
  <2> QED
    BY <1>4, <2>1, <2>2, <2>3 DEF QueuePush, MayCall
<1>5. ASSUME NEW t \in Threads, QueueWakeup(t) PROVE WakeInv'
  <2>1. CASE NeedsWakeup(t)
    BY <1>5, <2>1 DEF QueueWakeup, WakeInv
  <2>2. CASE ~NeedsWakeup(t)
    BY <1>5, <2>2 DEF QueueWakeup, NeedsWakeup, WakeInv, WakeablePending, callVars
  <2> QED
    BY <2>1, <2>2
<1>6. ASSUME NEW t \in Threads, QuitSet(t) PROVE WakeInv'
  BY <1>6 DEF QuitSet, MayCall, WakeInv, WakeablePending, callVars
<1>7. ASSUME NEW t \in Threads, QuitWakeup(t) PROVE WakeInv'
  BY <1>7 DEF QuitWakeup, WakeInv
<1>8. CASE UNCHANGED vars
  BY <1>8 DEF vars, WakeInv, WakeablePending
<1> QED
  BY <1>1, <1>2, <1>3, <1>4, <1>5, <1>6, <1>7, <1>8
  DEF Next, LoopStep, Call, FinishCall, callVars, LoopAt, LoopEnter, LoopCheck,
      PollAny, PollReady, PollNothing, HandleIo, HandlerReturn,
      DoPendingBegin, RunFunctor, FunctorReturn, DoPendingEnd

(* quit_ is clear when epoll_wait is entered, and whoever sets it wakes. *)
LEMMA QuitStep == TypeOK /\ PhaseInv /\ NoLostQuit /\ [Next]_vars => NoLostQuit'
<1> SUFFICES ASSUME TypeOK, PhaseInv, NoLostQuit, [Next]_vars PROVE NoLostQuit'
  OBVIOUS
<1> USE LoopAssumption DEF TypeOK, PhaseInv, Threads, Outside
<1>1. CASE LoopCheck
  BY <1>1 DEF LoopCheck, NoLostQuit
<1>2. ASSUME lpc' # "poll" PROVE NoLostQuit'
  BY <1>2 DEF NoLostQuit
<1>3. ASSUME NEW t \in Threads, QueuePush(t) PROVE NoLostQuit'
  BY <1>3 DEF QueuePush, MayCall, NoLostQuit
<1>4. ASSUME NEW t \in Threads, QueueWakeup(t) PROVE NoLostQuit'
  BY <1>4 DEF QueueWakeup, NoLostQuit
<1>5. ASSUME NEW t \in Threads, QuitSet(t) PROVE NoLostQuit'
  BY <1>5 DEF QuitSet, MayCall, NoLostQuit
<1>6. ASSUME NEW t \in Threads, QuitWakeup(t) PROVE NoLostQuit'
  BY <1>6 DEF QuitWakeup, NoLostQuit
<1>7. CASE UNCHANGED vars
  BY <1>7 DEF vars, NoLostQuit
<1> QED
  BY <1>1, <1>2, <1>3, <1>4, <1>5, <1>6, <1>7
  DEF Next, LoopStep, Call, FinishCall, LoopAt, LoopEnter,
      PollAny, PollReady, PollNothing, HandleRead, HandleIo, HandlerReturn,
      DoPendingBegin, SwapPending, RunFunctor, FunctorReturn, DoPendingEnd

(* The constructor of the loop establishes the invariant. *)
LEMMA InitIInv == Init => IInv
<1> SUFFICES ASSUME Init PROVE IInv
  OBVIOUS
<1>1. TypeOK /\ PhaseInv
  <2>1. cpc \in [Threads -> {"idle", "queued", "quitting"}] /\ cpc[Loop] = "idle"
    BY DEF Init, Threads
  <2>2. <<>> \in Seq(Nat) /\ 0 \in 0..MaxFunctors
    BY LoopAssumption, SMT
  <2> QED
    BY <2>1, <2>2 DEF Init, TypeOK, PhaseInv, LoopPositions, Outside
<1>2. QueueOrder
  <2>1. pushed = 0 /\ executed = <<>> /\ functors = <<>> /\ pending_functors = <<>>
    BY DEF Init
  <2>2. Len(executed) = 0 /\ Len(functors) = 0 /\ Len(pending_functors) = 0
    BY <2>1
  <2> QED
    BY <2>1, <2>2, SMT DEF QueueOrder
<1>3. WakeInv /\ NoLostQuit
  BY SMT DEF Init, WakeInv, NoLostQuit, WakeablePending
<1> QED
  BY <1>1, <1>2, <1>3 DEF IInv

(* The inductive invariant holds in every reachable state. *)
THEOREM Inductive == Spec => []IInv
<1>1. Init => IInv
  BY InitIInv
<1>2. IInv /\ [Next]_vars => IInv'
  BY TypeStep, OrderStep, WakeStep, QuitStep DEF IInv
<1> QED
  BY <1>1, <1>2, PTL DEF Spec

-----------------------------------------------------------------------------
(* The loop's state is well typed, and calling_pending_functors_ is set    *)
(* exactly while do_pending_functors() runs.                               *)
THEOREM TypeCorrect == Spec => []TypeOK
  BY Inductive, PTL DEF IInv

(* Functors are executed once each and in the order of push_back.          *)
THEOREM FunctorOrder == Spec => []QueueOrder
  BY Inductive, PTL DEF IInv

(* The loop never sleeps in epoll_wait on a functor that somebody queued   *)
(* for it, unless the eventfd is, or is about to become, readable.         *)
THEOREM WakeupNotLost == Spec => []NoLostWakeup
<1>1. IInv => NoLostWakeup
  BY LoopAssumption DEF IInv, TypeOK, PhaseInv, WakeInv, NoLostWakeup, Threads, Outside
<1> QED
  BY <1>1, Inductive, PTL

(* The same for quit_.                                                     *)
THEOREM QuitNotLost == Spec => []NoLostQuit
  BY Inductive, PTL DEF IInv

-----------------------------------------------------------------------------
(* Appending behind a concatenation appends to its second part. *)
LEMMA AppendToConcat ==
  ASSUME NEW S, NEW s \in Seq(S), NEW t \in Seq(S), NEW e \in S
  PROVE  s \o Append(t, e) = Append(s \o t, e)
<1>1. <<e>> \in Seq(S)
  BY SMT
<1>2. s \o t \in Seq(S)
  BY ConcatProperties
<1> QED
  BY <1>1, <1>2, AppendIsConcat, ConcatAssociative, SMT

(* The head of a concatenation is taken from its first part. *)
LEMMA HeadTailOfConcat ==
  ASSUME NEW S, NEW s \in Seq(S), NEW t \in Seq(S), s # <<>>
  PROVE  s \o t # <<>> /\ Head(s \o t) = Head(s) /\ Tail(s \o t) = Tail(s) \o t
<1>1. s \o t \in Seq(S) /\ s \o t # <<>> /\ Tail(s) \in Seq(S) /\ Len(s) \in Nat \ {0}
  BY ConcatProperties, HeadTailProperties, SMT
<1>2. Head(s \o t) = Head(s)
  BY <1>1, ConcatProperties, SMT
<1>3. Tail(s \o t) \in Seq(S) /\ Tail(s) \o t \in Seq(S)
  BY <1>1, ConcatProperties, HeadTailProperties
<1>4. Len(Tail(s \o t)) = Len(Tail(s) \o t)
  BY <1>1, <1>3, ConcatProperties, HeadTailProperties, SMT
<1>5. \A i \in 1..Len(Tail(s \o t)) : Tail(s \o t)[i] = (Tail(s) \o t)[i]
  BY <1>1, <1>3, <1>4, ConcatProperties, HeadTailProperties, SMT
<1> QED
  BY <1>1, <1>2, <1>3, <1>4, <1>5, SeqEqual

(***************************************************************************)
(* The loop implements the serial executor: a push is Submit, the start of *)
(* a functor is Execute, and the swap and everything else are stutters.    *)
(***************************************************************************)
THEOREM Refinement == Spec => ImplementsExecutor
<1>1. Init => Executor!Init
  BY SMT DEF Init, Executor!Init
<1>2. IInv /\ [Next]_vars => [Executor!Next]_(Executor!xvars)
  <2> SUFFICES ASSUME IInv, [Next]_vars PROVE [Executor!Next]_(Executor!xvars)
    OBVIOUS
  <2> USE DEF IInv, TypeOK
  <2>1. ASSUME NEW t \in Threads, QueuePush(t) PROVE Executor!Submit
    <3>1. functors \o Append(pending_functors, pushed + 1)
            = Append(functors \o pending_functors, pushed + 1)
      <4>1. pushed + 1 \in Nat
        BY LoopAssumption, SMT
      <4> QED
        BY <4>1, AppendToConcat, SMT
    <3> QED
      BY <2>1, <3>1 DEF QueuePush, Executor!Submit
  <2>2. CASE SwapPending
    <3>1. functors = <<>>
      BY <2>2 DEF SwapPending, LoopAt, PhaseInv
    <3>2. UNCHANGED (functors \o pending_functors)
      BY <2>2, <3>1, ConcatEmptySeq DEF SwapPending
    <3> QED
      BY <2>2, <3>2 DEF SwapPending, Executor!xvars
  <2>3. CASE RunFunctor
    <3>1. /\ functors # <<>>
          /\ executed' = Append(executed, Head(functors))
          /\ functors' = Tail(functors)
          /\ UNCHANGED <<pending_functors, pushed>>
      BY <2>3 DEF RunFunctor, callVars
    <3>2. /\ functors \o pending_functors # <<>>
          /\ Head(functors \o pending_functors) = Head(functors)
          /\ Tail(functors \o pending_functors) = Tail(functors) \o pending_functors
      <4>1. functors \in Seq(Nat) /\ pending_functors \in Seq(Nat)
        OBVIOUS
      <4> QED
        BY ONLY <3>1, <4>1, HeadTailOfConcat, ZenonT(60)
    <3>3. Executor!Execute
      BY <3>1, <3>2 DEF Executor!Execute
    <3> QED
      BY <3>3 DEF Executor!Next
  <2>4. ASSUME UNCHANGED <<executed, functors, pending_functors, pushed>>
        PROVE  UNCHANGED Executor!xvars
    BY <2>4 DEF Executor!xvars
  <2>5. \/ \E t \in Threads : QueuePush(t)
        \/ SwapPending
        \/ RunFunctor
        \/ UNCHANGED <<executed, functors, pending_functors, pushed>>
    BY DEF Next, LoopStep, Call, FinishCall, vars, callVars, LoopEnter, LoopCheck,
        PollAny, PollReady, PollNothing, HandleRead, HandleIo, HandlerReturn,
        DoPendingBegin, FunctorReturn, DoPendingEnd, QuitSet, QueueWakeup,
        QuitWakeup
  <2> QED
    BY <2>1, <2>2, <2>3, <2>4, <2>5 DEF Executor!Next
<1> QED
  BY <1>1, <1>2, Inductive, PTL DEF Spec, ImplementsExecutor, Executor!Spec
=============================================================================
