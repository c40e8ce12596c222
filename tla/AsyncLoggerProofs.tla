------------------------- MODULE AsyncLoggerProofs --------------------------
(***************************************************************************)
(* For every capacity, threshold and set of message lengths: the asserts   *)
(* of sync_thread() hold, the thread never sleeps on a full buffer, and it *)
(* ends with nothing left behind; and messages reach the appender in       *)
(* order, none lost but those of an announced cut.                         *)
(***************************************************************************)
EXTENDS AsyncLogger, TLAPS

(* Zenon proves the steps below, and SMT those that need arithmetic or      *)
(* reason about sequences and records.                                     *)
USE ZenonT(60)

(***************************************************************************)
(* Who owns the buffers.  log() takes next_buffer_ away only together with *)
(* queueing a buffer, so a batch that must give back two has two; and the  *)
(* cut of an overlong batch leaves two.                                    *)
(***************************************************************************)
PtrInv ==
  failed = "none" =>
    /\ next_buffer \in {Null, Empty}
    /\ next_buffer = Null => buffers # <<>>
    /\ spc \in {"check", "lock", "waiting", "woken", "flush", "exited"} =>
         new_buffer1 = Empty /\ new_buffer2 = Empty /\ write_buffers = <<>>
    /\ spc \in {"drop", "append"} =>
         /\ new_buffer1 = Null /\ new_buffer2 \in {Null, Empty}
         /\ Len(write_buffers) >= 1
         /\ new_buffer2 = Null => Len(write_buffers) >= 2
    /\ spc = "refill2" =>
         /\ new_buffer1 = Empty /\ new_buffer2 \in {Null, Empty}
         /\ new_buffer2 = Null => Len(write_buffers) >= 1
    /\ spc = "clear" => new_buffer1 = Empty /\ new_buffer2 = Empty

(***************************************************************************)
(* Why the condition of the loop is enough: a full buffer is queued only   *)
(* when something is put in the next one, so an empty current_buffer_      *)
(* means that there is nothing anywhere.                                   *)
(***************************************************************************)
ExitInv ==
  failed = "none" =>
    /\ buffers # <<>> => current_buffer.size # 0
    /\ current_buffer.size = 0 => current_buffer.msgs = <<>>
    /\ spc \in {"flush", "exited"} => ~running /\ current_buffer.size = 0
    /\ spc = "exited" => flushed = Len(out)

IInv ==
  /\ TypeOK
  /\ PtrInv
  /\ ExitInv
  /\ SyncAssertsHold
  /\ NoSleepOnFullBuffer
  /\ spc = "exited" => failed = "none"

-----------------------------------------------------------------------------
(* A reset FixedBuffer is a buffer, and not a null pointer. *)
LEMMA EmptyIsBuffer == Empty \in Buffer /\ Empty # Null /\ Empty.size = 0 /\ Empty.msgs = <<>>
<1>1. <<>> \in Seq(Nat) /\ 0 \in 0..Capacity
  BY LoggerAssumption, SMT
<1>2. Empty \in Buffer /\ Empty.size = 0 /\ Empty.msgs = <<>>
  BY <1>1 DEF Empty, Buffer
<1> QED
  BY <1>2, LoggerAssumption

(* append() of a message that fits yields a buffer, which is not empty. *)
LEMMA AppendedIsBuffer ==
  ASSUME NEW b \in Buffer, NEW n \in Nat, NEW len \in 1..Capacity, len < Avail(b)
  PROVE  Appended(b, n, len) \in Buffer /\ Appended(b, n, len).size # 0
<1>1. b.msgs \in Seq(Nat) /\ b.size \in 0..Capacity
  BY DEF Buffer
<1>2. b.size + len \in 0..Capacity /\ b.size + len # 0
  BY <1>1, LoggerAssumption, SMT DEF Avail
<1>3. Append(b.msgs, n) \in Seq(Nat)
  BY <1>1, SMT
<1> QED
  BY <1>2, <1>3 DEF Appended, Buffer

(* What pop_back() leaves of a batch is a shorter batch. *)
LEMMA PopBackProperties ==
  ASSUME NEW S, NEW s \in Seq(S), s # <<>>
  PROVE  PopBack(s) \in Seq(S) /\ Len(PopBack(s)) = Len(s) - 1
<1>1. Len(s) \in Nat \ {0} /\ \A i \in 1..(Len(s) - 1) : s[i] \in S
  BY SMT
<1>2. /\ PopBack(s) \in Seq(S)
      /\ Len(PopBack(s)) = IF 1 <= Len(s) - 1 THEN (Len(s) - 1) - 1 + 1 ELSE 0
  BY <1>1, SMT DEF PopBack
<1>3. \A n \in Nat \ {0} : (IF 1 <= n - 1 THEN (n - 1) - 1 + 1 ELSE 0) = n - 1
  BY SMT
<1> QED
  BY <1>1, <1>2, <1>3

(* The constructor of the logger establishes the invariant. *)
LEMMA InitIInv == Init => IInv
<1> SUFFICES ASSUME Init PROVE IInv
  OBVIOUS
<1>1. TypeOK
  <2>1. <<>> \in Seq(Buffer) /\ <<>> \in Seq(Nat) /\ 0 \in 0..MaxMessages
    BY LoggerAssumption, SMT
  <2> QED
    BY <2>1, EmptyIsBuffer DEF Init, TypeOK, BufferPtr
<1> QED
  BY <1>1, EmptyIsBuffer
  DEF Init, IInv, PtrInv, ExitInv, SyncAssertsHold, NoSleepOnFullBuffer

(* A log() call preserves the invariant. *)
LEMMA LogStep ==
  ASSUME IInv, NEW len \in Lens, LogAppend(len) \/ LogRotate(len)
  PROVE  IInv'
<1> USE LoggerAssumption DEF IInv
<1>1. len \in 1..Capacity /\ accepted + 1 \in 0..MaxMessages /\ accepted + 1 \in Nat
  BY SMT DEF LogAppend, LogRotate, LogAccepts, TypeOK
<1>2. CASE LogAppend(len)
  <2>1. current_buffer' \in Buffer /\ current_buffer'.size # 0
    BY <1>1, <1>2, AppendedIsBuffer DEF LogAppend, TypeOK, Avail, Buffer
  <2>2. TypeOK'
    BY <1>1, <1>2, <2>1 DEF LogAppend, TypeOK, local, appender
  <2>3. running /\ failed = "none" /\ failed' = "none" /\ spc' = spc
    BY <1>2 DEF LogAppend, LogAccepts
  <2> QED
    BY <1>2, <2>1, <2>2, <2>3
    DEF LogAppend, PtrInv, ExitInv, SyncAssertsHold, NoSleepOnFullBuffer, local, appender
<1>3. CASE LogRotate(len)
  <2> DEFINE fresh == IF next_buffer = Null THEN Empty ELSE next_buffer
  <2>1. /\ fresh = Empty
        /\ running /\ failed = "none"
        /\ buffers' \in Seq(Buffer) /\ buffers' # <<>>
        /\ next_buffer' = Null
        /\ UNCHANGED <<new_buffer1, new_buffer2, write_buffers, written, out, flushed,
                       dropped, running, dpc>>
    BY <1>3, SMT DEF LogRotate, LogAccepts, PtrInv, TypeOK, local, appender
  <2>2. CASE len < Avail(fresh)
    <3>0. /\ accepted' = accepted + 1 /\ NotifyOne /\ UNCHANGED failed
          /\ current_buffer' = Appended(Empty, accepted + 1, len)
      <4>1. Avail(fresh) = Capacity /\ ~(len >= Avail(fresh))
        BY <1>1, <2>1, <2>2, EmptyIsBuffer, SMT DEF Avail
      <4> QED
        BY <1>3, <2>1, <4>1 DEF LogRotate
    <3>1. current_buffer' \in Buffer /\ current_buffer'.size # 0
      BY <1>1, <2>1, <2>2, <3>0, AppendedIsBuffer, EmptyIsBuffer
    <3>2. /\ failed' = "none" /\ accepted' \in 0..MaxMessages
          /\ spc' = (IF spc = "waiting" THEN "woken" ELSE spc)
      BY <1>1, <2>1, <3>0 DEF NotifyOne
    <3>3. TypeOK'
      BY <2>1, <3>1, <3>2 DEF TypeOK, BufferPtr
    <3> QED
      BY <2>1, <3>1, <3>2, <3>3
      DEF PtrInv, ExitInv, SyncAssertsHold, NoSleepOnFullBuffer
  <2>3. CASE ~(len < Avail(fresh))
    <3>0. ~(len < Avail(fresh)) => len >= Avail(fresh)
      BY <1>1, <2>1, EmptyIsBuffer, LoggerAssumption, SMT DEF Avail
    <3>1. /\ failed' = "append" /\ UNCHANGED <<accepted, spc>>
          /\ current_buffer' = Empty
      BY <1>3, <2>1, <2>3, <3>0 DEF LogRotate
    <3>2. TypeOK'
      BY <2>1, <3>1, EmptyIsBuffer DEF TypeOK, BufferPtr
    <3> QED
      BY <2>1, <3>1, <3>2
      DEF PtrInv, ExitInv, SyncAssertsHold, NoSleepOnFullBuffer
  <2> QED
    BY <2>2, <2>3
<1> QED
  BY <1>2, <1>3

(* So does each step of sync_thread(). *)
LEMMA SyncStepInv == IInv /\ (SyncStep \/ SyncTimeout) => IInv'
<1> SUFFICES ASSUME IInv, SyncStep \/ SyncTimeout PROVE IInv'
  OBVIOUS
<1> USE LoggerAssumption DEF IInv, SyncAt
<1> USE DEF PtrInv, ExitInv, SyncAssertsHold, NoSleepOnFullBuffer
<1>1. CASE SyncCheck
  <2>1. /\ failed = "none"
        /\ new_buffer1 = Empty /\ new_buffer2 = Empty /\ write_buffers = <<>>
    BY <1>1 DEF SyncCheck
  <2>2. /\ failed' = "none"
        /\ spc' = IF running \/ current_buffer.size # 0 THEN "lock" ELSE "flush"
    BY <1>1, <2>1, EmptyIsBuffer DEF SyncCheck
  <2>3. TypeOK'
    BY <1>1, <2>2 DEF SyncCheck, TypeOK, shared, local, appender
  <2> QED
    BY <1>1, <2>1, <2>2, <2>3 DEF SyncCheck, TypeOK, shared, local, appender
<1>2. CASE SyncWait
  <2>1. TypeOK'
    BY <1>2 DEF SyncWait, TypeOK, shared, local, appender
  <2> QED
    BY <1>2, <2>1 DEF SyncWait, shared, local, appender
<1>3. CASE SyncTimeout
  <2>1. TypeOK'
    BY <1>3 DEF SyncTimeout, TypeOK, shared, local, appender
  <2> QED
    BY <1>3, <2>1 DEF SyncTimeout, shared, local, appender
<1>4. CASE SyncTake
  <2>1. /\ failed = "none" /\ new_buffer1 = Empty /\ new_buffer2 = Empty
        /\ spc' = "drop" /\ failed' = "none"
        /\ current_buffer' = Empty /\ new_buffer1' = Null
        /\ buffers' = <<>> /\ next_buffer' = Empty
        /\ new_buffer2' = (IF next_buffer = Null THEN Null ELSE Empty)
    BY <1>4 DEF SyncTake
  <2>2. /\ write_buffers' \in Seq(Buffer)
        /\ Len(write_buffers') = Len(buffers) + 1 /\ Len(buffers) \in Nat
        /\ buffers # <<>> => Len(buffers) >= 1
    BY <1>4, SMT DEF SyncTake, TypeOK
  <2>3. TypeOK'
    <3>1. <<>> \in Seq(Buffer) /\ 0 \in Nat
      BY SMT
    <3> QED
      BY <1>4, <2>1, <2>2, <3>1, EmptyIsBuffer DEF SyncTake, TypeOK, BufferPtr, appender
  <2> QED
    BY <2>1, <2>2, <2>3, EmptyIsBuffer, SMT
<1>5. CASE SyncDrop
  <2>1. CASE Len(write_buffers) > DropThreshold
    <3>1. /\ DropTail(write_buffers) \in Seq(Buffer)
          /\ Len(DropTail(write_buffers)) = 2
      <4>1. Len(write_buffers) \in Nat /\ Len(write_buffers) > 2
        BY <2>1, SMT DEF TypeOK, Keep
      <4>2. \A i \in 1..2 : write_buffers[i] \in Buffer
        BY <4>1, SMT DEF TypeOK
      <4> QED
        BY <4>2, SMT DEF DropTail, Keep
    <3>2. dropped' \subseteq Nat
      <4>1. \A i \in DOMAIN write_buffers : Elements(write_buffers[i].msgs) \subseteq Nat
        <5>1. \A i \in DOMAIN write_buffers : write_buffers[i].msgs \in Seq(Nat)
          <6>1. write_buffers \in Seq(Buffer) /\ DOMAIN write_buffers = 1..Len(write_buffers)
            BY SMT DEF TypeOK
          <6>2. \A i \in DOMAIN write_buffers : write_buffers[i] \in Buffer
            BY <6>1, SMT
          <6> QED
            BY <6>2 DEF Buffer
        <5> QED
          BY <5>1, SMT DEF Elements
      <4>2. MsgsOf(write_buffers) \subseteq Nat
        BY <4>1 DEF MsgsOf
      <4> QED
        BY <1>5, <2>1, <4>2 DEF SyncDrop, TypeOK
    <3>3. out' \in Seq(Nat) /\ write_buffers' = DropTail(write_buffers)
      <4>1. ~(Len(write_buffers) <= DropThreshold)
        BY <2>1, SMT DEF TypeOK
      <4>2. out' = Append(out, 0) /\ write_buffers' = DropTail(write_buffers)
        BY <1>5, <4>1 DEF SyncDrop
      <4> QED
        BY <4>2, SMT DEF TypeOK
    <3>4. TypeOK'
      BY <1>5, <3>1, <3>2, <3>3 DEF SyncDrop, TypeOK, shared
    <3>5. Len(write_buffers') = 2
      BY <3>1, <3>3
    <3> QED
      BY <1>5, <3>4, <3>5, SMT DEF SyncDrop, shared
  <2>2. CASE ~(Len(write_buffers) > DropThreshold)
    <3>1. TypeOK'
      BY <1>5, <2>2 DEF SyncDrop, TypeOK, shared
    <3> QED
      BY <1>5, <2>2, <3>1 DEF SyncDrop, shared
  <2> QED
    BY <2>1, <2>2
<1>6. CASE SyncAppend
  <2>1. write_buffers[written + 1].msgs \in Seq(Nat)
    <3>1. write_buffers \in Seq(Buffer) /\ written + 1 \in 1..Len(write_buffers)
      BY <1>6, SMT DEF SyncAppend, TypeOK
    <3>2. write_buffers[written + 1] \in Buffer
      BY <3>1, SMT
    <3> QED
      BY <3>2 DEF Buffer
  <2>2. out' \in Seq(Nat)
    BY <1>6, <2>1, SMT DEF SyncAppend, TypeOK
  <2>3. TypeOK'
    BY <1>6, <2>2, SMT DEF SyncAppend, TypeOK, shared
  <2> QED
    BY <1>6, <2>3 DEF SyncAppend, shared
<1>7. CASE SyncRefill1
  <2>1. new_buffer1 = Null /\ write_buffers # <<>>
    BY <1>7, SMT DEF SyncRefill1
  <2>2. /\ new_buffer1' = Empty /\ failed' = "none"
        /\ write_buffers' \in Seq(Buffer)
        /\ Len(write_buffers') = Len(write_buffers) - 1
    BY <1>7, <2>1, PopBackProperties DEF SyncRefill1, TypeOK
  <2>3. TypeOK'
    BY <1>7, <2>2, EmptyIsBuffer DEF SyncRefill1, TypeOK, BufferPtr, shared, appender
  <2>4. Len(write_buffers) \in Nat
    BY SMT DEF TypeOK
  <2> QED
    BY <1>7, <2>1, <2>2, <2>3, <2>4, SMT DEF SyncRefill1, shared, appender
<1>8. CASE SyncRefill2
  <2>1. new_buffer2 = Null => write_buffers # <<>>
    BY <1>8, SMT DEF SyncRefill2
  <2>2. /\ new_buffer2' = Empty /\ failed' = "none"
        /\ write_buffers' \in Seq(Buffer)
    BY <1>8, <2>1, PopBackProperties DEF SyncRefill2, TypeOK
  <2>3. TypeOK'
    BY <1>8, <2>2, EmptyIsBuffer DEF SyncRefill2, TypeOK, BufferPtr, shared, appender
  <2> QED
    BY <1>8, <2>2, <2>3 DEF SyncRefill2, shared, appender
<1>9. CASE SyncFlush
  <2>1. TypeOK'
    <3>1. <<>> \in Seq(Buffer) /\ Len(out) \in Nat /\ 0 \in Nat
      BY SMT DEF TypeOK
    <3> QED
      BY <1>9, <3>1 DEF SyncFlush, TypeOK, shared
  <2> QED
    BY <1>9, <2>1 DEF SyncFlush, shared
<1>10. CASE SyncExit
  <2>1. TypeOK'
    <3>1. Len(out) \in Nat
      BY SMT DEF TypeOK
    <3> QED
      BY <1>10, <3>1 DEF SyncExit, TypeOK, shared, local
  <2> QED
    BY <1>10, <2>1 DEF SyncExit, shared, local
<1> QED
  BY <1>1, <1>2, <1>3, <1>4, <1>5, <1>6, <1>7, <1>8, <1>9, <1>10 DEF SyncStep

(* So does the destructor. *)
LEMMA DestroyStep == IInv /\ Destroy => IInv'
<1> SUFFICES ASSUME IInv, Destroy PROVE IInv'
  OBVIOUS
<1> USE DEF IInv
<1>1. TypeOK'
  BY DEF Destroy, DestroyFlag, DestroyNotify, DestroyJoin, NotifyOne, TypeOK,
               shared, local, appender
<1> QED
  BY <1>1, SMT
  DEF Destroy, DestroyFlag, DestroyNotify, DestroyJoin, NotifyOne, shared, local,
      appender, PtrInv, ExitInv, SyncAssertsHold, NoSleepOnFullBuffer

(* The inductive invariant holds in every reachable state. *)
THEOREM Inductive == Spec => []IInv
<1>1. Init => IInv
  BY InitIInv
<1>2. IInv /\ [Next]_vars => IInv'
  <2> SUFFICES ASSUME IInv, [Next]_vars PROVE IInv'
    OBVIOUS
  <2>1. CASE UNCHANGED vars
    BY <2>1, SMT
    DEF IInv, TypeOK, PtrInv, ExitInv, SyncAssertsHold, NoSleepOnFullBuffer, vars,
        shared, local, appender
  <2> QED
    BY <2>1, LogStep, SyncStepInv, DestroyStep DEF Next, Terminated
<1> QED
  BY <1>1, <1>2, PTL DEF Spec

-----------------------------------------------------------------------------
(* The state is well typed; in particular current_buffer_ is never null    *)
(* where log() and the loop condition of sync_thread() dereference it.     *)
THEOREM TypeCorrect == Spec => []TypeOK
  BY Inductive, PTL DEF IInv

(* No assert of sync_thread() fails, for any sequence of log() calls.      *)
THEOREM AssertsHold == Spec => []SyncAssertsHold
  BY Inductive, PTL DEF IInv

(* The thread is never asleep in wait_for() while a full buffer waits.     *)
THEOREM NeverSleepsOnFull == Spec => []NoSleepOnFullBuffer
  BY Inductive, PTL DEF IInv

(* The thread ends only when every buffer is empty and all is flushed.     *)
THEOREM ExitIsClean == Spec => []ExitFlushesAll
<1>1. IInv => ExitFlushesAll
  BY DEF IInv, PtrInv, ExitInv, ExitFlushesAll
<1> QED
  BY <1>1, Inductive, PTL

(* log() lets any message through that is no longer than kBufferSize, and  *)
(* only one of exactly that length fails the assert of append(): messages  *)
(* that are shorter always find room.                                      *)
THEOREM ShorterMessagesFit ==
  ASSUME Capacity \notin Lens
  PROVE  Spec => []AppendAssertHolds
<1>1. Init => AppendAssertHolds
  BY DEF Init, AppendAssertHolds
<1>2. ASSUME IInv, AppendAssertHolds, [Next]_vars
      PROVE  AppendAssertHolds'
  <2>1. ASSUME NEW len \in Lens, LogRotate(len)
        PROVE  failed' = failed
    <3>1. len \in 1..Capacity /\ len # Capacity /\ failed = "none"
      BY <2>1 DEF LogRotate, LogAccepts
    <3>2. (IF next_buffer = Null THEN Empty ELSE next_buffer) = Empty
      BY <1>2, <3>1 DEF IInv, PtrInv
    <3>3. ~(len >= Avail(Empty))
      BY <3>1, EmptyIsBuffer, LoggerAssumption, SMT DEF Avail
    <3> QED
      BY <2>1, <3>2, <3>3 DEF LogRotate
  <2>2. ASSUME NEW len \in Lens, LogAppend(len)
        PROVE  failed' = failed
    BY <2>2 DEF LogAppend
  <2>3. ASSUME Destroy \/ SyncStep \/ SyncTimeout \/ Terminated \/ UNCHANGED vars
        PROVE  failed' \in {failed, "ready", "refill"}
    BY <2>3 DEF Destroy, DestroyFlag, DestroyNotify, DestroyJoin, SyncStep, SyncCheck, SyncWait,
         SyncTake, SyncDrop, SyncAppend, SyncRefill1, SyncRefill2, SyncFlush, SyncExit,
         SyncTimeout, Terminated, vars
  <2> QED
    BY <1>2, <2>1, <2>2, <2>3 DEF Next, AppendAssertHolds
<1> QED
  BY <1>1, <1>2, Inductive, PTL DEF Spec

-----------------------------------------------------------------------------
(* m < n for all m in S and n in T. *)
Below(S, T) == \A m \in S, n \in T : m < n

Increasing(s) == \A i, j \in DOMAIN s : i < j => s[i] < s[j]

(* Buffers with messages in order, one after the other. *)
InOrder(bs) ==
  /\ \A i \in DOMAIN bs : Increasing(bs[i].msgs)
  /\ \A i, j \in DOMAIN bs : i < j => Below(Elements(bs[i].msgs), Elements(bs[j].msgs))

(***************************************************************************)
(* Where the messages are: the rest of the batch, the full buffers and the *)
(* current one hold them in order, one after the other.                    *)
(***************************************************************************)
OrderInv ==
  failed = "none" =>
    /\ InOrder(write_buffers) /\ InOrder(buffers) /\ Increasing(current_buffer.msgs)
    /\ Below(Unwritten, MsgsOf(buffers)) /\ Below(Unwritten, Elements(current_buffer.msgs))
    /\ Below(MsgsOf(buffers), Elements(current_buffer.msgs))
    /\ dropped \subseteq 1..accepted
    /\ spc = "drop" => written = 0
    /\ spc \in {"refill2", "clear"} => written >= Len(write_buffers)

(* push_back() of a message. *)
LEMMA ElementsAppend ==
  ASSUME NEW s \in Seq(Nat), NEW n \in Nat
  PROVE  /\ Elements(Append(s, n)) = Elements(s) \cup {n}
         /\ Increasing(s) /\ Below(Elements(s), {n}) => Increasing(Append(s, n))
  <1>1. /\ Append(s, n) \in Seq(Nat) /\ Len(s) \in Nat
        /\ DOMAIN Append(s, n) = 1..(Len(s) + 1) /\ DOMAIN s = 1..Len(s)
        /\ \A i \in 1..Len(s) : Append(s, n)[i] = s[i]
        /\ Append(s, n)[Len(s) + 1] = n
    BY SMT
  <1>2. Elements(Append(s, n)) = Elements(s) \cup {n}
    BY <1>1, SMT DEF Elements
  <1>3. \A i \in 1..Len(s) : s[i] \in Elements(s)
    BY <1>1 DEF Elements
  <1>4. Increasing(s) /\ Below(Elements(s), {n}) => Increasing(Append(s, n))
    BY <1>1, <1>3, SMT DEF Increasing, Below
  <1> QED
    BY <1>2, <1>4

(* push_back() of a buffer. *)
LEMMA MsgsAppend ==
  ASSUME NEW bs \in Seq(Buffer), NEW b \in Buffer
  PROVE  /\ MsgsOf(Append(bs, b)) = MsgsOf(bs) \cup Elements(b.msgs)
         /\ InOrder(bs) /\ Increasing(b.msgs) /\ Below(MsgsOf(bs), Elements(b.msgs)) =>
              InOrder(Append(bs, b))
  <1>1. /\ Append(bs, b) \in Seq(Buffer) /\ Len(bs) \in Nat
        /\ DOMAIN Append(bs, b) = 1..(Len(bs) + 1) /\ DOMAIN bs = 1..Len(bs)
        /\ \A i \in 1..Len(bs) : Append(bs, b)[i] = bs[i]
        /\ Append(bs, b)[Len(bs) + 1] = b
    BY SMT
  <1>2. MsgsOf(Append(bs, b)) = MsgsOf(bs) \cup Elements(b.msgs)
    BY <1>1, SMT DEF MsgsOf
  <1>3. ASSUME InOrder(bs), Increasing(b.msgs), Below(MsgsOf(bs), Elements(b.msgs))
        PROVE  InOrder(Append(bs, b))
    <2>1. \A i \in 1..Len(bs) : Below(Elements(bs[i].msgs), Elements(b.msgs))
      BY <1>1, <1>3 DEF Below, MsgsOf
    <2> QED
      BY <1>1, <1>3, <2>1, SMT DEF InOrder
  <1> QED
    BY <1>2, <1>3

(* What append() of a buffer adds to the file. *)
LEMMA ElementsConcat ==
  ASSUME NEW s \in Seq(Nat), NEW t \in Seq(Nat)
  PROVE  /\ Elements(s \o t) = Elements(s) \cup Elements(t)
         /\ Below(Elements(s), Elements(t)) /\ Increasing(t)
            /\ (\A i, j \in DOMAIN s : i < j /\ s[j] # 0 => s[i] < s[j]) =>
              \A i, j \in DOMAIN (s \o t) : i < j /\ (s \o t)[j] # 0 => (s \o t)[i] < (s \o t)[j]
  <1>1. /\ Len(s) \in Nat /\ Len(t) \in Nat /\ DOMAIN s = 1..Len(s) /\ DOMAIN t = 1..Len(t)
        /\ DOMAIN (s \o t) = 1..(Len(s) + Len(t))
        /\ \A i \in 1..Len(s) : (s \o t)[i] = s[i]
        /\ \A i \in (Len(s) + 1)..(Len(s) + Len(t)) : (s \o t)[i] = t[i - Len(s)]
    BY SMT
  <1> DEFINE u == s \o t
  <1> HIDE DEF u
  <1>2. \A i \in DOMAIN u : (i \in DOMAIN s /\ u[i] = s[i])
                             \/ (i > Len(s) /\ i - Len(s) \in DOMAIN t /\ u[i] = t[i - Len(s)])
    BY <1>1, SMT DEF u
  <1>3. Elements(u) \subseteq Elements(s) \cup Elements(t)
    BY <1>2 DEF Elements
  <1>4. Elements(s) \subseteq Elements(u)
    BY <1>1, SMT DEF Elements, u
  <1>5. Elements(t) \subseteq Elements(u)
    <2> SUFFICES ASSUME NEW k \in DOMAIN t PROVE t[k] \in Elements(u)
      BY DEF Elements
    <2>1. k + Len(s) \in DOMAIN u /\ u[k + Len(s)] = t[k]
      BY <1>1, SMT DEF u
    <2> QED
      BY <2>1 DEF Elements
  <1>6. ASSUME Below(Elements(s), Elements(t)), Increasing(t),
               \A i, j \in DOMAIN s : i < j /\ s[j] # 0 => s[i] < s[j],
               NEW i \in DOMAIN u, NEW j \in DOMAIN u, i < j, u[j] # 0
        PROVE  u[i] < u[j]
    <2>1. i \in Nat /\ j \in Nat
      BY <1>1, SMT DEF u
    <2>2. CASE j \in DOMAIN s
      BY <1>1, <1>2, <1>6, <2>1, <2>2, SMT
    <2>3. CASE i \in DOMAIN s /\ j \notin DOMAIN s
      <3>1. u[i] \in Elements(s) /\ u[j] \in Elements(t)
        BY <1>1, <1>2, <2>1, <2>3, SMT DEF Elements
      <3> QED
        BY <1>6, <3>1 DEF Below
    <2>4. CASE i \notin DOMAIN s /\ j \notin DOMAIN s
      BY <1>1, <1>2, <1>6, <2>1, <2>4, SMT DEF Increasing
    <2> QED
      BY <1>1, <1>2, <1>6, <2>1, <2>2, <2>3, <2>4
  <1> QED
    BY <1>3, <1>4, <1>5, <1>6 DEF u

(* The first buffers of a batch, which the cut and pop_back() leave. *)
LEMMA PrefixInOrder ==
  ASSUME NEW bs \in Seq(Buffer), InOrder(bs), NEW n \in 0..Len(bs)
  PROVE  InOrder(SubSeq(bs, 1, n)) /\ MsgsOf(SubSeq(bs, 1, n)) \subseteq MsgsOf(bs)
  <1>1. /\ DOMAIN SubSeq(bs, 1, n) \subseteq DOMAIN bs
        /\ \A i \in DOMAIN SubSeq(bs, 1, n) : SubSeq(bs, 1, n)[i] = bs[i]
    BY SMT
  <1>2. MsgsOf(SubSeq(bs, 1, n)) \subseteq MsgsOf(bs)
    BY <1>1 DEF MsgsOf
  <1>3. InOrder(SubSeq(bs, 1, n))
    BY <1>1 DEF InOrder
  <1> QED
    BY <1>2, <1>3

(* No message comes after the latest one. *)
LEMMA AllAccepted ==
  ASSUME TypeOK, failed = "none", OrderInv, NothingLost
  PROVE  /\ InFlight \subseteq 1..accepted
         /\ Elements(out) \subseteq 0..accepted
         /\ Below(InFlight, {accepted + 1}) /\ Below(Elements(out), {accepted + 1})
  <1>1. accepted \in Nat
    BY SMT DEF TypeOK
  <1>2. InFlight \subseteq 1..accepted /\ Elements(out) \subseteq 0..accepted
    BY <1>1, SMT DEF NothingLost
  <1> QED
    BY <1>1, <1>2, SMT DEF Below

(* A log() call puts the message behind all others. *)
LEMMA LogPlaces ==
  ASSUME IInv, OrderInv, NothingLost, NEW len \in Lens,
         LogAppend(len) \/ LogRotate(len), failed' = "none"
  PROVE  OrderInv' /\ NothingLost'
  <1>1. /\ failed = "none" /\ accepted \in Nat /\ accepted' = accepted + 1
        /\ UNCHANGED <<write_buffers, written, out, dropped>>
        /\ spc' = spc \/ (spc = "waiting" /\ spc' = "woken")
    BY SMT DEF LogAppend, LogRotate, LogAccepts, NotifyOne, local, appender, IInv, TypeOK
  <1>2. /\ current_buffer \in Buffer /\ current_buffer.msgs \in Seq(Nat)
        /\ buffers \in Seq(Buffer)
    BY DEF IInv, TypeOK, Buffer
  <1>3. Unwritten' = Unwritten
    BY <1>1 DEF Unwritten
  <1>4. /\ InFlight \subseteq 1..accepted /\ Elements(out) \subseteq 0..accepted
        /\ Below(InFlight, {accepted + 1}) /\ Below(Elements(out), {accepted + 1})
    BY <1>1, AllAccepted DEF IInv
  <1>5. CASE LogAppend(len)
    <2>1. buffers' = buffers /\ current_buffer'.msgs = Append(current_buffer.msgs, accepted + 1)
      BY <1>5 DEF LogAppend, Appended
    <2>2. /\ Elements(current_buffer'.msgs) = Elements(current_buffer.msgs) \cup {accepted + 1}
          /\ Increasing(current_buffer'.msgs)
      BY <1>1, <1>2, <1>4, <2>1, ElementsAppend, SMT DEF OrderInv, InFlight, Below
    <2>3. InFlight' = InFlight \cup {accepted + 1} /\ MsgsOf(buffers)' = MsgsOf(buffers)
      BY <1>3, <2>1, <2>2 DEF InFlight
    <2>4. OrderInv'
      BY <1>1, <1>3, <1>4, <2>1, <2>2, <2>3, SMT DEF OrderInv, InFlight, Below
    <2>5. NothingLost'
      BY <1>1, <1>4, <2>3, SMT DEF NothingLost, OrderInv, Below
    <2> QED
      BY <2>4, <2>5
  <1>6. CASE LogRotate(len)
    <2>1. /\ buffers' = Append(buffers, current_buffer)
          /\ current_buffer'.msgs = Append(<<>>, accepted + 1)
      BY <1>1, <1>6, EmptyIsBuffer, SMT DEF LogRotate, Appended, IInv, PtrInv
    <2>2. Elements(current_buffer'.msgs) = {accepted + 1} /\ Increasing(current_buffer'.msgs)
      BY <1>1, <2>1, SMT DEF Elements, Increasing
    <2>3. /\ MsgsOf(buffers') = MsgsOf(buffers) \cup Elements(current_buffer.msgs)
          /\ InOrder(buffers')
      BY <1>1, <1>2, <2>1, MsgsAppend DEF OrderInv
    <2>4. InFlight' = InFlight \cup {accepted + 1}
      BY <1>3, <2>2, <2>3 DEF InFlight
    <2>5. OrderInv'
      BY <1>1, <1>3, <1>4, <2>2, <2>3, SMT DEF OrderInv, InFlight, Below
    <2>6. NothingLost'
      BY <1>1, <1>4, <2>4, SMT DEF NothingLost, OrderInv, Below
    <2> QED
      BY <2>5, <2>6
  <1> QED
    BY <1>5, <1>6

(* sync_thread() takes the buffers away in order. *)
LEMMA TakePlaces ==
  ASSUME IInv, OrderInv, NothingLost, SyncTake, failed' = "none"
  PROVE  OrderInv' /\ NothingLost'
  <1>1. /\ failed = "none" /\ spc \in {"lock", "woken"} /\ spc' = "drop" /\ written' = 0
        /\ write_buffers' = Append(buffers, current_buffer) /\ buffers' = <<>>
        /\ current_buffer' = new_buffer1 /\ UNCHANGED <<out, dropped, accepted>>
    BY DEF SyncTake, SyncAt, appender
  <1>2. write_buffers = <<>> /\ current_buffer'.msgs = <<>>
    BY <1>1, EmptyIsBuffer DEF IInv, PtrInv
  <1>3. /\ Unwritten = {} /\ MsgsOf(buffers') = {} /\ Elements(current_buffer'.msgs) = {}
        /\ InOrder(buffers') /\ Increasing(current_buffer'.msgs)
    BY <1>1, <1>2, SMT DEF Unwritten, MsgsOf, Elements, InOrder, Increasing
  <1>4. current_buffer \in Buffer /\ buffers \in Seq(Buffer)
    BY DEF IInv, TypeOK
  <1>5. /\ MsgsOf(write_buffers') = MsgsOf(buffers) \cup Elements(current_buffer.msgs)
        /\ InOrder(write_buffers')
    BY <1>1, <1>4, MsgsAppend DEF OrderInv
  <1>6. \A k \in DOMAIN write_buffers' : k > 0
    BY <1>1, <1>4, SMT
  <1>7. Unwritten' = MsgsOf(write_buffers')
    BY <1>1, <1>6 DEF Unwritten, MsgsOf
  <1>8. InFlight' = InFlight
    BY <1>3, <1>5, <1>7 DEF InFlight
  <1>9. OrderInv'
    BY <1>1, <1>3, <1>5 DEF OrderInv, Below
  <1>10. NothingLost'
    BY <1>1, <1>8 DEF NothingLost
  <1> QED
    BY <1>9, <1>10

(* The cut of an overlong batch erases the last of the batch only, and     *)
(* announces it.                                                           *)
LEMMA DropPlaces ==
  ASSUME IInv, OrderInv, NothingLost, SyncDrop, failed' = "none"
  PROVE  OrderInv' /\ NothingLost'
  <1>1. /\ failed = "none" /\ spc = "drop" /\ spc' = "append" /\ written = 0
        /\ UNCHANGED <<buffers, current_buffer, written, accepted>>
    BY DEF SyncDrop, SyncAt, shared, OrderInv
  <1>2. write_buffers \in Seq(Buffer) /\ out \in Seq(Nat) /\ accepted \in Nat
    BY SMT DEF IInv, TypeOK
  <1>3. CASE UNCHANGED <<out, dropped, write_buffers>>
    <2>1. Unwritten' = Unwritten /\ InFlight' = InFlight
      BY <1>1, <1>3, SMT DEF Unwritten, InFlight
    <2> QED
      BY <1>1, <1>3, <2>1 DEF OrderInv, NothingLost
  <1>4. CASE /\ Len(write_buffers) > DropThreshold
             /\ out' = Append(out, 0) /\ write_buffers' = DropTail(write_buffers)
             /\ dropped' = dropped \cup (MsgsOf(write_buffers) \ MsgsOf(DropTail(write_buffers)))
    <2>1. Keep \in 0..Len(write_buffers)
      BY <1>2, <1>4, LoggerAssumption, SMT DEF Keep
    <2>2. InOrder(write_buffers') /\ MsgsOf(write_buffers') \subseteq MsgsOf(write_buffers)
      BY <1>1, <1>2, <1>4, <2>1, PrefixInOrder DEF DropTail, OrderInv
    <2>3. Unwritten = MsgsOf(write_buffers) /\ Unwritten' = MsgsOf(write_buffers')
      <3>1. \A k \in DOMAIN write_buffers : k > 0
        BY <1>2, SMT
      <3>2. \A k \in DOMAIN write_buffers' : k > 0
        BY <1>2, <1>4, <2>1, SMT DEF DropTail
      <3> QED
        BY <1>1, <3>1, <3>2 DEF Unwritten, MsgsOf
    <2>4. /\ Elements(out') = Elements(out) \cup {0}
          /\ \A i, j \in DOMAIN out' : i < j /\ out'[j] # 0 => out'[i] < out'[j]
      <3>1. /\ DOMAIN out' = 1..(Len(out) + 1) /\ DOMAIN out = 1..Len(out) /\ Len(out) \in Nat
            /\ \A i \in 1..Len(out) : out'[i] = out[i]
            /\ out'[Len(out) + 1] = 0
        BY <1>2, <1>4, SMT
      <3>2. Elements(out') = Elements(out) \cup {0}
        BY <3>1, SMT DEF Elements
      <3>3. \A i, j \in DOMAIN out' : i < j /\ out'[j] # 0 => out'[i] < out'[j]
        BY <1>1, <3>1, SMT DEF NothingLost
      <3> QED
        BY <3>2, <3>3
    <2> DEFINE D == MsgsOf(write_buffers) \ MsgsOf(write_buffers')
    <2>5. dropped' = dropped \cup D /\ InFlight' = InFlight \ D /\ D \subseteq InFlight
      <3>1. \A m \in MsgsOf(write_buffers) :
              m \notin MsgsOf(buffers) /\ m \notin Elements(current_buffer.msgs)
        <4>1. MsgsOf(write_buffers) \subseteq Int
          BY <1>1, <2>3, AllAccepted, SMT DEF InFlight, IInv
        <4> QED
          BY <1>1, <2>3, <4>1, SMT DEF OrderInv, Below
      <3> QED
        BY <1>1, <1>4, <2>2, <2>3, <3>1 DEF InFlight
    <2>6. InFlight \subseteq 1..accepted /\ Elements(out) \subseteq 0..accepted
      BY <1>1, AllAccepted DEF IInv
    <2> HIDE DEF D
    <2>7. \A m \in Elements(out) \ {0} : m \notin D
      BY <1>1, <2>5, <2>6, SMT DEF NothingLost
    <2>8. OrderInv'
      <3>1. dropped' \subseteq 1..accepted
        BY <1>1, <2>5, <2>6 DEF OrderInv
      <3> QED
        BY <1>1, <2>2, <2>3, <3>1 DEF OrderInv, Below
    <2>9. NothingLost'
      <3>1. (Elements(out') \ {0}) \cup InFlight' = (1..accepted') \ dropped'
        BY <1>1, <2>4, <2>5, <2>7 DEF NothingLost
      <3>2. \A m \in Elements(out'), n \in InFlight' : m < n
        BY <1>1, <2>4, <2>5, <2>6, SMT DEF NothingLost
      <3> QED
        BY <2>4, <3>1, <3>2 DEF NothingLost
    <2> QED
      BY <2>8, <2>9
  <1> QED
    BY <1>3, <1>4 DEF SyncDrop

(* A buffer that is appended moves to the appender. *)
LEMMA AppendPlaces ==
  ASSUME IInv, OrderInv, NothingLost, SyncAppend, failed' = "none"
  PROVE  OrderInv' /\ NothingLost'
  <1>1. /\ failed = "none" /\ spc = "append" /\ spc' = "append"
        /\ UNCHANGED <<buffers, current_buffer, write_buffers, accepted, dropped>>
        /\ written' = written + 1 /\ written < Len(write_buffers)
        /\ out' = out \o write_buffers[written + 1].msgs
    BY DEF SyncAppend, SyncAt, shared
  <1>2. /\ write_buffers \in Seq(Buffer) /\ out \in Seq(Nat) /\ written \in Nat
        /\ written + 1 \in DOMAIN write_buffers
        /\ DOMAIN write_buffers = 1..Len(write_buffers) /\ Len(write_buffers) \in Nat
    BY <1>1, SMT DEF IInv, TypeOK
  <1> DEFINE b == write_buffers[written + 1]
  <1>3. b.msgs \in Seq(Nat) /\ Increasing(b.msgs)
    <2>1. b \in Buffer
      BY <1>2, SMT
    <2> QED
      BY <1>1, <1>2, <2>1 DEF Buffer, OrderInv, InOrder
  <1>4. Unwritten = Elements(b.msgs) \cup Unwritten'
    <2>1. \A k \in DOMAIN write_buffers : k > written <=> k = written + 1 \/ k > written'
      BY <1>1, <1>2, SMT
    <2> QED
      BY <1>1, <1>2, <2>1 DEF Unwritten
  <1>5. Below(Elements(b.msgs), Unwritten')
    <2>1. \A k \in DOMAIN write_buffers :
            k > written' => Below(Elements(b.msgs), Elements(write_buffers[k].msgs))
      BY <1>1, <1>2 DEF OrderInv, InOrder
    <2> QED
      BY <1>1, <2>1, SMT DEF Unwritten, Below
  <1>6. Below(Elements(out), Elements(b.msgs))
    BY <1>1, <1>4 DEF NothingLost, InFlight, Below
  <1> HIDE DEF b
  <1>7. /\ Elements(out') = Elements(out) \cup Elements(b.msgs)
        /\ \A i, j \in DOMAIN out' : i < j /\ out'[j] # 0 => out'[i] < out'[j]
    <2>1. out' = out \o b.msgs
      BY <1>1 DEF b
    <2>2. \A i, j \in DOMAIN out : i < j /\ out[j] # 0 => out[i] < out[j]
      BY <1>1 DEF NothingLost
    <2> QED
      BY ONLY <1>2, <1>3, <1>6, <2>1, <2>2, ElementsConcat, ZenonT(60)
  <1>8. InFlight = Elements(b.msgs) \cup InFlight'
    BY <1>1, <1>4 DEF InFlight
  <1>9. Below(Elements(b.msgs), InFlight')
    BY <1>1, <1>4, <1>5 DEF InFlight, OrderInv, Below
  <1>10. 0 \notin Elements(b.msgs)
    BY <1>1, <1>8, AllAccepted, SMT DEF IInv
  <1>11. OrderInv'
    BY <1>1, <1>4 DEF OrderInv, Below
  <1>12. NothingLost'
    BY <1>1, <1>7, <1>8, <1>9, <1>10 DEF NothingLost, Below
  <1> QED
    BY <1>11, <1>12

(* Once all of the batch is appended, giving its buffers back loses none. *)
LEMMA RefillPlaces ==
  ASSUME IInv, OrderInv, NothingLost, SyncRefill1 \/ SyncRefill2 \/ SyncFlush, failed' = "none"
  PROVE  OrderInv' /\ NothingLost'
  <1>1. /\ failed = "none" /\ UNCHANGED <<buffers, current_buffer, accepted, dropped, out>>
        /\ spc' \in {"refill2", "clear", "check"}
    BY DEF SyncRefill1, SyncRefill2, SyncFlush, SyncAt, shared, appender
  <1>2. write_buffers \in Seq(Buffer) /\ written \in Nat
    BY DEF IInv, TypeOK
  <1>3. written >= Len(write_buffers)
    BY <1>1, <1>2, SMT DEF SyncRefill1, SyncRefill2, SyncFlush, SyncAt, OrderInv
  <1>4. \/ write_buffers' = write_buffers /\ written' = written
        \/ write_buffers # <<>> /\ write_buffers' = PopBack(write_buffers) /\ written' = written
        \/ write_buffers' = <<>> /\ written' = 0
    BY DEF SyncRefill1, SyncRefill2, SyncFlush
  <1>5. InOrder(write_buffers') /\ written' >= Len(write_buffers')
        /\ DOMAIN write_buffers' = 1..Len(write_buffers') /\ Len(write_buffers') \in Nat
        /\ written' \in Nat
    <2>1. CASE write_buffers' = write_buffers /\ written' = written
      BY <1>1, <1>2, <1>3, <2>1, SMT DEF OrderInv
    <2>2. CASE write_buffers # <<>> /\ write_buffers' = PopBack(write_buffers)
               /\ written' = written
      <3>1. Len(write_buffers) \in Nat \ {0}
        BY <1>2, <2>2, SMT
      <3>2. PopBack(write_buffers) \in Seq(Buffer)
            /\ Len(PopBack(write_buffers)) = Len(write_buffers) - 1
        BY <1>2, <2>2, PopBackProperties
      <3>3. InOrder(PopBack(write_buffers))
        BY <1>1, <1>2, <3>1, PrefixInOrder, SMT DEF PopBack, OrderInv
      <3> QED
        BY <1>2, <1>3, <2>2, <3>1, <3>2, <3>3, SMT
    <2>3. CASE write_buffers' = <<>> /\ written' = 0
      BY <2>3, SMT DEF InOrder
    <2> QED
      BY <1>4, <2>1, <2>2, <2>3
  <1>6. Unwritten = {} /\ Unwritten' = {}
    BY <1>2, <1>3, <1>5, SMT DEF Unwritten
  <1>7. InFlight' = InFlight
    BY <1>1, <1>6 DEF InFlight
  <1> QED
    BY <1>1, <1>5, <1>6, <1>7 DEF OrderInv, NothingLost

(* Every step keeps the messages in order and accounted for. *)
LEMMA PlacesStep ==
  ASSUME IInv, OrderInv, NothingLost, [Next]_vars
  PROVE  OrderInv' /\ NothingLost'
  <1> SUFFICES ASSUME failed' = "none" PROVE OrderInv' /\ NothingLost'
    BY DEF OrderInv, NothingLost
  <1>1. CASE \/ Destroy \/ SyncCheck \/ SyncWait \/ SyncTimeout \/ SyncExit \/ Terminated
             \/ UNCHANGED vars
    <2>1. /\ UNCHANGED <<buffers, current_buffer, write_buffers, written, accepted, dropped,
                         out, failed>>
          /\ spc' \in {spc, "lock", "flush", "waiting", "woken", "exited"}
      BY <1>1 DEF Destroy, DestroyFlag, DestroyNotify, DestroyJoin, NotifyOne, SyncCheck,
           SyncWait, SyncTimeout, SyncExit, SyncAt, Terminated, vars, shared, local, appender
    <2>2. Unwritten' = Unwritten /\ InFlight' = InFlight
      BY <2>1 DEF Unwritten, InFlight
    <2> QED
      BY <2>1, <2>2 DEF OrderInv, NothingLost
  <1> QED
    BY <1>1, LogPlaces, TakePlaces, DropPlaces, AppendPlaces, RefillPlaces DEF Next, SyncStep

(* No message is lost, doubled or overtaken on its way to the appender. *)
THEOREM NoMessageLost == Spec => []NothingLost
  <1>1. Init => OrderInv /\ NothingLost
    BY EmptyIsBuffer, SMT DEF Init, OrderInv, NothingLost, InOrder, Increasing, Below, Unwritten,
       InFlight, MsgsOf, Elements
  <1>2. IInv /\ OrderInv /\ NothingLost /\ [Next]_vars => OrderInv' /\ NothingLost'
    BY PlacesStep
  <1> QED
    BY <1>1, <1>2, Inductive, PTL DEF Spec
=============================================================================
