---------------------------- MODULE AsyncLogger -----------------------------
(***************************************************************************)
(* clia::log::AsyncLogger: log() copies messages into current_buffer_      *)
(* under lck_; sync_thread() takes the filled buffers away, writes them to *)
(* the appender and gives two emptied ones back.                           *)
(*                                                                         *)
(* log() and the critical section of sync_thread() are single steps: both  *)
(* hold lck_ throughout.  The destructor runs once no log() call is in     *)
(* progress (an Event holds a shared_ptr to its logger while it logs).     *)
(* An assert that fails aborts the process: failed names it and nothing    *)
(* happens afterwards.  Calls that log() turns away (level, null pointer,  *)
(* length) change nothing and are left out.                                *)
(***************************************************************************)
EXTENDS Integers, Sequences

CONSTANTS
  Capacity,       \* kBufferSize
  DropThreshold,  \* 25: a longer batch is cut down
  Lens,           \* lengths of messages
  Null,           \* an empty BufferPtr
  MaxMessages     \* bound: messages logged in one behaviour

Keep == 2  \* buffers of an overlong batch that are written

Buffer == [msgs : Seq(Nat), size : 0..Capacity]

ASSUME LoggerAssumption ==
  /\ Capacity \in Nat
  /\ DropThreshold \in Nat /\ DropThreshold >= Keep
  /\ Lens \subseteq Nat
  /\ Null \notin Buffer
  /\ MaxMessages \in Nat

VARIABLES
  current_buffer, next_buffer, buffers, running,
  new_buffer1, new_buffer2, write_buffers,  \* locals of sync_thread()
  written,    \* how many of write_buffers have been appended
  spc,        \* where sync_thread() is
  dpc,        \* where the destructor is
  failed,     \* the assert that has aborted the process
  accepted,   \* messages that log() has copied; the n-th is called n
  out,        \* what the appender was given; 0 is a "Dropped" notice
  flushed,    \* how much of out has been flushed
  dropped     \* messages in buffers that were erased unwritten

shared == <<current_buffer, next_buffer, buffers>>
local == <<new_buffer1, new_buffer2, write_buffers, written>>
appender == <<out, flushed, dropped>>
vars == <<shared, local, appender, running, spc, dpc, failed, accepted>>

Empty == [msgs |-> <<>>, size |-> 0]

Init ==
  /\ current_buffer = Empty /\ next_buffer = Empty /\ buffers = <<>>
  /\ new_buffer1 = Empty /\ new_buffer2 = Empty /\ write_buffers = <<>>
  /\ written = 0
  /\ running = TRUE
  /\ spc = "check"
  /\ dpc = "alive"
  /\ failed = "none"
  /\ accepted = 0
  /\ out = <<>> /\ flushed = 0 /\ dropped = {}

-----------------------------------------------------------------------------
(* FixedBuffer: avail(), and append() of message n of length len. *)
Avail(b) == Capacity - b.size

Appended(b, n, len) == [msgs |-> Append(b.msgs, n), size |-> b.size + len]

(* notify_one() wakes sync_thread() if it is in wait_for(). *)
NotifyOne == spc' = IF spc = "waiting" THEN "woken" ELSE spc

(* The part of the guard of log() that depends on the logger's state. *)
LogAccepts(len) ==
  /\ failed = "none"
  /\ running
  /\ accepted < MaxMessages
  /\ len \in 1..Capacity

(* log() when the message fits in current_buffer_. *)
LogAppend(len) ==
  /\ LogAccepts(len)
  /\ Avail(current_buffer) > len
  /\ current_buffer' = Appended(current_buffer, accepted + 1, len)
  /\ accepted' = accepted + 1
  /\ UNCHANGED <<next_buffer, buffers, local, appender, running, spc, dpc, failed>>

(* Mutant of LogRotate: the filled buffer is queued without notify_one(). *)
LogRotateSilent(len) ==
  /\ LogAccepts(len)
  /\ Avail(current_buffer) <= len
  /\ Capacity > len
  /\ buffers' = Append(buffers, current_buffer)
  /\ current_buffer' = Appended(Empty, accepted + 1, len)
  /\ next_buffer' = Null
  /\ accepted' = accepted + 1
  /\ UNCHANGED <<local, appender, running, spc, dpc, failed>>

(***************************************************************************)
(* log() when it does not: current_buffer_ is queued and replaced by       *)
(* next_buffer_ or by a new one.  The assert of FixedBuffer::append() then *)
(* compares the length with the room in the replacement.                   *)
(***************************************************************************)
LogRotate(len) ==
  LET fresh == IF next_buffer = Null THEN Empty ELSE next_buffer IN
  /\ LogAccepts(len)
  /\ Avail(current_buffer) <= len
  /\ buffers' = Append(buffers, current_buffer)
  /\ next_buffer' = Null
  /\ \/ /\ len < Avail(fresh)
        /\ current_buffer' = Appended(fresh, accepted + 1, len)
        /\ accepted' = accepted + 1
        /\ NotifyOne
        /\ UNCHANGED failed
     \/ /\ len >= Avail(fresh)
        /\ current_buffer' = fresh
        /\ failed' = "append"
        /\ UNCHANGED <<accepted, spc>>
  /\ UNCHANGED <<local, appender, running, dpc>>

-----------------------------------------------------------------------------
(* The destructor: the flag, the notification (without lck_), the join. *)
DestroyFlag ==
  /\ failed = "none"
  /\ dpc = "alive"
  /\ running' = FALSE
  /\ dpc' = "notify"
  /\ UNCHANGED <<shared, local, appender, spc, failed, accepted>>

DestroyNotify ==
  /\ failed = "none"
  /\ dpc = "notify"
  /\ NotifyOne
  /\ dpc' = "join"
  /\ UNCHANGED <<shared, local, appender, running, failed, accepted>>

DestroyJoin ==
  /\ dpc = "join"
  /\ spc = "exited"
  /\ dpc' = "destroyed"
  /\ UNCHANGED <<shared, local, appender, running, spc, failed, accepted>>

-----------------------------------------------------------------------------
(* sync_thread(). *)
SyncAt(p) == spc = p /\ failed = "none"

(* Mutant of SyncCheck: the thread leaves as soon as running_ is false. *)
SyncCheckRunningOnly ==
  /\ SyncAt("check")
  /\ spc' = IF running THEN "lock" ELSE "flush"
  /\ UNCHANGED <<shared, local, appender, running, dpc, failed, accepted>>

(* The condition of the while loop and the asserts that open its body. *)
SyncCheck ==
  /\ SyncAt("check")
  /\ LET again == running \/ current_buffer.size # 0
         ready == /\ new_buffer1 # Null /\ new_buffer1.size = 0
                  /\ new_buffer2 # Null /\ new_buffer2.size = 0
                  /\ write_buffers = <<>>
     IN /\ spc' = IF again THEN "lock" ELSE "flush"
        /\ failed' = IF again /\ ~ready THEN "ready" ELSE failed
  /\ UNCHANGED <<shared, local, appender, running, dpc, accepted>>

(* wait_for() on lck_ when no buffer is full... *)
SyncWait ==
  /\ SyncAt("lock")
  /\ buffers = <<>>
  /\ spc' = "waiting"
  /\ UNCHANGED <<shared, local, appender, running, dpc, failed, accepted>>

(* Mutant of SyncTimeout: wait() instead of wait_for(). *)
SyncTimeoutNever ==
  /\ FALSE
  /\ UNCHANGED vars

(* ... which also returns at flush_interval_sec_, or spuriously. *)
SyncTimeout ==
  /\ SyncAt("waiting")
  /\ spc' = "woken"
  /\ UNCHANGED <<shared, local, appender, running, dpc, failed, accepted>>

(* Mutant of SyncTake: the buffer being filled goes before the full ones. *)
SyncTakeCurrentFirst ==
  /\ \/ SyncAt("lock") /\ buffers # <<>>
     \/ SyncAt("woken")
  /\ write_buffers' = <<current_buffer>> \o buffers
  /\ buffers' = <<>>
  /\ current_buffer' = new_buffer1
  /\ new_buffer1' = Null
  /\ next_buffer' = IF next_buffer = Null THEN new_buffer2 ELSE next_buffer
  /\ new_buffer2' = IF next_buffer = Null THEN Null ELSE new_buffer2
  /\ written' = 0
  /\ spc' = "drop"
  /\ UNCHANGED <<appender, running, dpc, failed, accepted>>

(* The rest of the critical section, with lck_ held. *)
SyncTake ==
  /\ \/ SyncAt("lock") /\ buffers # <<>>
     \/ SyncAt("woken")
  /\ write_buffers' = Append(buffers, current_buffer)
  /\ buffers' = <<>>
  /\ current_buffer' = new_buffer1
  /\ new_buffer1' = Null
  /\ next_buffer' = IF next_buffer = Null THEN new_buffer2 ELSE next_buffer
  /\ new_buffer2' = IF next_buffer = Null THEN Null ELSE new_buffer2
  /\ written' = 0
  /\ spc' = "drop"
  /\ UNCHANGED <<appender, running, dpc, failed, accepted>>

Elements(s) == {s[i] : i \in DOMAIN s}

MsgsOf(bs) == UNION {Elements(bs[i].msgs) : i \in DOMAIN bs}

(* Mutant of DropTail: one buffer too many is erased. *)
DropTailKeepOne(bs) == SubSeq(bs, 1, Keep - 1)

DropTail(bs) == SubSeq(bs, 1, Keep)

(* An overlong batch is announced and cut down to its first buffers. *)
SyncDrop ==
  /\ SyncAt("drop")
  /\ spc' = "append"
  /\ \/ /\ Len(write_buffers) > DropThreshold
        /\ out' = Append(out, 0)
        /\ dropped' = dropped \cup
             (MsgsOf(write_buffers) \ MsgsOf(DropTail(write_buffers)))
        /\ write_buffers' = DropTail(write_buffers)
     \/ /\ Len(write_buffers) <= DropThreshold
        /\ UNCHANGED <<out, dropped, write_buffers>>
  /\ UNCHANGED <<shared, new_buffer1, new_buffer2, written, flushed, running,
                 dpc, failed, accepted>>

(* One turn of the append loop; an empty buffer adds nothing. *)
SyncAppend ==
  /\ SyncAt("append")
  /\ written < Len(write_buffers)
  /\ out' = out \o write_buffers[written + 1].msgs
  /\ written' = written + 1
  /\ UNCHANGED <<shared, new_buffer1, new_buffer2, write_buffers, flushed,
                 dropped, running, spc, dpc, failed, accepted>>

(* pop_back() *)
PopBack(bs) == SubSeq(bs, 1, Len(bs) - 1)

(***************************************************************************)
(* new_buffer1 and new_buffer2 are refilled from the back of the batch,    *)
(* which the asserts require not to be empty.                              *)
(***************************************************************************)
SyncRefill1 ==
  /\ SyncAt("append")
  /\ written = Len(write_buffers)
  /\ spc' = "refill2"
  /\ new_buffer1' = IF new_buffer1 = Null THEN Empty ELSE new_buffer1
  /\ write_buffers' = IF new_buffer1 = Null /\ write_buffers # <<>>
                        THEN PopBack(write_buffers) ELSE write_buffers
  /\ failed' = IF new_buffer1 = Null /\ write_buffers = <<>> THEN "refill" ELSE failed
  /\ UNCHANGED <<shared, new_buffer2, written, appender, running, dpc, accepted>>

SyncRefill2 ==
  /\ SyncAt("refill2")
  /\ spc' = "clear"
  /\ new_buffer2' = IF new_buffer2 = Null THEN Empty ELSE new_buffer2
  /\ write_buffers' = IF new_buffer2 = Null /\ write_buffers # <<>>
                        THEN PopBack(write_buffers) ELSE write_buffers
  /\ failed' = IF new_buffer2 = Null /\ write_buffers = <<>> THEN "refill" ELSE failed
  /\ UNCHANGED <<shared, new_buffer1, written, appender, running, dpc, accepted>>

(* Mutant of SyncFlush: the loop ends without appender_->flush(). *)
SyncFlushNever ==
  /\ SyncAt("clear")
  /\ write_buffers' = <<>>
  /\ written' = 0
  /\ spc' = "check"
  /\ UNCHANGED <<shared, new_buffer1, new_buffer2, appender, running, dpc,
                 failed, accepted>>

SyncFlush ==
  /\ SyncAt("clear")
  /\ write_buffers' = <<>>
  /\ written' = 0
  /\ flushed' = Len(out)
  /\ spc' = "check"
  /\ UNCHANGED <<shared, new_buffer1, new_buffer2, out, dropped, running, dpc,
                 failed, accepted>>

(* After the loop. *)
SyncExit ==
  /\ SyncAt("flush")
  /\ flushed' = Len(out)
  /\ spc' = "exited"
  /\ UNCHANGED <<shared, local, out, dropped, running, dpc, failed, accepted>>

-----------------------------------------------------------------------------
Destroy == DestroyFlag \/ DestroyNotify \/ DestroyJoin

SyncStep ==
  \/ SyncCheck
  \/ SyncWait
  \/ SyncTake
  \/ SyncDrop
  \/ SyncAppend
  \/ SyncRefill1
  \/ SyncRefill2
  \/ SyncFlush
  \/ SyncExit

(* The program is over. *)
Terminated ==
  /\ dpc = "destroyed" \/ failed # "none"
  /\ UNCHANGED vars

Next ==
  \/ \E len \in Lens : LogAppend(len) \/ LogRotate(len)
  \/ Destroy
  \/ SyncStep
  \/ SyncTimeout
  \/ Terminated

Spec == Init /\ [][Next]_vars

(***************************************************************************)
(* Fairness: sync_thread() is scheduled, wait_for() honours its timeout,   *)
(* and a destructor that has begun goes on.  Nobody has to log, and the    *)
(* logger need not be destroyed.                                           *)
(***************************************************************************)
LiveSpec ==
  /\ Spec
  /\ WF_vars(SyncStep)
  /\ WF_vars(SyncTimeout)
  /\ WF_vars(DestroyNotify \/ DestroyJoin)

-----------------------------------------------------------------------------
BufferPtr == Buffer \cup {Null}

(***************************************************************************)
(* The type invariant.  current_buffer_ is dereferenced without a test: it *)
(* is never null when lck_ is free.                                        *)
(***************************************************************************)
TypeOK ==
  /\ current_buffer \in Buffer
  /\ next_buffer \in BufferPtr
  /\ buffers \in Seq(Buffer)
  /\ new_buffer1 \in BufferPtr /\ new_buffer2 \in BufferPtr
  /\ write_buffers \in Seq(Buffer)
  /\ written \in Nat
  /\ running \in BOOLEAN
  /\ spc \in {"check", "lock", "waiting", "woken", "drop", "append", "refill2",
              "clear", "flush", "exited"}
  /\ dpc \in {"alive", "notify", "join", "destroyed"}
  /\ failed \in {"none", "append", "ready", "refill"}
  /\ accepted \in 0..MaxMessages
  /\ out \in Seq(Nat)
  /\ flushed \in Nat
  /\ dropped \subseteq Nat

(***************************************************************************)
(* The asserts of sync_thread() hold on every turn, however log() calls    *)
(* fall between its steps: two empty buffers and an empty batch at the     *)
(* top, and a batch long enough to refill what was given away.             *)
(***************************************************************************)
SyncAssertsHold == failed \notin {"ready", "refill"}

(***************************************************************************)
(* The assert of FixedBuffer::append() holds in every call that log()      *)
(* makes: a message that log() does not turn away fits in a buffer.        *)
(***************************************************************************)
AppendAssertHolds == failed # "append"

(* sync_thread() does not sleep in wait_for() while a full buffer waits.   *)
NoSleepOnFullBuffer ==
  spc = "waiting" /\ failed = "none" => buffers = <<>>

(* Messages of the batch that the appender has not been given. *)
Unwritten ==
  UNION {Elements(write_buffers[i].msgs) : i \in {k \in DOMAIN write_buffers : k > written}}

InFlight == Unwritten \cup MsgsOf(buffers) \cup Elements(current_buffer.msgs)

(***************************************************************************)
(* Messages reach the appender in the order in which log() accepted them,  *)
(* none twice, and before any message that is still in a buffer; and none  *)
(* is lost but those in the buffers that the announced cut of an overlong  *)
(* batch erased.                                                           *)
(***************************************************************************)
NothingLost ==
  failed = "none" =>
    /\ \A i, j \in DOMAIN out : i < j /\ out[j] # 0 => out[i] < out[j]
    /\ \A m \in Elements(out), n \in InFlight : m < n
    /\ (Elements(out) \ {0}) \cup InFlight = (1..accepted) \ dropped
    /\ dropped # {} => 0 \in Elements(out)

(***************************************************************************)
(* When sync_thread() has ended, which the destructor waits for, no buffer *)
(* holds a message and everything appended is flushed: by NothingLost each *)
(* accepted message has then been flushed or dropped.                      *)
(***************************************************************************)
ExitFlushesAll ==
  spc = "exited" =>
    /\ write_buffers = <<>> /\ buffers = <<>> /\ current_buffer.msgs = <<>>
    /\ flushed = Len(out)

(* The destructor returns: the lost notification costs one timeout.        *)
DestructorReturns == [](failed = "none") => (dpc = "notify" ~> dpc = "destroyed")

(* A message that log() accepted is flushed or dropped in the end.         *)
AcceptedIsFlushed ==
  \A m \in 1..MaxMessages :
    [](failed = "none") =>
      (accepted >= m ~> (m \in dropped \/ m \in Elements(SubSeq(out, 1, flushed))))
=============================================================================
