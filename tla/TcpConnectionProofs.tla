------------------------ MODULE TcpConnectionProofs -------------------------
(***************************************************************************)
(* For every set of calling threads and every number and length of         *)
(* messages: a connection keeps its byte stream in order, enables EPOLLOUT *)
(* exactly while output is buffered, does not cut off output by a          *)
(* shutdown(), and violates no assert as long as other threads only send.  *)
(***************************************************************************)
EXTENDS TcpConnection, Integers, SequenceTheorems, TLAPS

(* Zenon proves the steps below, and SMT those that need arithmetic or      *)
(* reason about sequences and records.                                     *)
USE ZenonT(60)

Ops(q) == {q[i].op : i \in 1..Len(q)}

(* At most one functor of q is connect_destoryed(). *)
Once(q) ==
  \A i, j \in 1..Len(q) : q[i].op = "destroyed" /\ q[j].op = "destroyed" => i = j

(***************************************************************************)
(* Before connect_established() nothing has happened, and after it the     *)
(* functor never runs again.                                               *)
(***************************************************************************)
Fresh ==
  /\ state = "kConnecting" /\ queue = <<[op |-> "established"]>>
  /\ events = {} /\ obuf = <<>> /\ ~wr_shut
  /\ lpc # "callback" /\ revents = {}
  /\ ptr = {} /\ \A t \in Callers : cpc[t].at = "idle"

Established == Fresh \/ (state # "kConnecting" /\ "established" \notin Ops(queue))

(* Where the thread of the loop is, and what is left of the event. *)
Dispatch ==
  /\ lpc \in {"poll", "functors"} => revents = {}
  /\ held => revents = {} /\ lpc \in {"functors", "callback"}
  /\ ~({"IN", "HUP"} \subseteq revents)

(* A channel with events, or an event still to be handled that can close,  *)
(* is that of a connection that is not disconnected.                       *)
Armed ==
  events # {} \/ "IN" \in revents \/ "HUP" \in revents
    => state \in {"kConnected", "kDisconnecting"}

(* connect_destoryed() is queued when the map entry has gone. *)
Erasing == "destroyed" \in Ops(queue) => ~in_map

StateAsserts == failed \notin {"established", "close"}

(***************************************************************************)
(* The life of a connection that no other thread shuts down: open, closed  *)
(* with its removal queued, removed with its destruction queued, destroyed. *)
(***************************************************************************)
Phase ==
  \/ /\ state # "kDisconnected" /\ in_map /\ ~removing /\ alive
     /\ state # "kConnecting" => added
     /\ "destroyed" \notin Ops(queue)
  \/ /\ state = "kDisconnected" /\ in_map /\ removing /\ alive /\ added
     /\ "destroyed" \notin Ops(queue)
  \/ /\ state = "kDisconnected" /\ ~in_map /\ ~removing /\ alive /\ added
     /\ "destroyed" \in Ops(queue) /\ Once(queue)
  \/ /\ state = "kDisconnected" /\ ~in_map /\ ~removing /\ ~added
     /\ "destroyed" \notin Ops(queue)

Orderly == SendsOnly => failed \in {"none", "dangling"} /\ Phase

(* Only calls from other threads queue functors that are bound to this. *)
Alone == Unused => failed # "dangling" /\ {"send", "shutdown"} \cap Ops(queue) = {}

(* A thread whose shutdown() has stored state_ gets past no test again. *)
Shut ==
  \A t \in Callers :
    cpc[t].at \in {"shutdown", "shut"} => state \in {"kDisconnecting", "kDisconnected"}

Life == Orderly /\ Alone /\ Shut

Control == Established /\ Dispatch /\ Armed /\ Erasing /\ StateAsserts

IInv ==
  /\ TypeOK /\ Control /\ Life
  /\ StreamOrder /\ WritingIffBuffered /\ ShutdownAfterDrain

-----------------------------------------------------------------------------
(* A message is a sequence of its bytes. *)
LEMMA BytesType ==
  ASSUME NEW m \in 1..MaxSends, NEW k \in Nat
  PROVE  Bytes(m, k) \in Seq(1..MaxSends) /\ Len(Bytes(m, k)) = k
<1>1. Bytes(m, k) \in Seq(1..MaxSends)
  BY SMT DEF Bytes
<1>2. DOMAIN Bytes(m, k) = 1..k
  BY DEF Bytes
<1> QED
  BY <1>1, <1>2, LenProperties, SMT

(* The two parts of a message, wherever it is cut, make it up. *)
LEMMA BytesSplit ==
  ASSUME NEW m \in 1..MaxSends, NEW len \in Nat, NEW n \in 0..len
  PROVE  Bytes(m, n) \o Bytes(m, len - n) = Bytes(m, len)
<1>2. n \in Nat /\ len - n \in Nat
  BY SMT
<1> DEFINE a == Bytes(m, n)
           b == Bytes(m, len - n)
           c == Bytes(m, len)
<1>3. /\ a \in Seq(1..MaxSends) /\ b \in Seq(1..MaxSends) /\ c \in Seq(1..MaxSends)
      /\ Len(a) = n /\ Len(b) = len - n /\ Len(c) = len
  BY <1>2, BytesType
<1>4. /\ \A i \in 1..n : a[i] = m
      /\ \A i \in 1..(len - n) : b[i] = m
      /\ \A i \in 1..len : c[i] = m
  BY DEF Bytes
<1> HIDE DEF a, b, c
<1>5. /\ a \o b \in Seq(1..MaxSends)
      /\ Len(a \o b) = len
      /\ \A i \in 1..len : (a \o b)[i] = m
  <2>1. /\ a \o b \in Seq(1..MaxSends) /\ Len(a \o b) = Len(a) + Len(b)
        /\ \A i \in 1..(Len(a) + Len(b)) :
             (a \o b)[i] = IF i <= Len(a) THEN a[i] ELSE b[i - Len(a)]
    BY <1>3, ConcatProperties
  <2>2. Len(a) + Len(b) = len
    BY <1>2, <1>3, SMT
  <2>3. ASSUME NEW i \in 1..len PROVE (a \o b)[i] = m
    <3>1. CASE i <= n
      BY <1>2, <1>3, <1>4, <2>1, <2>2, <3>1, SMT
    <3>2. CASE ~(i <= n)
      <4>1. i - n \in 1..(len - n)
        BY <1>2, <3>2, SMT
      <4> QED
        BY <1>2, <1>3, <1>4, <2>1, <2>2, <3>2, <4>1
    <3> QED
      BY <3>1, <3>2
  <2> QED
    BY <2>1, <2>2, <2>3
<1>6. a \o b = c
  BY <1>3, <1>4, <1>5, SeqEqual
<1> QED
  BY <1>3, <1>6 DEF a, b, c

(* Appending in two steps is appending at once. *)
LEMMA AppendInParts ==
  \A s, t, u \in Seq(1..MaxSends) : (s \o t) \o u = s \o (t \o u)
<1> SUFFICES ASSUME NEW s \in Seq(1..MaxSends), NEW t \in Seq(1..MaxSends),
                    NEW u \in Seq(1..MaxSends)
             PROVE  (s \o t) \o u = s \o (t \o u)
  OBVIOUS
<1> QED
  BY ConcatAssociative, SMT

(* Output that write() takes a part of is that part and the rest. *)
LEMMA OutputSplit ==
  ASSUME NEW s \in Seq(1..MaxSends), NEW n \in Nat, n <= Len(s)
  PROVE  /\ SubSeq(s, 1, n) \in Seq(1..MaxSends)
         /\ SubSeq(s, n + 1, Len(s)) \in Seq(1..MaxSends)
         /\ Len(SubSeq(s, n + 1, Len(s))) = Len(s) - n
         /\ SubSeq(s, 1, n) \o SubSeq(s, n + 1, Len(s)) = s
<1>1. /\ Len(s) \in Nat /\ 1 \in Int /\ n \in Int /\ n + 1 \in Int /\ Len(s) \in Int
      /\ \A i \in 1..n : s[i] \in 1..MaxSends
      /\ \A i \in (n + 1)..Len(s) : s[i] \in 1..MaxSends
  <2>1. Len(s) \in Nat
    BY LenProperties
  <2>2. \A i \in 1..Len(s) : s[i] \in 1..MaxSends
    BY ElementOfSeq
  <2>3. 1..n \subseteq 1..Len(s) /\ (n + 1)..Len(s) \subseteq 1..Len(s)
    BY <2>1, SMT
  <2> QED
    BY <2>1, <2>2, <2>3, SMT
<1>2. SubSeq(s, 1, n) \in Seq(1..MaxSends)
  BY <1>1, SubSeqProperties
<1>3. SubSeq(s, n + 1, Len(s)) \in Seq(1..MaxSends)
  <2> DEFINE k == n + 1
             e == Len(s)
  <2>1. k \in Int /\ e \in Int /\ \A i \in k..e : s[i] \in 1..MaxSends
    BY <1>1
  <2> HIDE DEF k, e
  <2>2. SubSeq(s, k, e) \in Seq(1..MaxSends)
    BY ONLY <2>1, SubSeqProperties, ZenonT(60)
  <2> QED
    BY <2>2 DEF k, e
<1>4. Len(SubSeq(s, n + 1, Len(s))) = Len(s) - n
  <2>1. Len(SubSeq(s, n + 1, Len(s))) = IF n + 1 <= Len(s) THEN Len(s) - (n + 1) + 1 ELSE 0
    BY ONLY <1>1, SubSeqProperties
  <2> QED
    BY <1>1, <2>1, SMT
<1>5. SubSeq(s, 1, n) \o SubSeq(s, n + 1, Len(s)) = SubSeq(s, 1, Len(s))
  <2>1. 1 \in 1..(Len(s) + 1) /\ n \in (1 - 1)..Len(s) /\ Len(s) \in n..Len(s)
    BY <1>1, SMT
  <2> QED
    BY <2>1, ConcatAdjacentSubSeq
<1> QED
  BY <1>2, <1>3, <1>4, <1>5, SubSeqFull

(* What appending a functor does to the operations of a queue. *)
LEMMA OpsAppend ==
  ASSUME NEW q \in Seq(Functor), NEW f \in Functor
  PROVE  /\ Append(q, f) \in Seq(Functor)
         /\ Len(Append(q, f)) = Len(q) + 1
         /\ Ops(Append(q, f)) = Ops(q) \cup {f.op}
         /\ f.op # "destroyed" /\ Once(q) => Once(Append(q, f))
         /\ "destroyed" \notin Ops(q) => Once(Append(q, f))
  BY AppendProperties, SMT DEF Ops, Once

(* What taking the first functor off does to the operations of a queue. *)
LEMMA OpsTail ==
  ASSUME NEW q \in Seq(Functor), q # <<>>
  PROVE  /\ Head(q) \in Functor
         /\ Tail(q) \in Seq(Functor)
         /\ Len(Tail(q)) = Len(q) - 1
         /\ Head(q).op \in Ops(q)
         /\ Ops(Tail(q)) \subseteq Ops(q)
         /\ Ops(q) \subseteq Ops(Tail(q)) \cup {Head(q).op}
         /\ Once(q) => Once(Tail(q))
         /\ Once(q) /\ Head(q).op = "destroyed" => "destroyed" \notin Ops(Tail(q))
<1>1. /\ Head(q) = q[1] /\ Len(q) \in Nat /\ Len(q) > 0
      /\ Head(q) \in Functor /\ Tail(q) \in Seq(Functor)
      /\ Len(Tail(q)) = Len(q) - 1
  BY HeadTailProperties, EmptySeq, LenProperties, SMT
<1>2. \A i \in 1..Len(Tail(q)) : Tail(q)[i] = q[i + 1] /\ i + 1 \in 1..Len(q)
  BY <1>1, HeadTailProperties, SMT
<1>3. \A i \in 1..Len(q) : i = 1 \/ (i - 1 \in 1..Len(Tail(q)) /\ Tail(q)[i - 1] = q[i])
  BY <1>1, <1>2, SMT
<1>4. Head(q).op \in Ops(q) /\ Ops(Tail(q)) \subseteq Ops(q)
  BY <1>1, <1>2, SMT DEF Ops
<1>5. Ops(q) \subseteq Ops(Tail(q)) \cup {Head(q).op}
  BY <1>1, <1>3, SMT DEF Ops
<1>6. Once(q) => Once(Tail(q))
  BY <1>1, <1>2, SMT DEF Once
<1>7. Once(q) /\ Head(q).op = "destroyed" => "destroyed" \notin Ops(Tail(q))
  BY <1>1, <1>2, SMT DEF Once, Ops
<1> QED
  BY <1>1, <1>4, <1>5, <1>6, <1>7

-----------------------------------------------------------------------------
(***************************************************************************)
(* send_in_loop() keeps the types, queues at most a write-complete         *)
(* callback, and has the accepted bytes on the socket or in the buffer.    *)
(***************************************************************************)
LEMMA SendKeeps ==
  ASSUME TypeOK, StreamOrder,
         NEW m \in 1..MaxSends, NEW len \in 0..MaxLen, NEW q \in Seq(Functor),
         SendInLoop(m, len, q)
  PROVE  /\ obuf' \in Seq(1..MaxSends) /\ sock' \in Seq(1..MaxSends)
         /\ accepted' \in Seq(1..MaxSends)
         /\ events' \subseteq {"read", "write"} /\ added' \in BOOLEAN
         /\ queue' = q \/ queue' = Append(q, [op |-> "complete"])
         /\ StreamOrder'
<1> USE ConnectionAssumption
<1>0. /\ obuf \in Seq(1..MaxSends) /\ sock \in Seq(1..MaxSends)
      /\ accepted \in Seq(1..MaxSends) /\ sock \o obuf = accepted
      /\ events \subseteq {"read", "write"} /\ added \in BOOLEAN
      /\ len \in Nat
  BY SMT DEF TypeOK, StreamOrder
<1>1. CASE queue' = q /\ UNCHANGED <<stream, channel>>
  BY <1>0, <1>1 DEF stream, channel, StreamOrder
<1>2. CASE SendDirect(m, len, q)
  <2>1. PICK n \in 0..len :
          /\ sock' = sock \o Bytes(m, n)
          /\ obuf' = Bytes(m, len - n)
          /\ events' = IF n < len THEN events \cup {"write"} ELSE events
          /\ added' = (added \/ n < len)
          /\ queue' = IF n = len THEN Append(q, [op |-> "complete"]) ELSE q
          /\ accepted' = accepted \o Bytes(m, len)
    BY <1>2 DEF SendDirect
  <2>2. n \in Nat /\ len - n \in Nat
    BY <1>0, SMT
  <2>3. /\ Bytes(m, n) \in Seq(1..MaxSends) /\ Bytes(m, len - n) \in Seq(1..MaxSends)
        /\ Bytes(m, len) \in Seq(1..MaxSends)
        /\ Bytes(m, n) \o Bytes(m, len - n) = Bytes(m, len)
    BY <1>0, <2>2, BytesType, BytesSplit
  <2>4. accepted = sock
    BY <1>0, <1>2, ConcatEmptySeq DEF SendDirect
  <2>5. (sock \o Bytes(m, n)) \o Bytes(m, len - n) = accepted \o Bytes(m, len)
    <3>0. /\ sock \in Seq(1..MaxSends) /\ Bytes(m, n) \in Seq(1..MaxSends)
          /\ Bytes(m, len - n) \in Seq(1..MaxSends)
      BY <1>0, <2>3
    <3>1. (sock \o Bytes(m, n)) \o Bytes(m, len - n)
            = sock \o (Bytes(m, n) \o Bytes(m, len - n))
      BY ONLY <3>0, AppendInParts, ZenonT(60)
    <3> QED
      BY <2>3, <2>4, <3>1
  <2>6. sock' \in Seq(1..MaxSends) /\ accepted' \in Seq(1..MaxSends)
    BY <1>0, <2>1, <2>3, ConcatProperties
  <2>7. StreamOrder'
    BY <2>1, <2>5 DEF StreamOrder
  <2>8. events' \subseteq {"read", "write"} /\ added' \in BOOLEAN
    BY <1>0, <2>1
  <2> QED
    BY <2>1, <2>3, <2>6, <2>7, <2>8
<1>3. CASE SendBuffered(m, len, q)
  <2>1. /\ obuf' = obuf \o Bytes(m, len) /\ sock' = sock
        /\ accepted' = accepted \o Bytes(m, len)
        /\ events' = IF len > 0 THEN events \cup {"write"} ELSE events
        /\ added' = (added \/ len > 0)
        /\ queue' = q
    BY <1>3 DEF SendBuffered
  <2>2. Bytes(m, len) \in Seq(1..MaxSends)
    BY <1>0, BytesType
  <2>3. sock \o (obuf \o Bytes(m, len)) = accepted \o Bytes(m, len)
    <3>0. sock \in Seq(1..MaxSends) /\ obuf \in Seq(1..MaxSends)
      BY <1>0
    <3>1. (sock \o obuf) \o Bytes(m, len) = sock \o (obuf \o Bytes(m, len))
      BY ONLY <3>0, <2>2, AppendInParts, ZenonT(60)
    <3> QED
      BY <1>0, <3>1
  <2>4. obuf' \in Seq(1..MaxSends) /\ accepted' \in Seq(1..MaxSends)
    BY <1>0, <2>1, <2>2, ConcatProperties
  <2>5. StreamOrder'
    BY <2>1, <2>3 DEF StreamOrder
  <2>6. events' \subseteq {"read", "write"} /\ added' \in BOOLEAN
    BY <1>0, <2>1
  <2> QED
    BY <1>0, <2>1, <2>4, <2>5, <2>6
<1> QED
  BY <1>1, <1>2, <1>3 DEF SendInLoop, SendFault

(***************************************************************************)
(* send_in_loop() on an open connection leaves EPOLLOUT enabled exactly    *)
(* when it leaves output buffered, and buffers nothing after a shutdown.   *)
(***************************************************************************)
LEMMA SendFlow ==
  ASSUME TypeOK,
         NEW m \in 1..MaxSends, NEW len \in 0..MaxLen, NEW q \in Seq(Functor),
         SendInLoop(m, len, q),
         Writing <=> obuf # <<>>, wr_shut => obuf = <<>>
  PROVE  /\ "write" \in events' <=> obuf' # <<>>
         /\ wr_shut => obuf' = <<>>
<1> USE ConnectionAssumption
<1>0. obuf \in Seq(1..MaxSends) /\ len \in Nat
  BY SMT DEF TypeOK
<1>1. CASE queue' = q /\ UNCHANGED <<stream, channel>>
  BY <1>1 DEF stream, channel, Writing
<1>2. CASE SendDirect(m, len, q)
  <2>1. PICK n \in 0..len :
          /\ ~wr_shut /\ "write" \notin events
          /\ obuf' = Bytes(m, len - n)
          /\ events' = IF n < len THEN events \cup {"write"} ELSE events
    BY <1>2 DEF SendDirect, Writing
  <2>2. len - n \in Nat
    BY <1>0, SMT
  <2>3. Bytes(m, len - n) \in Seq(1..MaxSends) /\ Len(Bytes(m, len - n)) = len - n
    BY <2>2, BytesType
  <2>4. Bytes(m, len - n) # <<>> <=> n < len
    BY <1>0, <2>2, <2>3, EmptySeq, SMT
  <2> QED
    BY <2>1, <2>4
<1>3. CASE SendBuffered(m, len, q)
  <2>1. obuf # <<>> /\ Writing /\ ~wr_shut
    BY <1>3 DEF SendBuffered
  <2>2. Bytes(m, len) \in Seq(1..MaxSends)
    BY <1>0, BytesType
  <2>3. obuf \o Bytes(m, len) # <<>>
    BY <1>0, <2>1, <2>2, ConcatProperties, EmptySeq, LenProperties, SMT
  <2> QED
    BY <1>3, <2>1, <2>3 DEF SendBuffered, Writing
<1> QED
  BY <1>1, <1>2, <1>3 DEF SendInLoop, SendFault

-----------------------------------------------------------------------------
(* A new connection, whose connect_established() is queued. *)
LEMMA InitIInv == Init => IInv
<1> SUFFICES ASSUME Init PROVE IInv
  OBVIOUS
<1> USE ConnectionAssumption DEF Init
<1>1. queue \in Seq(Functor) /\ Len(queue) = 1 /\ queue[1].op = "established"
  BY SMT DEF Functor
<1>2. TypeOK
  <2>1. [at |-> "idle"] \in Call
    BY DEF Call
  <2>2. cpc \in [Callers -> Call]
    BY <2>1
  <2>3. batch \in 0..Len(queue) /\ sends \in 0..MaxSends
    BY <1>1, SMT
  <2>4. obuf \in Seq(1..MaxSends) /\ sock \in Seq(1..MaxSends) /\ accepted \in Seq(1..MaxSends)
    BY SMT
  <2> HIDE ConnectionAssumption
  <2> QED
    BY <1>1, <2>2, <2>3, <2>4 DEF TypeOK
<1>3. "destroyed" \notin Ops(queue) /\ {"send", "shutdown"} \cap Ops(queue) = {}
  BY <1>1, SMT DEF Ops
<1>4. Established
  BY DEF Established, Fresh
<1>5. Dispatch /\ Armed /\ Erasing /\ StateAsserts
  BY <1>3 DEF Dispatch, Armed, Erasing, StateAsserts
<1>6. Life
  BY <1>3 DEF Life, Orderly, Alone, Shut, Phase
<1>7. StreamOrder
  BY SMT DEF StreamOrder
<1>8. WritingIffBuffered /\ ShutdownAfterDrain
  BY DEF WritingIffBuffered, ShutdownAfterDrain, Open
<1> QED
  BY <1>2, <1>4, <1>5, <1>6, <1>7, <1>8 DEF IInv, Control

(***************************************************************************)
(* The tests that send() and shutdown() begin with, and the store of       *)
(* shutdown(), leave the queue of the loop alone.                          *)
(***************************************************************************)
LEMMA CallStep ==
  ASSUME IInv, NEW t \in Callers, SendCheck(t) \/ ShutdownCheck(t) \/ ShutdownSet(t)
  PROVE  IInv'
<1> USE ConnectionAssumption DEF IInv, Control, channel, stream, server, life
<1>1. PICK c \in Call : cpc' = [cpc EXCEPT ![t] = c] /\ c.at # "idle"
  BY SMT DEF SendCheck, ShutdownCheck, ShutdownSet, Call, TypeOK
<1>2. /\ UNCHANGED <<channel, stream, queue, batch, lpc, revents, server, life,
                     wr_shut, failed>>
      /\ sends' \in 0..MaxSends
      /\ state' = state \/ (state' = "kDisconnecting" /\ cpc[t].at = "set")
  BY SMT DEF SendCheck, ShutdownCheck, ShutdownSet, TypeOK
<1>3. ~Fresh /\ ~Unused'
  BY <1>1 DEF Fresh, Unused, SendCheck, ShutdownCheck, ShutdownSet, TypeOK
<1>4. TypeOK'
  BY <1>1, <1>2, SMT DEF TypeOK
<1>5. Established'
  BY <1>2, <1>3 DEF Established, Ops
<1>6. Dispatch' /\ Armed' /\ Erasing' /\ StateAsserts'
  BY <1>2 DEF Dispatch, Armed, Erasing, StateAsserts, Ops
<1>7. Life'
  <2>1. Alone'
    BY <1>3 DEF Alone
  <2>2. /\ \/ cpc'[t].at = "send" /\ state' = state /\ state = "kConnected" /\ Idle(t)
           \/ cpc'[t].at = "set" /\ state' = state
           \/ cpc'[t].at = "shutdown" /\ state' = "kDisconnecting"
        /\ \A u \in Callers \ {t} : cpc'[u] = cpc[u]
    <3>1. DOMAIN cpc = Callers
      BY DEF TypeOK
    <3>2. CASE SendCheck(t)
      BY ONLY <3>1, <3>2, t \in Callers, ZenonT(60) DEF SendCheck
    <3>3. CASE ShutdownCheck(t)
      BY ONLY <3>1, <3>3, t \in Callers, ZenonT(60) DEF ShutdownCheck
    <3>4. CASE ShutdownSet(t)
      BY ONLY <3>1, <3>4, t \in Callers, ZenonT(60) DEF ShutdownSet
    <3> QED
      BY <3>2, <3>3, <3>4
  <2>3. Shut'
    BY <2>2 DEF Life, Shut
  <2>4. SendsOnly' => SendsOnly /\ state' = state
    BY <2>2 DEF Life, Shut, SendsOnly, Idle
  <2>5. Orderly'
    BY <1>2, <2>4 DEF Life, Orderly, Phase, Ops, Once
  <2> QED
    BY <2>1, <2>3, <2>5 DEF Life
<1>8. StreamOrder'
  BY <1>2 DEF StreamOrder
<1>9. WritingIffBuffered' /\ ShutdownAfterDrain'
  BY <1>2, <1>3 DEF WritingIffBuffered, ShutdownAfterDrain, Open, Writing, Established
<1> QED
  BY <1>4, <1>5, <1>6, <1>7, <1>8, <1>9

(* send() and shutdown() queue their functor. *)
LEMMA QueueStep ==
  ASSUME IInv, NEW t \in Callers,
         (\E len \in 0..MaxLen : SendQueue(t, len)) \/ ShutdownQueue(t)
  PROVE  IInv'
<1> USE ConnectionAssumption DEF IInv, Control, channel, stream, server, life
<1>1. PICK f \in Functor : queue' = Append(queue, f) /\ f.op \in {"send", "shutdown"}
  <2>1. CASE ShutdownQueue(t)
    <3>1. [op |-> "shutdown"] \in Functor
      BY DEF Functor
    <3> QED
      BY <2>1, <3>1 DEF ShutdownQueue
  <2>2. ASSUME NEW len \in 0..MaxLen, SendQueue(t, len)
        PROVE  \E f \in Functor : queue' = Append(queue, f) /\ f.op \in {"send", "shutdown"}
    <3>1. cpc[t] \in Call /\ cpc[t].at = "send"
      BY <2>2 DEF SendQueue, TypeOK
    <3>2. cpc[t].msg \in 1..MaxSends
      BY <3>1 DEF Call
    <3>3. [op |-> "send", msg |-> cpc[t].msg, len |-> len] \in Functor
      BY <3>2 DEF Functor
    <3> QED
      BY <2>2, <3>3 DEF SendQueue
  <2> QED
    BY <2>1, <2>2
<1>2. UNCHANGED <<state, channel, stream, batch, lpc, revents, server, life, wr_shut, sends, failed>>
  BY DEF SendQueue, ShutdownQueue
<1>3. /\ cpc' \in [Callers -> Call]
      /\ \A u \in Callers \ {t} : cpc'[u].at = cpc[u].at
      /\ \/ cpc[t].at = "send" /\ cpc'[t].at = "sent"
         \/ cpc[t].at = "shutdown" /\ cpc'[t].at = "shut"
  <2>1. cpc \in [Callers -> Call]
    BY DEF TypeOK
  <2>2. ASSUME NEW a \in {"sent", "shut"}, cpc' = [cpc EXCEPT ![t] = [at |-> a]]
        PROVE  /\ cpc' \in [Callers -> Call] /\ cpc'[t].at = a
               /\ \A u \in Callers \ {t} : cpc'[u].at = cpc[u].at
    <3>1. [at |-> a] \in Call /\ [at |-> a].at = a
      BY DEF Call
    <3> QED
      BY ONLY <2>1, <2>2, <3>1, t \in Callers, ZenonT(60)
  <2>3. CASE ShutdownQueue(t)
    BY <2>2, <2>3 DEF ShutdownQueue
  <2>4. ASSUME NEW len \in 0..MaxLen, SendQueue(t, len)
        PROVE  cpc[t].at = "send" /\ cpc' = [cpc EXCEPT ![t] = [at |-> "sent"]]
    BY <2>4 DEF SendQueue
  <2> QED
    BY <2>2, <2>3, <2>4
<1>4. ~Fresh /\ ~Unused'
  BY <1>3 DEF Fresh, Unused
<1>5. queue' \in Seq(Functor) /\ Len(queue') = Len(queue) + 1
      /\ Ops(queue') = Ops(queue) \cup {f.op} /\ (Once(queue) => Once(queue'))
  BY <1>1, OpsAppend DEF TypeOK
<1>6. TypeOK'
  BY <1>2, <1>3, <1>5, SMT DEF TypeOK
<1>7. Established'
  BY <1>1, <1>2, <1>4, <1>5 DEF Established, Ops
<1>8. Dispatch' /\ Armed' /\ Erasing' /\ StateAsserts'
  BY <1>1, <1>2, <1>5 DEF Dispatch, Armed, Erasing, StateAsserts, Ops
<1>9. Life'
  <2>1. Alone'
    BY <1>4 DEF Alone
  <2>2. Shut'
    BY <1>2, <1>3 DEF Life, Shut
  <2>3. SendsOnly' => SendsOnly
    BY <1>3 DEF SendsOnly
  <2>4. Orderly'
    BY <1>1, <1>2, <1>5, <2>3 DEF Life, Orderly, Phase, Ops
  <2> QED
    BY <2>1, <2>2, <2>4 DEF Life
<1>10. StreamOrder'
  BY <1>2 DEF StreamOrder
<1>11. WritingIffBuffered' /\ ShutdownAfterDrain'
  BY <1>2 DEF WritingIffBuffered, ShutdownAfterDrain, Open, Writing
<1> QED
  BY <1>6, <1>7, <1>8, <1>9, <1>10, <1>11

(***************************************************************************)
(* Steps that only move the thread of the loop, or release a reference.    *)
(***************************************************************************)
Moves ==
  \/ \E t \in Callers : DropPtr(t)
  \/ CallbackReturn \/ FunctorsBegin \/ FunctorsEnd
  \/ ReadData \/ ReadError \/ HandleWriteNothing
  \/ \E re \in SUBSET {"IN", "OUT", "HUP"} : Poll(re)

(* They keep the invariant. *)
LEMMA MoveStep ==
  ASSUME IInv, Moves
  PROVE  IInv'
<1> USE DEF IInv, Control, channel, stream, server, life, LoopAt, WritePending
<1>1. UNCHANGED <<state, channel, stream, queue, cpc, server, alive, wr_shut, sends, failed>>
  BY DEF Moves, DropPtr, CallbackReturn, FunctorsBegin, FunctorsEnd, ReadData, ReadError,
              HandleWriteNothing, Poll
<1>2. /\ lpc' \in {"poll", "dispatch", "functors", "callback"}
      /\ revents' \subseteq {"IN", "OUT", "HUP"}
      /\ held' \in BOOLEAN /\ ptr' \subseteq Callers
  BY DEF Moves, DropPtr, CallbackReturn, FunctorsBegin, FunctorsEnd, ReadData, ReadError,
              HandleWriteNothing, Poll, TypeOK
<1>3. batch' \in 0..Len(queue)
  <2>1. batch' \in {batch, Len(queue)}
    BY DEF Moves, DropPtr, CallbackReturn, FunctorsBegin, FunctorsEnd, ReadData, ReadError,
           HandleWriteNothing, Poll
  <2> QED
    BY <2>1, LenProperties, SMT DEF TypeOK
<1>4. TypeOK'
  BY <1>1, <1>2, <1>3, SMT DEF TypeOK
<1>5. Dispatch'
  <2>1. CASE \E t \in Callers : DropPtr(t)
    <3>1. UNCHANGED <<lpc, revents, held>>
      BY <2>1 DEF DropPtr
    <3> QED
      BY <3>1 DEF Dispatch
  <2>2. CASE CallbackReturn
    BY <2>2 DEF CallbackReturn, Dispatch
  <2>3. CASE FunctorsBegin \/ FunctorsEnd
    BY <2>3 DEF FunctorsBegin, FunctorsEnd, Dispatch
  <2>4. CASE ReadData \/ ReadError \/ HandleWriteNothing
    BY <2>4, SMT DEF ReadData, ReadError, HandleWriteNothing, Dispatch
  <2>5. CASE \E re \in SUBSET {"IN", "OUT", "HUP"} : Poll(re)
    BY <2>5, SMT DEF Poll, Dispatch
  <2> QED
    BY <2>1, <2>2, <2>3, <2>4, <2>5 DEF Moves
<1>6. Armed'
  BY <1>1 DEF Moves, DropPtr, CallbackReturn, FunctorsBegin, FunctorsEnd, ReadData, ReadError,
                    HandleWriteNothing, Poll, Armed
<1>7. Fresh => lpc' # "callback" /\ revents' = {} /\ ptr' = {}
  BY DEF Moves, DropPtr, CallbackReturn, FunctorsBegin, FunctorsEnd, ReadData, ReadError,
              HandleWriteNothing, Poll, Fresh
<1>8. Established'
  BY <1>1, <1>7 DEF Established, Fresh, Ops
<1>9. Erasing' /\ StateAsserts'
  BY <1>1 DEF Erasing, StateAsserts, Ops
<1>10. Life'
  BY <1>1 DEF Life, Orderly, SendsOnly, Alone, Unused, Shut, Phase, Ops, Once
<1>11. StreamOrder'
  BY <1>1 DEF StreamOrder
<1>12. WritingIffBuffered' /\ ShutdownAfterDrain'
  BY <1>1 DEF WritingIffBuffered, ShutdownAfterDrain, Open, Writing
<1> QED
  BY <1>4, <1>5, <1>6, <1>8, <1>9, <1>10, <1>11, <1>12

(* send() in a callback, on the thread of the loop. *)
LEMMA UserSendStep ==
  ASSUME IInv, NEW len \in 0..MaxLen, UserSend(len)
  PROVE  IInv'
<1> USE ConnectionAssumption DEF IInv, Control, channel, server, life
<1>1. /\ lpc = "callback" /\ state = "kConnected" /\ failed = "none"
      /\ sends + 1 \in 1..MaxSends /\ sends' = sends + 1
      /\ SendInLoop(sends + 1, len, queue)
      /\ UNCHANGED <<state, batch, lpc, revents, cpc, server, life, wr_shut, failed>>
  BY SMT DEF UserSend, LoopAt, TypeOK
<1>2. queue \in Seq(Functor) /\ [op |-> "complete"] \in Functor
  BY DEF TypeOK, Functor
<1>3. /\ obuf' \in Seq(1..MaxSends) /\ sock' \in Seq(1..MaxSends)
      /\ accepted' \in Seq(1..MaxSends)
      /\ events' \subseteq {"read", "write"} /\ added' \in BOOLEAN
      /\ queue' = queue \/ queue' = Append(queue, [op |-> "complete"])
      /\ StreamOrder'
  BY <1>1, <1>2, SendKeeps
<1>4. /\ queue' \in Seq(Functor) /\ Len(queue') >= Len(queue)
      /\ Ops(queue) \subseteq Ops(queue') /\ Ops(queue') \subseteq Ops(queue) \cup {"complete"}
      /\ Once(queue) => Once(queue')
  <2>1. CASE queue' = queue
    BY <1>2, <2>1, LenProperties, SMT
  <2>2. CASE queue' = Append(queue, [op |-> "complete"])
    BY <1>2, <2>2, OpsAppend, LenProperties, SMT
  <2> QED
    BY <1>3, <2>1, <2>2
<1>5. TypeOK'
  <2>1. batch' \in 0..Len(queue')
    BY <1>1, <1>2, <1>4, LenProperties, SMT DEF TypeOK
  <2> QED
    BY <1>1, <1>3, <1>4, <2>1, SMT DEF TypeOK
<1>6. Established' /\ Erasing'
  BY <1>1, <1>4 DEF Established, Fresh, Erasing, Ops
<1>7. Dispatch' /\ Armed' /\ StateAsserts'
  BY <1>1 DEF Dispatch, Armed, StateAsserts
<1>8. Life'
  <2>1. added => added'
    BY <1>1 DEF SendInLoop, SendDirect, SendFault, SendBuffered
  <2>2. Orderly'
    BY <1>1, <1>4, <2>1 DEF Life, Orderly, SendsOnly, Phase, Ops
  <2>3. Alone' /\ Shut'
    BY <1>1, <1>4 DEF Life, Alone, Unused, Shut, Ops
  <2> QED
    BY <2>2, <2>3 DEF Life
<1>9. WritingIffBuffered' /\ ShutdownAfterDrain'
  <2>1. Open <=> Open'
    BY <1>1 DEF Open
  <2>2. Open => /\ "write" \in events' <=> obuf' # <<>>
                /\ wr_shut => obuf' = <<>>
    BY <1>1, <1>2, SendFlow DEF WritingIffBuffered, ShutdownAfterDrain
  <2> QED
    BY <1>1, <2>1, <2>2 DEF WritingIffBuffered, ShutdownAfterDrain, Writing
<1> QED
  BY <1>3, <1>5, <1>6, <1>7, <1>8, <1>9

(* What do_pending_functors() knows when it runs a functor. *)
LEMMA RunningFacts ==
  ASSUME IInv, NEW op, Running(op)
  PROVE  /\ queue \in Seq(Functor) /\ queue # <<>> /\ Head(queue).op = op
         /\ batch - 1 \in 0..Len(Tail(queue))
         /\ lpc = "functors" /\ revents = {} /\ failed = "none"
         /\ op # "established" => ~Fresh /\ state # "kConnecting"
<1> USE DEF IInv, Control
<1>1. /\ queue \in Seq(Functor) /\ batch \in 0..Len(queue) /\ batch > 0
      /\ lpc = "functors" /\ failed = "none" /\ Head(queue).op = op
  BY DEF Running, LoopAt, TypeOK
<1>2. queue # <<>>
  BY <1>1, EmptySeq, SMT
<1>3. Len(Tail(queue)) = Len(queue) - 1 /\ Len(queue) \in Nat
  BY <1>1, <1>2, OpsTail, LenProperties
<1>4. batch - 1 \in 0..Len(Tail(queue))
  BY <1>1, <1>3, SMT
<1>5. revents = {}
  BY <1>1 DEF Dispatch
<1>6. Fresh => Head(queue).op = "established"
  BY SMT DEF Fresh
<1> QED
  BY <1>1, <1>2, <1>4, <1>5, <1>6 DEF Established

(* connect_established(). *)
LEMMA EstablishedStep ==
  ASSUME IInv, ConnectEstablished
  PROVE  IInv'
<1> USE DEF IInv, Control, server, stream
<1>1. /\ queue \in Seq(Functor) /\ queue # <<>> /\ Head(queue).op = "established"
      /\ batch - 1 \in 0..Len(Tail(queue))
      /\ lpc = "functors" /\ revents = {} /\ failed = "none"
  BY RunningFacts DEF ConnectEstablished
<1>2. Fresh
  BY <1>1, OpsTail DEF Established
<1>3. /\ queue' = Tail(queue) /\ batch' = batch - 1 /\ held' = TRUE
      /\ state' = "kConnected" /\ events' = {"read"} /\ added' = TRUE
      /\ ptr' = Callers /\ lpc' = "callback"
      /\ UNCHANGED <<stream, revents, cpc, server, alive, wr_shut, sends, failed>>
  BY <1>2 DEF ConnectEstablished, Fresh
<1>4. queue' = <<>>
  BY <1>2, <1>3, SMT DEF Fresh
<1>5. queue' \in Seq(Functor) /\ Ops(queue') = {}
  BY <1>4, SMT DEF Ops
<1>6. TypeOK'
  <2>1. batch' \in 0..Len(queue')
    BY <1>1, <1>3
  <2> QED
    BY <1>1, <1>3, <1>5, <2>1 DEF TypeOK
<1>7. Established' /\ Erasing'
  BY <1>3, <1>5 DEF Established, Erasing, Ops
<1>8. Dispatch' /\ Armed' /\ StateAsserts'
  BY <1>1, <1>3 DEF Dispatch, Armed, StateAsserts
<1>9. Life'
  <2>1. SendsOnly /\ Unused
    BY <1>2 DEF Fresh, SendsOnly, Unused
  <2>2. Orderly'
    BY <1>1, <1>2, <1>3, <1>5, <2>1 DEF Life, Orderly, Phase, Fresh, Ops
  <2>3. Alone' /\ Shut'
    BY <1>1, <1>2, <1>3, <1>5 DEF Alone, Shut, Fresh, Ops
  <2> QED
    BY <2>2, <2>3 DEF Life
<1>10. StreamOrder'
  BY <1>3 DEF StreamOrder
<1>11. WritingIffBuffered' /\ ShutdownAfterDrain'
  BY <1>2, <1>3 DEF WritingIffBuffered, ShutdownAfterDrain, Fresh, Writing
<1> QED
  BY <1>6, <1>7, <1>8, <1>9, <1>10, <1>11

(* connect_destoryed(). *)
LEMMA DestroyedStep ==
  ASSUME IInv, ConnectDestroyed
  PROVE  IInv'
<1> USE DEF IInv, Control, server, stream
<1>1. /\ queue \in Seq(Functor) /\ queue # <<>> /\ Head(queue).op = "destroyed"
      /\ batch - 1 \in 0..Len(Tail(queue))
      /\ lpc = "functors" /\ revents = {} /\ failed = "none"
      /\ state # "kConnecting" /\ ~Fresh
  BY RunningFacts, SMT DEF ConnectDestroyed
<1>2. /\ queue' = Tail(queue) /\ batch' = batch - 1 /\ held' = TRUE
      /\ state' = IF state = "kConnected" THEN "kDisconnected" ELSE state
      /\ events' = IF state = "kConnected" THEN {} ELSE events
      /\ failed' = IF events' = {} /\ added THEN failed ELSE "remove"
      /\ added' = FALSE
      /\ UNCHANGED <<stream, lpc, revents, cpc, server, ptr, alive, wr_shut, sends>>
  BY DEF ConnectDestroyed
<1>3. /\ queue' \in Seq(Functor) /\ Ops(queue') \subseteq Ops(queue)
      /\ Once(queue) => "destroyed" \notin Ops(queue')
      /\ "destroyed" \in Ops(queue)
  BY <1>1, <1>2, OpsTail
<1>4. TypeOK'
  <2>1. batch' \in 0..Len(queue')
    BY <1>1, <1>2
  <2> QED
    BY <1>2, <1>3, <2>1 DEF TypeOK
<1>5. ~in_map /\ ~in_map'
  BY <1>2, <1>3 DEF Erasing
<1>6. Established' /\ Erasing'
  BY <1>1, <1>2, <1>3, <1>5 DEF Established, Erasing, Ops
<1>7. Dispatch' /\ Armed' /\ StateAsserts'
  BY <1>1, <1>2 DEF Dispatch, Armed, StateAsserts
<1>8. Life'
  <2>2. SendsOnly => failed' = "none" /\ Phase'
    <3> SUFFICES ASSUME SendsOnly PROVE failed' = "none" /\ Phase'
      BY DEF Phase, Ops
    <3>1. /\ state = "kDisconnected" /\ ~in_map /\ ~removing /\ alive /\ added
          /\ Once(queue)
      BY <1>3, <1>5 DEF Life, Orderly, Phase
    <3>2. events = {}
      BY <3>1 DEF Armed
    <3> QED
      BY <1>1, <1>2, <1>3, <3>1, <3>2 DEF Phase, Ops
  <2>3. Orderly'
    BY <1>2, <2>2 DEF Orderly, SendsOnly
  <2>4. Alone'
    BY <1>1, <1>2, <1>3 DEF Life, Alone, Unused, Ops
  <2>5. Shut'
    BY <1>2 DEF Life, Shut
  <2> QED
    BY <2>3, <2>4, <2>5 DEF Life
<1>9. StreamOrder'
  BY <1>2 DEF StreamOrder
<1>10. WritingIffBuffered' /\ ShutdownAfterDrain'
  BY <1>5 DEF WritingIffBuffered, ShutdownAfterDrain, Open
<1> QED
  BY <1>4, <1>6, <1>7, <1>8, <1>9, <1>10

(* The write-complete callback, and shutdown_in_loop() in its functor. *)
LEMMA CompleteShutdownStep ==
  ASSUME IInv, WriteComplete \/ RunShutdown
  PROVE  IInv'
<1> USE DEF IInv, Control, server, stream, channel, life
<1>1. /\ queue \in Seq(Functor) /\ queue # <<>>
      /\ Head(queue).op \in {"complete", "shutdown"}
      /\ batch - 1 \in 0..Len(Tail(queue))
      /\ lpc = "functors" /\ revents = {} /\ failed = "none"
      /\ state # "kConnecting" /\ ~Fresh
  BY RunningFacts, SMT DEF WriteComplete, RunShutdown
<1>2. /\ queue' = Tail(queue) /\ batch' = batch - 1
      /\ held' \in {held, TRUE} /\ lpc' \in {lpc, "callback"}
      /\ wr_shut' \in {wr_shut, wr_shut \/ ~Writing}
      /\ UNCHANGED <<state, channel, stream, revents, cpc, server, ptr, alive, sends, failed>>
  BY DEF WriteComplete, RunShutdown, ShutdownInLoop
<1>3. /\ queue' \in Seq(Functor) /\ Ops(queue') \subseteq Ops(queue)
      /\ Ops(queue) \subseteq Ops(queue') \cup {"complete", "shutdown"}
      /\ Once(queue) => Once(queue')
  BY <1>1, <1>2, OpsTail
<1>4. TypeOK'
  <2>1. batch' \in 0..Len(queue')
    BY <1>1, <1>2
  <2>2. wr_shut' \in BOOLEAN /\ held' \in BOOLEAN
    BY <1>2 DEF TypeOK
  <2> QED
    BY <1>2, <1>3, <2>1, <2>2, SMT DEF TypeOK
<1>5. Established' /\ Erasing'
  BY <1>1, <1>2, <1>3 DEF Established, Erasing, Ops
<1>6. Dispatch' /\ Armed' /\ StateAsserts'
  BY <1>1, <1>2 DEF Dispatch, Armed, StateAsserts
<1>7. Life'
  <2>1. Orderly'
    BY <1>2, <1>3 DEF Life, Orderly, SendsOnly, Phase, Ops
  <2>2. Alone' /\ Shut'
    BY <1>2, <1>3 DEF Life, Alone, Unused, Shut, Ops
  <2> QED
    BY <2>1, <2>2 DEF Life
<1>8. StreamOrder'
  BY <1>2 DEF StreamOrder
<1>9. WritingIffBuffered' /\ ShutdownAfterDrain'
  BY <1>2 DEF WritingIffBuffered, ShutdownAfterDrain, Open, Writing
<1> QED
  BY <1>4, <1>5, <1>6, <1>7, <1>8, <1>9

(* send_in_loop() in its functor. *)
LEMMA RunSendStep ==
  ASSUME IInv, RunSend
  PROVE  IInv'
<1> USE ConnectionAssumption DEF IInv, Control, server, life
<1> DEFINE q == Tail(queue)
           m == Head(queue).msg
           len == Head(queue).len
<1>1. /\ queue \in Seq(Functor) /\ queue # <<>> /\ Head(queue).op = "send"
      /\ batch - 1 \in 0..Len(q)
      /\ lpc = "functors" /\ revents = {} /\ failed = "none"
      /\ state # "kConnecting" /\ ~Fresh
  BY RunningFacts, SMT DEF RunSend
<1>2. /\ SendInLoop(m, len, q) /\ batch' = batch - 1
      /\ UNCHANGED <<state, lpc, revents, cpc, server, life, wr_shut, sends, failed>>
  BY DEF RunSend
<1>3. /\ q \in Seq(Functor) /\ Head(queue) \in Functor
      /\ "send" \in Ops(queue) /\ Ops(q) \subseteq Ops(queue)
      /\ Ops(queue) \subseteq Ops(q) \cup {"send"} /\ (Once(queue) => Once(q))
      /\ [op |-> "complete"] \in Functor
  BY <1>1, OpsTail, SMT DEF Functor
<1>4. m \in 1..MaxSends /\ len \in 0..MaxLen
  BY <1>1, <1>3 DEF Functor
<1> HIDE DEF m, len, q
<1>5. /\ obuf' \in Seq(1..MaxSends) /\ sock' \in Seq(1..MaxSends)
      /\ accepted' \in Seq(1..MaxSends)
      /\ events' \subseteq {"read", "write"} /\ added' \in BOOLEAN
      /\ queue' = q \/ queue' = Append(q, [op |-> "complete"])
      /\ StreamOrder'
  BY <1>2, <1>3, <1>4, SendKeeps
<1>6. /\ queue' \in Seq(Functor) /\ Len(queue') >= Len(q)
      /\ Ops(queue') \subseteq Ops(queue) \cup {"complete"}
      /\ Ops(queue) \subseteq Ops(queue') \cup {"send"} /\ (Once(queue) => Once(queue'))
  <2>1. CASE queue' = q
    BY <1>3, <2>1, LenProperties, SMT
  <2>2. CASE queue' = Append(q, [op |-> "complete"])
    BY <1>3, <2>2, OpsAppend, LenProperties, SMT
  <2> QED
    BY <1>5, <2>1, <2>2
<1>7. TypeOK'
  <2>1. batch' \in 0..Len(queue')
    BY <1>1, <1>2, <1>3, <1>6, LenProperties, SMT
  <2> QED
    BY <1>2, <1>5, <1>6, <2>1, SMT DEF TypeOK
<1>8. Established' /\ Erasing'
  BY <1>1, <1>2, <1>6 DEF Established, Erasing, Ops
<1>9. Armed'
  <2>1. state = "kDisconnected" => events' = events
    BY <1>2 DEF SendInLoop, channel
  <2> QED
    BY <1>1, <1>2, <2>1 DEF Armed, TypeOK
<1>10. Dispatch' /\ StateAsserts'
  BY <1>2 DEF Dispatch, StateAsserts
<1>11. Life'
  <2>1. state = "kDisconnected" => added' = added
    BY <1>2 DEF SendInLoop, channel
  <2>2. added => added'
    BY <1>2 DEF SendInLoop, SendDirect, SendFault, SendBuffered, channel
  <2>3. Orderly'
    BY <1>2, <1>6, <2>1, <2>2 DEF Life, Orderly, SendsOnly, Phase, Ops
  <2>4. Alone' /\ Shut'
    BY <1>2, <1>3 DEF Life, Alone, Unused, Shut
  <2> QED
    BY <2>3, <2>4 DEF Life
<1>12. WritingIffBuffered' /\ ShutdownAfterDrain'
  <2>1. Open <=> Open'
    BY <1>2 DEF Open
  <2>2. Open => /\ "write" \in events' <=> obuf' # <<>>
                /\ wr_shut => obuf' = <<>>
    BY <1>2, <1>3, <1>4, SendFlow DEF WritingIffBuffered, ShutdownAfterDrain
  <2> QED
    BY <1>2, <2>1, <2>2 DEF WritingIffBuffered, ShutdownAfterDrain, Writing
<1> QED
  BY <1>5, <1>7, <1>8, <1>9, <1>10, <1>11, <1>12

(* shutdown() in a callback, on the thread of the loop. *)
LEMMA UserShutdownStep ==
  ASSUME IInv, UserShutdown
  PROVE  IInv'
<1> USE DEF IInv, Control, channel, stream, server, life
<1>1. /\ state = "kConnected" /\ state' = "kDisconnecting"
      /\ wr_shut' = (wr_shut \/ ~Writing)
      /\ UNCHANGED <<channel, stream, queue, batch, lpc, revents, cpc, server, life,
                     sends, failed>>
  BY DEF UserShutdown, ShutdownInLoop
<1>2. TypeOK'
  BY <1>1, SMT DEF TypeOK
<1>3. Established' /\ Erasing'
  BY <1>1 DEF Established, Fresh, Erasing, Ops
<1>4. Dispatch' /\ Armed' /\ StateAsserts'
  BY <1>1 DEF Dispatch, Armed, StateAsserts
<1>5. Life'
  BY <1>1 DEF Life, Orderly, SendsOnly, Alone, Unused, Shut, Phase, Ops
<1>6. StreamOrder'
  BY <1>1 DEF StreamOrder
<1>7. WritingIffBuffered' /\ ShutdownAfterDrain'
  BY <1>1 DEF WritingIffBuffered, ShutdownAfterDrain, Open, Writing
<1> QED
  BY <1>2, <1>3, <1>4, <1>5, <1>6, <1>7

(* handle_close(), on EPOLLHUP and on end of file. *)
LEMMA CloseStep ==
  ASSUME IInv, EventHup \/ ReadEof
  PROVE  IInv'
<1> USE DEF IInv, Control, stream, life
<1>1. /\ HandleClose /\ lpc = "dispatch" /\ failed = "none"
      /\ "HUP" \in revents \/ "IN" \in revents
      /\ revents' \in {revents \ {"HUP"}, revents \ {"IN"}}
      /\ revents' \cap {"IN", "HUP"} = {}
  BY DEF EventHup, ReadEof, LoopAt, Dispatch
<1>2. state \in {"kConnected", "kDisconnecting"}
  BY <1>1 DEF Armed
<1>3. /\ state' = "kDisconnected" /\ events' = {} /\ removing' = TRUE
      /\ UNCHANGED <<added, stream, queue, batch, lpc, cpc, in_map, life, wr_shut, sends, failed>>
  BY <1>1, <1>2 DEF HandleClose
<1>4. TypeOK'
  BY <1>1, <1>3 DEF TypeOK
<1>5. Established' /\ Erasing'
  BY <1>2, <1>3 DEF Established, Fresh, Erasing, Ops
<1>6. Dispatch' /\ Armed' /\ StateAsserts'
  BY <1>1, <1>3 DEF Dispatch, Armed, StateAsserts
<1>7. Life'
  BY <1>2, <1>3 DEF Life, Orderly, SendsOnly, Alone, Unused, Shut, Phase, Ops
<1>8. StreamOrder'
  BY <1>3 DEF StreamOrder
<1>9. WritingIffBuffered' /\ ShutdownAfterDrain'
  BY <1>3 DEF WritingIffBuffered, ShutdownAfterDrain, Open
<1> QED
  BY <1>4, <1>5, <1>6, <1>7, <1>8, <1>9

(* handle_write(). *)
LEMMA WriteStep ==
  ASSUME IInv, NEW n \in Nat \ {0}, HandleWrite(n)
  PROVE  IInv'
<1> USE DEF IInv, Control, server, life
<1> DEFINE rest == SubSeq(obuf, n + 1, Len(obuf))
<1>1. /\ lpc = "dispatch" /\ revents = {"OUT"} /\ Writing /\ ~wr_shut /\ n <= Len(obuf)
      /\ revents' = {}
      /\ sock' = sock \o SubSeq(obuf, 1, n) /\ obuf' = rest
      /\ events' = IF n = Len(obuf) THEN events \ {"write"} ELSE events
      /\ queue' = IF n = Len(obuf) THEN Append(queue, [op |-> "complete"]) ELSE queue
      /\ wr_shut' = (wr_shut \/ (n = Len(obuf) /\ state = "kDisconnecting"))
      /\ UNCHANGED <<state, added, batch, lpc, cpc, server, life, accepted, sends, failed>>
  BY DEF HandleWrite, WritePending, LoopAt
<1>2. /\ obuf \in Seq(1..MaxSends) /\ sock \in Seq(1..MaxSends)
      /\ sock \o obuf = accepted /\ Len(obuf) \in Nat
  BY LenProperties DEF TypeOK, StreamOrder
<1>3. /\ SubSeq(obuf, 1, n) \in Seq(1..MaxSends)
      /\ rest \in Seq(1..MaxSends) /\ Len(rest) = Len(obuf) - n
  BY <1>1, <1>2, OutputSplit
<1>4. SubSeq(obuf, 1, n) \o rest = obuf
  BY <1>1, <1>2, OutputSplit
<1>5. obuf' = <<>> <=> n = Len(obuf)
  <2> HIDE DEF rest
  <2>1. rest = <<>> <=> Len(rest) = 0
    BY <1>3, EmptySeq
  <2> QED
    BY <1>1, <1>2, <1>3, <2>1, SMT
<1> HIDE DEF rest
<1>6. StreamOrder'
  <2>1. (sock \o SubSeq(obuf, 1, n)) \o rest = sock \o (SubSeq(obuf, 1, n) \o rest)
    BY ONLY <1>2, <1>3, AppendInParts, ZenonT(60)
  <2> QED
    BY <1>1, <1>2, <1>4, <2>1 DEF StreamOrder
<1>7. /\ queue \in Seq(Functor) /\ queue' \in Seq(Functor) /\ Len(queue') >= Len(queue)
      /\ Ops(queue) \subseteq Ops(queue') /\ Ops(queue') \subseteq Ops(queue) \cup {"complete"}
      /\ Once(queue) => Once(queue')
  <2>1. queue \in Seq(Functor) /\ [op |-> "complete"] \in Functor
    BY DEF TypeOK, Functor
  <2>2. CASE queue' = queue
    BY <2>1, <2>2, LenProperties, SMT
  <2>3. CASE queue' = Append(queue, [op |-> "complete"])
    BY <2>1, <2>3, OpsAppend, LenProperties, SMT
  <2> QED
    BY <1>1, <2>2, <2>3
<1>8. TypeOK'
  <2>1. batch' \in 0..Len(queue')
    BY <1>1, <1>7, LenProperties, SMT DEF TypeOK
  <2>2. sock' \in Seq(1..MaxSends)
    BY <1>1, <1>2, <1>3, ConcatProperties
  <2>3. wr_shut' \in BOOLEAN
    BY <1>1
  <2> QED
    BY <1>1, <1>3, <1>7, <2>1, <2>2, <2>3 DEF TypeOK
<1>9. ~Fresh
  BY <1>1 DEF Fresh
<1>10. Established' /\ Erasing'
  BY <1>1, <1>7, <1>9 DEF Established, Erasing, Ops
<1>11. Dispatch' /\ Armed' /\ StateAsserts'
  BY <1>1 DEF Dispatch, Armed, StateAsserts
<1>12. Life'
  <2>1. Orderly'
    BY <1>1, <1>7 DEF Life, Orderly, SendsOnly, Phase, Ops
  <2>2. Alone' /\ Shut'
    BY <1>1, <1>7 DEF Life, Alone, Unused, Shut, Ops
  <2> QED
    BY <2>1, <2>2 DEF Life
<1>13. WritingIffBuffered' /\ ShutdownAfterDrain'
  BY <1>1, <1>5 DEF WritingIffBuffered, ShutdownAfterDrain, Open, Writing
<1> QED
  BY <1>6, <1>8, <1>10, <1>11, <1>12, <1>13

(* remove_connection_in_loop(). *)
LEMMA RemoveStep ==
  ASSUME IInv, RemoveConnectionInLoop
  PROVE  IInv'
<1> USE DEF IInv, Control, channel, stream, life
<1>1. /\ removing /\ removing' = FALSE /\ in_map' = FALSE /\ failed = "none"
      /\ failed' = IF in_map THEN failed ELSE "erase"
      /\ queue' = Append(queue, [op |-> "destroyed"])
      /\ UNCHANGED <<state, channel, stream, batch, lpc, revents, cpc, life, wr_shut, sends>>
  BY DEF RemoveConnectionInLoop
<1>2. queue \in Seq(Functor) /\ [op |-> "destroyed"] \in Functor
  BY DEF TypeOK, Functor
<1>3. /\ queue' \in Seq(Functor) /\ Len(queue') = Len(queue) + 1
      /\ Ops(queue') = Ops(queue) \cup {"destroyed"}
      /\ "destroyed" \notin Ops(queue) => Once(queue')
  BY <1>1, <1>2, OpsAppend
<1>4. TypeOK'
  <2>1. batch' \in 0..Len(queue')
    BY <1>1, <1>2, <1>3, LenProperties, SMT DEF TypeOK
  <2> QED
    BY <1>1, <1>3, <2>1 DEF TypeOK
<1>5. Fresh => SendsOnly
  BY DEF Fresh, SendsOnly
<1>6. ~Fresh
  BY <1>1, <1>5 DEF Life, Orderly, Phase, Fresh
<1>7. Established' /\ Erasing'
  BY <1>1, <1>3, <1>6 DEF Established, Erasing, Ops
<1>8. Dispatch' /\ Armed' /\ StateAsserts'
  BY <1>1 DEF Dispatch, Armed, StateAsserts
<1>9. Life'
  <2>1. SendsOnly => /\ state = "kDisconnected" /\ in_map /\ alive /\ added
                     /\ "destroyed" \notin Ops(queue)
    BY <1>1 DEF Life, Orderly, Phase
  <2>2. SendsOnly => failed' = "none" /\ Phase'
    BY <1>1, <1>3, <2>1 DEF Phase, Ops
  <2>3. Orderly'
    BY <1>1, <2>2 DEF Orderly, SendsOnly
  <2>4. Alone' /\ Shut'
    BY <1>1, <1>3 DEF Life, Alone, Unused, Shut, Ops
  <2> QED
    BY <2>3, <2>4 DEF Life
<1>10. StreamOrder'
  BY <1>1 DEF StreamOrder
<1>11. WritingIffBuffered' /\ ShutdownAfterDrain'
  BY <1>1 DEF WritingIffBuffered, ShutdownAfterDrain, Open
<1> QED
  BY <1>4, <1>7, <1>8, <1>9, <1>10, <1>11

(* The destructor, and a functor that runs after it. *)
LEMMA DestructStep ==
  ASSUME IInv, Destruct \/ RunDangling
  PROVE  IInv'
<1> USE DEF IInv, Control, channel, stream, server, life
<1>1. /\ failed = "none" /\ alive' \in {alive, FALSE}
      /\ failed' \in {"none", "state", "added", "dangling"}
      /\ UNCHANGED <<state, channel, stream, queue, batch, lpc, revents, cpc, server,
                     ptr, held, wr_shut, sends>>
  BY DEF Destruct, RunDangling, Running, LoopAt
<1>2. TypeOK'
  <2>1. alive' \in BOOLEAN
    BY <1>1 DEF TypeOK
  <2> QED
    BY <1>1, <2>1, SMT DEF TypeOK
<1>3. Established' /\ Erasing'
  BY <1>1 DEF Established, Fresh, Erasing, Ops
<1>4. Dispatch' /\ Armed' /\ StateAsserts'
  BY <1>1 DEF Dispatch, Armed, StateAsserts
<1>5. Life'
  <2>1. CASE RunDangling
    <3>1. /\ Head(queue).op \in {"send", "shutdown"} /\ queue \in Seq(Functor) /\ queue # <<>>
          /\ failed' = "dangling" /\ alive' = alive
      BY <2>1, RunningFacts DEF RunDangling
    <3>2. Alone'
      <4>1. ~Unused
        BY <3>1, OpsTail DEF Life, Alone
      <4> QED
        BY <1>1, <4>1 DEF Alone, Unused
    <3>3. Orderly'
      BY <1>1, <3>1 DEF Life, Orderly, SendsOnly, Phase, Ops
    <3> QED
      BY <1>1, <3>2, <3>3 DEF Life, Shut
  <2>2. CASE Destruct
    <3>1. ~in_map /\ "destroyed" \notin Ops(queue) /\ failed' # "dangling"
      BY <1>1, <2>2, LenProperties DEF Destruct, Referenced, Ops, TypeOK
    <3>2. SendsOnly => state = "kDisconnected" /\ ~removing /\ ~added
      BY <3>1 DEF Life, Orderly, Phase
    <3>3. SendsOnly => failed' = "none"
      BY <1>1, <2>2, <3>2 DEF Destruct
    <3>4. Orderly'
      BY <1>1, <3>1, <3>2, <3>3 DEF Orderly, SendsOnly, Phase, Ops
    <3>5. Alone' /\ Shut'
      BY <1>1, <3>1 DEF Life, Alone, Unused, Shut, Ops
    <3> QED
      BY <3>4, <3>5 DEF Life
  <2> QED
    BY <2>1, <2>2
<1>6. StreamOrder'
  BY <1>1 DEF StreamOrder
<1>7. WritingIffBuffered' /\ ShutdownAfterDrain'
  BY <1>1 DEF WritingIffBuffered, ShutdownAfterDrain, Open, Writing
<1> QED
  BY <1>2, <1>3, <1>4, <1>5, <1>6, <1>7

-----------------------------------------------------------------------------
(* Every step keeps the invariant. *)
LEMMA StepIInv == IInv /\ [Next]_vars => IInv'
<1> SUFFICES ASSUME IInv, [Next]_vars PROVE IInv'
  OBVIOUS
<1>1. CASE \E t \in Callers : SendCheck(t) \/ ShutdownCheck(t) \/ DropPtr(t) \/ CallerStep(t)
  BY <1>1, CallStep, QueueStep, MoveStep DEF CallerStep, Moves
<1>2. CASE \E len \in 0..MaxLen : UserSend(len)
  BY <1>2, UserSendStep
<1>3. CASE UserShutdown
  BY <1>3, UserShutdownStep
<1>4. CASE LoopStep
  BY <1>4, MoveStep, EstablishedStep, DestroyedStep, CompleteShutdownStep, RunSendStep,
     DestructStep, CloseStep
  DEF LoopStep, Moves
<1>5. CASE Drain
  <2>1. PICK n \in 1..(MaxSends * MaxLen) : HandleWrite(n)
    BY <1>5 DEF Drain
  <2>2. n \in Nat \ {0}
    BY <2>1, SMT
  <2> QED
    BY <2>1, <2>2, WriteStep
<1>6. CASE \E re \in SUBSET {"IN", "OUT", "HUP"} : Poll(re)
  BY <1>6, MoveStep DEF Moves
<1>7. CASE RemoveConnectionInLoop
  BY <1>7, RemoveStep
<1>8. CASE Destruct
  BY <1>8, DestructStep
<1>9. CASE Terminated \/ UNCHANGED vars
  <2>1. UNCHANGED vars
    BY <1>9 DEF Terminated
  <2> USE <2>1 DEF vars, channel, stream, server, life, IInv, Control
  <2>2. TypeOK'
    BY SMT DEF TypeOK
  <2>3. Established' /\ Dispatch' /\ Armed' /\ Erasing' /\ StateAsserts'
    BY DEF Established, Fresh, Dispatch, Armed, Erasing, StateAsserts, Ops
  <2>4. Life'
    BY DEF Life, Orderly, SendsOnly, Alone, Unused, Shut, Phase, Ops, Once
  <2>5. StreamOrder' /\ WritingIffBuffered' /\ ShutdownAfterDrain'
    BY DEF StreamOrder, WritingIffBuffered, ShutdownAfterDrain, Open, Writing
  <2> QED
    BY <2>2, <2>3, <2>4, <2>5
<1> QED
  BY <1>1, <1>2, <1>3, <1>4, <1>5, <1>6, <1>7, <1>8, <1>9 DEF Next

(* The state of a connection is well typed, whichever threads use it. *)
THEOREM TypeCorrect == Spec => []TypeOK
<1>1. IInv => TypeOK
  BY DEF IInv
<1> QED
  BY <1>1, InitIInv, StepIInv, PTL DEF Spec

(***************************************************************************)
(* Partial writes by send_in_loop() and handle_write() neither lose,       *)
(* repeat nor reorder a byte.                                              *)
(***************************************************************************)
THEOREM StreamKept == Spec => []StreamOrder
<1>1. IInv => StreamOrder
  BY DEF IInv
<1> QED
  BY <1>1, InitIInv, StepIInv, PTL DEF Spec

(* EPOLLOUT is enabled exactly while output_buffer_ holds something. *)
THEOREM WritingExact == Spec => []WritingIffBuffered
<1>1. IInv => WritingIffBuffered
  BY DEF IInv
<1> QED
  BY <1>1, InitIInv, StepIInv, PTL DEF Spec

(* shutdown() never cuts off output of an open connection. *)
THEOREM NoOutputCut == Spec => []ShutdownAfterDrain
<1>1. IInv => ShutdownAfterDrain
  BY DEF IInv
<1> QED
  BY <1>1, InitIInv, StepIInv, PTL DEF Spec

(***************************************************************************)
(* Used on the thread of its loop only, a connection violates no assert    *)
(* and is not used after its destructor; with send() from any number of    *)
(* other threads it still violates no assert; and the asserts of           *)
(* connect_established() and handle_close() hold whoever uses it.          *)
(***************************************************************************)
THEOREM LifetimeKept == Spec => []LifetimeSafe
<1>1. IInv => LifetimeSafe
  <2> SUFFICES ASSUME IInv PROVE LifetimeSafe
    OBVIOUS
  <2>1. Unused => SendsOnly
    BY DEF Unused, SendsOnly
  <2> QED
    BY <2>1 DEF IInv, Control, StateAsserts, Life, Orderly, Alone, LifetimeSafe
<1> QED
  BY <1>1, InitIInv, StepIInv, PTL DEF Spec
=============================================================================
