--------------------------- MODULE TcpConnection ----------------------------
(***************************************************************************)
(* clia::net::TcpConnection: one connection, the thread of its loop and    *)
(* threads that call send() and shutdown() from outside.                   *)
(*                                                                         *)
(* The loop is what module EventLoop shows it to be, an executor that runs *)
(* functors in order, a batch at a time; the functors of a batch, and the  *)
(* TcpConnectionPtr bound in them, are released when the batch ends.       *)
(* connect_established, connect_destoryed and the write-complete callback  *)
(* are bound to a TcpConnectionPtr, send_in_loop and shutdown_in_loop to a *)
(* plain this.  The TcpServer is its map entry and the functor that its    *)
(* remove_connection() queues.  SIGPIPE is taken to be ignored.            *)
(***************************************************************************)
EXTENDS Naturals, Sequences

CONSTANTS
  Callers,    \* threads other than the loop's that use the connection
  MaxSends,   \* bound: calls of send() that get past its test
  MaxLen      \* bound: bytes in a message

ASSUME ConnectionAssumption == MaxSends \in Nat /\ MaxLen \in Nat

VARIABLES
  state,      \* state_
  events,     \* events_ of channel_
  added,      \* channel_ is registered with the poller
  obuf,       \* output_buffer_; a byte is the number of its message
  queue,      \* functors of the loop that concern the connection
  batch,      \* how many of them belong to the batch being run
  held,       \* an executed functor of the batch holds a TcpConnectionPtr
  lpc,        \* where the thread of the loop is
  revents,    \* what is left of revents_ in handle_event_with_guard()
  cpc,        \* where each caller is in send() or shutdown()
  ptr,        \* callers that hold a TcpConnectionPtr
  in_map,     \* connections_ of the server holds one
  removing,   \* remove_connection_in_loop() is queued in the base loop
  alive,      \* ~TcpConnection() has not run
  sock,       \* bytes handed to the kernel
  wr_shut,    \* shutdown(SHUT_WR) was called
  accepted,   \* bytes that send_in_loop() took, in order
  sends,      \* number of the latest send()
  failed      \* the assert that failed, or "dangling" for a use of this
              \* after the destructor

channel == <<events, added>>
server == <<in_map, removing>>
stream == <<obuf, sock, accepted>>
life == <<ptr, alive, held>>
vars == <<state, channel, stream, queue, batch, lpc, revents, cpc, server, life,
          wr_shut, sends, failed>>

Writing == "write" \in events

(* new_connection(): the map entry, and connect_established() queued. *)
Init ==
  /\ state = "kConnecting"
  /\ events = {} /\ added = FALSE
  /\ obuf = <<>> /\ sock = <<>> /\ accepted = <<>>
  /\ queue = <<[op |-> "established"]>> /\ batch = 0
  /\ lpc = "poll" /\ revents = {}
  /\ cpc = [t \in Callers |-> [at |-> "idle"]]
  /\ in_map = TRUE /\ removing = FALSE
  /\ ptr = {} /\ alive = TRUE /\ held = FALSE
  /\ wr_shut = FALSE
  /\ sends = 0
  /\ failed = "none"

-----------------------------------------------------------------------------
Bytes(m, n) == [i \in 1..n |-> m]

(* Mutant of ShutdownInLoop: pending output is not waited for. *)
ShutdownInLoopAlways == wr_shut' = TRUE

(* Socket::shutdown_write() unless output is pending. *)
ShutdownInLoop == wr_shut' = (wr_shut \/ ~Writing)

(* Mutant of SendDirect: a message may overtake the buffered ones. *)
SendDirectAnyTime(m, len, q) ==
  \E n \in 0..len :
    /\ ~wr_shut
    /\ sock' = sock \o Bytes(m, n)
    /\ obuf' = obuf \o Bytes(m, len - n)
    /\ events' = IF n < len THEN events \cup {"write"} ELSE events
    /\ added' = (added \/ n < len)
    /\ queue' = IF n = len THEN Append(q, [op |-> "complete"]) ELSE q
    /\ accepted' = accepted \o Bytes(m, len)

(***************************************************************************)
(* send_in_loop() of message m, where q are the functors already queued.   *)
(* Nothing is buffered: write() takes n bytes (EWOULDBLOCK is n = 0), and  *)
(* the rest is buffered and EPOLLOUT enabled.                              *)
(***************************************************************************)
SendDirect(m, len, q) ==
  /\ ~Writing /\ obuf = <<>>
  /\ \E n \in 0..len :
       /\ ~wr_shut
       /\ sock' = sock \o Bytes(m, n)
       /\ obuf' = Bytes(m, len - n)
       /\ events' = IF n < len THEN events \cup {"write"} ELSE events
       /\ added' = (added \/ n < len)
       /\ queue' = IF n = len THEN Append(q, [op |-> "complete"]) ELSE q
       /\ accepted' = accepted \o Bytes(m, len)

(* ... or write() fails, with any error: the whole message is dropped. *)
SendFault(m, len, q) ==
  /\ ~Writing /\ obuf = <<>>
  /\ queue' = q
  /\ UNCHANGED <<stream, channel>>

(* Something is buffered: so is all of the message. *)
SendBuffered(m, len, q) ==
  /\ Writing \/ obuf # <<>>
  /\ obuf' = obuf \o Bytes(m, len)
  /\ events' = IF len > 0 THEN events \cup {"write"} ELSE events
  /\ added' = (added \/ len > 0)
  /\ queue' = q
  /\ accepted' = accepted \o Bytes(m, len)
  /\ UNCHANGED sock

SendInLoop(m, len, q) ==
  \/ state = "kDisconnected" /\ queue' = q /\ UNCHANGED <<stream, channel>>
  \/ /\ state # "kDisconnected"
     /\ SendDirect(m, len, q) \/ SendFault(m, len, q) \/ SendBuffered(m, len, q)

-----------------------------------------------------------------------------
(* Thread t is in neither call; "sent" or "shut" after one. *)
Idle(t) == cpc[t].at \in {"idle", "sent", "shut"}

(* Calls from other threads.  send(): the test of state_... *)
SendCheck(t) ==
  /\ failed = "none"
  /\ t \in ptr /\ Idle(t)
  /\ state = "kConnected"
  /\ sends < MaxSends
  /\ sends' = sends + 1
  /\ cpc' = [cpc EXCEPT ![t] = [at |-> "send", msg |-> sends + 1]]
  /\ UNCHANGED <<state, channel, stream, queue, batch, lpc, revents, server, life,
                 wr_shut, failed>>

(* ... and the functor, bound to this. *)
SendQueue(t, len) ==
  /\ failed = "none"
  /\ cpc[t].at = "send"
  /\ queue' = Append(queue, [op |-> "send", msg |-> cpc[t].msg, len |-> len])
  /\ cpc' = [cpc EXCEPT ![t] = [at |-> "sent"]]
  /\ UNCHANGED <<state, channel, stream, batch, lpc, revents, server, life,
                 wr_shut, sends, failed>>

(* shutdown(): the test of state_, its assignment, and the functor. *)
ShutdownCheck(t) ==
  /\ failed = "none"
  /\ t \in ptr /\ Idle(t)
  /\ state = "kConnected"
  /\ cpc' = [cpc EXCEPT ![t] = [at |-> "set"]]
  /\ UNCHANGED <<state, channel, stream, queue, batch, lpc, revents, server, life,
                 wr_shut, sends, failed>>

ShutdownSet(t) ==
  /\ failed = "none"
  /\ cpc[t].at = "set"
  /\ state' = "kDisconnecting"
  /\ cpc' = [cpc EXCEPT ![t] = [at |-> "shutdown"]]
  /\ UNCHANGED <<channel, stream, queue, batch, lpc, revents, server, life,
                 wr_shut, sends, failed>>

ShutdownQueue(t) ==
  /\ failed = "none"
  /\ cpc[t].at = "shutdown"
  /\ queue' = Append(queue, [op |-> "shutdown"])
  /\ cpc' = [cpc EXCEPT ![t] = [at |-> "shut"]]
  /\ UNCHANGED <<state, channel, stream, batch, lpc, revents, server, life,
                 wr_shut, sends, failed>>

(* The caller lets its TcpConnectionPtr go. *)
DropPtr(t) ==
  /\ t \in ptr /\ Idle(t)
  /\ ptr' = ptr \ {t}
  /\ UNCHANGED <<state, channel, stream, queue, batch, lpc, revents, cpc, server,
                 alive, held, wr_shut, sends, failed>>

-----------------------------------------------------------------------------
(* User code on the thread of the loop, in a callback: send(), shutdown(). *)
LoopAt(p) == lpc = p /\ failed = "none"

UserSend(len) ==
  /\ LoopAt("callback")
  /\ state = "kConnected"
  /\ sends < MaxSends
  /\ sends' = sends + 1
  /\ SendInLoop(sends + 1, len, queue)
  /\ UNCHANGED <<state, batch, lpc, revents, cpc, server, life, wr_shut, failed>>

UserShutdown ==
  /\ LoopAt("callback")
  /\ state = "kConnected"
  /\ state' = "kDisconnecting"
  /\ ShutdownInLoop
  /\ UNCHANGED <<channel, stream, queue, batch, lpc, revents, cpc, server, life,
                 sends, failed>>

CallbackReturn ==
  /\ LoopAt("callback")
  /\ lpc' = IF held THEN "functors" ELSE "dispatch"
  /\ UNCHANGED <<state, channel, stream, queue, batch, revents, cpc, server, life,
                 wr_shut, sends, failed>>

-----------------------------------------------------------------------------
(***************************************************************************)
(* loop(): a poll reports events of the channel, or none, and after they   *)
(* are handled do_pending_functors() swaps and runs what is queued.        *)
(* EPOLLHUP counts without EPOLLIN only; EPOLLERR leads to handle_error(), *)
(* which only logs and is left out.                                        *)
(***************************************************************************)
Poll(re) ==
  /\ LoopAt("poll")
  /\ re # {} => added /\ events # {}
  /\ "IN" \in re => "read" \in events /\ "HUP" \notin re
  /\ "OUT" \in re => Writing
  /\ revents' = re
  /\ lpc' = "dispatch"
  /\ UNCHANGED <<state, channel, stream, queue, batch, cpc, server, life, wr_shut,
                 sends, failed>>

FunctorsBegin ==
  /\ LoopAt("dispatch") /\ revents = {}
  /\ lpc' = "functors"
  /\ batch' = Len(queue)
  /\ UNCHANGED <<state, channel, stream, queue, revents, cpc, server, life, wr_shut,
                 sends, failed>>

FunctorsEnd ==
  /\ LoopAt("functors") /\ batch = 0
  /\ lpc' = "poll"
  /\ held' = FALSE
  /\ UNCHANGED <<state, channel, stream, queue, batch, revents, cpc, server, ptr,
                 alive, wr_shut, sends, failed>>

Running(op) == LoopAt("functors") /\ batch > 0 /\ Head(queue).op = op

(* connect_established(), and the connection callback. *)
ConnectEstablished ==
  /\ Running("established")
  /\ failed' = IF state = "kConnecting" THEN failed ELSE "established"
  /\ state' = "kConnected"
  /\ events' = events \cup {"read"} /\ added' = TRUE
  /\ ptr' = Callers
  /\ lpc' = "callback"
  /\ queue' = Tail(queue) /\ batch' = batch - 1 /\ held' = TRUE
  /\ UNCHANGED <<stream, revents, cpc, server, alive, wr_shut, sends>>

(***************************************************************************)
(* connect_destoryed().  The callback finds the connection disconnected,   *)
(* so that its calls do nothing.                                           *)
(***************************************************************************)
ConnectDestroyed ==
  /\ Running("destroyed")
  /\ state' = IF state = "kConnected" THEN "kDisconnected" ELSE state
  /\ events' = IF state = "kConnected" THEN {} ELSE events
  /\ failed' = IF events' = {} /\ added THEN failed ELSE "remove"
  /\ added' = FALSE
  /\ queue' = Tail(queue) /\ batch' = batch - 1 /\ held' = TRUE
  /\ UNCHANGED <<stream, lpc, revents, cpc, server, ptr, alive, wr_shut, sends>>

WriteComplete ==
  /\ Running("complete")
  /\ lpc' = "callback"
  /\ queue' = Tail(queue) /\ batch' = batch - 1 /\ held' = TRUE
  /\ UNCHANGED <<state, channel, stream, revents, cpc, server, ptr, alive, wr_shut,
                 sends, failed>>

RunSend ==
  /\ Running("send") /\ alive
  /\ SendInLoop(Head(queue).msg, Head(queue).len, Tail(queue))
  /\ batch' = batch - 1
  /\ UNCHANGED <<state, lpc, revents, cpc, server, life, wr_shut, sends, failed>>

RunShutdown ==
  /\ Running("shutdown") /\ alive
  /\ ShutdownInLoop
  /\ queue' = Tail(queue) /\ batch' = batch - 1
  /\ UNCHANGED <<state, channel, stream, lpc, revents, cpc, server, life, sends, failed>>

(* A functor bound to this runs after the destructor. *)
RunDangling ==
  /\ Running("send") \/ Running("shutdown")
  /\ ~alive
  /\ failed' = "dangling"
  /\ UNCHANGED <<state, channel, stream, queue, batch, lpc, revents, cpc, server,
                 life, wr_shut, sends>>

-----------------------------------------------------------------------------
(* Mutant of HandleClose: the channel keeps its events. *)
HandleCloseStaysEnabled ==
  /\ failed' = IF state \in {"kConnected", "kDisconnecting"} THEN failed ELSE "close"
  /\ state' = "kDisconnected"
  /\ removing' = TRUE
  /\ UNCHANGED <<channel, stream, queue, batch, lpc, cpc, in_map, life, wr_shut, sends>>

(* handle_close(): close_callback_ is TcpServer::remove_connection(). *)
HandleClose ==
  /\ failed' = IF state \in {"kConnected", "kDisconnecting"} THEN failed ELSE "close"
  /\ state' = "kDisconnected"
  /\ events' = {}
  /\ removing' = TRUE
  /\ UNCHANGED <<added, stream, queue, batch, lpc, cpc, in_map, life, wr_shut, sends>>

EventHup ==
  /\ LoopAt("dispatch") /\ "HUP" \in revents
  /\ revents' = revents \ {"HUP"}
  /\ HandleClose

(* handle_read(): data and the message callback; end of file; an error. *)
ReadData ==
  /\ LoopAt("dispatch") /\ "IN" \in revents
  /\ revents' = revents \ {"IN"}
  /\ lpc' = "callback"
  /\ UNCHANGED <<state, channel, stream, queue, batch, cpc, server, life, wr_shut,
                 sends, failed>>

ReadEof ==
  /\ LoopAt("dispatch") /\ "IN" \in revents
  /\ revents' = revents \ {"IN"}
  /\ HandleClose

ReadError ==
  /\ LoopAt("dispatch") /\ "IN" \in revents
  /\ revents' = revents \ {"IN"}
  /\ UNCHANGED <<state, channel, stream, queue, batch, lpc, cpc, server, life, wr_shut,
                 sends, failed>>

WritePending == LoopAt("dispatch") /\ revents = {"OUT"}

(* Mutant of HandleWrite: shutdown() is forgotten when output drains. *)
HandleWriteNoShutdown(n) ==
  /\ WritePending /\ Writing /\ ~wr_shut
  /\ n <= Len(obuf)
  /\ revents' = {}
  /\ sock' = sock \o SubSeq(obuf, 1, n)
  /\ obuf' = SubSeq(obuf, n + 1, Len(obuf))
  /\ events' = IF n = Len(obuf) THEN events \ {"write"} ELSE events
  /\ queue' = IF n = Len(obuf) THEN Append(queue, [op |-> "complete"]) ELSE queue
  /\ UNCHANGED <<state, added, batch, lpc, cpc, server, life, wr_shut, accepted, sends, failed>>

(* Mutant of HandleWrite: EPOLLOUT stays enabled when output drains. *)
HandleWriteKeepsWriting(n) ==
  /\ WritePending /\ Writing /\ ~wr_shut
  /\ n <= Len(obuf)
  /\ revents' = {}
  /\ sock' = sock \o SubSeq(obuf, 1, n)
  /\ obuf' = SubSeq(obuf, n + 1, Len(obuf))
  /\ queue' = IF n = Len(obuf) THEN Append(queue, [op |-> "complete"]) ELSE queue
  /\ wr_shut' = (wr_shut \/ (n = Len(obuf) /\ state = "kDisconnecting"))
  /\ UNCHANGED <<state, channel, batch, lpc, cpc, server, life, accepted, sends, failed>>

(***************************************************************************)
(* handle_write(): write() takes n > 0 bytes.  When nothing is left,       *)
(* EPOLLOUT is disabled, the write-complete callback queued, and a         *)
(* shutdown() that had to wait is carried out.                             *)
(***************************************************************************)
HandleWrite(n) ==
  /\ WritePending /\ Writing /\ ~wr_shut
  /\ n <= Len(obuf)
  /\ revents' = {}
  /\ sock' = sock \o SubSeq(obuf, 1, n)
  /\ obuf' = SubSeq(obuf, n + 1, Len(obuf))
  /\ events' = IF n = Len(obuf) THEN events \ {"write"} ELSE events
  /\ queue' = IF n = Len(obuf) THEN Append(queue, [op |-> "complete"]) ELSE queue
  /\ wr_shut' = (wr_shut \/ (n = Len(obuf) /\ state = "kDisconnecting"))
  /\ UNCHANGED <<state, added, batch, lpc, cpc, server, life, accepted, sends, failed>>

(* write() fails, or the channel was closed by an earlier part of the event. *)
HandleWriteNothing ==
  /\ WritePending
  /\ revents' = {}
  /\ UNCHANGED <<state, channel, stream, queue, batch, lpc, cpc, server, life, wr_shut,
                 sends, failed>>

-----------------------------------------------------------------------------
(* Mutant of RemoveConnectionInLoop: connections_ keeps its entry. *)
RemoveConnectionKeepsEntry ==
  /\ removing /\ failed = "none"
  /\ removing' = FALSE
  /\ queue' = Append(queue, [op |-> "destroyed"])
  /\ UNCHANGED <<state, channel, stream, batch, lpc, revents, cpc, in_map, life, wr_shut,
                 sends, failed>>

(* TcpServer::remove_connection_in_loop(), on the base loop. *)
RemoveConnectionInLoop ==
  /\ removing /\ failed = "none"
  /\ removing' = FALSE
  /\ failed' = IF in_map THEN failed ELSE "erase"
  /\ in_map' = FALSE
  /\ queue' = Append(queue, [op |-> "destroyed"])
  /\ UNCHANGED <<state, channel, stream, batch, lpc, revents, cpc, life, wr_shut, sends>>

Referenced ==
  \/ in_map \/ removing \/ held \/ ptr # {}
  \/ lpc = "callback" \/ revents # {}
  \/ \E i \in DOMAIN queue : queue[i].op \in {"established", "destroyed", "complete"}

(* The last reference is gone: ~TcpConnection() and ~Channel(). *)
Destruct ==
  /\ alive /\ failed = "none"
  /\ ~Referenced
  /\ alive' = FALSE
  /\ failed' = IF state # "kDisconnected" THEN "state"
               ELSE IF added THEN "added" ELSE failed
  /\ UNCHANGED <<state, channel, stream, queue, batch, lpc, revents, cpc, server,
                 ptr, held, wr_shut, sends>>

Terminated ==
  /\ failed # "none"
  /\ UNCHANGED vars

CallerStep(t) ==
  \/ \E len \in 0..MaxLen : SendQueue(t, len)
  \/ ShutdownSet(t)
  \/ ShutdownQueue(t)

LoopStep ==
  \/ CallbackReturn
  \/ FunctorsBegin \/ FunctorsEnd
  \/ ConnectEstablished \/ ConnectDestroyed \/ WriteComplete
  \/ RunSend \/ RunShutdown \/ RunDangling
  \/ EventHup \/ ReadData \/ ReadEof \/ ReadError
  \/ HandleWriteNothing

Drain == \E n \in 1..(MaxSends * MaxLen) : HandleWrite(n)

Next ==
  \/ \E t \in Callers : SendCheck(t) \/ ShutdownCheck(t) \/ DropPtr(t) \/ CallerStep(t)
  \/ \E len \in 0..MaxLen : UserSend(len)
  \/ UserShutdown
  \/ LoopStep
  \/ Drain
  \/ \E re \in SUBSET {"IN", "OUT", "HUP"} : Poll(re)
  \/ RemoveConnectionInLoop
  \/ Destruct
  \/ Terminated

Spec == Init /\ [][Next]_vars

(***************************************************************************)
(* Fairness: the loops run, started calls are finished, level-triggered    *)
(* epoll keeps reporting a writable socket, and a peer that is there reads *)
(* on, so that write() does not fail for ever.  A caller lets its          *)
(* TcpConnectionPtr go at some time.                                       *)
(***************************************************************************)
LiveSpec ==
  /\ Spec
  /\ WF_vars(LoopStep)
  /\ WF_vars(RemoveConnectionInLoop)
  /\ WF_vars(Destruct)
  /\ WF_vars(Poll({}))
  /\ SF_vars(\E re \in SUBSET {"IN", "OUT", "HUP"} : "OUT" \in re /\ Poll(re))
  /\ SF_vars(Drain)
  /\ \A t \in Callers : WF_vars(CallerStep(t)) /\ SF_vars(DropPtr(t))

-----------------------------------------------------------------------------
Functor ==
  [op : {"established", "destroyed", "complete", "shutdown"}]
    \cup [op : {"send"}, msg : 1..MaxSends, len : 0..MaxLen]

Call ==
  [at : {"idle", "set", "shutdown", "sent", "shut"}] \cup [at : {"send"}, msg : 1..MaxSends]

(* The type invariant. *)
TypeOK ==
  /\ state \in {"kConnecting", "kConnected", "kDisconnecting", "kDisconnected"}
  /\ events \subseteq {"read", "write"} /\ added \in BOOLEAN
  /\ obuf \in Seq(1..MaxSends) /\ sock \in Seq(1..MaxSends)
  /\ accepted \in Seq(1..MaxSends)
  /\ queue \in Seq(Functor) /\ batch \in 0..Len(queue)
  /\ lpc \in {"poll", "dispatch", "functors", "callback"} /\ revents \subseteq {"IN", "OUT", "HUP"}
  /\ cpc \in [Callers -> Call]
  /\ in_map \in BOOLEAN /\ removing \in BOOLEAN
  /\ ptr \subseteq Callers /\ alive \in BOOLEAN /\ held \in BOOLEAN
  /\ wr_shut \in BOOLEAN
  /\ sends \in 0..MaxSends
  /\ failed \in {"none", "established", "close", "erase", "remove", "state",
                "added", "dangling"}

(***************************************************************************)
(* What the peer can read is the accepted messages in order, each whole:   *)
(* partial writes and output_buffer_ neither lose, repeat nor reorder a    *)
(* byte, whichever threads send and whichever handler writes.              *)
(***************************************************************************)
StreamOrder == sock \o obuf = accepted

(* connect_established() has run and handle_close() has not. *)
Open == state # "kConnecting" /\ in_map /\ ~removing

(***************************************************************************)
(* While the connection is open, EPOLLOUT is enabled exactly when output   *)
(* is buffered: neither is output forgotten nor does the loop spin.        *)
(***************************************************************************)
WritingIffBuffered == Open => (Writing <=> obuf # <<>>)

(***************************************************************************)
(* shutdown() does not cut off output: the write side of a connection that *)
(* is not yet closed is shut only when everything accepted is written.     *)
(***************************************************************************)
ShutdownAfterDrain == wr_shut /\ Open => obuf = <<>>

(* No other thread has used the connection, or none has called shutdown(). *)
Unused == \A t \in Callers : cpc[t].at = "idle"
SendsOnly == \A t \in Callers : cpc[t].at \in {"idle", "send", "sent"}

(***************************************************************************)
(* As long as only the thread of the loop calls send() and shutdown(), the *)
(* asserts of the connection and its channel hold and no functor uses this *)
(* after the destructor.  When other threads call send(), the asserts      *)
(* still hold, however their calls fall into the closing of the            *)
(* connection; when they call shutdown() too, handle_close() and           *)
(* connect_established() find the state that their asserts demand.         *)
(***************************************************************************)
LifetimeSafe ==
  /\ Unused => failed = "none"
  /\ SendsOnly => failed \in {"none", "dangling"}
  /\ failed \notin {"established", "close"}

(* ~TcpConnection() finds the connection disconnected.                     *)
DestroyedDisconnected == failed # "state"

(***************************************************************************)
(* Unless the connection closes before, buffered output is written in the  *)
(* end and a shutdown(), which waits for it, is then carried out.          *)
(***************************************************************************)
OutputCompletes ==
  (obuf # <<>> \/ state = "kDisconnecting")
    ~> (~Open \/ (obuf = <<>> /\ (state = "kDisconnecting" => wr_shut)))

(***************************************************************************)
(* A connection that was closed is destroyed, unless a failed assert (see  *)
(* DestroyedDisconnected) ends the program before: map, queues and callers *)
(* give up their references.                                               *)
(***************************************************************************)
ClosedIsDestroyed == removing ~> (~alive \/ failed # "none")
=============================================================================
