----------------------------- MODULE TcpServer ------------------------------
(***************************************************************************)
(* clia::net::TcpServer with its Acceptor, the loops of its thread pool    *)
(* and the life of its connections: accepted on the base loop, established *)
(* on an io loop, closed there, removed from connections_ on the base loop,*)
(* destroyed on the io loop again, their descriptors given to new ones.    *)
(*                                                                         *)
(* A loop is an executor as in module EventLoop: a round takes the functors*)
(* queued so far, runs them in order, and lets go of them, and of the      *)
(* TcpConnectionPtr bound in them, at its end; only then does it look at   *)
(* quit_.  What a connection does with its bytes is module TcpConnection.  *)
(* As in test_server.cc the server goes out of scope when loop() of the    *)
(* base loop has returned, and the base loop after it.                     *)
(***************************************************************************)
EXTENDS Naturals, Sequences

CONSTANTS
  Base,      \* the base loop
  Fds,       \* descriptors
  MaxPool,   \* bound: io loops, which are 1..MaxPool
  MaxConns   \* bound: connections, which are 1..MaxConns

ASSUME ServerAssumption ==
  /\ MaxPool \in Nat /\ MaxConns \in Nat
  /\ Base \notin 1..MaxPool
  /\ Fds \subseteq Nat

Conns == 1..MaxConns

VARIABLES
  pool,         \* num_threads_: the io loops are 1..pool
  next,         \* next_ of the pool
  srv,          \* where the thread of the base loop is in the server's life;
                \*   accept_channel_ is registered from "serving" to "gone"
  connections,  \* connections_
  born,         \* connections made so far
  fd, owner,    \* of each connection: its descriptor, its loop,
  state,        \*   state_,
  reading,      \*   whether channel_ has events,
  added,        \*   whether its poller knows it,
  alive,        \*   and whether it has been made and not destructed
  lpc,          \* where each loop is
  queue,        \* pending_functors_ of each loop
  batch,        \* how many of them belong to the round
  held,         \* connections that the round's functors hold
  quit,         \* loops whose quit_ is set
  dropped,      \* connections whose functor a loop that ended did not run
  failed        \* the assert that failed, or the use of a destroyed loop

server == <<pool, next, srv>>
conn == <<fd, owner, state, reading, added, alive, born>>
looper == <<lpc, queue, batch, held, quit, dropped>>
vars == <<server, connections, conn, looper, failed>>

Loops == {Base} \cup 1..pool
AllLoops == {Base} \cup 1..MaxPool

Init ==
  /\ pool \in 0..MaxPool
  /\ next = 1 /\ srv = "constructed"
  /\ connections = <<>>
  /\ born = 0
  /\ fd = [c \in Conns |-> 0] /\ owner = [c \in Conns |-> Base]
  /\ state = [c \in Conns |-> "kConnecting"]
  /\ reading = {} /\ added = {} /\ alive = {}
  /\ lpc = [l \in AllLoops |-> "poll"]
  /\ queue = [l \in AllLoops |-> <<>>] /\ batch = [l \in AllLoops |-> 0]
  /\ held = [l \in AllLoops |-> {}]
  /\ quit = {} /\ dropped = {}
  /\ failed = "none"

-----------------------------------------------------------------------------
Functor(op, c) == [op |-> op, conn |-> c]

Queued(l, f) == [queue EXCEPT ![l] = Append(@, f)]

Bound(l) == {queue[l][i].conn : i \in DOMAIN queue[l]}

(* What the asserts of remove_connection_in_loop() demand. *)
InMap(c) == fd[c] \in DOMAIN connections /\ connections[fd[c]] = c

Referenced(c) ==
  \/ InMap(c)
  \/ \E l \in Loops : c \in held[l] \/ \E i \in DOMAIN queue[l] : queue[l][i].conn = c

(* No assert has failed, and no destructor is due: the step that lets go of *)
(* the last TcpConnectionPtr is followed by the destructor.                *)
Ok == failed = "none"
Ready == Ok /\ \A c \in alive : Referenced(c)

At(l, p) == lpc[l] = p /\ l \in Loops /\ Ready

(* start(): the pool's threads run, and listen() runs on the base loop. *)
Start ==
  /\ srv = "constructed" /\ Ready
  /\ srv' = "serving"
  /\ UNCHANGED <<pool, next, connections, conn, looper, failed>>

(* get_next_loop(). *)
NextLoop == IF pool = 0 THEN Base ELSE next
Advanced == IF next + 1 > pool THEN 1 ELSE next + 1

(* The channel of c joins the poller of its loop, which asserts that no    *)
(* other channel is there for the descriptor.                              *)
ChannelAdd(c, n) ==
  /\ added' = added \cup {c}
  /\ reading' = reading \cup {c}
  /\ failed' = IF \E d \in added \ {c} : fd[d] = n /\ owner[d] = owner'[c]
                 THEN "update" ELSE failed

(* accept() gives a descriptor that no open Socket has; its errors are    *)
(* logged and change nothing.                                              *)
Accepted(n) == \A d \in alive : fd[d] # n

(* Acceptor::handle_read(), on the base loop. *)
HandleRead(n) ==
  /\ At(Base, "poll") /\ srv = "serving"
  /\ born < MaxConns
  /\ Accepted(n)

(***************************************************************************)
(* new_connection(), the callback of handle_read(); connect_established()  *)
(* runs at once when the pool has no loops.                                *)
(***************************************************************************)
NewConnection(n) ==
  LET c == born + 1
      l == NextLoop
  IN /\ HandleRead(n)
     /\ born' = c /\ alive' = alive \cup {c}
     /\ fd' = [fd EXCEPT ![c] = n] /\ owner' = [owner EXCEPT ![c] = l]
     /\ next' = Advanced
     /\ connections' = [m \in DOMAIN connections \cup {n} |-> IF m = n THEN c ELSE connections[m]]
     /\ \/ /\ n \in DOMAIN connections
           /\ failed' = "insert"
           /\ UNCHANGED <<state, reading, added, queue>>
        \/ /\ n \notin DOMAIN connections /\ l = Base
           /\ state' = [state EXCEPT ![c] = "kConnected"]
           /\ ChannelAdd(c, n)
           /\ UNCHANGED queue
        \/ /\ n \notin DOMAIN connections /\ l # Base
           /\ queue' = Queued(l, Functor("established", c))
           /\ UNCHANGED <<state, reading, added, failed>>
     /\ UNCHANGED <<pool, srv, lpc, batch, held, quit, dropped>>

-----------------------------------------------------------------------------
(* Mutant of Erased: the entry stays. *)
ErasedNot(c) == connections

Erased(c) == [m \in DOMAIN connections \ {fd[c]} |-> connections[m]]

(* Mutant of HandleClose: the channel keeps its events. *)
HandleCloseStaysEnabled(c) ==
  /\ c \in reading
  /\ At(owner[c], "poll")
  /\ state' = [state EXCEPT ![c] = "kDisconnected"]
  /\ failed' = IF state[c] # "kConnected" THEN "close" ELSE failed
  /\ connections' = IF owner[c] = Base THEN Erased(c) ELSE connections
  /\ queue' = IF owner[c] = Base THEN Queued(Base, Functor("destroyed", c))
                                 ELSE Queued(Base, Functor("remove", c))
  /\ UNCHANGED <<server, fd, owner, reading, added, alive, born, lpc, batch, held, quit, dropped>>

(***************************************************************************)
(* handle_close() when the peer has closed, and its close callback, which  *)
(* is TcpServer::remove_connection(): on the base loop itself the          *)
(* connection is removed at once.                                          *)
(***************************************************************************)
HandleClose(c) ==
  /\ c \in reading
  /\ At(owner[c], "poll")
  /\ state' = [state EXCEPT ![c] = "kDisconnected"]
  /\ reading' = reading \ {c}
  /\ \/ /\ state[c] # "kConnected"
        /\ failed' = "close"
        /\ UNCHANGED <<connections, queue>>
     \/ /\ state[c] = "kConnected" /\ owner[c] = Base
        /\ failed' = IF InMap(c) THEN failed ELSE "erase"
        /\ connections' = Erased(c)
        /\ queue' = Queued(Base, Functor("destroyed", c))
     \/ /\ state[c] = "kConnected" /\ owner[c] # Base
        /\ queue' = Queued(Base, Functor("remove", c))
        /\ UNCHANGED <<connections, failed>>
  /\ UNCHANGED <<server, fd, owner, added, alive, born, lpc, batch, held, quit, dropped>>

(* do_pending_functors() takes what is queued. *)
RoundBegin(l) ==
  /\ At(l, "poll")
  /\ lpc' = [lpc EXCEPT ![l] = "functors"]
  /\ batch' = [batch EXCEPT ![l] = Len(queue[l])]
  /\ UNCHANGED <<server, connections, conn, queue, held, quit, dropped, failed>>

(* The round ends and lets the functors go that it has run. *)
RoundEnd(l) ==
  /\ batch[l] = 0 /\ held[l] # {}
  /\ At(l, "functors")
  /\ held' = [held EXCEPT ![l] = {}]
  /\ UNCHANGED <<server, connections, conn, lpc, queue, batch, quit, dropped, failed>>

(***************************************************************************)
(* while (!quit_), when nothing is left of the round.  When loop() returns *)
(* on an io thread its EventLoop is destroyed, with its pending functors.  *)
(***************************************************************************)
QuitCheck(l) ==
  /\ batch[l] = 0 /\ held[l] = {}
  /\ At(l, "functors")
  /\ lpc' = [lpc EXCEPT ![l] = IF l \in quit THEN "ended" ELSE "poll"]
  /\ \/ /\ l \in quit /\ l # Base
        /\ queue' = [queue EXCEPT ![l] = <<>>]
        /\ dropped' = dropped \cup Bound(l)
     \/ ~(l \in quit /\ l # Base) /\ UNCHANGED <<queue, dropped>>
  /\ UNCHANGED <<server, connections, conn, batch, held, quit, failed>>

(* The functor at the head of the round is f, and is done. *)
Runs(l, op, c) ==
  /\ batch[l] > 0 /\ Head(queue[l]) = Functor(op, c)
  /\ At(l, "functors")
  /\ batch' = [batch EXCEPT ![l] = @ - 1]
  /\ held' = [held EXCEPT ![l] = @ \cup {c}]
  /\ UNCHANGED <<server, lpc, quit, dropped>>

ConnectEstablished(l, c) ==
  /\ Runs(l, "established", c)
  /\ queue' = [queue EXCEPT ![l] = Tail(@)]
  /\ state' = [state EXCEPT ![c] = "kConnected"]
  /\ \/ /\ state[c] = "kConnecting" /\ owner' = owner
        /\ ChannelAdd(c, fd[c])
     \/ /\ state[c] # "kConnecting"
        /\ failed' = "established"
        /\ UNCHANGED <<added, reading, owner>>
  /\ UNCHANGED <<connections, fd, alive, born>>

RemoveConnectionInLoop(c) ==
  /\ Runs(Base, "remove", c)
  /\ failed' = IF InMap(c) THEN failed ELSE "erase"
  /\ connections' = Erased(c)
  /\ queue' = [queue EXCEPT ![Base] = Tail(@), ![owner[c]] = Append(@, Functor("destroyed", c))]
  /\ UNCHANGED conn

(* Mutant of Destroyed: the channel is not removed from its poller. *)
DestroyedStaysAdded(c) ==
  /\ state' = [state EXCEPT ![c] = "kDisconnected"]
  /\ reading' = reading \ {c}
  /\ UNCHANGED <<fd, owner, added, alive, born, failed>>

(* connect_destoryed(); the asserts of Channel::remove() and of the poller. *)
Destroyed(c) ==
  /\ state' = [state EXCEPT ![c] = IF @ = "kConnected" THEN "kDisconnected" ELSE @]
  /\ reading' = IF state[c] = "kConnected" THEN reading \ {c} ELSE reading
  /\ added' = added \ {c}
  /\ failed' = IF c \in added /\ c \notin reading' THEN failed ELSE "remove"
  /\ UNCHANGED <<fd, owner, alive, born>>

ConnectDestroyed(l, c) ==
  /\ Runs(l, "destroyed", c)
  /\ queue' = [queue EXCEPT ![l] = Tail(@)]
  /\ Destroyed(c)
  /\ UNCHANGED connections

-----------------------------------------------------------------------------
(* quit() of the base loop, from a callback or from another thread. *)
Quit ==
  /\ srv = "serving" /\ Base \notin quit /\ Ready
  /\ quit' = quit \cup {Base}
  /\ UNCHANGED <<server, connections, conn, lpc, queue, batch, held, dropped, failed>>

(* Mutant of DestroyConnection: the entry is reset and nothing else. *)
DestroyConnectionResets ==
  /\ At(Base, "ended") /\ srv = "serving"
  /\ connections # <<>>
  /\ connections' = <<>>
  /\ UNCHANGED <<server, conn, looper, failed>>

(* ~TcpServer(): one turn of its loop over connections_, in order ... *)
DestroyConnection ==
  /\ At(Base, "ended") /\ srv = "serving"
  /\ \E n \in DOMAIN connections :
       LET c == connections[n]
       IN /\ \A k \in DOMAIN connections : n <= k
          /\ connections' = [m \in DOMAIN connections \ {n} |-> connections[m]]
          /\ \/ owner[c] = Base /\ Destroyed(c) /\ UNCHANGED queue
             \/ /\ owner[c] # Base
                /\ queue' = Queued(owner[c], Functor("destroyed", c))
                /\ UNCHANGED <<conn, failed>>
  /\ UNCHANGED <<server, lpc, batch, held, quit, dropped>>

(* Mutant of PoolQuit: the threads are joined and not told to quit. *)
PoolQuitNot ==
  /\ At(Base, "ended") /\ srv = "serving" /\ connections = <<>>
  /\ srv' = "joining"
  /\ UNCHANGED <<pool, next, connections, conn, looper, failed>>

(* ... then the members: the pool, each of whose threads is told to quit   *)
(* once the one before it has been joined ...                              *)
PoolQuit ==
  /\ At(Base, "ended") /\ srv \in {"serving", "joining"} /\ connections = <<>>
  /\ \A l \in 1..pool : l \in quit => lpc[l] = "ended"
  /\ \E l \in (1..pool) \ quit :
       (\A k \in 1..(l - 1) : k \in quit) /\ quit' = quit \cup {l}
  /\ srv' = "joining"
  /\ UNCHANGED <<pool, next, connections, conn, lpc, queue, batch, held,
                 dropped, failed>>

(* ... and the acceptor, and after the server the base loop. *)
ServerGone ==
  /\ At(Base, "ended") /\ srv \in {"serving", "joining"} /\ connections = <<>>
  /\ \A l \in 1..pool : lpc[l] = "ended"
  /\ srv' = "gone"
  /\ dropped' = dropped \cup Bound(Base)
  /\ queue' = [queue EXCEPT ![Base] = <<>>]
  /\ UNCHANGED <<pool, next, connections, conn, lpc, batch, held, quit, failed>>

(***************************************************************************)
(* The last TcpConnectionPtr is gone: ~TcpConnection() asserts the state,  *)
(* ~Channel() asserts that it was removed and asks its loop, which must    *)
(* still be there; the descriptor is closed.                               *)
(***************************************************************************)
Destruct(c) ==
  /\ Ok /\ c \in alive /\ ~Referenced(c)
  /\ alive' = alive \ {c}
  /\ failed' = IF state[c] # "kDisconnected" THEN "state"
               ELSE IF c \in added THEN "added"
               ELSE IF srv = "gone" \/ (owner[c] # Base /\ lpc[owner[c]] = "ended")
                 THEN "loop" ELSE failed
  /\ UNCHANGED <<server, connections, fd, owner, state, reading, added, born, looper>>

(* The program is over. *)
Terminated ==
  /\ ~Ok \/ (srv = "gone" /\ alive = {})
  /\ UNCHANGED vars

LoopStep(l) ==
  \/ RoundBegin(l) \/ RoundEnd(l) \/ QuitCheck(l)
  \/ \E c \in alive : ConnectEstablished(l, c) \/ ConnectDestroyed(l, c)
  \/ \E c \in alive : l = Base /\ RemoveConnectionInLoop(c)

ServerStep == DestroyConnection \/ PoolQuit \/ ServerGone

Next ==
  \/ Start
  \/ \E n \in Fds : NewConnection(n)
  \/ \E c \in alive : HandleClose(c) \/ Destruct(c)
  \/ \E l \in Loops : LoopStep(l)
  \/ Quit
  \/ ServerStep
  \/ Terminated

Spec == Init /\ [][Next]_vars

(***************************************************************************)
(* Fairness: every loop goes on with its rounds, destructors run, and the  *)
(* base thread goes on when its loop() has returned.  No peer has to       *)
(* connect or to close.                                                    *)
(***************************************************************************)
LiveSpec ==
  /\ Spec
  /\ \A l \in AllLoops : WF_vars(LoopStep(l))
  /\ WF_vars(\E c \in alive : Destruct(c))
  /\ WF_vars(ServerStep)

-----------------------------------------------------------------------------
Functors == [op : {"established", "remove", "destroyed"}, conn : Conns]

(***************************************************************************)
(* The type invariant; the loop that get_next_loop() hands out exists.     *)
(***************************************************************************)
TypeOK ==
  /\ pool \in 0..MaxPool
  /\ next \in Nat \ {0} /\ (pool > 0 => next <= pool)
  /\ srv \in {"constructed", "serving", "joining", "gone"}
  /\ connections \in [DOMAIN connections -> Conns] /\ DOMAIN connections \subseteq Fds
  /\ born \in 0..MaxConns
  /\ fd \in [Conns -> Nat] /\ owner \in [Conns -> Loops]
  /\ state \in [Conns -> {"kConnecting", "kConnected", "kDisconnected"}]
  /\ reading \subseteq Conns /\ added \subseteq Conns /\ alive \subseteq 1..born
  /\ lpc \in [AllLoops -> {"poll", "functors", "ended"}]
  /\ queue \in [AllLoops -> Seq(Functors)]
  /\ batch \in [AllLoops -> Nat]
  /\ held \in [AllLoops -> SUBSET (1..born)]
  /\ quit \subseteq AllLoops /\ dropped \subseteq Conns
  /\ failed \in {"none", "insert", "update", "close", "erase", "established", "remove",
                 "state", "added", "loop"}

Serving == srv \in {"constructed", "serving"} /\ lpc[Base] # "ended"

(***************************************************************************)
(* While the server is in use no assert fails, however the rounds of the   *)
(* loops interleave and descriptors are reused: new_connection() finds no  *)
(* entry for the descriptor, remove_connection_in_loop() finds its own,    *)
(* and connections are established, closed and destroyed in that order.    *)
(***************************************************************************)
ServingAssertsHold == Serving => Ok

(***************************************************************************)
(* A poller never keeps the channel of a destructed connection, which the  *)
(* kernel could still report and whose descriptor a new one may have.      *)
(***************************************************************************)
PolledIsAlive ==
  \A c \in added : c \in alive \/ lpc[owner[c]] = "ended"

(***************************************************************************)
(* Taking the server down fails only for a connection whose functor an     *)
(* ended loop dropped: one queued after the last round had begun.          *)
(***************************************************************************)
OnlyDroppedFail ==
  ~Ok => \E c \in dropped : c \notin alive

(* A connection whose peer closed is destructed, unless the server ends.   *)
ClosedIsReleased ==
  \A c \in Conns :
    (c \in alive /\ state[c] = "kDisconnected") ~> (c \notin alive \/ ~Serving)

(* Once loop() of the base loop has returned, ~TcpServer() returns too,    *)
(* unless an assert has failed.                                            *)
ServerDestructs == (lpc[Base] = "ended") ~> (srv = "gone" \/ ~Ok)
=============================================================================
