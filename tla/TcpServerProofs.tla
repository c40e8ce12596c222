-------------------------- MODULE TcpServerProofs ---------------------------
(***************************************************************************)
(* For every number of io loops, connections and descriptors: no assert    *)
(* fails while the server is in use, no poller keeps the channel of a      *)
(* destructed connection, and taking the server down fails only for a      *)
(* connection whose functor an ended loop dropped.  The invariant is that  *)
(* of TcpServerLoops; here are the steps that queue a functor, make or     *)
(* close a connection, and take the server down.                           *)
(***************************************************************************)
EXTENDS TcpServerLoops

(* Zenon proves the steps below, and SMT those that need arithmetic or      *)
(* reason about sequences and records.                                     *)
USE ZenonT(60)

(* queue_in_loop(): the queues are as they were but for the new functor. *)
LEMMA PushFacts ==
  ASSUME Before, NEW l \in AllLoops, NEW op \in Ops, NEW c \in Conns,
         queue' = Queued(l, Functor(op, c)),
         ~Has(queue[l], op, c), op = "established" => ~Has(queue[l], "destroyed", c)
  PROVE  /\ queue' \in [AllLoops -> Seq(Functors)]
         /\ \A m \in AllLoops : batch[m] <= Len(queue'[m]) /\ Tidy(queue'[m])
<1>1. /\ queue'[l] = Append(queue[l], Functor(op, c))
      /\ \A m \in AllLoops : m # l => queue'[m] = queue[m]
  BY DEF Queued, Before, TypeOK
<1>2. queue[l] \in Seq(Functors) /\ Tidy(queue[l])
  BY TypeFacts DEF Before, LoopInv
<1>3. queue'[l] \in Seq(Functors) /\ Tidy(queue'[l]) /\ Len(queue'[l]) = Len(queue[l]) + 1
  BY ONLY <1>1, <1>2, op \in Ops, c \in Conns, ~Has(queue[l], op, c),
          op = "established" => ~Has(queue[l], "destroyed", c), TidyAppend
<1>4. ASSUME NEW m \in AllLoops
      PROVE  queue'[m] \in Seq(Functors) /\ batch[m] <= Len(queue'[m]) /\ Tidy(queue'[m])
  <2>1. /\ batch[m] \in Nat /\ batch[m] <= Len(queue[m])
        /\ Tidy(queue[m]) /\ queue[m] \in Seq(Functors)
    BY TypeFacts DEF Before, LoopInv
  <2>2. CASE m = l
    <3>1. Len(queue[m]) \in Nat
      BY <2>1, SMT
    <3> QED
      BY <1>3, <2>1, <2>2, <3>1, SMT
  <2>3. CASE m # l
    BY <1>1, <2>1, <2>3
  <2> QED
    BY <2>2, <2>3
<1>5. queue' \in [AllLoops -> Seq(Functors)]
  BY <1>3 DEF Queued, Before, TypeOK
<1> QED
  BY <1>4, <1>5

(* A functor that is queued is added to its loop, and to no other. *)
LEMMA PushHas ==
  ASSUME Before, NEW l \in AllLoops, NEW op \in Ops, NEW c \in Conns,
         queue' = Queued(l, Functor(op, c))
  PROVE  \A m \in AllLoops : \A o, d :
           Has(queue'[m], o, d) <=> Has(queue[m], o, d) \/ (m = l /\ o = op /\ d = c)
<1>1. /\ queue'[l] = Append(queue[l], Functor(op, c))
      /\ \A m \in AllLoops : m # l => queue'[m] = queue[m]
  BY DEF Queued, Before, TypeOK
<1>2. \A o, d : Has(queue'[l], o, d) <=> Has(queue[l], o, d) \/ (o = op /\ d = c)
  <2>1. queue[l] \in Seq(Functors)
    BY TypeFacts DEF Before
  <2> QED
    BY ONLY <1>1, <2>1, op \in Ops, c \in Conns, HasAppend
<1>3. \A m \in AllLoops : m # l => queue'[m] = queue[m]
  BY <1>1
<1> QED
  BY ONLY <1>2, <1>3, ZenonT(60)

(***************************************************************************)
(* handle_close() of a connection of the base loop, which is in the map:   *)
(* it is removed at once and connect_destoryed() is queued.                *)
(***************************************************************************)
LEMMA CloseBaseStep ==
  ASSUME Before, NEW c \in alive, HandleClose(c), owner[c] = Base
  PROVE  IInv'
<1>1. /\ Base \in AllLoops /\ Base \in Loops /\ "destroyed" \in Ops /\ "destroyed" # "established"
      /\ c \in Conns /\ born \in Nat /\ c \in 1..born
  BY TypeFacts DEF Before, Ops
<1>2. ConnOk(c) /\ lpc[Base] = "poll" /\ c \in reading
  BY <1>1 DEF Before, ConnsInv, HandleClose, At
<1>3. /\ c \in added /\ state[c] = "kConnected" /\ InMap(c)
      /\ \A m \in AllLoops, o \in Ops : ~Has(queue[m], o, c)
  BY <1>2 DEF ConnOk, Ops
<1>4. /\ UNCHANGED <<server, fd, owner, added, alive, born, lpc, batch, held, quit, dropped, failed>>
      /\ state' = [state EXCEPT ![c] = "kDisconnected"] /\ reading' = reading \ {c}
      /\ connections' = [m \in DOMAIN connections \ {fd[c]} |-> connections[m]]
  BY <1>3 DEF HandleClose, Erased
<1>5. queue' = Queued(Base, Functor("destroyed", c))
  BY <1>3 DEF HandleClose
<1>6. /\ \A d \in Conns : InMap(d)' <=> InMap(d) /\ d # c
      /\ MapInv' /\ DOMAIN connections' \subseteq DOMAIN connections
      /\ connections' \in [DOMAIN connections' -> Conns] /\ DOMAIN connections' \subseteq Fds
  BY <1>1, <1>3, <1>4, ErasedFacts
<1>7. /\ queue' \in [AllLoops -> Seq(Functors)]
      /\ \A m \in AllLoops : batch[m] <= Len(queue'[m]) /\ Tidy(queue'[m])
  BY <1>1, <1>3, <1>5, PushFacts
<1>8. \A m \in AllLoops : \A o, d :
        Has(queue'[m], o, d) <=> Has(queue[m], o, d) \/ (m = Base /\ o = "destroyed" /\ d = c)
  BY <1>1, <1>5, PushHas, SMT
<1>9. TypeOK' /\ state'[c] = "kDisconnected"
  <2>1. state' \in [Conns -> {"kConnecting", "kConnected", "kDisconnected"}] /\ state'[c] = "kDisconnected"
    BY <1>1, <1>4 DEF Before, TypeOK
  <2> QED
    BY <1>4, <1>6, <1>7, <2>1 DEF Before, TypeOK, Loops, server
<1>10. LoopInv'
  BY <1>4, <1>6, <1>7 DEF Before, LoopInv, Loops, server
<1>11. \A d \in Conns \ {c} : Same(d)
  BY <1>4, <1>6, <1>8 DEF Before, TypeOK, Same
<1>12. ConnOk(c)'
  <2>1. /\ \A m \in AllLoops : ~Has(queue'[m], "established", c) /\ ~Has(queue'[m], "remove", c)
        /\ \A m \in AllLoops : Has(queue'[m], "destroyed", c) <=> m = Base
    BY <1>3, <1>8, SMT DEF Ops
  <2> QED
    BY <1>1, <1>3, <1>4, <1>6, <1>9, <2>1, SMT DEF ConnOk
<1>13. Referenced(c)'
  BY <1>1, <1>4, <1>8, <1>9, ReferencedNext DEF server
<1> QED
  BY <1>1, <1>4, <1>6, <1>9, <1>10, <1>11, <1>12, <1>13, OneConnection DEF server

(***************************************************************************)
(* handle_close() of a connection of the pool queues its removal: it is    *)
(* still in the map unless the base loop has ended.                        *)
(***************************************************************************)
LEMMA CloseIoStep ==
  ASSUME Before, NEW c \in alive, HandleClose(c), owner[c] # Base
  PROVE  IInv'
<1>1. /\ Base \in AllLoops /\ Base \in Loops /\ "remove" \in Ops /\ "remove" # "established"
      /\ c \in Conns /\ born \in Nat /\ c \in 1..born /\ owner[c] \in AllLoops
  BY TypeFacts DEF Before, Ops
<1>2. ConnOk(c) /\ c \in reading
  BY <1>1 DEF Before, ConnsInv, HandleClose
<1>3. /\ c \in added /\ state[c] = "kConnected" /\ (lpc[Base] # "ended" => InMap(c))
      /\ \A m \in AllLoops : ~Has(queue[m], "remove", c) /\ ~Has(queue[m], "established", c)
  BY <1>2 DEF ConnOk
<1>4. /\ UNCHANGED <<server, fd, owner, added, alive, born, lpc, batch, held, quit, dropped,
                     failed, connections>>
      /\ state' = [state EXCEPT ![c] = "kDisconnected"] /\ reading' = reading \ {c}
  BY <1>3 DEF HandleClose
<1>5. queue' = Queued(Base, Functor("remove", c))
  BY <1>3 DEF HandleClose
<1>6. MapInv' /\ \A d \in Conns : InMap(d)' <=> InMap(d)
  BY <1>4 DEF InMap, MapInv, Before
<1>7. /\ queue' \in [AllLoops -> Seq(Functors)]
      /\ \A m \in AllLoops : batch[m] <= Len(queue'[m]) /\ Tidy(queue'[m])
  BY <1>1, <1>3, <1>5, PushFacts
<1>8. \A m \in AllLoops : \A o, d :
        Has(queue'[m], o, d) <=> Has(queue[m], o, d) \/ (m = Base /\ o = "remove" /\ d = c)
  BY <1>1, <1>5, PushHas, SMT
<1>9. TypeOK' /\ state'[c] = "kDisconnected"
  <2>1. state' \in [Conns -> {"kConnecting", "kConnected", "kDisconnected"}] /\ state'[c] = "kDisconnected"
    BY <1>1, <1>4 DEF Before, TypeOK
  <2> QED
    BY <1>4, <1>7, <2>1 DEF Before, TypeOK, Loops, server
<1>10. LoopInv'
  BY <1>4, <1>7 DEF Before, LoopInv, Loops, server
<1>11. \A d \in Conns \ {c} : Same(d)
  BY <1>4, <1>6, <1>8 DEF Before, TypeOK, Same
<1>12. ConnOk(c)'
  <2>1. /\ \A m \in AllLoops : ~Has(queue'[m], "established", c)
        /\ \A m \in AllLoops : Has(queue'[m], "remove", c) <=> m = Base
        /\ \A m \in AllLoops : Has(queue'[m], "destroyed", c) <=> Has(queue[m], "destroyed", c)
    BY <1>3, <1>8, SMT
  <2> QED
    BY <1>1, <1>2, <1>3, <1>4, <1>6, <1>9, <2>1 DEF ConnOk
<1>13. Referenced(c)'
  BY <1>1, <1>4, <1>8, <1>9, ReferencedNext DEF server
<1> QED
  BY <1>1, <1>4, <1>6, <1>9, <1>10, <1>11, <1>12, <1>13, OneConnection DEF server

-----------------------------------------------------------------------------
(* What new_connection() finds: a descriptor that the map does not have,   *)
(* a connection that nobody knows of yet, and a loop that exists.          *)
LEMMA AcceptedFacts ==
  ASSUME Before, NEW n \in Fds, NewConnection(n), NEW c, c = born + 1, NEW l, l = NextLoop
  PROVE  /\ lpc[Base] = "poll" /\ srv = "serving" /\ n \notin DOMAIN connections
         /\ Accepted(n) /\ c \in Conns /\ ConnOk(c) /\ state[c] = "kConnecting"
         /\ c \notin alive /\ c \notin added /\ c \notin reading
         /\ l \in Loops /\ l \in AllLoops
         /\ Advanced \in Nat \ {0} /\ (pool > 0 => Advanced <= pool)
<1>1. lpc[Base] = "poll" /\ srv = "serving" /\ born < MaxConns /\ Accepted(n)
  BY DEF NewConnection, HandleRead, At
<1>2. /\ born \in 0..MaxConns /\ alive \subseteq 1..born
      /\ pool \in 0..MaxPool /\ next \in Nat \ {0} /\ (pool > 0 => next <= pool)
      /\ \A m \in DOMAIN connections : connections[m] \in Conns
  BY DEF Before, TypeOK
<1>3. c \in Conns /\ c > born /\ c \notin 1..born
  BY <1>1, <1>2, ServerAssumption, SMT DEF Conns
<1>4. ConnOk(c) /\ c \notin alive
  BY <1>2, <1>3 DEF Before, ConnsInv
<1>5. n \notin DOMAIN connections
  <2>1. ASSUME n \in DOMAIN connections PROVE FALSE
    <3>1. InMap(connections[n]) /\ connections[n] \in Conns /\ fd[connections[n]] = n
      BY <1>2, <2>1 DEF Before, MapInv, InMap
    <3>2. connections[n] \in alive
      BY <3>1 DEF Before, ConnsInv, ConnOk
    <3> QED
      BY <1>1, <3>1, <3>2 DEF Accepted
  <2> QED
    BY <2>1
<1>6. state[c] = "kConnecting" /\ c \notin added /\ c \notin reading
  BY <1>3, <1>4 DEF ConnOk
<1>7. /\ l \in Loops /\ l \in AllLoops
      /\ Advanced \in Nat \ {0} /\ (pool > 0 => Advanced <= pool)
  BY <1>2, ServerAssumption, SMT DEF NextLoop, Advanced, Loops, AllLoops
<1> QED
  BY <1>1, <1>3, <1>4, <1>5, <1>6, <1>7

(***************************************************************************)
(* new_connection() keeps descriptors and map entries one to one, and the  *)
(* channel is with its poller, or connect_established() is queued for it.  *)
(***************************************************************************)
LEMMA NewConnectionStep ==
  ASSUME Before, NEW n \in Fds, NewConnection(n), NEW c, c = born + 1, NEW l, l = NextLoop
  PROVE  IInv'
<1>1. /\ lpc[Base] = "poll" /\ srv = "serving" /\ n \notin DOMAIN connections
      /\ Accepted(n) /\ c \in Conns /\ ConnOk(c) /\ state[c] = "kConnecting"
      /\ c \notin alive /\ c \notin added /\ c \notin reading
      /\ l \in Loops /\ l \in AllLoops
  BY AcceptedFacts
<1>2. /\ born \in Nat /\ alive \subseteq Conns /\ added \subseteq Conns
      /\ "established" \in Ops /\ "remove" \in Ops /\ "destroyed" \in Ops
      /\ \A m \in AllLoops, o \in Ops : ~Has(queue[m], o, c)
  BY <1>1, TypeFacts DEF Before, ConnOk, Ops
<1>3. owner' = [owner EXCEPT ![c] = l] /\ fd' = [fd EXCEPT ![c] = n]
  BY DEF NewConnection
<1>4. /\ fd'[c] = n /\ owner'[c] = l
      /\ \A d \in Conns : d # c => fd'[d] = fd[d] /\ owner'[d] = owner[d]
  BY <1>1, <1>3 DEF Before, TypeOK
<1>5. l = Base => ~\E d \in added \ {c} : fd[d] = n /\ owner[d] = owner'[c]
  BY <1>1, <1>4 DEF Before, PolledIsAlive, Accepted
<1>6. /\ UNCHANGED <<pool, srv, lpc, batch, held, quit, dropped, failed>>
      /\ born' = c /\ alive' = alive \cup {c}
      /\ state' = IF l = Base THEN [state EXCEPT ![c] = "kConnected"] ELSE state
      /\ added' = IF l = Base THEN added \cup {c} ELSE added
      /\ reading' = IF l = Base THEN reading \cup {c} ELSE reading
  BY <1>1, <1>5 DEF NewConnection, ChannelAdd
<1>7. /\ connections' = [m \in DOMAIN connections \cup {n} |-> IF m = n THEN c ELSE connections[m]]
      /\ next' = Advanced
  BY DEF NewConnection
<1>8. /\ DOMAIN connections' = DOMAIN connections \cup {n} /\ connections'[n] = c
      /\ \A k \in DOMAIN connections : connections'[k] = connections[k] /\ connections[k] \in Conns
      /\ connections' \in [DOMAIN connections' -> Conns] /\ DOMAIN connections' \subseteq Fds
  <2>1. connections \in [DOMAIN connections -> Conns] /\ DOMAIN connections \subseteq Fds
    BY DEF Before, TypeOK
  <2> QED
    BY <1>1, <1>7, <2>1
<1>9. \A d \in Conns : InMap(d)' <=> InMap(d) \/ d = c
  <2> SUFFICES ASSUME NEW d \in Conns PROVE InMap(d)' <=> InMap(d) \/ d = c
    OBVIOUS
  <2> QED
    BY <1>1, <1>4, <1>8, SMT DEF InMap
<1>10. MapInv'
  <2>1. \A d, e \in alive' : fd'[d] = fd'[e] => d = e
    <3>1. \A d \in alive : d # c /\ fd'[d] = fd[d] /\ fd[d] # n
      BY <1>1, <1>2, <1>4 DEF Accepted
    <3>2. \A d, e \in alive : fd[d] = fd[e] => d = e
      BY DEF Before, MapInv
    <3> QED
      BY ONLY <1>4, <1>6, <3>1, <3>2
  <2>2. \A k \in DOMAIN connections : connections[k] # c
    <3>1. ~InMap(c)
      BY <1>1 DEF ConnOk
    <3> QED
      BY <3>1 DEF Before, MapInv, InMap
  <2>3. \A k \in DOMAIN connections' : fd'[connections'[k]] = k
    BY <1>4, <1>8, <2>2, SMT DEF Before, MapInv
  <2> QED
    BY <2>1, <2>3 DEF MapInv
<1>11. queue' = IF l = Base THEN queue ELSE Queued(l, Functor("established", c))
  BY <1>1 DEF NewConnection
<1>12. /\ queue' \in [AllLoops -> Seq(Functors)]
       /\ \A m \in AllLoops : batch[m] <= Len(queue'[m]) /\ Tidy(queue'[m])
  <2>1. CASE l = Base
    BY <1>11, <2>1 DEF Before, LoopInv, TypeOK
  <2>2. CASE l # Base
    <3>1. queue' = Queued(l, Functor("established", c))
      BY <1>11, <2>2
    <3> QED
      BY <1>1, <1>2, <3>1, PushFacts
  <2> QED
    BY <2>1, <2>2
<1>13. \A m \in AllLoops : \A o, d : Has(queue'[m], o, d) <=>
         Has(queue[m], o, d) \/ (l # Base /\ m = l /\ o = "established" /\ d = c)
  <2>1. CASE l = Base
    BY <1>11, <2>1
  <2>2. CASE l # Base
    <3>1. queue' = Queued(l, Functor("established", c))
      BY <1>11, <2>2
    <3>2. \A m \in AllLoops : \A o, d :
            Has(queue'[m], o, d) <=> Has(queue[m], o, d) \/ (m = l /\ o = "established" /\ d = c)
      BY <1>1, <1>2, <3>1, PushHas, SMT
    <3> QED
      BY <2>2, <3>2, SMT
  <2> QED
    BY <2>1, <2>2
<1>14. TypeOK' /\ \A m \in AllLoops : c \notin held[m] /\ held[m] \subseteq Conns
  <2>1. /\ born \in 0..MaxConns /\ alive \subseteq 1..born /\ c = born + 1 /\ born' = c
        /\ held \in [AllLoops -> SUBSET (1..born)] /\ c \in 1..MaxConns
    BY <1>1, <1>6 DEF Before, TypeOK, Conns
  <2>2. /\ born' \in 0..MaxConns /\ 1..born \subseteq 1..born' /\ c \in 1..born' /\ c \notin 1..born
        /\ 1..born \subseteq Conns
    BY <2>1, ServerAssumption, SMT DEF Conns
  <2>3. /\ alive' \subseteq 1..born' /\ held' \in [AllLoops -> SUBSET (1..born')]
        /\ \A m \in AllLoops : c \notin held[m] /\ held[m] \subseteq Conns
    BY <1>6, <2>1, <2>2
  <2>4. next' \in Nat \ {0} /\ (pool > 0 => next' <= pool)
    BY <1>7, AcceptedFacts
  <2>5. fd' \in [Conns -> Nat] /\ owner' \in [Conns -> Loops]
    BY <1>1, <1>3, ServerAssumption DEF Before, TypeOK
  <2>6. /\ state' \in [Conns -> {"kConnecting", "kConnected", "kDisconnected"}]
        /\ reading' \subseteq Conns /\ added' \subseteq Conns
    BY <1>1, <1>6 DEF Before, TypeOK
  <2> QED
    BY <1>6, <1>8, <1>12, <2>2, <2>3, <2>4, <2>5, <2>6 DEF Before, TypeOK, Loops
<1>15. LoopInv'
  <2>1. \A m \in AllLoops : \A d \in held[m] : m \in {Base, owner'[d]}
    BY <1>4, <1>14, SMT DEF Before, LoopInv
  <2> QED
    BY <1>1, <1>6, <1>12, <2>1 DEF Before, LoopInv
<1>16. \A d \in Conns \ {c} : Same(d)
  <2>1. \A m \in AllLoops, o \in Ops, d \in Conns \ {c} : Has(queue'[m], o, d) <=> Has(queue[m], o, d)
    BY <1>13
  <2>2. \A d \in Conns \ {c} : state'[d] = state[d]
    BY <1>6 DEF Before, TypeOK
  <2> QED
    BY <1>4, <1>6, <1>9, <2>1, <2>2 DEF Same
<1>17. ConnOk(c)'
  <2>1. /\ \A m \in AllLoops : Has(queue'[m], "established", c) <=> l # Base /\ m = l
        /\ \A m \in AllLoops : ~Has(queue'[m], "remove", c) /\ ~Has(queue'[m], "destroyed", c)
    <3>1. ASSUME NEW m \in AllLoops
          PROVE  /\ ~Has(queue[m], "established", c) /\ ~Has(queue[m], "remove", c)
                 /\ ~Has(queue[m], "destroyed", c)
      BY <1>2
    <3> QED
      BY ONLY <1>13, <3>1
  <2>2. state'[c] = IF l = Base THEN "kConnected" ELSE "kConnecting"
    BY <1>1, <1>6 DEF Before, TypeOK
  <2> QED
    BY <1>1, <1>2, <1>4, <1>6, <1>9, <2>1, <2>2, SMT DEF ConnOk
<1>18. Referenced(c)' /\ dropped = {}
  BY <1>1, <1>6, <1>9, <1>14, ReferencedNext DEF Before, DroppedInv
<1> QED
  BY <1>1, <1>6, <1>10, <1>14, <1>15, <1>16, <1>17, <1>18, OneConnection

-----------------------------------------------------------------------------
(* A turn of the loop of ~TcpServer() takes a connection out of the map. *)
LEMMA DestroyTurn ==
  ASSUME Before, DestroyConnection
  PROVE  \E c \in alive :
           /\ InMap(c) /\ connections' = [m \in DOMAIN connections \ {fd[c]} |-> connections[m]]
           /\ \/ owner[c] = Base /\ Destroyed(c) /\ UNCHANGED queue
              \/ /\ owner[c] # Base
                 /\ queue' = Queued(owner[c], Functor("destroyed", c))
                 /\ UNCHANGED <<conn, failed>>
<1>1. PICK n \in DOMAIN connections :
        /\ connections' = [m \in DOMAIN connections \ {n} |-> connections[m]]
        /\ LET c == connections[n] IN
           \/ owner[c] = Base /\ Destroyed(c) /\ UNCHANGED queue
           \/ /\ owner[c] # Base
              /\ queue' = Queued(owner[c], Functor("destroyed", c))
              /\ UNCHANGED <<conn, failed>>
  BY DEF DestroyConnection
<1>2. connections[n] \in Conns /\ fd[connections[n]] = n /\ InMap(connections[n])
  BY DEF Before, TypeOK, MapInv, InMap
<1>3. connections[n] \in alive
  BY <1>2 DEF Before, ConnsInv, ConnOk
<1> QED
  BY <1>1, <1>2, <1>3

(***************************************************************************)
(* One of the base loop is destroyed at once: its channel is with the      *)
(* poller, and the destructor that is due then still finds the base loop.  *)
(***************************************************************************)
LEMMA DestroyBaseStep ==
  ASSUME Before, DestroyConnection, NEW c \in alive, InMap(c),
         connections' = [m \in DOMAIN connections \ {fd[c]} |-> connections[m]],
         owner[c] = Base, Destroyed(c), UNCHANGED queue
  PROVE  IInv'
<1>1. Base \in AllLoops /\ c \in Conns /\ born \in Nat /\ c \in 1..born
  BY TypeFacts DEF Before
<1>2. /\ ConnOk(c) /\ lpc[Base] = "ended" /\ srv = "serving"
      /\ UNCHANGED <<server, lpc, batch, held, quit, dropped>>
  BY <1>1 DEF Before, ConnsInv, DestroyConnection, At
<1>3. /\ c \in added /\ state[c] = "kConnected"
      /\ \A m \in AllLoops, o \in Ops : ~Has(queue[m], o, c)
  BY <1>1, <1>2 DEF ConnOk, Ops
<1>4. /\ UNCHANGED <<fd, owner, alive, born, failed>>
      /\ state' = [state EXCEPT ![c] = "kDisconnected"]
      /\ added' = added \ {c} /\ reading' = reading \ {c}
  BY <1>1, <1>3 DEF Destroyed, Before, TypeOK
<1>5. /\ \A d \in Conns : InMap(d)' <=> InMap(d) /\ d # c
      /\ MapInv' /\ DOMAIN connections' \subseteq DOMAIN connections
      /\ connections' \in [DOMAIN connections' -> Conns] /\ DOMAIN connections' \subseteq Fds
  BY <1>1, <1>4, ErasedFacts
<1>6. TypeOK' /\ state'[c] = "kDisconnected"
  <2>1. state' \in [Conns -> {"kConnecting", "kConnected", "kDisconnected"}] /\ state'[c] = "kDisconnected"
    BY <1>1, <1>4 DEF Before, TypeOK
  <2> QED
    BY <1>2, <1>4, <1>5, <2>1 DEF Before, TypeOK, Loops, server
<1>7. LoopInv'
  BY <1>2, <1>4, <1>5 DEF Before, LoopInv, Loops, server
<1>8. \A d \in Conns \ {c} : Same(d)
  BY <1>4, <1>5 DEF Before, TypeOK, Same
<1>9. ConnOk(c)'
  BY <1>1, <1>2, <1>3, <1>4, <1>5, <1>6 DEF ConnOk, Ops
<1> QED
  BY <1>1, <1>2, <1>4, <1>5, <1>6, <1>7, <1>8, <1>9, OneConnection DEF server

(* One of the pool is destroyed by its own loop, which goes on for now. *)
LEMMA DestroyIoStep ==
  ASSUME Before, DestroyConnection, NEW c \in alive, InMap(c),
         connections' = [m \in DOMAIN connections \ {fd[c]} |-> connections[m]],
         NEW l, l = owner[c], l # Base,
         queue' = Queued(l, Functor("destroyed", c)), UNCHANGED <<conn, failed>>
  PROVE  IInv'
<1>1. /\ Base \in AllLoops /\ "destroyed" \in Ops /\ "destroyed" # "established"
      /\ c \in Conns /\ born \in Nat /\ c \in 1..born /\ l \in AllLoops /\ l \in Loops
  BY TypeFacts DEF Before, Ops
<1>2. /\ ConnOk(c) /\ lpc[Base] = "ended"
      /\ UNCHANGED <<server, lpc, batch, held, quit, dropped>>
  BY <1>1 DEF Before, ConnsInv, DestroyConnection, At
<1>3. /\ \A m \in AllLoops : ~Has(queue[m], "destroyed", c)
      /\ c \in added \/ Has(queue[l], "established", c)
  BY <1>1, <1>2 DEF ConnOk
<1>4. UNCHANGED <<fd, owner, state, reading, added, alive, born>>
  BY DEF conn
<1>5. /\ \A d \in Conns : InMap(d)' <=> InMap(d) /\ d # c
      /\ MapInv' /\ DOMAIN connections' \subseteq DOMAIN connections
      /\ connections' \in [DOMAIN connections' -> Conns] /\ DOMAIN connections' \subseteq Fds
  BY <1>1, <1>4, ErasedFacts
<1>6. /\ queue' \in [AllLoops -> Seq(Functors)]
      /\ \A m \in AllLoops : batch[m] <= Len(queue'[m]) /\ Tidy(queue'[m])
  BY <1>1, <1>3, PushFacts
<1>7. \A m \in AllLoops : \A o, d :
        Has(queue'[m], o, d) <=> Has(queue[m], o, d) \/ (m = l /\ o = "destroyed" /\ d = c)
  <2>1. Before /\ queue' = Queued(l, Functor("destroyed", c))
    OBVIOUS
  <2> QED
    BY ONLY <1>1, <2>1, PushHas
<1>8. TypeOK'
  BY <1>2, <1>4, <1>5, <1>6 DEF Before, TypeOK, Loops, server
<1>9. LoopInv'
  <2>1. LoopInv /\ UNCHANGED <<pool, srv, lpc, batch, held, quit, owner>>
    BY <1>2, <1>4 DEF Before, server
  <2> QED
    BY ONLY <1>5, <1>6, <2>1, ZenonT(60) DEF LoopInv, Loops
<1>10. \A d \in Conns \ {c} : Same(d)
  BY <1>4, <1>5, <1>7 DEF Same
<1>11. ConnOk(c)'
  <2>1. /\ \A m \in AllLoops : Has(queue'[m], "established", c) <=> Has(queue[m], "established", c)
        /\ \A m \in AllLoops : Has(queue'[m], "remove", c) <=> Has(queue[m], "remove", c)
        /\ \A m \in AllLoops : Has(queue'[m], "destroyed", c) <=> m = l
    BY <1>3, <1>7, SMT
  <2> QED
    BY <1>1, <1>2, <1>3, <1>4, <1>5, <2>1 DEF ConnOk
<1>12. Referenced(c)'
  BY <1>1, <1>2, <1>7, <1>8, ReferencedNext DEF server
<1> QED
  BY <1>1, <1>2, <1>4, <1>5, <1>8, <1>9, <1>10, <1>11, <1>12, OneConnection DEF server

(***************************************************************************)
(* The base loop goes last, with what the pool queued for it: every other  *)
(* loop has ended, and nothing else holds a connection.                    *)
(***************************************************************************)
LEMMA ServerGoneStep ==
  ASSUME Before, ServerGone
  PROVE  IInv'
<1>1. /\ Base \in AllLoops /\ Base \in Loops /\ queue[Base] \in Seq(Functors)
      /\ Loops \subseteq AllLoops /\ \A c \in Conns : owner[c] \in Loops
  BY TypeFacts DEF Before
<1>2. /\ \A l \in Loops : lpc[l] = "ended"
      /\ UNCHANGED <<pool, next, connections, conn, lpc, batch, held, quit, failed>>
      /\ srv' = "gone" /\ DOMAIN connections = {}
      /\ dropped' = dropped \cup Bound(Base) /\ queue' = [queue EXCEPT ![Base] = <<>>]
  BY SMT DEF ServerGone, At, Loops
<1>3. \A c \in Bound(Base) : c \in Conns
  <2>1. \A i \in DOMAIN queue[Base] : queue[Base][i] \in Functors
    BY <1>1, SMT
  <2> QED
    BY <2>1, FunctorEq, SMT DEF Bound
<1>4. LoopInv'
  <2>1. /\ \A m \in AllLoops : queue'[m] = IF m = Base THEN <<>> ELSE queue[m]
        /\ batch[Base] = 0
    BY <1>1, <1>2 DEF Before, TypeOK, LoopInv
  <2>2. LoopInv /\ UNCHANGED <<pool, connections, lpc, batch, held, quit, owner>>
    BY <1>2 DEF Before, conn
  <2> QED
    BY ONLY <1>1, <1>2, <2>1, <2>2, HasEmpty DEF LoopInv, Loops
<1>5. lpc \in [AllLoops -> {"poll", "functors", "ended"}]
  BY DEF Before, TypeOK
<1> QED
  BY <1>1, <1>2, <1>3, <1>4, <1>5, LoopDrops

(***************************************************************************)
(* ~TcpConnection() fails only for a connection that was dropped; any      *)
(* other was destroyed, is with no poller, and its loop goes on.           *)
(***************************************************************************)
LEMMA DestructStep ==
  ASSUME IInv, NEW c \in alive, Destruct(c)
  PROVE  IInv'
<1>1. /\ TypeOK /\ DroppedInv /\ PolledIsAlive /\ OnlyDroppedFail /\ Ok
      /\ LoopInv /\ MapInv /\ ConnsInv /\ DueInv /\ ~Referenced(c) /\ alive' = alive \ {c}
      /\ UNCHANGED <<server, connections, fd, owner, state, reading, added, born, looper>>
  BY DEF IInv, Destruct
<1>2. UNCHANGED <<pool, srv, lpc, queue, batch, held, quit, dropped>>
  BY <1>1 DEF server, looper
<1>3. /\ c \in Conns /\ owner[c] \in Loops /\ Base \in Loops /\ Loops \subseteq AllLoops
  BY <1>1, TypeFacts
<1>4. ConnOk(c) /\ ~InMap(c) /\ \A l \in Loops, op \in Ops : ~Has(queue[l], op, c)
  BY <1>1, <1>3, ReferencedIff DEF ConnsInv
<1>5. \A l \in AllLoops, op \in Ops : ~Has(queue[l], op, c)
  BY <1>3, <1>4 DEF ConnOk, Ops
<1>6. TypeOK'
  <2>1. failed' \in {"none", "insert", "update", "close", "erase", "established", "remove",
                     "state", "added", "loop"}
    BY <1>1 DEF Destruct, TypeOK
  <2> QED
    BY <1>1, <2>1 DEF TypeOK, Loops, server, looper
<1>7. LoopInv' /\ MapInv' /\ DroppedInv'
  BY <1>1, <1>2, SMT DEF LoopInv, MapInv, DroppedInv, Loops
<1>8. ConnsInv'
  <2>1. ASSUME NEW d \in Conns PROVE ConnOk(d)'
    <3>1. ConnOk(d) /\ (InMap(d)' <=> InMap(d))
      BY <1>1 DEF ConnsInv, InMap
    <3>2. CASE d = c
      BY <1>1, <1>2, <1>3, <1>4, <1>5, <3>1, <3>2 DEF ConnOk, Ops
    <3>3. CASE d # c
      BY <1>1, <1>2, <3>1, <3>3 DEF ConnOk
    <3> QED
      BY <3>2, <3>3
  <2> QED
    BY <2>1 DEF ConnsInv
<1>9. DueInv'
  <2> SUFFICES ASSUME NEW d \in alive, d \notin dropped, ~Referenced(d)'
               PROVE  srv # "gone" /\ (owner[d] # Base => lpc[owner[d]] # "ended")
    BY <1>1, <1>2 DEF DueInv
  <2>1. ~Referenced(d)
    BY <1>1, <1>2 DEF Referenced, InMap, Loops
  <2> QED
    BY <1>1, <2>1 DEF DueInv
<1>10. PolledIsAlive' /\ OnlyDroppedFail'
  <2>1. CASE c \in dropped
    BY <1>1, <1>2, <2>1 DEF PolledIsAlive, OnlyDroppedFail, DroppedInv
  <2>2. CASE c \notin dropped
    <3>1. srv # "gone" /\ (owner[c] # Base => lpc[owner[c]] # "ended")
      BY <1>1, <2>2 DEF DueInv
    <3>2. state[c] = "kDisconnected" /\ c \notin added
      BY <1>3, <1>4, <2>2 DEF ConnOk, Ops
    <3>3. failed' = failed
      BY <3>1, <3>2 DEF Destruct
    <3> QED
      BY <1>1, <1>2, <3>2, <3>3 DEF PolledIsAlive, OnlyDroppedFail, Ok
  <2> QED
    BY <2>1, <2>2
<1> QED
  BY <1>6, <1>7, <1>8, <1>9, <1>10 DEF IInv

-----------------------------------------------------------------------------
(* Every step keeps the invariant. *)
LEMMA StepIInv == IInv /\ [Next]_vars => IInv'
<1> SUFFICES ASSUME IInv, [Next]_vars PROVE IInv'
  OBVIOUS
<1>1. Ready => Before
  BY DEF IInv, Before, Ready
<1>2. CASE Start \/ Quit \/ PoolQuit
  BY <1>1, <1>2, ControlStep DEF Start, Quit, PoolQuit, At
<1>3. ASSUME NEW n \in Fds, NewConnection(n) PROVE IInv'
  <2>1. Before
    BY <1>1, <1>3 DEF NewConnection, HandleRead, At
  <2> QED
    BY <1>3, <2>1, NewConnectionStep
<1>4. ASSUME NEW c \in alive, HandleClose(c) PROVE IInv'
  <2>1. Before
    BY <1>1, <1>4 DEF HandleClose, At
  <2> QED
    BY <1>4, <2>1, CloseBaseStep, CloseIoStep
<1>5. ASSUME NEW c \in alive, Destruct(c) PROVE IInv'
  BY <1>5, DestructStep
<1>6. ASSUME NEW l \in Loops, LoopStep(l) PROVE IInv'
  <2>1. Before
    BY <1>1, <1>6 DEF LoopStep, RoundBegin, RoundEnd, QuitCheck, ConnectEstablished,
                      ConnectDestroyed, RemoveConnectionInLoop, Runs, At
  <2>2. CASE RoundBegin(l) \/ RoundEnd(l)
    BY <2>1, <2>2, RoundBeginStep, RoundEndStep
  <2>3. CASE QuitCheck(l)
    BY <2>1, <2>3, QuitCheckKeeps, QuitCheckDrops
  <2>4. CASE \E c \in alive : ConnectEstablished(l, c) \/ ConnectDestroyed(l, c)
    BY <2>1, <2>4, EstablishedStep, DestroyedStep
  <2>5. CASE \E c \in alive : l = Base /\ RemoveConnectionInLoop(c)
    BY <2>1, <2>5, RemoveStep
  <2> QED
    BY <1>6, <2>2, <2>3, <2>4, <2>5 DEF LoopStep
<1>7. CASE DestroyConnection
  <2>1. Before
    BY <1>1, <1>7 DEF DestroyConnection, At
  <2>2. PICK c \in alive :
          /\ InMap(c) /\ connections' = [m \in DOMAIN connections \ {fd[c]} |-> connections[m]]
          /\ \/ owner[c] = Base /\ Destroyed(c) /\ UNCHANGED queue
             \/ /\ owner[c] # Base
                /\ queue' = Queued(owner[c], Functor("destroyed", c))
                /\ UNCHANGED <<conn, failed>>
    BY <1>7, <2>1, DestroyTurn
  <2>3. CASE owner[c] = Base
    BY <1>7, <2>1, <2>2, <2>3, DestroyBaseStep
  <2>4. CASE owner[c] # Base
    BY <1>7, <2>1, <2>2, <2>4, DestroyIoStep
  <2> QED
    BY <2>3, <2>4
<1>8. CASE ServerGone
  BY <1>1, <1>8, ServerGoneStep DEF ServerGone, At
<1>9. CASE UNCHANGED vars
  BY <1>9, Stutter
<1> QED
  BY <1>2, <1>3, <1>4, <1>5, <1>6, <1>7, <1>8, <1>9 DEF Next, ServerStep, Terminated

(***************************************************************************)
(* The variables keep their types: what get_next_loop() hands out exists,  *)
(* and connections_ maps descriptors to connections.                       *)
(***************************************************************************)
THEOREM TypeCorrect == Spec => []TypeOK
<1>1. IInv => TypeOK
  BY DEF IInv
<1> QED
  BY <1>1, InitIInv, StepIInv, PTL DEF Spec

(***************************************************************************)
(* No assert fails while the server is in use, for any number of loops,    *)
(* connections and descriptors: nothing is dropped before the base loop    *)
(* has ended, and nothing else makes an assert fail.                       *)
(***************************************************************************)
THEOREM ServingIsSafe == Spec => []ServingAssertsHold
<1>1. IInv => ServingAssertsHold
  BY DEF IInv, ServingAssertsHold, Serving, OnlyDroppedFail, DroppedInv
<1> QED
  BY <1>1, InitIInv, StepIInv, PTL DEF Spec

(***************************************************************************)
(* The channel of a destructed connection is with no poller whose loop     *)
(* goes on, so a descriptor that is used again is reported once.           *)
(***************************************************************************)
THEOREM PollersKnowTheLiving == Spec => []PolledIsAlive
<1>1. IInv => PolledIsAlive
  BY DEF IInv
<1> QED
  BY <1>1, InitIInv, StepIInv, PTL DEF Spec

(***************************************************************************)
(* Of all the asserts only those of the destructors can fail, and for a    *)
(* connection whose functor a loop dropped when it ended.                  *)
(***************************************************************************)
THEOREM ShutdownFailsForDropped == Spec => []OnlyDroppedFail
<1>1. IInv => OnlyDroppedFail
  BY DEF IInv
<1> QED
  BY <1>1, InitIInv, StepIInv, PTL DEF Spec
=============================================================================
