--------------------------- MODULE TcpServerLoops ---------------------------
(***************************************************************************)
(* The invariant of TcpServer, the lemmas about queues of functors and     *)
(* references to connections, and the proof that the loops keep it: their  *)
(* rounds, their end, and the functors that they run.                      *)
(***************************************************************************)
EXTENDS TcpServer, TLAPS

(* Zenon proves the steps below, and SMT those that need arithmetic or      *)
(* reason about sequences and records.                                     *)
USE ZenonT(60)

Ops == {"established", "remove", "destroyed"}

(* The functor for op and c is in the queue q. *)
Has(q, op, c) == \E i \in DOMAIN q : q[i] = Functor(op, c)

(* The functors of a queue are all different, and a connection is          *)
(* established before it is destroyed.                                     *)
Tidy(q) ==
  \A i, j \in DOMAIN q :
    /\ q[i] = q[j] => i = j
    /\ q[i].op = "established" /\ q[j] = Functor("destroyed", q[i].conn) => i < j

(***************************************************************************)
(* The loops: a round is part of the queue, only a loop told to quit ends, *)
(* and the pool is told when the base loop has ended and the map is empty. *)
(***************************************************************************)
LoopInv ==
  /\ \A l \in AllLoops :
       /\ batch[l] <= Len(queue[l])
       /\ lpc[l] # "functors" => batch[l] = 0 /\ held[l] = {}
       /\ lpc[l] = "ended" => l \in quit
       /\ l \in quit /\ l # Base => srv \in {"joining", "gone"}
       /\ Tidy(queue[l])
       /\ \A c \in held[l] : l \in {Base, owner[c]}
  /\ srv \in {"joining", "gone"} => lpc[Base] = "ended" /\ DOMAIN connections = {}
  /\ srv = "gone" => \A l \in Loops : lpc[l] = "ended"

(***************************************************************************)
(* A connection: what a functor in a queue says of it; one in the map is   *)
(* alive, and with its poller or about to be; and one that is alive is in  *)
(* the map, or about to be destroyed, or has been destroyed, or was        *)
(* dropped.                                                                *)
(***************************************************************************)
ConnOk(c) ==
  /\ \A l \in AllLoops :
       /\ Has(queue[l], "established", c) =>
            l = owner[c] /\ l # Base /\ c \in alive /\ state[c] = "kConnecting"
       /\ Has(queue[l], "remove", c) =>
            /\ l = Base /\ owner[c] # Base /\ c \in alive /\ state[c] = "kDisconnected"
            /\ lpc[Base] # "ended" => InMap(c)
       /\ Has(queue[l], "destroyed", c) =>
            /\ l = owner[c] /\ c \in alive /\ ~InMap(c)
            /\ c \in added \/ Has(queue[l], "established", c)
  /\ InMap(c) =>
       /\ c \in alive /\ (c \in added \/ Has(queue[owner[c]], "established", c))
       /\ owner[c] = Base => state[c] = "kConnected"
  /\ c \in reading => c \in added /\ state[c] = "kConnected"
  /\ c \in added => state[c] # "kConnecting"
  /\ c > born => state[c] = "kConnecting"
  /\ c \in alive =>
       /\ lpc[Base] # "ended" /\ state[c] # "kDisconnected" => InMap(c)
       /\ \/ InMap(c)
          \/ Has(queue[owner[c]], "destroyed", c)
          \/ (state[c] = "kDisconnected" /\ c \notin added)
          \/ c \in dropped

ConnsInv == \A c \in Conns : ConnOk(c)

(* No two connections that are alive share a descriptor, and connections_  *)
(* has a connection under its own.                                         *)
MapInv ==
  /\ \A c, d \in alive : fd[c] = fd[d] => c = d
  /\ \A n \in DOMAIN connections : fd[connections[n]] = n

(* A destructor that is due finds the loop of its connection. *)
DueInv ==
  \A c \in alive \ dropped :
    ~Referenced(c) =>
      srv # "gone" /\ (owner[c] # Base => lpc[owner[c]] # "ended")

DroppedInv ==
  \A c \in dropped : lpc[Base] = "ended" /\ lpc[owner[c]] = "ended"

IInv ==
  /\ TypeOK /\ DroppedInv /\ PolledIsAlive /\ OnlyDroppedFail
  /\ Ok => LoopInv /\ MapInv /\ ConnsInv /\ DueInv

(* The state that any step but a destructor's begins in. *)
Before ==
  TypeOK /\ DroppedInv /\ PolledIsAlive /\ Ready /\ LoopInv /\ MapInv /\ ConnsInv

(* The step does not concern the connection d. *)
Same(d) ==
  /\ owner'[d] = owner[d] /\ state'[d] = state[d]
  /\ d \in reading' <=> d \in reading
  /\ d \in added' <=> d \in added
  /\ d \in alive' <=> d \in alive
  /\ InMap(d)' <=> InMap(d)
  /\ \A l \in AllLoops, o \in Ops : Has(queue'[l], o, d) <=> Has(queue[l], o, d)

-----------------------------------------------------------------------------
(* A functor is known by its operation and its connection. *)
LEMMA FunctorEq ==
  /\ \A o, p, c, d : Functor(o, c) = Functor(p, d) <=> o = p /\ c = d
  /\ \A o, c : Functor(o, c).op = o /\ Functor(o, c).conn = c
  /\ \A o \in Ops, c \in Conns : Functor(o, c) \in Functors
  /\ \A f \in Functors : f.op \in Ops /\ f.conn \in Conns /\ f = Functor(f.op, f.conn)
BY SMT DEF Functor, Functors, Ops

(* queue_in_loop() adds its functor to what is pending. *)
LEMMA HasAppend ==
  ASSUME NEW q \in Seq(Functors), NEW op \in Ops, NEW c \in Conns
  PROVE  \A o, d : Has(Append(q, Functor(op, c)), o, d) <=> Has(q, o, d) \/ (o = op /\ d = c)
<1> DEFINE f == Functor(op, c)
           s == Append(q, f)
<1>1. f \in Functors
  BY FunctorEq
<1>2. DOMAIN q = 1..Len(q) /\ DOMAIN s = 1..(Len(q) + 1) /\ Len(q) \in Nat
  BY <1>1, SMT
<1>3. s[Len(q) + 1] = f /\ \A i \in 1..Len(q) : s[i] = q[i]
  BY <1>1, SMT
<1> HIDE DEF f, s
<1>4. \A o, d : Functor(o, d) = f <=> o = op /\ d = c
  BY FunctorEq, SMT DEF f
<1>5. ASSUME NEW o, NEW d
      PROVE  Has(s, o, d) <=> Has(q, o, d) \/ Functor(o, d) = f
  <2>1. Has(s, o, d) => Has(q, o, d) \/ Functor(o, d) = f
    BY <1>2, <1>3, SMT DEF Has
  <2>2. Has(q, o, d) => Has(s, o, d)
    BY <1>2, <1>3, SMT DEF Has
  <2>3. Functor(o, d) = f => Has(s, o, d)
    BY <1>2, <1>3, SMT DEF Has
  <2> QED
    BY <2>1, <2>2, <2>3
<1> QED
  BY <1>4, <1>5, SMT DEF s, f

(* It keeps the queue tidy when the functor is new, and comes in its turn. *)
LEMMA TidyAppend ==
  ASSUME NEW q \in Seq(Functors), NEW op \in Ops, NEW c \in Conns, Tidy(q),
         ~Has(q, op, c), op = "established" => ~Has(q, "destroyed", c)
  PROVE  LET s == Append(q, Functor(op, c)) IN
         s \in Seq(Functors) /\ Len(s) = Len(q) + 1 /\ Tidy(s)
<1> DEFINE f == Functor(op, c)
           s == Append(q, f)
<1>1. f \in Functors /\ f.op = op /\ f.conn = c
  BY FunctorEq
<1>2. /\ DOMAIN q = 1..Len(q) /\ DOMAIN s = 1..(Len(q) + 1) /\ Len(q) \in Nat
      /\ s \in Seq(Functors) /\ Len(s) = Len(q) + 1
  BY <1>1, SMT
<1>3. s[Len(q) + 1] = f /\ \A i \in 1..Len(q) : s[i] = q[i]
  BY <1>1, SMT
<1>4. \A i \in 1..Len(q) : q[i] # f /\ (op = "established" => q[i] # Functor("destroyed", c))
  BY <1>2 DEF Has
<1>5. ASSUME NEW i \in DOMAIN s, NEW j \in DOMAIN s
      PROVE  /\ s[i] = s[j] => i = j
             /\ s[i].op = "established" /\ s[j] = Functor("destroyed", s[i].conn) => i < j
  <2>1. CASE i \in 1..Len(q) /\ j \in 1..Len(q)
    BY <1>2, <1>3, <2>1 DEF Tidy
  <2>2. CASE i \in 1..Len(q) /\ j = Len(q) + 1
    BY <1>2, <1>3, <1>4, <2>2, SMT
  <2>3. CASE i = Len(q) + 1 /\ j \in 1..Len(q)
    BY <1>1, <1>2, <1>3, <1>4, <2>3
  <2>4. CASE i = Len(q) + 1 /\ j = Len(q) + 1
    BY <1>1, <1>2, <1>3, <2>4, FunctorEq, SMT
  <2> QED
    BY <1>2, <2>1, <2>2, <2>3, <2>4, SMT
<1> QED
  BY <1>2, <1>5 DEF Tidy

(* Running the functor at the head removes it, and only it. *)
LEMMA HasTail ==
  ASSUME NEW q \in Seq(Functors), q # <<>>, Tidy(q), NEW op, NEW c, Head(q) = Functor(op, c)
  PROVE  /\ Has(q, op, c)
         /\ \A o, d : Has(Tail(q), o, d) <=> Has(q, o, d) /\ ~(o = op /\ d = c)
         /\ Tidy(Tail(q)) /\ Tail(q) \in Seq(Functors) /\ Len(Tail(q)) = Len(q) - 1
         /\ op = "destroyed" => ~Has(q, "established", c)
<1> DEFINE s == Tail(q)
<1>1. Len(q) \in Nat \ {0} /\ DOMAIN q = 1..Len(q) /\ q[1] = Functor(op, c)
  BY SMT
<1>2. s \in Seq(Functors) /\ Len(s) = Len(q) - 1 /\ \A i \in 1..Len(s) : s[i] = q[i + 1]
  BY SMT
<1>3. DOMAIN s = 1..(Len(q) - 1)
  BY <1>2, SMT
<1> HIDE DEF s
<1>4. Has(q, op, c)
  BY <1>1, SMT DEF Has
<1>5. \A i \in DOMAIN q : q[i] = Functor(op, c) <=> i = 1
  BY <1>1, SMT DEF Tidy
<1>6. ASSUME NEW o, NEW d
      PROVE  Has(s, o, d) <=> Has(q, o, d) /\ Functor(o, d) # Functor(op, c)
  <2>1. ASSUME Has(s, o, d) PROVE Has(q, o, d) /\ Functor(o, d) # Functor(op, c)
    <3>1. PICK i \in DOMAIN s : s[i] = Functor(o, d)
      BY <2>1 DEF Has
    <3>2. i + 1 \in DOMAIN q /\ i + 1 # 1 /\ q[i + 1] = Functor(o, d)
      BY <1>1, <1>2, <1>3, <3>1, SMT
    <3> QED
      BY <1>5, <3>2 DEF Has
  <2>2. ASSUME Has(q, o, d), Functor(o, d) # Functor(op, c) PROVE Has(s, o, d)
    <3>1. PICK i \in DOMAIN q : q[i] = Functor(o, d)
      BY <2>2 DEF Has
    <3>2. i - 1 \in DOMAIN s /\ (i - 1) + 1 = i
      BY <1>1, <1>3, <1>5, <2>2, <3>1, SMT
    <3> QED
      BY <1>2, <1>3, <3>1, <3>2 DEF Has
  <2> QED
    BY <2>1, <2>2
<1>7. Tidy(s)
  <2>1. ASSUME NEW i \in DOMAIN s, NEW j \in DOMAIN s
        PROVE  /\ s[i] = s[j] => i = j
               /\ s[i].op = "established" /\ s[j] = Functor("destroyed", s[i].conn) => i < j
    <3>1. /\ i \in Nat /\ j \in Nat /\ i + 1 \in DOMAIN q /\ j + 1 \in DOMAIN q
          /\ s[i] = q[i + 1] /\ s[j] = q[j + 1]
      BY <1>1, <1>2, <1>3, SMT
    <3>2. /\ q[i + 1] = q[j + 1] => i + 1 = j + 1
          /\ q[i + 1].op = "established" /\ q[j + 1] = Functor("destroyed", q[i + 1].conn)
               => i + 1 < j + 1
      BY <3>1 DEF Tidy
    <3> QED
      BY <3>1, <3>2, SMT
  <2> QED
    BY <2>1 DEF Tidy
<1>8. ASSUME op = "destroyed", Has(q, "established", c) PROVE FALSE
  <2>1. PICK i \in DOMAIN q : q[i] = Functor("established", c)
    BY <1>8 DEF Has
  <2>2. i < 1
    BY <1>1, <1>8, <2>1, FunctorEq, SMT DEF Tidy
  <2> QED
    BY <1>1, <2>2, SMT
<1>9. \A o, d : Functor(o, d) = Functor(op, c) <=> o = op /\ d = c
  BY FunctorEq, SMT
<1>10. \A o, d : Has(s, o, d) <=> Has(q, o, d) /\ ~(o = op /\ d = c)
  BY <1>6, <1>9
<1> QED
  BY <1>2, <1>4, <1>7, <1>8, <1>10 DEF s

(* Nothing is pending in an empty queue. *)
LEMMA HasEmpty == Tidy(<<>>) /\ <<>> \in Seq(Functors) /\ \A o, d : ~Has(<<>>, o, d)
BY SMT DEF Tidy, Has

(* A queue holds a TcpConnectionPtr when one of its functors binds it. *)
LEMMA BoundIff ==
  ASSUME NEW q \in Seq(Functors), NEW c
  PROVE  (\E i \in DOMAIN q : q[i].conn = c) <=> (\E op \in Ops : Has(q, op, c))
<1>1. \A i \in DOMAIN q : q[i] \in Functors
  BY SMT
<1>2. ASSUME NEW i \in DOMAIN q, q[i].conn = c PROVE \E op \in Ops : Has(q, op, c)
  BY <1>1, <1>2, FunctorEq DEF Has
<1>3. ASSUME NEW op \in Ops, Has(q, op, c) PROVE \E i \in DOMAIN q : q[i].conn = c
  BY <1>3, FunctorEq, SMT DEF Has
<1> QED
  BY <1>2, <1>3

(* Loops and connections are where they are looked up. *)
LEMMA TypeFacts ==
  ASSUME TypeOK
  PROVE  /\ Base \in Loops /\ Base \in AllLoops /\ Loops \subseteq AllLoops
         /\ born \in Nat /\ alive \subseteq 1..born /\ alive \subseteq Conns
         /\ added \subseteq Conns /\ dropped \subseteq Conns
         /\ \A c \in Conns : owner[c] \in Loops /\ owner[c] \in AllLoops
         /\ \A l \in AllLoops : queue[l] \in Seq(Functors) /\ batch[l] \in Nat
<1> USE ServerAssumption
<1>1. pool \in 0..MaxPool /\ born \in 0..MaxConns /\ alive \subseteq 1..born
  BY DEF TypeOK
<1>2. Base \in Loops /\ Base \in AllLoops /\ Loops \subseteq AllLoops
  BY <1>1, SMT DEF Loops, AllLoops
<1>3. born \in Nat /\ alive \subseteq 1..born /\ alive \subseteq Conns
  BY <1>1, SMT DEF Conns
<1> QED
  BY <1>2, <1>3 DEF TypeOK

(* Who holds a TcpConnectionPtr, in terms of the functors that are pending. *)
LEMMA ReferencedIff ==
  ASSUME TypeOK
  PROVE  \A c : Referenced(c) <=>
           InMap(c) \/ \E l \in Loops : c \in held[l] \/ \E op \in Ops : Has(queue[l], op, c)
<1>1. \A l \in Loops : queue[l] \in Seq(Functors)
  BY TypeFacts
<1> QED
  BY <1>1, BoundIff, SMT DEF Referenced

(* The same after a step of a pool whose size does not change. *)
LEMMA ReferencedNext ==
  ASSUME TypeOK', pool' = pool, NEW c
  PROVE  Referenced(c)' <=>
           \/ InMap(c)'
           \/ \E l \in Loops : c \in held'[l] \/ \E op \in Ops : Has(queue'[l], op, c)
<1>1. Loops' = Loops /\ \A l \in Loops : queue'[l] \in Seq(Functors)
  BY ServerAssumption, SMT DEF TypeOK, Loops, AllLoops
<1>2. \A l \in Loops : (\E i \in DOMAIN queue'[l] : queue'[l][i].conn = c) <=>
                      (\E op \in Ops : Has(queue'[l], op, c))
  BY <1>1, BoundIff
<1> QED
  BY <1>1, <1>2 DEF Referenced

(* What holds of a connection goes on to hold while no step concerns it. *)
LEMMA SameKeeps ==
  ASSUME NEW d \in Conns, owner[d] \in AllLoops, ConnOk(d), Same(d),
         UNCHANGED <<lpc, dropped>>, d > born' => d > born
  PROVE  ConnOk(d)'
BY DEF ConnOk, Same, Ops

(***************************************************************************)
(* A step that concerns one connection keeps the invariant when it keeps   *)
(* what is said of this one, of the loops and of the map.                  *)
(***************************************************************************)
LEMMA OneConnection ==
  ASSUME Before, NEW c \in Conns, TypeOK', LoopInv', MapInv', ConnOk(c)',
         UNCHANGED <<pool, lpc, dropped, failed>>, born' \in {born, born + 1},
         \A d \in Conns \ {c} : Same(d),
         c \in dropped => owner'[c] = owner[c],
         c \in added' => c \in alive' \/ (c \in added /\ owner'[c] = owner[c] /\ c \notin alive),
         \A l \in Loops : held[l] \subseteq held'[l],
         Referenced(c)' \/ (srv' # "gone" /\ owner'[c] = Base)
  PROVE  IInv'
<1>0. /\ dropped \subseteq Conns /\ born \in Nat
      /\ Loops \subseteq AllLoops /\ \A d \in Conns : owner[d] \in AllLoops
  BY TypeFacts DEF Before
<1>1. alive' \subseteq Conns /\ added' \subseteq Conns
  <2>1. born' \in 0..MaxConns /\ alive' \subseteq 1..born' /\ added' \subseteq Conns
    BY DEF TypeOK
  <2> QED
    BY <2>1, ServerAssumption, SMT DEF Conns
<1>2. ConnsInv'
  <2>1. ASSUME NEW d \in Conns, d # c PROVE ConnOk(d)'
    <3>1. ConnOk(d) /\ Same(d) /\ (d > born' => d > born)
      BY <1>0, <2>1, SMT DEF Before, ConnsInv, Conns
    <3> QED
      BY <1>0, <3>1, SameKeeps
  <2> QED
    BY <2>1 DEF ConnsInv
<1>3. DueInv'
  <2>1. ASSUME NEW d \in Conns, d \in alive', d # c PROVE Referenced(d)'
    <3>1. Same(d) /\ d \in alive
      BY <2>1 DEF Same
    <3>2. InMap(d) \/ \E l \in Loops : d \in held[l] \/ \E op \in Ops : Has(queue[l], op, d)
      BY <3>1, ReferencedIff DEF Before, Ready
    <3>3. InMap(d)' \/ \E l \in Loops : d \in held'[l] \/ \E op \in Ops : Has(queue'[l], op, d)
      BY <1>0, <3>1, <3>2 DEF Same
    <3> QED
      BY <3>3, ReferencedNext
  <2> QED
    BY <1>1, <2>1 DEF DueInv
<1>4. DroppedInv' /\ PolledIsAlive'
  <2>1. \A d \in Conns \ {c} : /\ owner'[d] = owner[d] /\ (d \in alive => d \in alive')
                               /\ d \in added' => d \in added
    BY DEF Same
  <2> QED
    BY <1>0, <1>1, <2>1, SMT DEF Before, DroppedInv, PolledIsAlive
<1>5. Ok' /\ OnlyDroppedFail'
  BY DEF Before, Ready, Ok, OnlyDroppedFail
<1> QED
  BY <1>2, <1>3, <1>4, <1>5 DEF IInv

(* A step of the loops alone keeps it too, ... *)
LEMMA LoopsOnly ==
  ASSUME Before, TypeOK', LoopInv', DueInv',
         UNCHANGED <<connections, conn, queue, dropped, failed>>,
         \A l \in AllLoops : lpc[l] = "ended" => lpc'[l] = "ended"
  PROVE  IInv'
<1>1. /\ Base \in AllLoops /\ added \subseteq Conns /\ dropped \subseteq Conns
      /\ \A c \in Conns : owner[c] \in AllLoops
  BY TypeFacts DEF Before
<1>2. ASSUME NEW c \in Conns PROVE ConnOk(c)'
  <2>1. ConnOk(c) /\ (InMap(c)' <=> InMap(c))
    BY DEF Before, ConnsInv, InMap, conn
  <2> QED
    BY <1>1, <2>1 DEF ConnOk, conn
<1>3. MapInv' /\ DroppedInv' /\ PolledIsAlive'
  BY <1>1 DEF Before, MapInv, DroppedInv, PolledIsAlive, conn
<1>4. OnlyDroppedFail'
  BY DEF Before, Ready, Ok, OnlyDroppedFail
<1> QED
  BY <1>2, <1>3, <1>4 DEF IInv, ConnsInv

(* ... as whoever held a TcpConnectionPtr does so still. *)
LEMMA StillReferenced ==
  ASSUME Ready, UNCHANGED <<pool, connections, conn, queue>>,
         \A l \in Loops : held[l] \subseteq held'[l]
  PROVE  DueInv'
<1> SUFFICES ASSUME NEW c \in alive PROVE Referenced(c)'
  BY DEF DueInv, conn
<1>1. Referenced(c) /\ (InMap(c)' <=> InMap(c)) /\ Loops' = Loops
  BY DEF Ready, InMap, Loops, conn
<1> QED
  BY <1>1 DEF Referenced

(***************************************************************************)
(* A loop that is destroyed drops the functors queued in it, at a time     *)
(* when the map is empty and the loops of their connections have ended.    *)
(***************************************************************************)
LEMMA LoopDrops ==
  ASSUME Before, NEW l \in Loops, LoopInv', DOMAIN connections = {},
         UNCHANGED <<pool, next, connections, conn, batch, held, quit, failed>>,
         queue' = [queue EXCEPT ![l] = <<>>], dropped' = dropped \cup Bound(l),
         srv' \in {"joining", "gone"}, lpc' \in [AllLoops -> {"poll", "functors", "ended"}],
         lpc'[Base] = "ended", lpc[Base] = "ended",
         \A m \in AllLoops : lpc[m] = "ended" => lpc'[m] = "ended",
         \A c \in Bound(l) : lpc'[owner[c]] = "ended"
  PROVE  IInv'
<1>1. /\ l \in AllLoops /\ queue[l] \in Seq(Functors) /\ queue \in [AllLoops -> Seq(Functors)]
      /\ Base \in AllLoops /\ added \subseteq Conns /\ dropped \subseteq Conns
      /\ Loops \subseteq AllLoops /\ \A c \in Conns : owner[c] \in AllLoops
  BY TypeFacts DEF Before, TypeOK
<1>2. /\ \A m \in AllLoops : queue'[m] = IF m = l THEN <<>> ELSE queue[m]
      /\ queue' \in [AllLoops -> Seq(Functors)]
  BY <1>1, HasEmpty
<1>3. \A c : c \in Bound(l) <=> \E op \in Ops : Has(queue[l], op, c)
  <2>1. queue[l] \in Seq(Functors)
    BY <1>1
  <2>2. \A c : (\E i \in DOMAIN queue[l] : queue[l][i].conn = c) <=> \E op \in Ops : Has(queue[l], op, c)
    BY <2>1, BoundIff
  <2> QED
    BY ONLY <2>2, ZenonT(60) DEF Bound
<1>4. Bound(l) \subseteq Conns
  <2>1. \A i \in DOMAIN queue[l] : queue[l][i] \in Functors
    BY <1>1, SMT
  <2> QED
    BY <2>1, FunctorEq, SMT DEF Bound
<1>5. TypeOK'
  <2>1. dropped' \subseteq Conns
    BY <1>1, <1>4
  <2> QED
    BY <1>2, <2>1 DEF Before, TypeOK, Loops, conn
<1>6. \A c : InMap(c)' = InMap(c) /\ ~InMap(c)
  BY DEF InMap, conn
<1>7. ASSUME NEW c \in Conns PROVE ConnOk(c)'
  <2>1. ConnOk(c) /\ owner[c] \in AllLoops
    BY <1>1 DEF Before, ConnsInv
  <2>2. \A m \in AllLoops, o \in Ops : Has(queue'[m], o, c) <=> Has(queue[m], o, c) /\ m # l
    BY <1>2, HasEmpty
  <2>3. \A o \in Ops : Has(queue[l], o, c) => c \in dropped'
    BY <1>3
  <2> QED
    BY <1>6, <2>1, <2>2, <2>3 DEF ConnOk, Ops, conn
<1>8. DueInv'
  <2> SUFFICES ASSUME NEW c \in alive, c \notin dropped' PROVE Referenced(c)'
    BY DEF DueInv, conn
  <2>1. \E m \in Loops : c \in held[m] \/ \E op \in Ops : Has(queue[m], op, c)
    BY <1>6, ReferencedIff DEF Before, Ready
  <2>2. \A m \in Loops, op \in Ops : Has(queue[m], op, c) => Has(queue'[m], op, c)
    BY <1>1, <1>2, <1>3
  <2> QED
    BY <1>5, <2>1, <2>2, ReferencedNext
<1>9. MapInv' /\ DroppedInv' /\ PolledIsAlive'
  BY <1>1 DEF Before, MapInv, DroppedInv, PolledIsAlive, conn
<1>10. OnlyDroppedFail'
  BY DEF Before, Ready, Ok, OnlyDroppedFail
<1> QED
  BY <1>5, <1>7, <1>8, <1>9, <1>10 DEF IInv, ConnsInv

-----------------------------------------------------------------------------
(* A step that changes nothing. *)
LEMMA Stutter ==
  ASSUME IInv, UNCHANGED vars
  PROVE  IInv'
<1>1. UNCHANGED <<pool, next, srv, connections, born, fd, owner, state, reading, added, alive,
                  lpc, queue, batch, held, quit, dropped, failed>>
  BY DEF vars, server, conn, looper
<1>2. TypeOK'
  BY <1>1 DEF IInv, TypeOK, Loops
<1>3. LoopInv => LoopInv'
  BY ONLY <1>1, ZenonT(60) DEF LoopInv, Loops
<1>4. MapInv => MapInv'
  BY <1>1 DEF MapInv
<1>5. \A c \in Conns : ConnOk(c) => ConnOk(c)'
  <2>1. \A c \in Conns : InMap(c)' <=> InMap(c)
    BY <1>1 DEF InMap
  <2> QED
    BY ONLY <1>1, <2>1 DEF ConnOk
<1>6. DueInv => DueInv'
  BY <1>1, SMT DEF DueInv, Referenced, InMap, Loops
<1>7. DroppedInv' /\ PolledIsAlive' /\ OnlyDroppedFail' /\ (Ok' => Ok)
  BY <1>1 DEF IInv, Ok, DroppedInv, PolledIsAlive, OnlyDroppedFail
<1> QED
  BY <1>2, <1>3, <1>4, <1>5, <1>6, <1>7 DEF IInv, ConnsInv

(* The initial states. *)
LEMMA InitIInv == Init => IInv
<1> SUFFICES ASSUME Init PROVE IInv
  OBVIOUS
<1> USE ServerAssumption
<1>1. /\ Base \in Loops /\ DOMAIN connections = {} /\ DOMAIN connections \subseteq Fds
      /\ \A l \in AllLoops : queue[l] = <<>>
      /\ connections \in [DOMAIN connections -> Conns]
  BY SMT DEF Init, Loops
<1>2. queue \in [AllLoops -> Seq(Functors)]
  BY HasEmpty DEF Init
<1>3. TypeOK
  BY <1>1, <1>2, SMT DEF Init, TypeOK
<1>4. LoopInv
  BY <1>1, HasEmpty, SMT DEF Init, LoopInv
<1>5. ConnsInv
  BY <1>1, HasEmpty DEF Init, ConnsInv, ConnOk, InMap
<1>6. MapInv /\ DueInv /\ DroppedInv /\ PolledIsAlive /\ OnlyDroppedFail
  BY <1>1 DEF Init, MapInv, DueInv, DroppedInv, PolledIsAlive, OnlyDroppedFail, Ok
<1> QED
  BY <1>3, <1>4, <1>5, <1>6 DEF IInv

(* What start(), quit() and the pool's destructor do concerns the loops. *)
LEMMA ControlStep ==
  ASSUME Before, Start \/ Quit \/ PoolQuit
  PROVE  IInv'
<1>1. UNCHANGED <<pool, next, connections, conn, lpc, queue, batch, held, dropped, failed>>
  BY DEF Start, Quit, PoolQuit, server, looper
<1>2. TypeOK'
  <2>1. /\ srv' \in {"constructed", "serving", "joining", "gone"}
        /\ quit' \subseteq AllLoops
    BY ServerAssumption, SMT DEF Before, Start, Quit, PoolQuit, TypeOK, AllLoops, looper, server
  <2> QED
    BY <1>1, <2>1 DEF Before, TypeOK, Loops, conn
<1>3. LoopInv'
  <2>1. CASE Start \/ Quit
    BY <1>1, <2>1 DEF Before, Start, Quit, LoopInv, Loops, server, looper, conn
  <2>2. CASE PoolQuit
    <3>1. PICK m \in 1..pool : quit' = quit \cup {m}
      BY <2>2 DEF PoolQuit
    <3>2. /\ lpc[Base] = "ended" /\ connections = <<>> /\ srv' = "joining"
          /\ UNCHANGED <<pool, connections, lpc, queue, batch, held, owner>>
      BY <1>1, <2>2 DEF PoolQuit, At, conn
    <3>3. LoopInv /\ Base \notin 1..pool
      BY ServerAssumption, SMT DEF Before, TypeOK
    <3> QED
      BY ONLY <3>1, <3>2, <3>3 DEF LoopInv, Loops
  <2> QED
    BY <2>1, <2>2
<1>4. DueInv'
  BY <1>1, StillReferenced DEF Before
<1> QED
  BY <1>1, <1>2, <1>3, <1>4, LoopsOnly

(* do_pending_functors() begins a round. *)
LEMMA RoundBeginStep ==
  ASSUME Before, NEW l \in Loops, RoundBegin(l)
  PROVE  IInv'
<1>1. l \in AllLoops /\ Len(queue[l]) \in Nat
  BY TypeFacts, SMT DEF Before
<1>2. /\ UNCHANGED <<server, connections, conn, queue, held, quit, dropped, failed>>
      /\ lpc' = [lpc EXCEPT ![l] = "functors"] /\ lpc[l] = "poll"
      /\ batch' = [batch EXCEPT ![l] = Len(queue[l])]
  BY DEF RoundBegin, At
<1>3. TypeOK'
  BY <1>1, <1>2 DEF Before, TypeOK, Loops, conn, server
<1>4. /\ \A m \in AllLoops : lpc'[m] = IF m = l THEN "functors" ELSE lpc[m]
      /\ \A m \in AllLoops : batch'[m] = IF m = l THEN Len(queue[m]) ELSE batch[m]
      /\ Base \in AllLoops /\ Loops \subseteq AllLoops
  BY <1>2, TypeFacts DEF Before, TypeOK
<1>5. LoopInv'
  <2>1. LoopInv /\ UNCHANGED <<pool, srv, connections, queue, held, quit, owner>>
    BY <1>2 DEF Before, server, conn
  <2> QED
    BY ONLY <1>1, <1>2, <1>4, <2>1 DEF LoopInv, Loops
<1>6. DueInv'
  BY <1>2, StillReferenced DEF Before, server
<1> QED
  BY <1>2, <1>3, <1>4, <1>5, <1>6, LoopsOnly

(***************************************************************************)
(* A round lets go of its functors: a connection that nothing else holds   *)
(* has a loop that has not ended, this one or, as the base loop goes on,   *)
(* one of the pool.                                                        *)
(***************************************************************************)
LEMMA RoundEndStep ==
  ASSUME Before, NEW l \in Loops, RoundEnd(l)
  PROVE  IInv'
<1>1. /\ l \in AllLoops /\ Base \in AllLoops /\ Loops \subseteq AllLoops /\ alive \subseteq Conns
      /\ \A c \in Conns : owner[c] \in AllLoops
  BY TypeFacts DEF Before
<1>2. /\ UNCHANGED <<server, connections, conn, lpc, queue, batch, quit, dropped, failed>>
      /\ held' = [held EXCEPT ![l] = {}] /\ lpc[l] = "functors"
  BY DEF RoundEnd, At
<1>3. TypeOK' /\ \A m \in AllLoops : held'[m] = IF m = l THEN {} ELSE held[m]
  BY <1>1, <1>2 DEF Before, TypeOK, Loops, conn, server
<1>4. LoopInv'
  BY <1>1, <1>2, <1>3, SMT DEF Before, LoopInv, Loops, server, conn
<1>5. DueInv'
  <2> SUFFICES ASSUME NEW c \in alive, ~Referenced(c)'
               PROVE  srv # "gone" /\ (owner[c] # Base => lpc[owner[c]] # "ended")
    BY <1>2 DEF DueInv, conn, server
  <2>1. c \in held[l]
    BY <1>1, <1>2, <1>3, SMT DEF Before, Ready, Referenced, InMap, conn, Loops, server
  <2>2. l \in {Base, owner[c]} /\ srv # "gone"
    BY <1>1, <1>2, <2>1 DEF Before, LoopInv
  <2> QED
    BY <1>1, <1>2, <2>2 DEF Before, LoopInv
<1> QED
  BY <1>2, <1>3, <1>4, <1>5, LoopsOnly

(* A loop that goes on, or the base loop that ends, takes nothing along. *)
LEMMA QuitCheckKeeps ==
  ASSUME Before, NEW l \in Loops, QuitCheck(l), ~(l \in quit /\ l # Base)
  PROVE  IInv'
<1> DEFINE to == IF l \in quit THEN "ended" ELSE "poll"
<1>1. l \in AllLoops /\ Base \in AllLoops /\ Loops \subseteq AllLoops
  BY TypeFacts DEF Before
<1>2. /\ UNCHANGED <<server, connections, conn, queue, batch, held, quit, dropped, failed>>
      /\ lpc' = [lpc EXCEPT ![l] = to] /\ to \in {"poll", "ended"}
      /\ lpc[l] = "functors" /\ batch[l] = 0 /\ held[l] = {}
      /\ to = "ended" => l \in quit /\ l = Base
  BY DEF QuitCheck, At
<1> HIDE DEF to
<1>3. TypeOK' /\ \A m \in AllLoops : lpc'[m] = IF m = l THEN to ELSE lpc[m]
  BY <1>2 DEF Before, TypeOK, Loops, conn, server
<1>4. LoopInv'
  <2>1. srv # "gone" /\ (l = Base => srv \notin {"joining", "gone"})
    BY <1>2 DEF Before, LoopInv
  <2> QED
    BY <1>1, <1>2, <1>3, <2>1, SMT DEF Before, LoopInv, Loops, server, conn
<1>5. DueInv'
  BY <1>2, StillReferenced DEF Before, server
<1> QED
  BY <1>2, <1>3, <1>4, <1>5, LoopsOnly

(***************************************************************************)
(* A loop of the pool that ends drops what is queued: functors for its own *)
(* connections, and by then none of them is in the map.                    *)
(***************************************************************************)
LEMMA QuitCheckDrops ==
  ASSUME Before, NEW l \in Loops, QuitCheck(l), l \in quit, l # Base
  PROVE  IInv'
<1>1. /\ l \in AllLoops /\ Base \in AllLoops /\ Loops \subseteq AllLoops
      /\ queue[l] \in Seq(Functors)
  BY TypeFacts DEF Before
<1>2. /\ UNCHANGED <<server, connections, conn, batch, held, quit, failed>>
      /\ lpc' = [lpc EXCEPT ![l] = "ended"] /\ lpc[l] = "functors"
      /\ queue' = [queue EXCEPT ![l] = <<>>] /\ dropped' = dropped \cup Bound(l)
      /\ batch[l] = 0 /\ held[l] = {}
  BY DEF QuitCheck, At
<1>3. /\ \A m \in AllLoops : lpc'[m] = IF m = l THEN "ended" ELSE lpc[m]
      /\ lpc' \in [AllLoops -> {"poll", "functors", "ended"}]
      /\ \A m \in AllLoops : queue'[m] = IF m = l THEN <<>> ELSE queue[m]
  BY <1>2 DEF Before, TypeOK
<1>4. srv = "joining" /\ lpc[Base] = "ended" /\ DOMAIN connections = {}
  BY <1>1, <1>2 DEF Before, LoopInv
<1>5. \A c \in Bound(l) : owner[c] = l
  <2>1. ASSUME NEW c \in Bound(l) PROVE c \in Conns /\ \E op \in Ops : Has(queue[l], op, c)
    <3>1. PICK i \in DOMAIN queue[l] : queue[l][i].conn = c
      BY DEF Bound
    <3>2. queue[l][i] \in Functors
      BY <1>1, SMT
    <3> QED
      BY <1>1, <3>1, <3>2, FunctorEq, BoundIff
  <2>2. ASSUME NEW c \in Conns, NEW op \in Ops, Has(queue[l], op, c) PROVE owner[c] = l
    <3>1. ConnOk(c) /\ l # Base
      BY DEF Before, ConnsInv
    <3> QED
      BY ONLY <1>1, <2>2, <3>1, ZenonT(60) DEF ConnOk, Ops
  <2> QED
    BY <2>1, <2>2
<1>6. LoopInv'
  <2>1. LoopInv /\ l \in quit /\ UNCHANGED <<pool, srv, connections, batch, held, quit, owner>>
    BY <1>2 DEF Before, server, conn
  <2> QED
    BY ONLY <1>1, <1>2, <1>3, <1>4, <2>1, HasEmpty DEF LoopInv, Loops
<1> QED
  BY <1>1, <1>2, <1>3, <1>4, <1>5, <1>6, LoopDrops DEF server

-----------------------------------------------------------------------------
(* What a round finds when it runs the functor at the head of its queue. *)
LEMMA RunsHas ==
  ASSUME Before, NEW l \in AllLoops, NEW op, NEW c, Runs(l, op, c),
         queue'[l] = Tail(queue[l])
  PROVE  /\ Has(queue[l], op, c)
         /\ op = "destroyed" => ~Has(queue[l], "established", c)
         /\ \A o, d : Has(queue'[l], o, d) <=> Has(queue[l], o, d) /\ ~(o = op /\ d = c)
         /\ queue'[l] \in Seq(Functors) /\ Tidy(queue'[l])
         /\ batch[l] - 1 \in Nat /\ batch[l] - 1 <= Len(queue'[l])
<1>1. /\ batch[l] > 0 /\ batch[l] \in Nat /\ batch[l] <= Len(queue[l])
      /\ queue[l] \in Seq(Functors) /\ Tidy(queue[l]) /\ Head(queue[l]) = Functor(op, c)
  BY TypeFacts DEF Before, Runs, LoopInv
<1>2. queue[l] # <<>> /\ Len(queue[l]) \in Nat /\ queue'[l] = Tail(queue[l])
  BY <1>1, SMT
<1>3. /\ Has(queue[l], op, c)
      /\ op = "destroyed" => ~Has(queue[l], "established", c)
      /\ \A o, d : Has(queue'[l], o, d) <=> Has(queue[l], o, d) /\ ~(o = op /\ d = c)
      /\ queue'[l] \in Seq(Functors) /\ Tidy(queue'[l])
      /\ Len(queue'[l]) = Len(queue[l]) - 1
  BY ONLY <1>1, <1>2, HasTail
<1>4. batch[l] - 1 \in Nat /\ batch[l] - 1 <= Len(queue'[l])
  BY ONLY <1>1, <1>2, <1>3
<1> QED
  BY ONLY <1>3, <1>4, ZenonT(60)

(* The loops, when this is done. *)
LEMMA RunsLoop ==
  ASSUME Before, NEW l \in AllLoops, NEW op, NEW c \in alive, Runs(l, op, c),
         l \in {Base, owner[c]}, UNCHANGED <<owner, born>>,
         DOMAIN connections' \subseteq DOMAIN connections,
         batch[l] - 1 \in Nat /\ batch[l] - 1 <= Len(queue'[l]),
         \A m \in AllLoops : Tidy(queue'[m]) /\ (m # l => batch[m] <= Len(queue'[m]))
  PROVE  /\ LoopInv' /\ c \in held'[l] /\ \A m \in Loops : held[m] \subseteq held'[m]
         /\ batch' \in [AllLoops -> Nat] /\ held' \in [AllLoops -> SUBSET (1..born)]
<1>1. /\ UNCHANGED <<server, lpc, quit, dropped>> /\ lpc[l] = "functors"
      /\ batch' = [batch EXCEPT ![l] = @ - 1] /\ held' = [held EXCEPT ![l] = @ \cup {c}]
  BY DEF Runs, At
<1>2. /\ \A m \in AllLoops : batch'[m] = IF m = l THEN batch[l] - 1 ELSE batch[m]
      /\ \A m \in AllLoops : held'[m] = IF m = l THEN held[l] \cup {c} ELSE held[m]
      /\ batch' \in [AllLoops -> Nat] /\ held' \in [AllLoops -> SUBSET (1..born)]
  BY <1>1 DEF Before, TypeOK
<1>3. LoopInv'
  <2>1. \A m \in AllLoops : batch'[m] <= Len(queue'[m])
    BY <1>2
  <2> QED
    <3>1. \A m \in AllLoops :
            /\ lpc[m] # "functors" => batch'[m] = 0 /\ held'[m] = {}
            /\ lpc[m] = "ended" => m \in quit
            /\ m \in quit /\ m # Base => srv \in {"joining", "gone"}
            /\ \A d \in held'[m] : m \in {Base, owner[d]}
      BY <1>1, <1>2, SMT DEF Before, LoopInv
    <3>2. /\ srv \in {"joining", "gone"} => lpc[Base] = "ended" /\ DOMAIN connections' = {}
          /\ srv = "gone" => \A m \in Loops : lpc[m] = "ended"
      BY DEF Before, LoopInv
    <3> QED
      BY <1>1, <2>1, <3>1, <3>2 DEF LoopInv, Loops, server
<1>4. Loops \subseteq AllLoops
  BY TypeFacts DEF Before
<1> QED
  BY <1>2, <1>3, <1>4

(***************************************************************************)
(* connect_established() finds kConnecting, and no other channel of its    *)
(* poller has the descriptor: that would be the channel of a connection    *)
(* that is alive and has the same one.                                     *)
(***************************************************************************)
LEMMA EstablishedStep ==
  ASSUME Before, NEW l \in Loops, NEW c \in alive, ConnectEstablished(l, c)
  PROVE  IInv'
<1>1. /\ l \in AllLoops /\ c \in Conns /\ added \subseteq Conns /\ born \in Nat /\ c \in 1..born
      /\ \A d \in Conns : owner[d] \in AllLoops
  BY TypeFacts DEF Before
<1>2. Runs(l, "established", c) /\ UNCHANGED <<server, lpc, quit, dropped>>
  BY DEF ConnectEstablished, Runs
<1>3. \A m \in AllLoops : queue'[m] = IF m = l THEN Tail(queue[l]) ELSE queue[m]
  BY DEF ConnectEstablished, Before, TypeOK
<1>4. /\ Has(queue[l], "established", c)
      /\ \A o, d : Has(queue'[l], o, d) <=> Has(queue[l], o, d) /\ ~(o = "established" /\ d = c)
      /\ queue'[l] \in Seq(Functors) /\ Tidy(queue'[l])
      /\ batch[l] - 1 \in Nat /\ batch[l] - 1 <= Len(queue'[l])
  <2>1. queue'[l] = Tail(queue[l])
    BY <1>1, <1>3
  <2> QED
    BY <1>1, <1>2, <2>1, RunsHas
<1>5. \A m \in AllLoops : m # l => queue'[m] = queue[m]
  BY <1>3
<1>6. ConnOk(c) /\ lpc[l] = "functors"
  BY <1>1, <1>2 DEF Before, ConnsInv, Runs, At
<1>7. l = owner[c] /\ l # Base /\ state[c] = "kConnecting" /\ c \notin added /\ c \notin reading
  BY <1>1, <1>4, <1>6 DEF ConnOk
<1>8. \A d \in added \ {c} : ~(fd[d] = fd[c] /\ owner[d] = owner[c])
  BY <1>6, <1>7 DEF Before, PolledIsAlive, MapInv
<1>9. /\ UNCHANGED <<connections, fd, owner, alive, born, failed>>
      /\ state' = [state EXCEPT ![c] = "kConnected"]
      /\ added' = added \cup {c} /\ reading' = reading \cup {c}
  BY <1>7, <1>8 DEF ConnectEstablished, ChannelAdd
<1>10. /\ LoopInv' /\ c \in held'[l] /\ \A m \in Loops : held[m] \subseteq held'[m]
       /\ batch' \in [AllLoops -> Nat] /\ held' \in [AllLoops -> SUBSET (1..born)]
  <2>1. \A m \in AllLoops : Tidy(queue'[m]) /\ (m # l => batch[m] <= Len(queue'[m]))
    BY <1>4, <1>5 DEF Before, LoopInv
  <2> QED
    BY <1>1, <1>2, <1>4, <1>7, <1>9, <2>1, RunsLoop
<1>11. TypeOK'
  <2>1. queue' \in [AllLoops -> Seq(Functors)]
    BY <1>3, <1>4 DEF ConnectEstablished, Before, TypeOK
  <2>2. batch' \in [AllLoops -> Nat] /\ held' \in [AllLoops -> SUBSET (1..born)]
    BY <1>10
  <2> QED
    BY <1>1, <1>2, <1>9, <2>1, <2>2 DEF Before, TypeOK, Loops, server
<1>12. MapInv' /\ \A d \in Conns : InMap(d)' <=> InMap(d)
  BY <1>9 DEF InMap, MapInv, Before
<1>13. \A d \in Conns \ {c} : Same(d)
  <2>1. \A m \in AllLoops, o \in Ops, d \in Conns \ {c} : Has(queue'[m], o, d) <=> Has(queue[m], o, d)
    BY <1>4, <1>5
  <2> QED
    BY <1>9, <1>12, <2>1 DEF Before, TypeOK, Same
<1>14. ConnOk(c)'
  <2>1. /\ \A m \in AllLoops : ~Has(queue'[m], "established", c)
        /\ \A m \in AllLoops : Has(queue'[m], "remove", c) <=> Has(queue[m], "remove", c)
        /\ \A m \in AllLoops : Has(queue'[m], "destroyed", c) <=> Has(queue[m], "destroyed", c)
    BY <1>4, <1>5, <1>6, <1>7 DEF ConnOk
  <2>2. state'[c] = "kConnected"
    BY <1>1, <1>9 DEF Before, TypeOK
  <2>3. c \in alive' /\ c \in added' /\ owner' = owner /\ born' = born
    BY <1>9
  <2> QED
    BY ONLY <1>1, <1>2, <1>6, <1>7, <1>12, <2>1, <2>2, <2>3 DEF ConnOk
<1>15. Referenced(c)'
  BY <1>2, <1>10, <1>11, ReferencedNext DEF server
<1> QED
  BY <1>1, <1>2, <1>9, <1>10, <1>11, <1>12, <1>13, <1>14, <1>15, OneConnection DEF server

(***************************************************************************)
(* connect_destoryed() finds the channel with its poller: the functor that *)
(* put it there ran before, and none for the connection is left behind.    *)
(***************************************************************************)
LEMMA DestroyedStep ==
  ASSUME Before, NEW l \in Loops, NEW c \in alive, ConnectDestroyed(l, c)
  PROVE  IInv'
<1>1. /\ l \in AllLoops /\ c \in Conns /\ added \subseteq Conns /\ born \in Nat /\ c \in 1..born
      /\ \A d \in Conns : owner[d] \in AllLoops
  BY TypeFacts DEF Before
<1>2. /\ Runs(l, "destroyed", c) /\ UNCHANGED <<server, lpc, quit, dropped>>
      /\ Destroyed(c) /\ UNCHANGED connections
  BY DEF ConnectDestroyed, Runs
<1>3. \A m \in AllLoops : queue'[m] = IF m = l THEN Tail(queue[l]) ELSE queue[m]
  BY DEF ConnectDestroyed, Before, TypeOK
<1>4. /\ Has(queue[l], "destroyed", c) /\ ~Has(queue[l], "established", c)
      /\ \A o, d : Has(queue'[l], o, d) <=> Has(queue[l], o, d) /\ ~(o = "destroyed" /\ d = c)
      /\ queue'[l] \in Seq(Functors) /\ Tidy(queue'[l])
      /\ batch[l] - 1 \in Nat /\ batch[l] - 1 <= Len(queue'[l])
  <2>1. queue'[l] = Tail(queue[l])
    BY <1>1, <1>3
  <2> QED
    BY <1>1, <1>2, <2>1, RunsHas
<1>5. \A m \in AllLoops : m # l => queue'[m] = queue[m]
  BY <1>3
<1>6. ConnOk(c) /\ lpc[l] = "functors"
  BY <1>1, <1>2 DEF Before, ConnsInv, Runs, At
<1>7. l = owner[c] /\ c \in added /\ ~InMap(c) /\ state[c] # "kConnecting"
  BY <1>1, <1>4, <1>6 DEF ConnOk
<1>8. /\ UNCHANGED <<connections, fd, owner, alive, born, failed>>
      /\ state' = [state EXCEPT ![c] = "kDisconnected"]
      /\ added' = added \ {c} /\ reading' = reading \ {c}
  <2>1. state[c] # "kConnected" => state[c] = "kDisconnected" /\ c \notin reading
    BY <1>1, <1>6, <1>7 DEF Before, TypeOK, ConnOk
  <2>2. state' = [state EXCEPT ![c] = "kDisconnected"] /\ reading' = reading \ {c}
    BY <1>2, <2>1 DEF Destroyed
  <2> QED
    BY <1>2, <1>7, <2>2 DEF Destroyed
<1>9. /\ LoopInv' /\ c \in held'[l] /\ \A m \in Loops : held[m] \subseteq held'[m]
      /\ batch' \in [AllLoops -> Nat] /\ held' \in [AllLoops -> SUBSET (1..born)]
  <2>1. \A m \in AllLoops : Tidy(queue'[m]) /\ (m # l => batch[m] <= Len(queue'[m]))
    BY <1>4, <1>5 DEF Before, LoopInv
  <2> QED
    BY <1>1, <1>2, <1>4, <1>7, <1>8, <2>1, RunsLoop
<1>10. TypeOK'
  <2>1. queue' \in [AllLoops -> Seq(Functors)]
    BY <1>3, <1>4 DEF ConnectDestroyed, Before, TypeOK
  <2>2. batch' \in [AllLoops -> Nat] /\ held' \in [AllLoops -> SUBSET (1..born)]
    BY <1>9
  <2> QED
    BY <1>1, <1>2, <1>8, <2>1, <2>2 DEF Before, TypeOK, Loops, server
<1>11. MapInv' /\ \A d \in Conns : InMap(d)' <=> InMap(d)
  BY <1>8 DEF InMap, MapInv, Before
<1>12. \A d \in Conns \ {c} : Same(d)
  <2>1. \A m \in AllLoops, o \in Ops, d \in Conns \ {c} : Has(queue'[m], o, d) <=> Has(queue[m], o, d)
    BY <1>4, <1>5
  <2> QED
    BY <1>8, <1>11, <2>1 DEF Before, TypeOK, Same
<1>13. ConnOk(c)'
  <2>1. /\ \A m \in AllLoops : ~Has(queue'[m], "established", c) /\ ~Has(queue'[m], "destroyed", c)
        /\ \A m \in AllLoops : Has(queue'[m], "remove", c) <=> Has(queue[m], "remove", c)
    BY <1>4, <1>5, <1>6, <1>7 DEF ConnOk
  <2>2. state'[c] = "kDisconnected"
    BY <1>1, <1>8 DEF Before, TypeOK
  <2> QED
    BY <1>1, <1>2, <1>6, <1>7, <1>8, <1>11, <2>1, <2>2 DEF ConnOk
<1>14. Referenced(c)'
  BY <1>2, <1>9, <1>10, ReferencedNext DEF server
<1> QED
  BY <1>1, <1>2, <1>8, <1>9, <1>10, <1>11, <1>12, <1>13, <1>14, OneConnection DEF server

(* connections_.erase() takes out the one connection. *)
LEMMA ErasedFacts ==
  ASSUME Before, NEW c \in Conns, InMap(c), UNCHANGED <<fd, alive>>,
         connections' = [m \in DOMAIN connections \ {fd[c]} |-> connections[m]]
  PROVE  /\ \A d \in Conns : InMap(d)' <=> InMap(d) /\ d # c
         /\ MapInv' /\ DOMAIN connections' \subseteq DOMAIN connections
         /\ connections' \in [DOMAIN connections' -> Conns] /\ DOMAIN connections' \subseteq Fds
<1>1. connections \in [DOMAIN connections -> Conns] /\ DOMAIN connections \subseteq Fds
  BY DEF Before, TypeOK
<1>2. /\ DOMAIN connections' = DOMAIN connections \ {fd[c]}
      /\ \A n \in DOMAIN connections' : connections'[n] = connections[n]
      /\ connections' \in [DOMAIN connections' -> Conns]
  BY <1>1
<1>3. \A d \in Conns : InMap(d)' <=> InMap(d) /\ d # c
  BY <1>2 DEF InMap
<1>4. MapInv'
  BY <1>2 DEF Before, MapInv
<1> QED
  BY <1>1, <1>2, <1>3, <1>4

(***************************************************************************)
(* remove_connection_in_loop() finds its connection in the map, and queues *)
(* connect_destoryed() behind whatever else the io loop has for it.        *)
(***************************************************************************)
LEMMA RemoveStep ==
  ASSUME Before, NEW c \in alive, RemoveConnectionInLoop(c)
  PROVE  IInv'
<1> DEFINE l == owner[c]
<1>1. /\ Base \in AllLoops /\ c \in Conns /\ added \subseteq Conns /\ born \in Nat /\ c \in 1..born
      /\ l \in AllLoops /\ l \in Loops /\ Loops \subseteq AllLoops
      /\ \A d \in Conns : owner[d] \in AllLoops
  BY TypeFacts DEF Before
<1>2. /\ Runs(Base, "remove", c) /\ UNCHANGED <<server, lpc, quit, dropped>>
      /\ ConnOk(c) /\ lpc[Base] = "functors"
  BY <1>1 DEF RemoveConnectionInLoop, Runs, Before, ConnsInv, At
<1>3. Has(queue[Base], "remove", c)
  <2>1. /\ batch[Base] > 0 /\ batch[Base] \in Nat /\ batch[Base] <= Len(queue[Base])
        /\ queue[Base] \in Seq(Functors) /\ Head(queue[Base]) = Functor("remove", c)
    BY <1>1, <1>2, TypeFacts DEF Before, Runs, LoopInv
  <2>2. 1 \in DOMAIN queue[Base] /\ queue[Base][1] = Functor("remove", c)
    BY <2>1, SMT
  <2> QED
    BY ONLY <2>2, ZenonT(60) DEF Has
<1>4. l # Base /\ state[c] = "kDisconnected" /\ InMap(c) /\ ~Has(queue[l], "destroyed", c)
  BY <1>1, <1>2, <1>3 DEF ConnOk
<1> HIDE DEF l
<1>5. /\ queue'[Base] = Tail(queue[Base]) /\ queue'[l] = Append(queue[l], Functor("destroyed", c))
      /\ \A m \in AllLoops : m # Base /\ m # l => queue'[m] = queue[m]
  BY <1>1, <1>4 DEF RemoveConnectionInLoop, Before, TypeOK, l
<1>6. /\ \A o, d : Has(queue'[Base], o, d) <=> Has(queue[Base], o, d) /\ ~(o = "remove" /\ d = c)
      /\ queue'[Base] \in Seq(Functors) /\ Tidy(queue'[Base])
      /\ batch[Base] - 1 \in Nat /\ batch[Base] - 1 <= Len(queue'[Base])
  <2>1. Base \in AllLoops /\ Runs(Base, "remove", c) /\ queue'[Base] = Tail(queue[Base])
    BY <1>1, <1>2, <1>5
  <2> QED
    BY <2>1, RunsHas
<1>7. /\ queue'[l] \in Seq(Functors) /\ Tidy(queue'[l]) /\ batch[l] <= Len(queue'[l])
      /\ \A o, d : Has(queue'[l], o, d) <=> Has(queue[l], o, d) \/ (o = "destroyed" /\ d = c)
  <2>1. queue[l] \in Seq(Functors) /\ Tidy(queue[l]) /\ batch[l] \in Nat /\ batch[l] <= Len(queue[l])
    BY <1>1, TypeFacts DEF Before, LoopInv
  <2>2. "destroyed" \in Ops /\ "destroyed" # "established"
    BY DEF Ops
  <2>3. queue'[l] \in Seq(Functors) /\ Tidy(queue'[l]) /\ Len(queue'[l]) = Len(queue[l]) + 1
    BY ONLY <1>1, <1>4, <1>5, <2>1, <2>2, TidyAppend
  <2>4. \A o, d : Has(queue'[l], o, d) <=> Has(queue[l], o, d) \/ (o = "destroyed" /\ d = c)
    BY ONLY <1>1, <1>5, <2>1, <2>2, HasAppend
  <2>5. Len(queue[l]) \in Nat
    BY <2>1, SMT
  <2> QED
    BY <2>1, <2>3, <2>4, <2>5, SMT
<1>8. \A m \in AllLoops : m # Base /\ m # l => queue'[m] = queue[m]
  BY <1>5
<1>9. UNCHANGED <<conn, failed>> /\ connections' = [m \in DOMAIN connections \ {fd[c]} |-> connections[m]]
  BY <1>4 DEF RemoveConnectionInLoop, Erased
<1>10. /\ \A d \in Conns : InMap(d)' <=> InMap(d) /\ d # c
       /\ MapInv' /\ DOMAIN connections' \subseteq DOMAIN connections
       /\ connections' \in [DOMAIN connections' -> Conns] /\ DOMAIN connections' \subseteq Fds
  BY <1>1, <1>4, <1>9, ErasedFacts DEF conn
<1>11. /\ LoopInv' /\ c \in held'[Base] /\ \A m \in Loops : held[m] \subseteq held'[m]
       /\ batch' \in [AllLoops -> Nat] /\ held' \in [AllLoops -> SUBSET (1..born)]
  <2>1. \A m \in AllLoops : Tidy(queue'[m]) /\ (m # Base => batch[m] <= Len(queue'[m]))
    BY <1>6, <1>7, <1>8 DEF Before, LoopInv
  <2> QED
    BY <1>1, <1>2, <1>6, <1>9, <1>10, <2>1, RunsLoop DEF conn
<1>12. TypeOK'
  <2>1. queue' \in [AllLoops -> Seq(Functors)]
    <3>1. \A m \in AllLoops : queue'[m] \in Seq(Functors)
      BY <1>6, <1>7, <1>8, TypeFacts DEF Before
    <3>2. queue' = [m \in AllLoops |-> queue'[m]]
      BY DEF RemoveConnectionInLoop, Before, TypeOK
    <3> QED
      BY ONLY <3>1, <3>2, ZenonT(60)
  <2>2. batch' \in [AllLoops -> Nat] /\ held' \in [AllLoops -> SUBSET (1..born)]
    BY <1>11
  <2>3. connections' \in [DOMAIN connections' -> Conns] /\ DOMAIN connections' \subseteq Fds
    BY <1>10
  <2> QED
    BY <1>2, <1>9, <2>1, <2>2, <2>3 DEF Before, TypeOK, Loops, server, conn
<1>13. \A d \in Conns \ {c} : Same(d)
  <2>1. \A m \in AllLoops, o \in Ops, d \in Conns \ {c} : Has(queue'[m], o, d) <=> Has(queue[m], o, d)
    BY <1>6, <1>7, <1>8
  <2> QED
    BY <1>9, <1>10, <2>1 DEF Same, conn
<1>14. ConnOk(c)'
  <2>1. /\ \A m \in AllLoops : Has(queue'[m], "established", c) <=> Has(queue[m], "established", c)
        /\ \A m \in AllLoops : ~Has(queue'[m], "remove", c)
        /\ \A m \in AllLoops : Has(queue'[m], "destroyed", c) <=> m = l
    BY <1>2, <1>4, <1>6, <1>7, <1>8 DEF ConnOk, l
  <2> QED
    BY <1>1, <1>2, <1>4, <1>9, <1>10, <2>1 DEF ConnOk, conn, l
<1>15. Referenced(c)'
  BY <1>1, <1>2, <1>7, <1>12, ReferencedNext DEF server, Ops
<1> QED
  BY <1>1, <1>2, <1>9, <1>10, <1>11, <1>12, <1>13, <1>14, <1>15, OneConnection DEF server, conn
=============================================================================
