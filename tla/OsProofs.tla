------------------------------ MODULE OsProofs ------------------------------
(***************************************************************************)
(* Proofs about the two that keep state of the operating system.           *)
(*                                                                         *)
(* Epoller, for any number of channels and descriptors: the three records  *)
(* of a registration agree, loop() never follows a dangling Channel        *)
(* pointer, and the Epoller's own asserts and epoll_ctl calls succeed.     *)
(*                                                                         *)
(* FileAppender, for every set of threads, check interval, roll size and   *)
(* period: a file outlives its period by few lines, and the open one is    *)
(* never deleted.  Until fwrite_unlocked of one thread and fflush of       *)
(* another overlap, a line whose log() has returned is in no stdio buffer, *)
(* and the files hold the lines in order.  With one thread they never do.  *)
(***************************************************************************)
EXTENDS Os, Sequences, TLAPS

(* Zenon proves the steps below, and SMT those that need arithmetic or      *)
(* reason about sequences and records.                                     *)
USE ZenonT(60)

(* The kernel gives a descriptor to one owner at a time, and loop() has    *)
(* taken the channel it is handling off its list.                          *)
ObjectInv ==
  /\ \A c, d \in Channels : fd[c] # None /\ fd[c] = fd[d] => c = d
  /\ current \notin todo
  /\ ~handling => todo = {} /\ current = None
  /\ handling => todo \subseteq active

IInv == P!TypeOK /\ ObjectInv /\ P!RegistrationAgrees /\ P!ActiveAlive /\ P!ChecksHold

-----------------------------------------------------------------------------
(* A new Epoller, without channels, satisfies the invariant. *)
LEMMA InitIInv == P!Init => IInv
  BY PollerAssumption
  DEF P!Init, IInv, P!TypeOK, ObjectInv, P!RegistrationAgrees, P!ActiveAlive, P!ChecksHold

(* The constructor of a Channel keeps the invariant. *)
LEMMA ConstructStep ==
  ASSUME IInv, NEW c \in Channels, NEW f \in Fds, P!Construct(c, f)
  PROVE  IInv'
<1> USE PollerAssumption DEF IInv, P!Construct, P!walk
<1>1. P!TypeOK'
  BY DEF P!TypeOK
<1>2. ObjectInv'
  BY DEF P!TypeOK, ObjectInv
<1>3. P!RegistrationAgrees'
  BY SMT DEF P!TypeOK, P!RegistrationAgrees
<1>4. P!ActiveAlive' /\ P!ChecksHold'
  BY DEF P!TypeOK, P!ActiveAlive, P!ChecksHold
<1> QED
  BY <1>1, <1>2, <1>3, <1>4

(* Every enable and disable call is an Update. *)
LEMMA UpdateStep ==
  ASSUME IInv, NEW c \in Channels, NEW es \in SUBSET P!Events, P!Update(c, es)
  PROVE  IInv'
<1> USE PollerAssumption DEF IInv, P!Update, P!walk
<1> DEFINE f == fd[c]
<1>0. /\ f \in Fds
      /\ [ptr |-> c, events |-> es] \in P!Interest
      /\ [ptr |-> c, events |-> es] # None
  BY SMT DEF P!TypeOK, P!Interest
<1>1. CASE P!UpdateNew(c, es)
  <2>1. channels[f] = None /\ interest[f] = None
    BY <1>0, <1>1, SMT DEF P!UpdateNew, P!TypeOK, ObjectInv, P!RegistrationAgrees, P!Interest
  <2>2. /\ interest' = [interest EXCEPT ![f] = [ptr |-> c, events |-> es]]
        /\ poller_failed' = poller_failed
    BY <1>1, <2>1 DEF P!UpdateNew, P!CtlAdd, P!Check
  <2>3. P!TypeOK'
    BY <1>0, <1>1, <2>2, SMT DEF P!UpdateNew, P!TypeOK
  <2>4. ObjectInv' /\ P!ChecksHold'
    BY <2>2 DEF ObjectInv, P!ChecksHold
  <2>5. P!RegistrationAgrees'
    BY <1>0, <1>1, <2>1, <2>2, SMT
      DEF P!UpdateNew, P!TypeOK, ObjectInv, P!RegistrationAgrees, P!Interest
  <2>6. P!ActiveAlive'
    BY <1>0, <1>1, <2>1, SMT DEF P!UpdateNew, P!TypeOK, P!ActiveAlive
  <2> QED
    BY <2>3, <2>4, <2>5, <2>6
<1>2. CASE P!UpdateDeleted(c, es)
  <2>1. channels[f] = c /\ interest[f] = None
    BY <1>0, <1>2 DEF P!UpdateDeleted, P!TypeOK, P!RegistrationAgrees, P!Interest
  <2>2. /\ interest' = [interest EXCEPT ![f] = [ptr |-> c, events |-> es]]
        /\ poller_failed' = poller_failed
    BY <1>2, <2>1 DEF P!UpdateDeleted, P!CtlAdd, P!Check
  <2>3. P!TypeOK'
    BY <1>0, <1>2, <2>2, SMT DEF P!UpdateDeleted, P!TypeOK
  <2>4. ObjectInv' /\ P!ChecksHold' /\ P!ActiveAlive'
    BY <1>2, <2>2 DEF P!UpdateDeleted, ObjectInv, P!ChecksHold, P!ActiveAlive
  <2>5. P!RegistrationAgrees'
    BY <1>0, <1>2, <2>1, <2>2, SMT
      DEF P!UpdateDeleted, P!TypeOK, ObjectInv, P!RegistrationAgrees, P!Interest
  <2> QED
    BY <2>3, <2>4, <2>5
<1>3. CASE P!UpdateAdded(c, es)
  <2>1. channels[f] = c /\ interest[f] # None
    BY <1>0, <1>3, SMT DEF P!UpdateAdded, P!TypeOK, P!RegistrationAgrees
  <2>2. /\ interest' = [interest EXCEPT ![f] = IF es = {} THEN None
                                               ELSE [ptr |-> c, events |-> es]]
        /\ poller_failed' = poller_failed
    BY <1>3, <2>1 DEF P!UpdateAdded, P!CtlDel, P!CtlMod, P!Check
  <2>3. P!TypeOK'
    BY <1>0, <1>3, <2>2, SMT DEF P!UpdateAdded, P!TypeOK
  <2>4. ObjectInv' /\ P!ChecksHold' /\ P!ActiveAlive'
    BY <1>3, <2>2 DEF P!UpdateAdded, ObjectInv, P!ChecksHold, P!ActiveAlive
  <2>5. P!RegistrationAgrees'
    BY <1>0, <1>3, <2>1, <2>2, SMT
      DEF P!UpdateAdded, P!TypeOK, ObjectInv, P!RegistrationAgrees, P!Interest
  <2> QED
    BY <2>3, <2>4, <2>5
<1> QED
  BY <1>1, <1>2, <1>3

(* Channel::remove() keeps the invariant. *)
LEMMA RemoveStep ==
  ASSUME IInv, NEW c \in Channels, P!Remove(c)
  PROVE  IInv'
<1> USE PollerAssumption DEF IInv, P!Remove, P!MayRemove, P!walk
<1> DEFINE f == fd[c]
<1>1. f \in Fds /\ channels[f] = c /\ index[c] \in {"kAdded", "kDeleted"}
  BY SMT DEF P!TypeOK, P!RegistrationAgrees
<1>2. index[c] = "kAdded" <=> interest[f] # None
  BY <1>1, SMT DEF P!TypeOK, P!RegistrationAgrees
<1>3. interest' = [interest EXCEPT ![f] = None] /\ poller_failed' = poller_failed
  <2>1. CASE index[c] = "kAdded"
    BY <1>1, <1>2, <2>1 DEF P!CtlDel, P!Check
  <2>2. CASE index[c] # "kAdded"
    <3>1. interest = [interest EXCEPT ![f] = None]
      BY <1>1, <1>2, <2>2 DEF P!TypeOK
    <3> QED
      BY <1>1, <2>2, <3>1 DEF P!Check
  <2> QED
    BY <2>1, <2>2
<1>4. P!TypeOK'
  BY <1>1, <1>3 DEF P!TypeOK
<1>5. ObjectInv' /\ P!ChecksHold'
  BY <1>3 DEF ObjectInv, P!ChecksHold
<1>6. P!RegistrationAgrees'
  BY <1>1, <1>3, SMT DEF P!TypeOK, ObjectInv, P!RegistrationAgrees
<1>7. P!ActiveAlive'
  <2>1. c \notin todo
    BY DEF ObjectInv
  <2> QED
    BY <1>1, <2>1, SMT DEF P!TypeOK, ObjectInv, P!ActiveAlive
<1> QED
  BY <1>4, <1>5, <1>6, <1>7

(* The destructor of a Channel keeps the invariant. *)
LEMMA DestroyStep ==
  ASSUME IInv, NEW c \in Channels, P!Destroy(c)
  PROVE  IInv'
<1> USE PollerAssumption DEF IInv, P!Destroy, P!walk
<1> DEFINE f == fd[c]
<1>1. f \in Fds /\ index[c] = "kNew" /\ channels[f] = None /\ interest[f] = None
  BY SMT DEF P!TypeOK, ObjectInv, P!RegistrationAgrees, P!Interest
<1>2. interest' = interest /\ poller_failed' = poller_failed
  BY <1>1 DEF P!TypeOK, P!Check
<1>3. P!TypeOK'
  BY <1>2 DEF P!TypeOK
<1>4. ObjectInv' /\ P!ChecksHold'
  BY <1>2 DEF P!TypeOK, ObjectInv, P!ChecksHold
<1>5. P!RegistrationAgrees'
  BY <1>1, <1>2, SMT DEF P!TypeOK, P!RegistrationAgrees
<1>6. P!ActiveAlive'
  BY <1>1, SMT DEF P!TypeOK, P!ActiveAlive
<1> QED
  BY <1>3, <1>4, <1>5, <1>6

(* loop(): a poll reports registered channels only. *)
LEMMA WalkStep ==
  ASSUME IInv,
         \/ \E ready \in SUBSET Fds : P!Poll(ready)
         \/ \E c \in Channels : P!HandleEvent(c)
         \/ P!EndDispatch
  PROVE  IInv'
<1> USE PollerAssumption DEF IInv, P!object
<1>1. ASSUME NEW ready \in SUBSET Fds, P!Poll(ready) PROVE IInv'
  <2>1. \A f \in ready : LET c == interest[f].ptr IN
          c \in Channels /\ fd[c] = f /\ channels[f] = c
    BY <1>1, SMT DEF P!Poll, P!TypeOK, P!RegistrationAgrees, P!Interest
  <2>2. \A c \in active' : c \in Channels /\ fd[c] # None /\ channels[fd[c]] = c
    BY <1>1, <2>1, SMT DEF P!Poll
  <2>3. poller_failed' = poller_failed
    BY <1>1, <2>2 DEF P!Poll, P!Check
  <2>4. P!TypeOK'
    BY <1>1, <2>2, <2>3 DEF P!Poll, P!TypeOK
  <2>5. current = None /\ None \notin active'
    BY <1>1, <2>2 DEF P!Poll, ObjectInv
  <2> QED
    BY <1>1, <2>2, <2>3, <2>4, <2>5
    DEF P!Poll, P!TypeOK, ObjectInv, P!RegistrationAgrees, P!ActiveAlive, P!ChecksHold
<1>2. ASSUME NEW c \in Channels, P!HandleEvent(c) PROVE IInv'
  BY <1>2, SMT
  DEF P!HandleEvent, P!TypeOK, ObjectInv, P!RegistrationAgrees, P!ActiveAlive, P!ChecksHold
<1>3. CASE P!EndDispatch
  BY <1>3
  DEF P!EndDispatch, P!TypeOK, ObjectInv, P!RegistrationAgrees, P!ActiveAlive, P!ChecksHold
<1> QED
  BY <1>1, <1>2, <1>3

(* The inductive invariant holds in every reachable state. *)
THEOREM Inductive == P!Spec => []IInv
<1>1. P!Init => IInv
  BY InitIInv
<1>2. IInv /\ [P!Next]_(P!vars) => IInv'
  <2> SUFFICES ASSUME IInv, [P!Next]_(P!vars) PROVE IInv'
    OBVIOUS
  <2>1. ASSUME NEW c \in Channels, NEW e \in P!Events, P!Enable(c, e) PROVE IInv'
    BY <2>1, UpdateStep DEF P!Enable, IInv, P!TypeOK
  <2>2. ASSUME NEW c \in Channels, NEW e \in P!Events, P!Disable(c, e) PROVE IInv'
    BY <2>2, UpdateStep DEF P!Disable, IInv, P!TypeOK
  <2>3. ASSUME NEW c \in Channels, P!DisableAll(c) PROVE IInv'
    BY <2>3, UpdateStep DEF P!DisableAll
  <2>4. CASE UNCHANGED P!vars
    <3>1. UNCHANGED poller_vars
      BY <2>4 DEF P!vars, P!object, P!walk, poller_vars
    <3> QED
      BY <3>1
      DEF poller_vars, IInv, P!TypeOK, ObjectInv, P!RegistrationAgrees, P!ActiveAlive,
          P!ChecksHold
  <2> QED
    BY <2>1, <2>2, <2>3, <2>4, ConstructStep, RemoveStep, DestroyStep, WalkStep DEF P!Next
<1> QED
  BY <1>1, <1>2, PTL DEF P!Spec

-----------------------------------------------------------------------------
(* The Epoller, its channels and the kernel's list are well typed. *)
THEOREM TypeCorrect == P!Spec => []P!TypeOK
  BY Inductive, PTL DEF IInv

(* channels_, index_ and the kernel's list agree about who is registered,  *)
(* and the kernel's list points to live channels with their own events.    *)
THEOREM RecordsAgree == P!Spec => []RegistrationAgrees
  BY Inductive, PTL DEF IInv, RegistrationAgrees

(* loop() never handles a channel that an earlier handler destroyed.       *)
THEOREM NoDanglingChannel == P!Spec => []ActiveAlive
  BY Inductive, PTL DEF IInv, ActiveAlive

(* The Epoller's asserts hold and its epoll_ctl calls succeed.             *)
THEOREM PollerChecks == P!Spec => []ChecksHold
  BY Inductive, PTL DEF IInv, ChecksHold

-----------------------------------------------------------------------------
(* Times before the first period belong to it. *)
LEMMA PeriodOfZero == F!Period(0) = 0
  BY AppenderAssumption, SMT DEF F!Period

(* The initial states satisfy the invariant of FileAppender. *)
LEMMA AppenderInit ==
  ASSUME F!Init
  PROVE  F!AppenderInv
  <1>1. F!ClockInv
    BY AppenderAssumption, PeriodOfZero, SMT DEF F!Init, F!ClockInv
  <1>9. F!FileLockInv
    BY DEF F!Init, F!FileLockInv
  <1>2. F!LockInv
    BY DEF F!Init, F!LockInv, F!Under
  <1>3. F!LagInv
    BY AppenderAssumption, SMT DEF F!Init, F!LagInv
  <1>4. F!StdioInv
    BY DEF F!Init, F!StdioInv
  <1>5. F!MineInv
    BY SMT DEF F!Init, F!MineInv, F!IsBuffer, F!LinesIn
  <1>6. F!FilesInv
    <2>1. F!NamesInv
      BY AppenderAssumption, SMT DEF F!Init, F!NamesInv
    <2>2. F!LinesInOrder
      BY SMT DEF F!Init, F!LinesInOrder, F!Ascending, F!Before, F!Present, F!OnDisk,
      F!LinesIn
    <2> QED
      BY <2>1, <2>2 DEF F!FilesInv
  <1>7. F!YoungInv
    BY DEF F!Init, F!YoungInv, F!FileKept
  <1>8. F!SeenInv
    BY DEF F!Init, F!SeenInv, F!InUse
  <1> QED
    BY <1>1, <1>2, <1>3, <1>4, <1>5, <1>6, <1>7, <1>8, <1>9 DEF F!AppenderInv

(* A step of one thread leaves the others where they are. *)
LEMMA OthersStay ==
  ASSUME F!AppenderInv, NEW t \in Callers, F!Step(t)
  PROVE  \A u \in Callers \ {t} : file_pc'[u] = file_pc[u]
<1>1. \E b : file_pc' = [file_pc EXCEPT ![t] = b]
  BY DEF F!Step, F!BeginAppend, F!Roll, F!Name, F!Close, F!Open, F!Delete, F!WriteBegin,
     F!Write, F!FlushLoad, F!Flush, F!FlushEnd, F!Goes
<1>2. DOMAIN file_pc = Callers
  BY DEF F!AppenderInv, F!LockInv
<1> QED
  BY <1>1, <1>2

(***************************************************************************)
(* What a step of t leaves as it is: a thread that does not hold lck_ is   *)
(* not within append(), before the step or after it.                       *)
(***************************************************************************)
LEMMA OneRolls ==
  ASSUME F!AppenderInv, NEW t \in Callers, NEW a \in F!Under, NEW b, F!Goes(t, a, b)
  PROVE  /\ file_pc[t] = a /\ file_pc'[t] = b
         /\ \A u \in Callers \ {t} : file_pc'[u] = file_pc[u] /\ file_pc[u] \notin F!Under
  BY DEF F!Goes, F!AppenderInv, F!LockInv

(* Every action keeps the times in order. *)
LEMMA ClockStep ==
  ASSUME F!AppenderInv, NEW t \in Callers, F!Step(t)
  PROVE  F!ClockInv'
  <1>1. CASE F!BeginAppend(t)
    BY <1>1 DEF F!BeginAppend, F!rolling, F!stdio, F!AppenderInv, F!ClockInv
  <1>2. CASE F!Roll(t)
    BY <1>2, SMT DEF F!Roll, F!stdio, F!AppenderInv, F!ClockInv
  <1>3. CASE F!Name(t)
    BY <1>3 DEF F!Name, F!stdio, F!AppenderInv, F!ClockInv
  <1>4. CASE F!Close(t)
    BY <1>4 DEF F!Close, F!rolling, F!AppenderInv, F!ClockInv
  <1>5. CASE F!Open(t)
    BY <1>5, SMT DEF F!Open, F!AppenderInv, F!ClockInv
  <1>6. CASE F!Delete(t)
    BY <1>6, SMT DEF F!Delete, F!AppenderInv, F!ClockInv
  <1>7. CASE F!WriteBegin(t)
    BY <1>7 DEF F!WriteBegin, F!rolling, F!stdio, F!AppenderInv, F!ClockInv
  <1>8. CASE F!Write(t)
    BY <1>8 DEF F!Write, F!rolling, F!AppenderInv, F!ClockInv
  <1>9. CASE F!FlushLoad(t)
    BY <1>9 DEF F!FlushLoad, F!rolling, F!stdio, F!AppenderInv, F!ClockInv
  <1>10. CASE F!Flush(t)
    BY <1>10 DEF F!Flush, F!rolling, F!stdio, F!AppenderInv, F!ClockInv
  <1>11. CASE F!FlushEnd(t)
    BY <1>11 DEF F!FlushEnd, F!rolling, F!AppenderInv, F!ClockInv
  <1> QED
    BY <1>1, <1>2, <1>3, <1>4, <1>5, <1>6, <1>7, <1>8, <1>9, <1>10, <1>11 DEF F!Step

(* Every action leaves lck_ with the thread that appends. *)
LEMMA LockStep ==
  ASSUME F!AppenderInv, NEW t \in Callers, F!Step(t)
  PROVE  F!LockInv'
  <1>1. CASE F!BeginAppend(t)
    BY <1>1, AppenderAssumption DEF F!BeginAppend, F!Goes, F!AppenderInv, F!LockInv, F!Under
  <1>2. CASE F!Roll(t)
    BY <1>2 DEF F!Roll, F!Goes, F!AppenderInv, F!LockInv, F!Under
  <1>3. CASE F!Name(t)
    BY <1>3 DEF F!Name, F!Goes, F!AppenderInv, F!LockInv, F!Under
  <1>4. CASE F!Close(t)
    BY <1>4 DEF F!Close, F!Goes, F!AppenderInv, F!LockInv, F!Under
  <1>5. CASE F!Open(t)
    BY <1>5 DEF F!Open, F!Goes, F!AppenderInv, F!LockInv, F!Under
  <1>6. CASE F!Delete(t)
    BY <1>6 DEF F!Delete, F!Goes, F!AppenderInv, F!LockInv, F!Under
  <1>7. CASE F!Write(t)
    BY <1>7 DEF F!Write, F!Goes, F!AppenderInv, F!LockInv, F!Under
  <1>8. CASE F!FlushLoad(t)
    BY <1>8 DEF F!FlushLoad, F!Goes, F!AppenderInv, F!LockInv, F!Under
  <1>9. CASE F!Flush(t)
    BY <1>9 DEF F!Flush, F!Goes, F!AppenderInv, F!LockInv, F!Under
  <1>10. CASE F!WriteBegin(t)
    BY <1>10 DEF F!WriteBegin, F!Goes, F!AppenderInv, F!LockInv, F!Under
  <1>11. CASE F!FlushEnd(t)
    BY <1>11 DEF F!FlushEnd, F!Goes, F!AppenderInv, F!LockInv, F!Under
  <1> QED
    BY <1>1, <1>2, <1>3, <1>4, <1>5, <1>6, <1>7, <1>8, <1>9, <1>10, <1>11 DEF F!Step

(* Every action keeps the bound on late lines: a file that is due for its *)
(* period is opened, since its second is later than the last one.         *)
LEMMA LagStep ==
  ASSUME F!AppenderInv, NEW t \in Callers, F!Step(t)
  PROVE  F!LagInv'
  <1>1. CASE F!BeginAppend(t)
    BY <1>1, AppenderAssumption, SMT
      DEF F!BeginAppend, F!Goes, F!rolling, F!AppenderInv, F!LagInv,
      F!LockInv, F!ClockInv
  <1>2. CASE F!Roll(t)
    BY <1>2, SMT DEF F!Roll, F!Goes, F!AppenderInv, F!LagInv, F!ClockInv
  <1>3. CASE F!Name(t)
    BY <1>3, AppenderAssumption, SMT DEF F!Name, F!AppenderInv, F!LagInv
  <1>4. CASE F!Close(t)
    BY <1>4, SMT DEF F!Close, F!Goes, F!rolling, F!AppenderInv, F!LagInv
  <1>5. CASE F!Open(t)
    BY <1>5, SMT DEF F!Open, F!Goes, F!AppenderInv, F!LagInv
  <1>6. CASE F!Delete(t)
    BY <1>6, SMT DEF F!Delete, F!Goes, F!AppenderInv, F!LagInv
  <1>7. CASE F!Write(t)
    BY <1>7, SMT DEF F!Write, F!Goes, F!rolling, F!AppenderInv, F!LagInv
  <1>8. CASE F!FlushLoad(t)
    BY <1>8, SMT DEF F!FlushLoad, F!Goes, F!rolling, F!AppenderInv, F!LagInv
  <1>9. CASE F!Flush(t)
    <2>1. file_pc[t] = "fflush" /\ UNCHANGED <<count, stale, last_roll_time, now>>
      BY <1>9 DEF F!Flush, F!Goes, F!rolling
    <2> QED
      BY <2>1, OthersStay DEF F!AppenderInv, F!LagInv
  <1>10. CASE F!WriteBegin(t)
    BY <1>10, SMT DEF F!WriteBegin, F!Goes, F!rolling, F!AppenderInv, F!LagInv
  <1>11. CASE F!FlushEnd(t)
    BY <1>11, SMT DEF F!FlushEnd, F!Goes, F!rolling, F!AppenderInv, F!LagInv
  <1> QED
    BY <1>1, <1>2, <1>3, <1>4, <1>5, <1>6, <1>7, <1>8, <1>9, <1>10, <1>11 DEF F!Step

(* Every action keeps file_ the latest FILE, open unless one is being opened. *)
LEMMA StdioStep ==
  ASSUME F!AppenderInv, NEW t \in Callers, F!Step(t)
  PROVE  F!StdioInv'
  <1>1. CASE F!BeginAppend(t)
    BY <1>1 DEF F!BeginAppend, F!Goes, F!stdio, F!AppenderInv, F!StdioInv, F!LockInv
  <1>2. CASE F!Roll(t)
    BY <1>2, SMT DEF F!Roll, F!Goes, F!stdio, F!AppenderInv, F!StdioInv
  <1>3. CASE F!Name(t)
    BY <1>3, SMT DEF F!Name, F!Goes, F!stdio, F!AppenderInv, F!StdioInv
  <1>4. CASE F!Close(t)
    <2>1. UNCHANGED <<opened, file>> /\ file_pc'[t] = "open"
      BY <1>4 DEF F!Close, F!Goes, F!AppenderInv, F!LockInv
    <2>2. F!StdioInv
      BY DEF F!AppenderInv
    <2>3. CASE open' = FALSE /\ buffered' = <<>>
      BY <2>1, <2>2, <2>3 DEF F!StdioInv
    <2>4. CASE file = 0 /\ UNCHANGED <<open, buffered>>
      <3>1. ~open' /\ buffered' = <<>>
        BY <2>2, <2>4 DEF F!StdioInv
      <3> QED
        BY <2>1, <2>2, <3>1 DEF F!StdioInv
    <2> QED
      BY <1>4, <2>3, <2>4 DEF F!Close
  <1>5. CASE F!Open(t)
    <2>1. \A u \in Callers : file_pc'[u] # "open"
      BY <1>5, OneRolls DEF F!Open, F!Under
    <2>2. buffered = <<>> /\ ~open /\ buffered' = buffered
      BY <1>5 DEF F!Open, F!Goes, F!AppenderInv, F!StdioInv
    <2>3. \/ opened' = opened + 1 /\ file' = opened + 1 /\ open'
          \/ file' = 0 /\ UNCHANGED <<opened, open>>
      BY <1>5 DEF F!Open
    <2>4. opened + 1 \in Nat /\ opened + 1 # 0 /\ opened \in Nat
      BY SMT DEF F!AppenderInv, F!StdioInv
    <2>5. CASE opened' = opened + 1 /\ file' = opened + 1 /\ open'
      BY <2>1, <2>4, <2>5, <2>2 DEF F!StdioInv
    <2>6. CASE file' = 0 /\ UNCHANGED <<opened, open>>
      BY <2>1, <2>2, <2>4, <2>6 DEF F!StdioInv
    <2> QED
      BY <2>3, <2>5, <2>6
  <1>6. CASE F!Delete(t)
    <2>1. \A u \in Callers : file_pc[u] # "open" /\ file_pc'[u] # "open"
      BY <1>6, OneRolls DEF F!Delete, F!Under
    <2>2. file_pc[t] = "delete" /\ UNCHANGED <<opened, file, open, buffered>>
      BY <1>6 DEF F!Delete, F!Goes
    <2> QED
      BY <2>1, <2>2 DEF F!AppenderInv, F!StdioInv
  <1>7. CASE F!Write(t)
    BY <1>7 DEF F!Write, F!Goes, F!AppenderInv, F!StdioInv, F!LockInv
  <1>8. CASE F!FlushLoad(t)
    BY <1>8, SMT DEF F!FlushLoad, F!Goes, F!stdio, F!AppenderInv, F!StdioInv
  <1>9. CASE F!Flush(t)
    <2>1. /\ file_pc[t] = "fflush" /\ file_pc'[t] \in {"idle", "flushing"}
          /\ UNCHANGED <<opened, file, open, buffered>>
      BY <1>9 DEF F!Flush, F!Goes, F!stdio, F!AppenderInv, F!LockInv
    <2> QED
      BY <2>1, OthersStay DEF F!AppenderInv, F!StdioInv
  <1>10. CASE F!WriteBegin(t)
    BY <1>10, SMT DEF F!WriteBegin, F!Goes, F!stdio, F!AppenderInv, F!StdioInv
  <1>11. CASE F!FlushEnd(t)
    BY <1>11 DEF F!FlushEnd, F!Goes, F!AppenderInv, F!StdioInv, F!LockInv
  <1> QED
    BY <1>1, <1>2, <1>3, <1>4, <1>5, <1>6, <1>7, <1>8, <1>9, <1>10, <1>11 DEF F!Step

(* Every action leaves the lock of the FILE with the one fflush, which ends *)
(* before the FILE is closed.                                               *)
LEMMA FileLockStep ==
  ASSUME F!AppenderInv, NEW t \in Callers, F!Step(t)
  PROVE  F!FileLockInv'
<1>1. F!FileLockInv /\ DOMAIN file_pc = Callers
  BY DEF F!AppenderInv, F!LockInv
<1>2. ASSUME file_pc'[t] # "flushing", DOMAIN seen' = DOMAIN seen,
             UNCHANGED <<file, open>>
      PROVE  F!FileLockInv'
  BY <1>1, <1>2, OthersStay DEF F!FileLockInv
<1>3. ASSUME file_pc'[t] # "flushing", seen' = seen, \A u \in Callers : file_pc[u] # "flushing"
      PROVE  F!FileLockInv'
  BY <1>1, <1>3, OthersStay DEF F!FileLockInv
<1>4. CASE F!BeginAppend(t)
  BY <1>1, <1>2, <1>4 DEF F!BeginAppend, F!Goes, F!stdio, F!race
<1>5. CASE F!Roll(t)
  BY <1>1, <1>2, <1>5 DEF F!Roll, F!Goes, F!stdio, F!race
<1>6. CASE F!Name(t)
  BY <1>1, <1>2, <1>6 DEF F!Name, F!Goes, F!stdio, F!race
<1>7. CASE F!Close(t)
  <2>1. \A u \in Callers : file_pc[u] # "flushing"
    BY <1>1, <1>7 DEF F!Close, F!FileFree, F!FileLockInv
  <2> QED
    BY <1>1, <1>3, <1>7, <2>1 DEF F!Close, F!Goes, F!race
<1>8. CASE F!Open(t)
  <2>1. \A u \in Callers : file_pc[u] # "flushing"
    BY <1>1, <1>8 DEF F!Open, F!Goes, F!FileLockInv, F!AppenderInv, F!StdioInv
  <2> QED
    BY <1>1, <1>3, <1>8, <2>1 DEF F!Open, F!Goes, F!race
<1>9. CASE F!Delete(t)
  BY <1>1, <1>2, <1>9 DEF F!Delete, F!Goes, F!race
<1>10. CASE F!WriteBegin(t)
  BY <1>1, <1>2, <1>10 DEF F!WriteBegin, F!Goes, F!stdio
<1>11. CASE F!Write(t)
  BY <1>1, <1>2, <1>11 DEF F!Write, F!Goes
<1>12. CASE F!FlushLoad(t)
  BY <1>1, <1>2, <1>12 DEF F!FlushLoad, F!Goes, F!stdio, F!race
<1>13. CASE F!Flush(t)
  <2>1. UNCHANGED <<file, open>> /\ DOMAIN seen' = DOMAIN seen
    BY <1>13 DEF F!Flush, F!stdio, F!race
  <2>2. file_pc'[t] = "idle" \/ (open /\ F!FileFree)
    BY <1>1, <1>13 DEF F!Flush, F!Goes
  <2>3. CASE open /\ F!FileFree
    <3>1. file # 0
      BY <2>3 DEF F!AppenderInv, F!StdioInv
    <3> QED
      BY <1>1, <2>1, <2>3, <3>1, OthersStay DEF F!FileFree, F!FileLockInv
  <2> QED
    BY <1>2, <2>1, <2>2, <2>3
<1>14. CASE F!FlushEnd(t)
  BY <1>1, <1>2, <1>14 DEF F!FlushEnd, F!Goes
<1> QED
  BY <1>4, <1>5, <1>6, <1>7, <1>8, <1>9, <1>10, <1>11, <1>12, <1>13, <1>14 DEF F!Step

(* As long as they do not overlap, fwrite and fflush see the buffer as it is. *)
LEMMA SeenStep ==
  ASSUME F!AppenderInv, F!SeenInv, NEW t \in Callers, F!Step(t), ~raced'
  PROVE  F!SeenInv'
<1>1. DOMAIN seen = Callers /\ DOMAIN file_pc = Callers
  BY DEF F!AppenderInv, F!FileLockInv, F!LockInv
<1>2. \A u \in Callers \ {t} : F!InUse(u)' <=> F!InUse(u)
  BY OthersStay DEF F!InUse
<1>3. ASSUME file_pc'[t] \notin {"fwrite", "flushing"}, UNCHANGED <<seen, buffered>>
      PROVE  F!SeenInv'
  <2>1. ~F!InUse(t)'
    BY <1>3 DEF F!InUse
  <2> QED
    BY <1>2, <1>3, <2>1 DEF F!SeenInv
<1>4. ASSUME file_pc'[t] \notin {"fwrite", "flushing"},
             \A u \in Callers \ {t} : ~F!InUse(u)
      PROVE  F!SeenInv'
  <2>1. ~F!InUse(t)'
    BY <1>4 DEF F!InUse
  <2> QED
    BY <1>2, <1>4, <2>1 DEF F!SeenInv
<1>5. ASSUME seen' = [seen EXCEPT ![t] = buffered], buffered' = buffered, ~F!Overlaps(t)
      PROVE  F!SeenInv'
  BY <1>1, <1>2, <1>5 DEF F!SeenInv, F!Overlaps
<1>6. ASSUME F!InUse(t) PROVE \A u \in Callers \ {t} : ~F!InUse(u)
  BY <1>6 DEF F!SeenInv
<1>7. CASE F!BeginAppend(t)
  BY <1>1, <1>3, <1>7 DEF F!BeginAppend, F!Goes, F!stdio, F!race
<1>8. CASE F!Roll(t)
  BY <1>1, <1>3, <1>8 DEF F!Roll, F!Goes, F!stdio, F!race
<1>9. CASE F!Name(t)
  BY <1>1, <1>3, <1>9 DEF F!Name, F!Goes, F!stdio, F!race
<1>10. CASE F!Close(t)
  <2>1. \A u \in Callers : file_pc[u] # "flushing"
    BY <1>10 DEF F!Close, F!FileFree, F!AppenderInv, F!FileLockInv
  <2>2. \A u \in Callers \ {t} : file_pc[u] # "fwrite"
    BY <1>10, OneRolls DEF F!Close, F!Under
  <2> QED
    BY <1>1, <1>4, <1>10, <2>1, <2>2 DEF F!InUse, F!Close, F!Goes
<1>11. CASE F!Open(t)
  BY <1>1, <1>3, <1>11 DEF F!Open, F!Goes, F!race
<1>12. CASE F!Delete(t)
  BY <1>1, <1>3, <1>12 DEF F!Delete, F!Goes, F!race
<1>13. CASE F!WriteBegin(t)
  BY <1>5, <1>13 DEF F!WriteBegin, F!stdio
<1>14. CASE F!Write(t)
  <2>1. F!InUse(t) /\ file_pc'[t] = "flush"
    BY <1>1, <1>14 DEF F!Write, F!Goes, F!InUse
  <2> QED
    BY <1>4, <1>6, <2>1
<1>15. CASE F!FlushLoad(t)
  BY <1>1, <1>3, <1>15 DEF F!FlushLoad, F!Goes, F!stdio, F!race
<1>16. CASE F!Flush(t)
  <2>1. CASE file_pc'[t] = "idle" /\ seen' = seen
    BY <1>3, <1>16, <2>1 DEF F!Flush, F!stdio
  <2>2. CASE seen' = [seen EXCEPT ![t] = buffered] /\ ~F!Overlaps(t)
    BY <1>5, <1>16, <2>2 DEF F!Flush, F!stdio
  <2> QED
    BY <1>1, <1>16, <2>1, <2>2 DEF F!Flush, F!Goes, F!race
<1>17. CASE F!FlushEnd(t)
  <2>1. F!InUse(t) /\ file_pc'[t] = "idle"
    BY <1>1, <1>17 DEF F!FlushEnd, F!Goes, F!InUse
  <2> QED
    BY <1>4, <1>6, <2>1
<1> QED
  BY <1>7, <1>8, <1>9, <1>10, <1>11, <1>12, <1>13, <1>14, <1>15, <1>16, <1>17 DEF F!Step

(* As long as fwrite and fflush see the buffer as it is, every action keeps *)
(* the line of a thread out of it, once flushed.                            *)
LEMMA MineStep ==
  ASSUME F!AppenderInv, F!SeenInv, F!MineInv, NEW t \in Callers, F!Step(t)
  PROVE  F!MineInv'
  <1>1. CASE F!BeginAppend(t)
    <2>1. /\ UNCHANGED <<lines, mine, loaded, opened, buffered, file>>
          /\ file_pc[t] = "idle"
          /\ \A u \in Callers \ {t} : file_pc'[u] = file_pc[u]
      BY <1>1 DEF F!BeginAppend, F!Goes, F!stdio, F!history, F!AppenderInv, F!LockInv
    <2> QED
      BY <2>1 DEF F!AppenderInv, F!MineInv, F!LockInv
  <1>2. CASE F!Roll(t)
    BY <1>2, SMT DEF F!Roll, F!Goes, F!stdio, F!history, F!AppenderInv, F!MineInv
  <1>3. CASE F!Name(t)
    BY <1>3, SMT DEF F!Name, F!Goes, F!stdio, F!history, F!AppenderInv, F!MineInv
  <1>4. CASE F!Close(t)
    <2>1. buffered' = <<>>
      BY <1>4 DEF F!Close, F!AppenderInv, F!StdioInv
    <2>2. UNCHANGED <<lines, mine, loaded, opened>>
      BY <1>4 DEF F!Close
    <2>3. F!LinesIn(buffered') = {}
      BY <2>1, SMT DEF F!LinesIn
    <2> QED
      BY <2>1, <2>2, <2>3, SMT DEF F!AppenderInv, F!MineInv, F!IsBuffer
  <1>5. CASE F!Open(t)
    BY <1>5, SMT 
      DEF F!Open, F!Goes, F!history, F!AppenderInv, F!MineInv, F!StdioInv, F!LinesIn
  <1>6. CASE F!Delete(t)
    BY <1>6, SMT DEF F!Delete, F!Goes, F!AppenderInv, F!MineInv
  <1>7. CASE F!Write(t)
    <2>1. /\ lines' = lines + 1 /\ mine' = [mine EXCEPT ![t] = lines + 1]
          /\ file_pc[t] = "fwrite" /\ file_pc' = [file_pc EXCEPT ![t] = "flush"]
          /\ UNCHANGED <<loaded, opened, file>>
      BY <1>7 DEF F!Write, F!Goes
    <2>0. seen[t] = buffered
      BY <2>1 DEF F!SeenInv, F!InUse
    <2> DEFINE b == Append(buffered, lines + 1)
    <2>2. buffered' \in {buffered, b}
      BY <1>7, <2>0 DEF F!Write, F!Fwritten
    <2>3. F!IsBuffer(buffered) /\ lines \in Nat
      BY DEF F!AppenderInv, F!MineInv
    <2>4. F!IsBuffer(b)
      BY ONLY <2>3, SMT DEF F!IsBuffer
    <2>5. \A i \in DOMAIN b : b[i] = lines + 1 \/ (i \in DOMAIN buffered /\ b[i] = buffered[i])
      BY ONLY <2>3, SMT DEF F!IsBuffer
    <2> HIDE DEF b
    <2>6. F!LinesIn(b) \subseteq F!LinesIn(buffered) \cup {lines + 1}
      BY ONLY <2>5, ZenonT(60) DEF F!LinesIn
    <2> QED
      BY <2>1, <2>2, <2>4, <2>6, SMT DEF F!AppenderInv, F!MineInv, F!LockInv
  <1>8. CASE F!FlushLoad(t)
    BY <1>8, SMT DEF F!FlushLoad, F!Goes, F!stdio, F!history, F!AppenderInv, F!MineInv, F!StdioInv
  <1>9. CASE F!Flush(t)
    <2>1. /\ UNCHANGED <<lines, mine, opened, file, buffered>>
          /\ loaded' = [loaded EXCEPT ![t] = 0]
      BY <1>9 DEF F!Flush, F!stdio, F!history
    <2>2. file_pc[t] = "fflush" /\ DOMAIN file_pc = Callers
      BY <1>9 DEF F!Flush, F!Goes, F!AppenderInv, F!LockInv
    <2>3. file_pc'[t] = "flushing" \/ loaded[t] = 0 \/ ~(loaded[t] = opened /\ open)
      BY <1>9, <2>2 DEF F!Flush, F!Goes
    <2>4. /\ loaded' \in [Callers -> 0..opened]
          /\ \A u \in Callers \ {t} : loaded'[u] = loaded[u]
      BY <2>1, SMT DEF F!AppenderInv, F!StdioInv, F!MineInv
    <2>5. CASE file_pc'[t] = "flushing"
      BY <2>1, <2>4, <2>5, OthersStay DEF F!MineInv
    <2>6. CASE loaded[t] = 0 \/ ~(loaded[t] = opened /\ open)
      <3>1. buffered = <<>> => F!LinesIn(buffered) = {}
        BY SMT DEF F!LinesIn
      <3>2. mine[t] \notin F!LinesIn(buffered)
        BY <2>2, <2>6, <3>1 DEF F!AppenderInv, F!MineInv, F!StdioInv
      <3> QED
        BY <2>1, <2>4, <3>2, OthersStay DEF F!MineInv
    <2> QED
      BY <2>3, <2>5, <2>6
  <1>10. CASE F!WriteBegin(t)
    BY <1>10, SMT DEF F!WriteBegin, F!Goes, F!stdio, F!history, F!MineInv
  <1>11. CASE F!FlushEnd(t)
    <2>1. F!LinesIn(buffered') = {} /\ F!IsBuffer(buffered')
      BY <1>11, SMT DEF F!FlushEnd, F!LinesIn, F!IsBuffer
    <2> QED
      BY <1>11, <2>1 DEF F!FlushEnd, F!MineInv
  <1> QED
    BY <1>1, <1>2, <1>3, <1>4, <1>5, <1>6, <1>7, <1>8, <1>9, <1>10, <1>11 DEF F!Step

-----------------------------------------------------------------------------
(***************************************************************************)
(* What LinesInOrder says of files d, a buffer b, k lines and the lines g  *)
(* that are gone, in terms of the lines and not of their places.           *)
(***************************************************************************)
Ordered(d, b, k, g) ==
  /\ F!Ascending(b) /\ \A n \in DOMAIN d : F!Ascending(d[n])
  /\ \A n \in DOMAIN d : \A x \in F!LinesIn(d[n]), y \in F!LinesIn(b) : x < y
  /\ \A m, n \in DOMAIN d :
       m < n => \A x \in F!LinesIn(d[m]), y \in F!LinesIn(d[n]) : x < y
  /\ \A x : x \in 1..k /\ x \notin g <=>
       x \in F!LinesIn(b) \/ \E n \in DOMAIN d : x \in F!LinesIn(d[n])

(* The two say the same. *)
LEMMA OrderedIsInOrder ==
  /\ F!LinesInOrder <=> Ordered(disk, buffered, lines, gone)
  /\ F!LinesInOrder' <=> Ordered(disk', buffered', lines', gone')
<1>1. \A s, u : F!Before(s, u) <=> \A x \in F!LinesIn(s), y \in F!LinesIn(u) : x < y
  BY DEF F!Before, F!LinesIn
<1>2. \A x : x \in F!Present <=>
        x \in F!LinesIn(buffered) \/ \E n \in DOMAIN disk : x \in F!LinesIn(disk[n])
  BY DEF F!Present, F!OnDisk
<1>3. \A x : x \in F!Present' <=>
        x \in F!LinesIn(buffered') \/ \E n \in DOMAIN disk' : x \in F!LinesIn(disk'[n])
  BY DEF F!Present, F!OnDisk
<1> QED
  BY <1>1, <1>2, <1>3 DEF F!LinesInOrder, Ordered

(* fflush adds the lines of the buffer behind those of the file. *)
LEMMA Joined ==
  ASSUME NEW s, F!IsBuffer(s), NEW u, F!IsBuffer(u), F!Ascending(s), F!Ascending(u),
         \A x \in F!LinesIn(s), y \in F!LinesIn(u) : x < y
  PROVE  /\ F!IsBuffer(s \o u) /\ F!Ascending(s \o u)
         /\ F!LinesIn(s \o u) = F!LinesIn(s) \cup F!LinesIn(u)
<1> DEFINE v == s \o u
<1>1. /\ v \in Seq(Nat) /\ Len(s) \in Nat /\ Len(u) \in Nat /\ DOMAIN v = 1..(Len(s) + Len(u))
      /\ DOMAIN s = 1..Len(s) /\ DOMAIN u = 1..Len(u)
      /\ \A i \in DOMAIN v : v[i] = IF i <= Len(s) THEN s[i] ELSE u[i - Len(s)]
  BY SMT DEF F!IsBuffer
<1> HIDE DEF v
<1>2. \A i \in DOMAIN s : i \in DOMAIN v /\ v[i] = s[i]
  BY <1>1, SMT
<1>3. \A i \in DOMAIN u : i + Len(s) \in DOMAIN v /\ v[i + Len(s)] = u[i]
  <2> SUFFICES ASSUME NEW i \in DOMAIN u
               PROVE  i + Len(s) \in DOMAIN v /\ v[i + Len(s)] = u[i]
    OBVIOUS
  <2>1. i + Len(s) \in DOMAIN v /\ ~(i + Len(s) <= Len(s)) /\ (i + Len(s)) - Len(s) = i
    BY <1>1, SMT
  <2> QED
    BY <1>1, <2>1
<1>4. \A i \in DOMAIN v :
        (i \in DOMAIN s /\ v[i] = s[i]) \/ (i - Len(s) \in DOMAIN u /\ v[i] = u[i - Len(s)])
  BY <1>1, SMT
<1>5. F!LinesIn(v) = F!LinesIn(s) \cup F!LinesIn(u)
  <2>1. F!LinesIn(s) \subseteq F!LinesIn(v)
    BY <1>2 DEF F!LinesIn
  <2>2. F!LinesIn(u) \subseteq F!LinesIn(v)
    BY <1>3 DEF F!LinesIn
  <2>3. F!LinesIn(v) \subseteq F!LinesIn(s) \cup F!LinesIn(u)
    BY <1>4 DEF F!LinesIn
  <2> QED
    BY <2>1, <2>2, <2>3
<1>6. F!Ascending(v)
  <2>1. \A i \in DOMAIN s, j \in DOMAIN u : s[i] < u[j]
    BY DEF F!LinesIn
  <2> SUFFICES ASSUME NEW i \in DOMAIN v, NEW j \in DOMAIN v, i < j PROVE v[i] < v[j]
    BY DEF F!Ascending
  <2>2. i \in Nat /\ j \in Nat
    BY <1>1, SMT
  <2>3. CASE j <= Len(s)
    BY <1>1, <2>2, <2>3, SMT DEF F!Ascending
  <2>4. CASE i <= Len(s) /\ ~(j <= Len(s))
    <3>1. i \in DOMAIN s /\ j - Len(s) \in DOMAIN u /\ v[i] = s[i] /\ v[j] = u[j - Len(s)]
      BY <1>1, <2>2, <2>4, SMT
    <3> QED
      BY <2>1, <3>1
  <2>5. CASE ~(i <= Len(s))
    <3>1. i - Len(s) < j - Len(s) /\ ~(j <= Len(s))
      BY <1>1, <2>2, <2>5, SMT
    <3>2. i - Len(s) \in DOMAIN u /\ j - Len(s) \in DOMAIN u
      BY <1>1, <2>5, <3>1, SMT
    <3>3. v[i] = u[i - Len(s)] /\ v[j] = u[j - Len(s)]
      BY <1>1, <2>5, <3>1
    <3> QED
      BY <3>1, <3>2, <3>3 DEF F!Ascending
  <2> QED
    BY <1>1, <2>2, <2>3, <2>4, <2>5
<1> QED
  BY <1>1, <1>5, <1>6 DEF v, F!IsBuffer

(* fwrite adds a line behind those of the buffer. *)
LEMMA Written ==
  ASSUME NEW s, F!IsBuffer(s), F!Ascending(s), NEW l \in Nat, \A x \in F!LinesIn(s) : x < l
  PROVE  /\ F!IsBuffer(Append(s, l)) /\ F!Ascending(Append(s, l))
         /\ F!LinesIn(Append(s, l)) = F!LinesIn(s) \cup {l}
<1> DEFINE v == Append(s, l)
<1>1. /\ v \in Seq(Nat) /\ Len(s) \in Nat /\ DOMAIN v = 1..(Len(s) + 1)
      /\ DOMAIN s = 1..Len(s)
      /\ \A i \in DOMAIN v : v[i] = IF i <= Len(s) THEN s[i] ELSE l
  BY SMT DEF F!IsBuffer
<1> HIDE DEF v
<1>2. /\ \A i \in DOMAIN s : i \in DOMAIN v /\ v[i] = s[i]
      /\ Len(s) + 1 \in DOMAIN v /\ v[Len(s) + 1] = l
  BY <1>1, SMT
<1>3. \A i \in DOMAIN v : (i \in DOMAIN s /\ v[i] = s[i]) \/ v[i] = l
  BY <1>1, SMT
<1>4. F!LinesIn(v) = F!LinesIn(s) \cup {l}
  BY <1>2, <1>3 DEF F!LinesIn
<1>5. \A i \in DOMAIN s : s[i] < l
  BY DEF F!LinesIn
<1>6. F!Ascending(v)
  <2> SUFFICES ASSUME NEW i \in DOMAIN v, NEW j \in DOMAIN v, i < j PROVE v[i] < v[j]
    BY DEF F!Ascending
  <2>1. i \in DOMAIN s /\ v[i] = s[i] /\ (v[j] = l \/ (j \in DOMAIN s /\ v[j] = s[j]))
    <3>1. i <= Len(s) /\ i \in DOMAIN s /\ (j <= Len(s) => j \in DOMAIN s)
      BY <1>1, SMT
    <3> QED
      BY <1>1, <3>1
  <2> QED
    BY <1>5, <2>1 DEF F!Ascending
<1> QED
  BY <1>1, <1>4, <1>6 DEF v, F!IsBuffer

(* Nothing is in an empty file. *)
LEMMA Empty == F!LinesIn(<<>>) = {} /\ F!Ascending(<<>>) /\ F!IsBuffer(<<>>)
  BY SMT DEF F!LinesIn, F!Ascending, F!IsBuffer

(***************************************************************************)
(* fflush of the file that was opened last, the last by name: its lines go *)
(* behind those of all files, or are lost with a file that is unlinked.    *)
(***************************************************************************)
LEMMA FlushOrdered ==
  ASSUME Ordered(disk, buffered, lines, gone), name \in Nat, DOMAIN disk \subseteq 0..name,
         \A n \in DOMAIN disk : F!IsBuffer(disk[n]), F!IsBuffer(buffered)
  PROVE  /\ Ordered(F!Flushed(buffered), <<>>, lines, gone \cup F!LostByFlush(buffered))
         /\ DOMAIN F!Flushed(buffered) = DOMAIN disk
         /\ \A n \in DOMAIN disk : F!IsBuffer(F!Flushed(buffered)[n])
<1> DEFINE d == F!Flushed(buffered)
           g == gone \cup F!LostByFlush(buffered)
<1>1. CASE name \in DOMAIN disk
  <2>1. /\ F!IsBuffer(disk[name] \o buffered) /\ F!Ascending(disk[name] \o buffered)
        /\ F!LinesIn(disk[name] \o buffered) = F!LinesIn(disk[name]) \cup F!LinesIn(buffered)
    BY <1>1, Joined DEF Ordered
  <2>2. /\ DOMAIN d = DOMAIN disk /\ d[name] = disk[name] \o buffered /\ g = gone
        /\ \A n \in DOMAIN disk \ {name} : d[n] = disk[n]
    BY <1>1 DEF F!Flushed, F!LostByFlush
  <2> HIDE DEF d, g
  <2>3. \A n \in DOMAIN disk : F!IsBuffer(d[n]) /\ F!Ascending(d[n])
    BY <2>1, <2>2 DEF Ordered
  <2>4. ASSUME NEW m \in DOMAIN disk, NEW n \in DOMAIN disk, m < n,
               NEW x \in F!LinesIn(d[m]), NEW y \in F!LinesIn(d[n])
        PROVE  x < y
    <3>1. m # name /\ x \in F!LinesIn(disk[m])
      <4>1. n \in 0..name
        OBVIOUS
      <4>2. m # name
        BY ONLY <2>4, <4>1, name \in Nat, SMT
      <4> QED
        BY <2>2, <4>2
    <3> QED
      BY <1>1, <2>1, <2>2, <2>4, <3>1 DEF Ordered
  <2>5. \A x : (\E n \in DOMAIN disk : x \in F!LinesIn(d[n])) <=>
          x \in F!LinesIn(buffered) \/ \E n \in DOMAIN disk : x \in F!LinesIn(disk[n])
    BY <1>1, <2>1, <2>2
  <2>6. Ordered(d, <<>>, lines, g)
    BY <2>2, <2>3, <2>4, <2>5, Empty DEF Ordered
  <2> QED
    BY <2>2, <2>3, <2>6 DEF d, g
<1>2. CASE name \notin DOMAIN disk
  <2>1. d = disk /\ g = gone \cup F!LinesIn(buffered)
    BY <1>2 DEF F!Flushed, F!LostByFlush
  <2> HIDE DEF d, g
  <2>2. \A x \in F!LinesIn(buffered) : x \in Nat /\ ~(x < x)
    BY SMT DEF F!IsBuffer, F!LinesIn
  <2>3. \A n \in DOMAIN disk : \A x \in F!LinesIn(buffered) : x \notin F!LinesIn(disk[n])
    BY <2>2 DEF Ordered
  <2>4. Ordered(d, <<>>, lines, g)
    BY <2>1, <2>3, Empty DEF Ordered
  <2> QED
    BY <2>1, <2>4 DEF d, g
<1> QED
  BY <1>1, <1>2

(* fopen of the file n, the last by name, makes it when it is not there. *)
LEMMA OpenOrdered ==
  ASSUME NEW d, NEW k, NEW g, Ordered(d, <<>>, k, g), NEW n,
         NEW e, e = [m \in DOMAIN d \cup {n} |-> IF m \in DOMAIN d THEN d[m] ELSE <<>>]
  PROVE  Ordered(e, <<>>, k, g)
<1>1. /\ DOMAIN e = DOMAIN d \cup {n}
      /\ \A m \in DOMAIN e : (m \in DOMAIN d /\ e[m] = d[m]) \/ (m \notin DOMAIN d /\ e[m] = <<>>)
  OBVIOUS
<1>2. \A x : (\E m \in DOMAIN e : x \in F!LinesIn(e[m])) <=>
        \E m \in DOMAIN d : x \in F!LinesIn(d[m])
  BY <1>1, Empty
<1>3. ASSUME NEW l \in DOMAIN e, NEW m \in DOMAIN e, l < m,
             NEW x \in F!LinesIn(e[l]), NEW y \in F!LinesIn(e[m])
      PROVE  x < y
  <2>1. l \in DOMAIN d /\ m \in DOMAIN d /\ x \in F!LinesIn(d[l]) /\ y \in F!LinesIn(d[m])
    BY <1>1, Empty
  <2> QED
    BY <1>3, <2>1 DEF Ordered
<1>4. \A m \in DOMAIN e : F!Ascending(e[m])
  BY <1>1, Empty DEF Ordered
<1> QED
  BY <1>2, <1>3, <1>4, Empty DEF Ordered

(* del_old_files() removes whole files. *)
LEMMA DeleteOrdered ==
  ASSUME NEW d, NEW b, NEW k, NEW g, Ordered(d, b, k, g), NEW old,
         DOMAIN d \subseteq Nat, \A m \in DOMAIN d : F!IsBuffer(d[m]), F!IsBuffer(b),
         old \subseteq DOMAIN d,
         NEW e, e = [m \in DOMAIN d \ old |-> d[m]],
         NEW h, h = g \cup UNION {F!LinesIn(d[m]) : m \in old}
  PROVE  Ordered(e, b, k, h)
<1>1. DOMAIN e = DOMAIN d \ old /\ \A m \in DOMAIN e : e[m] = d[m]
  OBVIOUS
<1>2. \A x : x \in h <=> x \in g \/ \E m \in old : x \in F!LinesIn(d[m])
  OBVIOUS
<1>3. \A m \in DOMAIN d : \A x \in F!LinesIn(d[m]) : x \in Nat /\ ~(x < x)
  BY SMT DEF F!IsBuffer, F!LinesIn
<1>4. \A l, m \in DOMAIN d : \A x : x \in F!LinesIn(d[l]) /\ x \in F!LinesIn(d[m]) => l = m
  <2>1. \A l, m \in DOMAIN d : l < m \/ m < l \/ l = m
    BY SMT
  <2> QED
    BY <1>3, <2>1 DEF Ordered
<1>5. \A m \in DOMAIN d : \A x \in F!LinesIn(d[m]) : x \notin F!LinesIn(b)
  BY <1>3 DEF Ordered
<1>6. ASSUME NEW x
      PROVE  x \in 1..k /\ x \notin h <=>
               x \in F!LinesIn(b) \/ \E m \in DOMAIN e : x \in F!LinesIn(e[m])
  <2>1. x \in 1..k /\ x \notin g <=>
          x \in F!LinesIn(b) \/ \E m \in DOMAIN d : x \in F!LinesIn(d[m])
    BY DEF Ordered
  <2>2. ASSUME NEW m \in DOMAIN d, x \in F!LinesIn(d[m])
        PROVE  x \in h \/ m \in DOMAIN e
    BY <1>1, <1>2, <2>2
  <2>3. ASSUME NEW m \in DOMAIN e, x \in F!LinesIn(e[m])
        PROVE  m \in DOMAIN d /\ x \in F!LinesIn(d[m]) /\ \A l \in old : x \notin F!LinesIn(d[l])
    BY <1>1, <1>4, <2>3
  <2> QED
    BY <1>1, <1>2, <1>5, <2>1, <2>2, <2>3
<1> QED
  BY <1>1, <1>6 DEF Ordered

(* fwrite numbers its line above all others; a line that is lost is gone. *)
LEMMA WriteOrdered ==
  ASSUME NEW d, NEW b, NEW k \in Nat, NEW g, Ordered(d, b, k, g), F!IsBuffer(b), g \subseteq 1..k
  PROVE  /\ Ordered(d, Append(b, k + 1), k + 1, g)
         /\ Ordered(d, b, k + 1, g \cup {k + 1})
<1>1. /\ \A x \in F!LinesIn(b) : x \in 1..k /\ x < k + 1
      /\ \A n \in DOMAIN d : \A x \in F!LinesIn(d[n]) : x \in 1..k /\ x < k + 1
  <2>1. \A x \in 1..k : x < k + 1
    BY SMT
  <2> QED
    BY <2>1 DEF Ordered
<1>2. \A x : x \in 1..(k + 1) <=> x \in 1..k \/ x = k + 1
  BY SMT
<1>3. k + 1 \notin 1..k
  BY SMT
<1>4. /\ F!Ascending(Append(b, k + 1))
      /\ F!LinesIn(Append(b, k + 1)) = F!LinesIn(b) \cup {k + 1}
  BY <1>1, Written, SMT DEF Ordered
<1>5. Ordered(d, Append(b, k + 1), k + 1, g)
  BY <1>1, <1>2, <1>3, <1>4 DEF Ordered
<1>6. Ordered(d, b, k + 1, g \cup {k + 1})
  BY <1>1, <1>2, <1>3 DEF Ordered
<1> QED
  BY <1>5, <1>6

(* What the steps of the appender may count on. *)
LEMMA FilesFacts ==
  ASSUME F!AppenderInv, F!MineInv, F!FilesInv
  PROVE  /\ name \in 0..now /\ now \in Nat /\ gone \subseteq 1..lines /\ lines \in Nat
         /\ DOMAIN disk \subseteq 0..name /\ \A n \in DOMAIN disk : F!IsBuffer(disk[n])
         /\ \A u \in Callers : file_pc[u] \in {"close", "open"} => filename \in name..now
         /\ F!IsBuffer(buffered) /\ Ordered(disk, buffered, lines, gone)
  BY OrderedIsInOrder DEF F!AppenderInv, F!FilesInv, F!NamesInv, F!ClockInv, F!MineInv

(* A step that leaves the files and the buffer alone; a name is made now. *)
LEMMA FilesStay ==
  ASSUME F!AppenderInv, F!MineInv, F!FilesInv,
         UNCHANGED <<name, disk, buffered, lines, gone>>,
         now' \in {now, now + 1}, filename' \in {filename, now},
         \A u \in Callers : file_pc'[u] \in {"close", "open"} =>
           file_pc[u] \in {"close", "open"} \/ filename' = now
  PROVE  F!FilesInv'
<1>1. F!LinesInOrder'
  BY FilesFacts, OrderedIsInOrder
<1>2. name' \in 0..now' /\ \A f : f \in name..now \/ f = now => f \in name'..now'
  <2>1. name \in 0..now /\ now \in Nat
    BY FilesFacts
  <2> QED
    BY ONLY <2>1, name' = name, now' \in {now, now + 1}, SMT
<1>3. F!NamesInv'
  BY <1>2, FilesFacts DEF F!NamesInv
<1> QED
  BY <1>1, <1>3 DEF F!FilesInv

(* A step that flushes the open FILE. *)
LEMMA FilesFlushed ==
  ASSUME F!AppenderInv, F!MineInv, F!FilesInv,
         disk' = F!Flushed(buffered), buffered' = <<>>,
         gone' = gone \cup F!LostByFlush(buffered),
         UNCHANGED <<now, name, lines, filename>>,
         \A u \in Callers : file_pc'[u] \in {"close", "open"} =>
           file_pc[u] \in {"close", "open"}
  PROVE  F!FilesInv'
<1>1. /\ Ordered(disk', <<>>, lines, gone') /\ DOMAIN disk' = DOMAIN disk
      /\ \A n \in DOMAIN disk' : F!IsBuffer(disk'[n])
  <2>1. name \in Nat
    BY DEF F!AppenderInv, F!ClockInv
  <2> QED
    BY <2>1, FilesFacts, FlushOrdered
<1>2. F!LinesInOrder'
  BY <1>1, OrderedIsInOrder
<1>3. gone' \subseteq 1..lines
  BY FilesFacts DEF F!LostByFlush, Ordered
<1>4. F!NamesInv'
  BY <1>1, <1>3, FilesFacts DEF F!NamesInv
<1> QED
  BY <1>2, <1>4 DEF F!FilesInv

(* As long as fwrite and fflush see the buffer as it is, every action keeps *)
(* the files in order, and their names behind the latest.                   *)
LEMMA FilesStep ==
  ASSUME F!AppenderInv, F!SeenInv, F!MineInv, F!FilesInv, NEW t \in Callers, F!Step(t)
  PROVE  F!FilesInv'
<1>1. DOMAIN file_pc = Callers /\ \A u \in Callers : file_pc[u] \in F!Under => lck = u
  BY DEF F!AppenderInv, F!LockInv
<1>2. CASE F!BeginAppend(t)
  BY <1>1, FilesStay, <1>2 DEF F!BeginAppend, F!Goes, F!rolling, F!stdio, F!history
<1>3. CASE F!Roll(t)
  BY <1>1, FilesStay, <1>3 DEF F!Roll, F!Goes, F!stdio, F!history
<1>4. CASE F!Name(t)
  BY <1>1, FilesStay, <1>4 DEF F!Name, F!stdio, F!history
<1>5. CASE F!FlushLoad(t)
  BY <1>1, FilesStay, <1>5 DEF F!FlushLoad, F!Goes, F!rolling, F!stdio, F!history
<1>6. CASE F!Close(t)
  <2>1. \A u \in Callers : file_pc'[u] \in {"close", "open"} => file_pc[u] \in {"close", "open"}
    BY <1>1, <1>6 DEF F!Close, F!Goes
  <2> QED
    BY FilesStay, FilesFlushed, <1>6, <2>1 DEF F!Close, F!rolling
<1>7. CASE F!Flush(t)
  <2>1. \A u \in Callers : file_pc'[u] \in {"close", "open"} => file_pc[u] \in {"close", "open"}
    BY <1>1, <1>7 DEF F!Flush, F!Goes
  <2> QED
    BY FilesStay, <1>7, <2>1 DEF F!Flush, F!rolling, F!stdio, F!history
<1>8. CASE F!Open(t)
  <2>1. /\ buffered = <<>> /\ UNCHANGED <<now, lines, gone, buffered>>
        /\ filename \in name..now /\ \A u \in Callers : file_pc'[u] \notin {"close", "open"}
    BY FilesFacts, <1>1, <1>8 DEF F!Open, F!Goes, F!history, F!AppenderInv, F!StdioInv, F!Under
  <2>2. CASE UNCHANGED <<name, disk>>
    <3>1. F!LinesInOrder'
      BY FilesFacts, <2>1, <2>2, OrderedIsInOrder
    <3>2. F!NamesInv'
      BY FilesFacts, <2>1, <2>2 DEF F!NamesInv
    <3> QED
      BY <3>1, <3>2 DEF F!FilesInv
  <2>3. CASE name' = filename /\ disk' = F!Opened(filename)
    <3>1. Ordered(disk', <<>>, lines, gone)
      BY FilesFacts, <2>1, <2>3, OpenOrdered DEF F!Opened
    <3>2. /\ DOMAIN disk' = DOMAIN disk \cup {filename}
          /\ \A n \in DOMAIN disk' : F!IsBuffer(disk'[n])
      BY FilesFacts, <2>3, Empty DEF F!Opened
    <3>3. F!LinesInOrder'
      BY <2>1, <3>1, OrderedIsInOrder
    <3>4. F!NamesInv'
      BY FilesFacts, <2>1, <2>3, <3>2, SMT DEF F!NamesInv
    <3> QED
      BY <3>3, <3>4 DEF F!FilesInv
  <2> QED
    BY <1>8, <2>2, <2>3 DEF F!Open
<1>9. CASE F!Delete(t)
  <2>1. UNCHANGED <<now, name, lines, buffered, filename>>
    BY <1>9 DEF F!Delete
  <2>2. \A u \in Callers : file_pc'[u] \in {"close", "open"} => file_pc[u] \in {"close", "open"}
    BY <1>1, <1>9 DEF F!Delete, F!Goes
  <2>3. CASE UNCHANGED <<disk, gone>>
    BY FilesStay, <2>1, <2>2, <2>3
  <2>4. CASE \E old \in SUBSET DOMAIN disk :
               /\ disk' = [n \in DOMAIN disk \ old |-> disk[n]]
               /\ gone' = gone \cup UNION {F!LinesIn(disk[n]) : n \in old}
    <3>1. PICK old \in SUBSET DOMAIN disk :
            /\ disk' = [n \in DOMAIN disk \ old |-> disk[n]]
            /\ gone' = gone \cup UNION {F!LinesIn(disk[n]) : n \in old}
      BY <2>4
    <3>2. Ordered(disk', buffered, lines, gone')
      <4>1. DOMAIN disk \subseteq Nat /\ old \subseteq DOMAIN disk
        BY FilesFacts, SMT
      <4> QED
        BY FilesFacts, <3>1, <4>1, DeleteOrdered
    <3>3. F!LinesInOrder'
      BY <2>1, <3>2, OrderedIsInOrder
    <3>4. gone' \subseteq 1..lines
      BY FilesFacts, <3>1 DEF Ordered
    <3>5. F!NamesInv'
      BY FilesFacts, <2>1, <2>2, <3>1, <3>4 DEF F!NamesInv
    <3> QED
      BY <3>3, <3>5 DEF F!FilesInv
  <2> QED
    BY <1>9, <2>3, <2>4 DEF F!Delete
<1>10. CASE F!Write(t)
  <2>1. UNCHANGED <<now, name, disk, filename>> /\ lines' = lines + 1
    BY <1>10 DEF F!Write, F!rolling
  <2>2. \A u \in Callers : file_pc'[u] \in {"close", "open"} => file_pc[u] \in {"close", "open"}
    BY <1>1, <1>10 DEF F!Write, F!Goes
  <2>3. /\ gone' \in {gone, gone \cup {lines + 1}}
        /\ Ordered(disk, buffered', lines + 1, gone')
    <3>1. /\ Ordered(disk, Append(buffered, lines + 1), lines + 1, gone)
          /\ Ordered(disk, buffered, lines + 1, gone \cup {lines + 1})
      BY FilesFacts, WriteOrdered
    <3>2. seen[t] = buffered
      BY <1>10 DEF F!Write, F!Goes, F!SeenInv, F!InUse
    <3>3. \/ buffered' = Append(buffered, lines + 1) /\ gone' = gone
          \/ buffered' = buffered /\ gone' = gone \cup {lines + 1}
      BY <1>10, <3>2 DEF F!Write, F!Fwritten
    <3> QED
      BY <3>1, <3>3
  <2>4. F!LinesInOrder'
    BY <2>1, <2>3, OrderedIsInOrder
  <2>5. gone' \subseteq 1..(lines + 1)
    <3>1. gone \subseteq 1..lines /\ lines \in Nat
      BY FilesFacts
    <3>2. 1..lines \subseteq 1..(lines + 1) /\ lines + 1 \in 1..(lines + 1)
      BY ONLY <3>1, SMT
    <3> QED
      BY <2>3, <3>1, <3>2
  <2>6. F!NamesInv'
    BY FilesFacts, <2>1, <2>2, <2>5 DEF F!NamesInv
  <2> QED
    BY <2>4, <2>6 DEF F!FilesInv
<1>11. CASE F!WriteBegin(t)
  BY <1>1, FilesStay, <1>11 DEF F!WriteBegin, F!Goes, F!rolling, F!stdio, F!history
<1>12. CASE F!FlushEnd(t)
  <2>1. \A u \in Callers : file_pc'[u] \in {"close", "open"} => file_pc[u] \in {"close", "open"}
    BY <1>1, <1>12 DEF F!FlushEnd, F!Goes
  <2>2. seen[t] = buffered
    BY <1>12 DEF F!FlushEnd, F!Goes, F!SeenInv, F!InUse
  <2> QED
    BY FilesFlushed, <1>12, <2>1, <2>2 DEF F!FlushEnd, F!rolling
<1> QED
  BY <1>2, <1>3, <1>4, <1>5, <1>6, <1>7, <1>8, <1>9, <1>10, <1>11, <1>12 DEF F!Step

(* A step outside roll_file(), or into it, that keeps the files. *)
LEMMA YoungStays ==
  ASSUME F!YoungInv, UNCHANGED <<now, read_at, filename, file, name>>,
         open' => open, DOMAIN disk \subseteq DOMAIN disk',
         \A u \in Callers : file_pc'[u] = file_pc[u] \/
           file_pc'[u] \notin {"name", "close", "open", "delete"}
  PROVE  F!YoungInv'
  BY DEF F!YoungInv, F!FileKept

(* Every action keeps the file that is being written. *)
LEMMA YoungStep ==
  ASSUME F!AppenderInv, NEW t \in Callers, F!Step(t)
  PROVE  F!YoungInv'
<1>1. F!YoungInv /\ DOMAIN file_pc = Callers
  BY DEF F!AppenderInv, F!LockInv
<1>2. \A b : DOMAIN F!Flushed(b) = DOMAIN disk
  BY DEF F!Flushed
<1>3. now \in Nat /\ Retain \in Nat /\ read_at \in 0..now
  BY AppenderAssumption DEF F!AppenderInv, F!ClockInv
<1>4. CASE F!BeginAppend(t)
  BY <1>1, <1>4, YoungStays DEF F!BeginAppend, F!Goes, F!rolling, F!stdio
<1>5. CASE F!Write(t)
  BY <1>1, <1>5, YoungStays DEF F!Write, F!Goes, F!rolling
<1>6. CASE F!FlushLoad(t)
  BY <1>1, <1>6, YoungStays DEF F!FlushLoad, F!Goes, F!rolling, F!stdio
<1>7. CASE F!Flush(t)
  BY <1>1, <1>7, YoungStays DEF F!Flush, F!Goes, F!rolling, F!stdio
<1>8. CASE F!Roll(t)
  <2>1. \A u \in Callers : file_pc'[u] \notin {"close", "open", "delete"}
    BY <1>8, OneRolls DEF F!Roll, F!Under
  <2>2. \A u \in Callers : file_pc'[u] = "name" => now' <= read_at' + Retain
    <3>1. \A u \in Callers : file_pc'[u] = "name" => read_at' = now
      BY <1>8, OneRolls DEF F!Roll, F!Under
    <3>2. now' = now /\ now <= now + Retain
      BY <1>3, <1>8, SMT DEF F!Roll
    <3> QED
      BY <3>1, <3>2
  <2>3. F!FileKept'
    BY <1>1, <1>8 DEF F!Roll, F!stdio, F!YoungInv, F!FileKept
  <2> QED
    BY <2>1, <2>2, <2>3 DEF F!YoungInv
<1>9. CASE F!Name(t)
  <2>1. UNCHANGED <<now, read_at>> /\ filename' = now /\ now <= read_at + Retain
    BY <1>1, <1>9 DEF F!Name, F!Goes, F!YoungInv
  <2>2. read_at <= now
    BY <1>3, SMT
  <2>3. \A u \in Callers : file_pc'[u] \notin {"name", "open", "delete"}
    BY <1>9, OneRolls DEF F!Name, F!Under
  <2>4. F!FileKept'
    BY <1>1, <1>9 DEF F!Name, F!stdio, F!YoungInv, F!FileKept
  <2> QED
    BY <2>1, <2>2, <2>3, <2>4 DEF F!YoungInv
<1>10. CASE F!Close(t)
  <2>1. /\ UNCHANGED <<now, read_at, filename>>
        /\ now <= read_at + Retain /\ read_at <= filename
    BY <1>1, <1>10 DEF F!Close, F!Goes, F!rolling, F!YoungInv
  <2>2. \A u \in Callers : file_pc'[u] \notin {"name", "close", "delete"}
    BY <1>10, OneRolls DEF F!Close, F!Under
  <2>3. F!FileKept'
    BY <1>1, <1>2, <1>10 DEF F!Close, F!YoungInv, F!FileKept
  <2> QED
    BY <2>1, <2>2, <2>3 DEF F!YoungInv
<1>11. CASE F!Open(t)
  <2>1. /\ UNCHANGED <<now, read_at>>
        /\ now <= read_at + Retain /\ read_at <= filename
    BY <1>1, <1>11 DEF F!Open, F!Goes, F!YoungInv
  <2>2. \A u \in Callers : file_pc'[u] \notin {"name", "close", "open"}
    BY <1>11, OneRolls DEF F!Open, F!Under
  <2>3. file' = 0 \/ (name' = filename /\ disk' = F!Opened(filename))
    BY <1>11 DEF F!Open
  <2>4. F!FileKept'
    BY <2>3 DEF F!Opened, F!FileKept
  <2> QED
    BY <2>1, <2>2, <2>3, <2>4 DEF F!YoungInv
<1>12. CASE F!Delete(t)
  <2>1. UNCHANGED <<now, file, open, name>>
    BY <1>12 DEF F!Delete
  <2>2. \A u \in Callers : file_pc'[u] \notin {"name", "close", "open", "delete"}
    BY <1>12, OneRolls DEF F!Delete, F!Under
  <2>3. F!FileKept'
    <3>1. file # 0 => ~(name + Retain < now)
      <4>1. now <= read_at + Retain /\ (file # 0 => read_at <= name)
        BY <1>1, <1>12 DEF F!Delete, F!Goes, F!YoungInv
      <4>2. name \in Nat /\ read_at \in Nat
        BY SMT DEF F!AppenderInv, F!ClockInv
      <4> QED
        BY ONLY <1>3, <4>1, <4>2, SMT
    <3>2. \/ DOMAIN disk' = DOMAIN disk
          \/ DOMAIN disk' = DOMAIN disk \ {n \in DOMAIN disk : n + Retain < now}
      BY <1>12 DEF F!Delete
    <3> QED
      BY <1>1, <2>1, <3>1, <3>2 DEF F!YoungInv, F!FileKept
  <2> QED
    BY <2>2, <2>3 DEF F!YoungInv
<1>13. CASE F!WriteBegin(t)
  BY <1>1, <1>13, YoungStays DEF F!WriteBegin, F!Goes, F!rolling, F!stdio
<1>14. CASE F!FlushEnd(t)
  BY <1>1, <1>2, <1>14, YoungStays DEF F!FlushEnd, F!Goes, F!rolling
<1> QED
  BY <1>4, <1>5, <1>6, <1>7, <1>8, <1>9, <1>10, <1>11, <1>12, <1>13, <1>14 DEF F!Step

(* The clock does not outrun the file under way. *)
LEMMA YoungTick ==
  ASSUME F!AppenderInv, F!Tick
  PROVE  F!YoungInv'
<1>1. /\ now' = now + 1 /\ UNCHANGED <<file_pc, read_at, filename, file, open, name, disk>>
      /\ \A u \in Callers :
           file_pc[u] \in {"name", "close", "open", "delete"} => now < read_at + Retain
  BY DEF F!Tick, F!rolling, F!stdio
<1>2. now < read_at + Retain => now + 1 <= read_at + Retain
  BY AppenderAssumption, SMT DEF F!AppenderInv, F!ClockInv
<1> QED
  BY <1>1, <1>2 DEF F!AppenderInv, F!YoungInv, F!FileKept

-----------------------------------------------------------------------------
(* What holds until fwrite and fflush have overlapped. *)
Quiet == F!SeenInv /\ F!MineInv /\ F!FilesInv

(* An overlap is never forgotten. *)
LEMMA RacedStays ==
  ASSUME NEW t \in Callers, F!Step(t), ~raced'
  PROVE  ~raced
  BY DEF F!Step, F!BeginAppend, F!Roll, F!Name, F!Close, F!Open, F!Delete, F!WriteBegin,
     F!Write, F!FlushLoad, F!Flush, F!FlushEnd, F!race

(* A step of a thread keeps the invariant of FileAppender. *)
LEMMA ThreadStep ==
  ASSUME F!AppenderInv, NEW t \in Callers, F!Step(t)
  PROVE  F!AppenderInv'
<1>1. ASSUME ~raced' PROVE Quiet'
  <2>1. F!SeenInv /\ F!MineInv /\ F!FilesInv
    BY <1>1, RacedStays DEF F!AppenderInv
  <2> QED
    BY <1>1, <2>1, SeenStep, MineStep, FilesStep DEF Quiet
<1> QED
  BY <1>1, ClockStep, LockStep, LagStep, StdioStep, FileLockStep, YoungStep
    DEF F!AppenderInv, Quiet

(* The clock keeps the invariant of FileAppender. *)
LEMMA TickStep ==
  ASSUME F!AppenderInv, F!Tick
  PROVE  F!AppenderInv'
<1>1. F!ClockInv'
  BY SMT DEF F!Tick, F!rolling, F!stdio, F!AppenderInv, F!ClockInv
<1>2. F!LockInv' /\ F!StdioInv' /\ F!FileLockInv'
  BY DEF F!Tick, F!stdio, F!race, F!AppenderInv, F!LockInv, F!StdioInv, F!FileLockInv
<1>3. F!LagInv'
  BY SMT DEF F!Tick, F!rolling, F!AppenderInv, F!LagInv, F!ClockInv
<1>4. F!YoungInv'
  BY YoungTick
<1>5. ASSUME Quiet PROVE Quiet'
  <2>1. F!SeenInv' /\ F!MineInv'
    BY <1>5 DEF Quiet, F!Tick, F!stdio, F!history, F!race, F!SeenInv, F!InUse, F!MineInv
  <2>2. F!FilesInv'
    BY <1>5, FilesStay DEF Quiet, F!Tick, F!rolling, F!stdio, F!history
  <2> QED
    BY <2>1, <2>2 DEF Quiet
<1>6. raced' = raced
  BY DEF F!Tick, F!race
<1> QED
  BY <1>1, <1>2, <1>3, <1>4, <1>5, <1>6 DEF F!AppenderInv, Quiet

(* The destructor keeps the invariant of FileAppender. *)
LEMMA DestructorStep ==
  ASSUME F!AppenderInv, F!Destroy
  PROVE  F!AppenderInv'
<1>1. F!ClockInv'
  BY DEF F!Destroy, F!rolling, F!AppenderInv, F!ClockInv
<1>2. F!LockInv'
  BY DEF F!Destroy, F!LockInv, F!Under
<1>3. F!LagInv'
  BY DEF F!Destroy, F!AppenderInv, F!LagInv
<1>4. F!StdioInv'
  BY DEF F!Destroy, F!AppenderInv, F!StdioInv
<1>5. F!FileLockInv'
  BY DEF F!Destroy, F!race, F!AppenderInv, F!FileLockInv
<1>6. F!YoungInv'
  BY DEF F!Destroy, F!YoungInv, F!FileKept
<1>7. ASSUME Quiet PROVE Quiet'
  <2>1. F!SeenInv'
    BY DEF F!Destroy, F!SeenInv, F!InUse
  <2>2. F!MineInv'
    <3>1. F!LinesIn(buffered') = {} /\ F!IsBuffer(buffered')
      BY Empty DEF F!Destroy
    <3> QED
      BY <1>7, <3>1 DEF Quiet, F!Destroy, F!MineInv
  <2>3. F!FilesInv'
    <3>1. /\ UNCHANGED <<now, name, lines, filename>>
          /\ \A u \in Callers : file_pc'[u] \notin {"close", "open"}
      BY DEF F!Destroy, F!rolling
    <3>2. CASE file # 0
      BY <1>7, <3>1, <3>2, FilesFlushed DEF Quiet, F!Destroy
    <3>3. CASE file = 0
      BY <1>7, <3>1, <3>3, FilesStay DEF Quiet, F!Destroy, F!AppenderInv, F!StdioInv
    <3> QED
      BY <3>2, <3>3
  <2> QED
    BY <2>1, <2>2, <2>3 DEF Quiet
<1>8. raced' = raced
  BY DEF F!Destroy, F!race
<1> QED
  BY <1>1, <1>2, <1>3, <1>4, <1>5, <1>6, <1>7, <1>8 DEF F!AppenderInv, Quiet

(* Every step keeps the invariant of FileAppender. *)
LEMMA AppenderStep ==
  ASSUME F!AppenderInv, [F!Next]_(F!vars)
  PROVE  F!AppenderInv'
<1>1. CASE UNCHANGED F!vars
  <2>1. UNCHANGED file_vars
    BY <1>1 DEF F!vars, F!rolling, F!stdio, F!history, F!race, file_vars
  <2>2. F!ClockInv' /\ F!LagInv' /\ F!LockInv' /\ F!StdioInv' /\ F!FileLockInv' /\ F!YoungInv'
    BY <2>1 DEF file_vars, F!AppenderInv, F!ClockInv, F!LagInv, F!LockInv, F!StdioInv,
       F!FileLockInv, F!YoungInv, F!FileKept
  <2>3. ASSUME Quiet PROVE Quiet'
    <3>1. F!SeenInv' /\ F!MineInv'
      BY <2>1, <2>3 DEF Quiet, file_vars, F!SeenInv, F!InUse, F!MineInv
    <3>2. F!FilesInv'
      BY <2>1, <2>3, FilesStay DEF Quiet, file_vars
    <3> QED
      BY <3>1, <3>2 DEF Quiet
  <2>4. raced' = raced
    BY <2>1 DEF file_vars
  <2> QED
    BY <2>2, <2>3, <2>4 DEF F!AppenderInv, Quiet
<1> QED
  BY <1>1, ThreadStep, TickStep, DestructorStep DEF F!Next, F!Terminated

(* Few lines go to the file of a period that has ended. *)
THEOREM PeriodsEndInTime == F!Spec => []PeriodLag
<1>1. F!AppenderInv => PeriodLag
  BY AppenderAssumption, SMT DEF F!AppenderInv, F!LagInv, PeriodLag, F!PeriodLag
<1> QED
  BY <1>1, AppenderInit, AppenderStep, PTL DEF F!Spec

(* A line whose log() has returned is in no stdio buffer, as long as no    *)
(* fwrite_unlocked has overlapped the fflush of another thread.            *)
THEOREM ReturnedLinesAreFlushed == F!Spec => []FlushedOnReturn
<1>1. F!AppenderInv => FlushedOnReturn
  BY DEF F!AppenderInv, F!MineInv, FlushedOnReturn, F!FlushedOnReturn
<1> QED
  BY <1>1, AppenderInit, AppenderStep, PTL DEF F!Spec

(* As long as no fwrite_unlocked has overlapped the fflush of another      *)
(* thread, the files hold the lines in the order of append(), each once,   *)
(* and miss none but what met an error, a standard stream or the end of    *)
(* its file; del_old_files() never deletes the file that is written.       *)
THEOREM FilesStayInOrder == F!Spec => []FilesInOrder
<1>1. F!AppenderInv => FilesInOrder
  BY DEF F!AppenderInv, F!FilesInv, F!YoungInv, FilesInOrder, F!FilesInOrder
<1> QED
  BY <1>1, AppenderInit, AppenderStep, PTL DEF F!Spec

-----------------------------------------------------------------------------
(* Nothing overlaps the only thread that logs, and nobody rolls the file   *)
(* between the steps of its flush().                                       *)
AloneInv ==
  /\ ~raced /\ ~misused
  /\ \A t \in Callers : file_pc[t] = "fflush" => loaded[t] = file

(***************************************************************************)
(* LogThreadSafe fails only where several threads log.  With one, flush()  *)
(* never hands a closed FILE to fflush, every line whose log() has         *)
(* returned is in a file unless it met an error or its file was deleted,   *)
(* and the files hold the lines in order, without further conditions.      *)
(***************************************************************************)
THEOREM OneThreadIsSafe ==
  ASSUME NEW c, Callers = {c}
  PROVE  F!Spec => [](F!LogThreadSafe /\ F!LinesInOrder)
<1>1. F!Init => AloneInv
  BY DEF F!Init, AloneInv
<1>2. ASSUME F!AppenderInv, AloneInv, [F!Next]_(F!vars)
      PROVE  AloneInv'
  <2>1. DOMAIN file_pc = Callers /\ DOMAIN loaded = Callers
    BY <1>2 DEF F!AppenderInv, F!LockInv, F!MineInv, AloneInv
  <2>2. \A t \in Callers : ~F!Overlaps(t)
    BY DEF F!Overlaps
  <2>3. ASSUME NEW t \in Callers,
               F!BeginAppend(t) \/ F!Roll(t) \/ F!Name(t) \/ F!Close(t) \/ F!Open(t)
                 \/ F!Delete(t) \/ F!WriteBegin(t) \/ F!Write(t) \/ F!FlushEnd(t)
        PROVE  AloneInv'
    <3>1. misused' = misused /\ file_pc'[t] # "fflush"
      BY <2>1, <2>3
      DEF F!BeginAppend, F!Roll, F!Name, F!Close, F!Open, F!Delete, F!WriteBegin, F!Write,
          F!FlushEnd, F!Goes
    <3>2. ~raced'
      BY <1>2, <2>2, <2>3
      DEF F!BeginAppend, F!Roll, F!Name, F!Close, F!Open, F!Delete, F!WriteBegin, F!Write,
          F!FlushEnd, F!race, AloneInv
    <3> QED
      BY <1>2, <3>1, <3>2 DEF AloneInv
  <2>4. ASSUME NEW t \in Callers, F!FlushLoad(t)
        PROVE  AloneInv'
    <3>1. misused' = misused /\ raced' = raced /\ file' = file /\ loaded'[t] = file
      BY <2>1, <2>4 DEF F!FlushLoad, F!stdio, F!race
    <3> QED
      BY <1>2, <3>1 DEF AloneInv
  <2>5. ASSUME NEW t \in Callers, F!Flush(t)
        PROVE  AloneInv'
    <3>1. file_pc[t] = "fflush" /\ file_pc'[t] # "fflush"
      BY <2>1, <2>5 DEF F!Flush, F!Goes
    <3>2. loaded[t] = file
      BY <1>2, <3>1 DEF AloneInv
    <3>3. file # 0 => file = opened /\ open
      BY <1>2, <3>1 DEF F!AppenderInv, F!StdioInv
    <3>4. misused' = misused
      BY <2>5, <3>2, <3>3 DEF F!Flush
    <3>5. ~raced'
      BY <1>2, <2>2, <2>5 DEF F!Flush, F!race, AloneInv
    <3> QED
      BY <1>2, <3>1, <3>4, <3>5 DEF AloneInv
  <2>6. CASE F!Destroy \/ F!Tick \/ F!Terminated \/ UNCHANGED F!vars
    <3>1. misused' = misused /\ raced' = raced /\ file' = file /\ loaded' = loaded
      BY <2>6 DEF F!Destroy, F!Tick, F!Terminated, F!vars, F!stdio, F!race
    <3>2. \A t \in Callers : file_pc'[t] = "fflush" => file_pc[t] = "fflush"
      BY <2>6 DEF F!Destroy, F!Tick, F!Terminated, F!vars
    <3> QED
      BY <1>2, <3>1, <3>2 DEF AloneInv
  <2> QED
    BY <1>2, <2>3, <2>4, <2>5, <2>6 DEF F!Next, F!Step
<1>3. ASSUME F!AppenderInv, AloneInv
      PROVE  F!LogThreadSafe /\ F!LinesInOrder
  <2>1. F!MineInv /\ F!LinesInOrder /\ ~misused
    BY <1>3 DEF F!AppenderInv, F!FilesInv, AloneInv
  <2>2. ASSUME NEW t \in Callers, file_pc[t] = "idle", mine[t] # 0
        PROVE  mine[t] \in F!OnDisk \cup gone
    <3>1. mine[t] \in 1..lines
      BY <2>1, <2>2, SMT DEF F!MineInv
    <3>2. mine[t] \notin F!LinesIn(buffered)
      BY <2>1, <2>2 DEF F!MineInv
    <3>3. mine[t] \in F!Present \/ mine[t] \in gone
      BY <2>1, <3>1 DEF F!LinesInOrder
    <3> QED
      BY <3>2, <3>3 DEF F!Present
  <2> QED
    BY <2>1, <2>2 DEF F!LogThreadSafe
<1> QED
  BY <1>1, <1>2, <1>3, AppenderInit, AppenderStep, PTL DEF F!Spec
=============================================================================
