------------------------ MODULE EventLoopThreadPool -------------------------
(***************************************************************************)
(* clia::reactor::EventLoopThreadPool and the EventLoopThread objects it   *)
(* owns.  The thread of the base loop calls start(), get_next_loop() and   *)
(* the destructor; each EventLoopThread has a thread that constructs an    *)
(* EventLoop on its stack, publishes a pointer to it in loop_ and runs     *)
(* loop().  Of the loops only quit_, the eventfd and the alternation of    *)
(* the test of quit_ with epoll_wait are kept (module EventLoop has the    *)
(* rest).  Only the destructor calls quit(), as in this repository.        *)
(***************************************************************************)
EXTENDS Integers, Sequences

CONSTANTS
  MaxThreads,   \* bound: the largest argument of set_thread_num()
  MaxGiven      \* bound: calls of get_next_loop()

ASSUME PoolAssumption == MaxThreads \in Nat /\ MaxGiven \in Nat

Threads == 1..MaxThreads
Base == 0               \* base_loop_, beside the loops of the threads
Loops == {Base} \cup Threads

VARIABLES
  opc,          \* where the thread of the base loop is in a call on the pool
  num_threads,  \* num_threads_
  threads,      \* the size of threads_
  loops,        \* loops_: a loop is named after its thread
  next,         \* next_, from 0
  cur,          \* the EventLoopThread being destroyed
  tpc,          \* where each thread is in thread_func()
  loop,         \* the threads whose loop_ is not nullptr
  quit,         \* the threads whose loop has quit_ set
  wakeup_fd,    \* the threads whose eventfd is readable
  given,        \* history: how often get_next_loop() returned each loop
  inited,       \* history: the loops for which the init callback has run
  erased        \* history: the threads where loop() reset a quit_ already set

ownerVars == <<num_threads, threads, loops, next, cur, given>>
threadVars == <<tpc, loop, quit, wakeup_fd, inited, erased>>
vars == <<opc, ownerVars, threadVars>>

Init ==
  /\ opc = "constructed"
  /\ num_threads = 0 /\ threads = 0 /\ loops = <<>> /\ next = 0 /\ cur = 1
  /\ tpc = [i \in Threads |-> "none"]
  /\ loop = {} /\ quit = {} /\ wakeup_fd = {}
  /\ given = [i \in Loops |-> 0]
  /\ inited = {} /\ erased = {}

-----------------------------------------------------------------------------
(* set_thread_num(), which nothing keeps from being called after start(). *)
SetThreadNum(n) ==
  /\ opc \in {"constructed", "serving"}
  /\ num_threads' = n
  /\ UNCHANGED <<opc, threads, loops, next, cur, given>>
  /\ UNCHANGED threadVars

StartBegin ==
  /\ opc = "constructed"
  /\ opc' = "start"
  /\ UNCHANGED ownerVars
  /\ UNCHANGED threadVars

(* An EventLoopThread is stored in threads_ and start_loop() spawns. *)
StartThread ==
  /\ opc = "start"
  /\ threads < num_threads
  /\ threads' = threads + 1
  /\ tpc' = [tpc EXCEPT ![threads + 1] = "init"]
  /\ opc' = "locked"
  /\ UNCHANGED <<num_threads, loops, next, cur, given>>
  /\ UNCHANGED <<loop, quit, wakeup_fd, inited, erased>>

(* The test of loop_ in start_loop() under mutex_; return or wait. *)
StartLoopTest ==
  /\ opc = "locked"
  /\ IF threads \in loop
       THEN opc' = "start" /\ loops' = Append(loops, threads)
       ELSE opc' = "waiting" /\ loops' = loops
  /\ UNCHANGED <<num_threads, threads, next, cur, given>>
  /\ UNCHANGED threadVars

(* Mutant of SpuriousWake: start_loop() has an if where the code has while. *)
SpuriousWakeReturns ==
  /\ opc = "waiting"
  /\ opc' = "start"
  /\ loops' = Append(loops, threads)
  /\ UNCHANGED <<num_threads, threads, next, cur, given>>
  /\ UNCHANGED threadVars

(* cond_.wait() may return without a notification. *)
SpuriousWake ==
  /\ opc = "waiting"
  /\ opc' = "locked"
  /\ UNCHANGED ownerVars
  /\ UNCHANGED threadVars

(* The end of start(): without threads the callback is for the base loop. *)
StartEnd ==
  /\ opc = "start"
  /\ threads >= num_threads
  /\ opc' = "serving"
  /\ inited' = IF num_threads = 0 THEN inited \cup {Base} ELSE inited
  /\ UNCHANGED ownerVars
  /\ UNCHANGED <<tpc, loop, quit, wakeup_fd, erased>>

(* Mutant of Advanced: the last loop is left out. *)
AdvancedEarly == IF next + 2 >= Len(loops) THEN 0 ELSE next + 1

Advanced == IF next + 1 >= Len(loops) THEN 0 ELSE next + 1

(* get_next_loop() *)
GetNextLoop ==
  LET l == IF loops = <<>> THEN Base ELSE loops[next + 1] IN
  /\ opc = "serving"
  /\ given[l] < MaxGiven
  /\ given' = [given EXCEPT ![l] = given[l] + 1]
  /\ next' = IF loops = <<>> THEN next ELSE Advanced
  /\ UNCHANGED <<opc, num_threads, threads, loops, cur>>
  /\ UNCHANGED threadVars

-----------------------------------------------------------------------------
(***************************************************************************)
(* The destructor of the pool destroys the elements of threads_ from the   *)
(* first to the last.  ~EventLoopThread() tests loop_ without mutex_,      *)
(* calls quit(), which is two steps, and joins.                            *)
(***************************************************************************)
DestroyBegin ==
  /\ opc \in {"constructed", "serving"}
  /\ opc' = "destroy"
  /\ UNCHANGED ownerVars
  /\ UNCHANGED threadVars

(* Mutant of DestroyThread: the thread is not told to quit. *)
DestroyThreadNoQuit ==
  /\ opc = "destroy"
  /\ opc' = IF cur > threads THEN "gone" ELSE "join"
  /\ UNCHANGED ownerVars
  /\ UNCHANGED threadVars

DestroyThread ==
  /\ opc = "destroy"
  /\ opc' = CASE cur > threads -> "gone"
              [] cur <= threads /\ cur \in loop -> "quit"
              [] cur <= threads /\ cur \notin loop -> "join"
  /\ UNCHANGED ownerVars
  /\ UNCHANGED threadVars

QuitSet ==
  /\ opc = "quit"
  /\ opc' = "wakeup"
  /\ quit' = quit \cup {cur}
  /\ UNCHANGED ownerVars
  /\ UNCHANGED <<tpc, loop, wakeup_fd, inited, erased>>

(* Mutant of QuitWakeup: quit() does not wake the loop. *)
QuitWakeupMissing ==
  /\ opc = "wakeup"
  /\ opc' = "join"
  /\ UNCHANGED ownerVars
  /\ UNCHANGED threadVars

(* The loop may have returned and be gone: then the write wakes nobody. *)
QuitWakeup ==
  /\ opc = "wakeup"
  /\ opc' = "join"
  /\ wakeup_fd' = wakeup_fd \cup {cur}
  /\ UNCHANGED ownerVars
  /\ UNCHANGED <<tpc, loop, quit, inited, erased>>

Join ==
  /\ opc = "join"
  /\ tpc[cur] = "exited"
  /\ opc' = "destroy"
  /\ cur' = cur + 1
  /\ UNCHANGED <<num_threads, threads, loops, next, given>>
  /\ UNCHANGED threadVars

-----------------------------------------------------------------------------
(* thread_func(): the EventLoop is constructed and callback_ called. *)
RunInit(i) ==
  /\ tpc[i] = "init"
  /\ tpc' = [tpc EXCEPT ![i] = "publish"]
  /\ inited' = inited \cup {i}
  /\ UNCHANGED <<opc, loop, quit, wakeup_fd, erased>>
  /\ UNCHANGED ownerVars

(* Mutant of Publish: notify_one() is forgotten. *)
PublishSilent(i) ==
  /\ tpc[i] = "publish"
  /\ tpc' = [tpc EXCEPT ![i] = "enter"]
  /\ loop' = loop \cup {i}
  /\ UNCHANGED <<opc, quit, wakeup_fd, inited, erased>>
  /\ UNCHANGED ownerVars

(* loop_ is set and cond_ notified under mutex_. *)
Publish(i) ==
  /\ tpc[i] = "publish"
  /\ tpc' = [tpc EXCEPT ![i] = "enter"]
  /\ loop' = loop \cup {i}
  /\ opc' = IF opc = "waiting" /\ threads = i THEN "locked" ELSE opc
  /\ UNCHANGED <<quit, wakeup_fd, inited, erased>>
  /\ UNCHANGED ownerVars

(* loop() resets quit_, also when quit() has been called already. *)
LoopEnter(i) ==
  /\ tpc[i] = "enter"
  /\ tpc' = [tpc EXCEPT ![i] = "check"]
  /\ quit' = quit \ {i}
  /\ erased' = IF i \in quit THEN erased \cup {i} ELSE erased
  /\ UNCHANGED <<opc, loop, wakeup_fd, inited>>
  /\ UNCHANGED ownerVars

LoopCheck(i) ==
  /\ tpc[i] = "check"
  /\ tpc' = [tpc EXCEPT ![i] = IF i \in quit THEN "clear" ELSE "poll"]
  /\ UNCHANGED <<opc, loop, quit, wakeup_fd, inited, erased>>
  /\ UNCHANGED ownerVars

(* epoll_wait returns with the eventfd, which handle_read() empties. *)
PollWakeup(i) ==
  /\ tpc[i] = "poll"
  /\ i \in wakeup_fd
  /\ wakeup_fd' = wakeup_fd \ {i}
  /\ tpc' = [tpc EXCEPT ![i] = "check"]
  /\ UNCHANGED <<opc, loop, quit, inited, erased>>
  /\ UNCHANGED ownerVars

(* epoll_wait returns without it: other channels, or the timeout. *)
PollOther(i) ==
  /\ tpc[i] = "poll"
  /\ tpc' = [tpc EXCEPT ![i] = "check"]
  /\ UNCHANGED <<opc, loop, quit, wakeup_fd, inited, erased>>
  /\ UNCHANGED ownerVars

(* After loop(): loop_ = nullptr under mutex_. *)
ClearLoop(i) ==
  /\ tpc[i] = "clear"
  /\ tpc' = [tpc EXCEPT ![i] = "destruct"]
  /\ loop' = loop \ {i}
  /\ UNCHANGED <<opc, quit, wakeup_fd, inited, erased>>
  /\ UNCHANGED ownerVars

(* The EventLoop is destroyed and the thread ends. *)
ThreadExit(i) ==
  /\ tpc[i] = "destruct"
  /\ tpc' = [tpc EXCEPT ![i] = "exited"]
  /\ UNCHANGED <<opc, loop, quit, wakeup_fd, inited, erased>>
  /\ UNCHANGED ownerVars

-----------------------------------------------------------------------------
OwnerStep ==
  \/ StartThread \/ StartLoopTest \/ StartEnd
  \/ DestroyThread \/ QuitSet \/ QuitWakeup \/ Join

ThreadStep(i) ==
  \/ RunInit(i) \/ Publish(i) \/ LoopEnter(i) \/ LoopCheck(i)
  \/ ClearLoop(i) \/ ThreadExit(i)

(* The pool is destroyed: no thread of it is left. *)
Terminated == opc = "gone" /\ UNCHANGED vars

Next ==
  \/ \E n \in 0..MaxThreads : SetThreadNum(n)
  \/ StartBegin \/ SpuriousWake \/ GetNextLoop \/ DestroyBegin
  \/ OwnerStep
  \/ \E i \in Threads : ThreadStep(i) \/ PollWakeup(i) \/ PollOther(i)
  \/ Terminated

Spec == Init /\ [][Next]_vars

(***************************************************************************)
(* Fairness: calls that have begun go on, threads are scheduled, and       *)
(* epoll_wait returns once the eventfd is readable.  Nothing is assumed of *)
(* the poll timeout or of spurious wakeups.                                *)
(***************************************************************************)
LiveSpec ==
  /\ Spec
  /\ WF_vars(OwnerStep)
  /\ \A i \in Threads : WF_vars(ThreadStep(i)) /\ WF_vars(PollWakeup(i))

-----------------------------------------------------------------------------
OwnerPositions == {"constructed", "start", "locked", "waiting", "serving",
                   "destroy", "quit", "wakeup", "join", "gone"}
Destroying == {"destroy", "quit", "wakeup", "join", "gone"}
Running == {"enter", "check", "poll"}

(* The type invariant; next_ is an index of loops_ whenever it has one. *)
TypeOK ==
  /\ opc \in OwnerPositions
  /\ num_threads \in 0..MaxThreads
  /\ threads \in 0..MaxThreads
  /\ loops \in Seq(Threads)
  /\ next \in Nat /\ (next < Len(loops) \/ next = 0)
  /\ cur \in 1..(MaxThreads + 1)
  /\ tpc \in [Threads -> Running \cup {"none", "init", "publish", "clear",
                                       "destruct", "exited"}]
  /\ loop \subseteq Threads
  /\ quit \subseteq Threads
  /\ wakeup_fd \subseteq Threads
  /\ given \in [Loops -> 0..MaxGiven]
  /\ inited \subseteq Loops
  /\ erased \subseteq Threads

(***************************************************************************)
(* What get_next_loop() hands out can be used: loops_ holds the loop of    *)
(* each thread once, in the order of threads_; its init callback has run;  *)
(* and its EventLoop, a local variable of thread_func(), exists until the  *)
(* EventLoopThread is being destroyed.  A loop handed out is initialised,  *)
(* the base loop included.                                                 *)
(***************************************************************************)
LoopsUsable ==
  /\ \A k \in 1..Len(loops) :
       /\ loops[k] = k
       /\ k \in inited
       /\ tpc[k] \in Running \/ (opc \in Destroying /\ cur >= k)
  /\ \A l \in Loops : given[l] > 0 => l \in inited

(***************************************************************************)
(* get_next_loop() is fair: no loop of the pool is handed out twice more   *)
(* than another, and the base loop never when there are threads.           *)
(***************************************************************************)
Balanced ==
  /\ \A i, j \in 1..Len(loops) : given[i] <= given[j] + 1
  /\ given[Base] > 0 => loops = <<>>

(***************************************************************************)
(* The destructor does not join a thread that sleeps in epoll_wait with    *)
(* nothing to wake it, but where loop() was entered after the quit() and   *)
(* erased it.                                                              *)
(***************************************************************************)
NoStuckJoin ==
  opc = "join" /\ tpc[cur] = "poll" => cur \in wakeup_fd \/ cur \in erased

(* start() returns: the notification of thread_func() is not missed. *)
StartReturns == (opc = "start") ~> (opc = "serving")

(***************************************************************************)
(* ~EventLoopThread() returns, without help from the poll timeout, unless  *)
(* loop() erased its quit().                                               *)
(***************************************************************************)
JoinReturns ==
  (opc \in {"quit", "wakeup", "join"}) ~> (opc \in {"destroy", "gone"} \/ cur \in erased)
=============================================================================
