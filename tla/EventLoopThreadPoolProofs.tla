--------------------- MODULE EventLoopThreadPoolProofs ----------------------
(***************************************************************************)
(* LoopsUsable, Balanced and NoStuckJoin of EventLoopThreadPool, for every *)
(* number of threads and calls.                                            *)
(***************************************************************************)
EXTENDS EventLoopThreadPool, TLAPS

(* Zenon proves the steps below, and SMT those that need arithmetic or      *)
(* reason about sequences and records.                                     *)
USE ZenonT(60)

(* threads_ is ahead of loops_ exactly while start_loop() runs. *)
Sizes ==
  /\ threads = IF opc \in {"locked", "waiting"} THEN Len(loops) + 1 ELSE Len(loops)
  /\ \A k \in 1..Len(loops) : loops[k] = k
  /\ opc = "constructed" => threads = 0
  /\ opc \in {"quit", "wakeup", "join"} => cur <= threads
  /\ opc \notin Destroying => cur = 1

(* Where a thread is decides loop_ and whether the callback has run. *)
Positions ==
  \A i \in Threads :
    /\ tpc[i] = "none" <=> i > threads
    /\ i \in loop <=> tpc[i] \in Running \cup {"clear"}
    /\ i \in inited <=> tpc[i] \notin {"none", "init"}
    /\ i <= Len(loops) => tpc[i] \notin {"init", "publish"}

(* The destructor has called quit() for thread i. *)
ToldToQuit(i) == opc \in Destroying /\ (i < cur \/ (i = cur /\ opc \in {"wakeup", "join"}))

(* Only the destructor sets quit_, and only loop() takes it back. *)
Quits ==
  /\ \A i \in quit : ToldToQuit(i)
  /\ \A i \in Threads : tpc[i] \in {"clear", "destruct", "exited"} => ToldToQuit(i)
  /\ opc \in {"wakeup", "join"} /\ tpc[cur] \in Running => cur \in quit \/ cur \in erased
  /\ opc = "join" /\ tpc[cur] = "poll" /\ cur \in quit => cur \in wakeup_fd

(* The loops before next_ have been handed out once more than the others. *)
Turns ==
  /\ \A i, j \in 1..Len(loops) :
       given[i] + (IF j <= next THEN 1 ELSE 0) = given[j] + (IF i <= next THEN 1 ELSE 0)
  /\ \A l \in Loops : given[l] > 0 =>
       opc \in {"serving"} \cup Destroying /\ l \in inited /\ (l = Base => loops = <<>>)
  /\ opc \in {"constructed", "start", "locked", "waiting"} => next = 0
  /\ opc = "serving" /\ loops = <<>> => Base \in inited

IInv == TypeOK /\ Sizes /\ Positions /\ Quits /\ Turns

-----------------------------------------------------------------------------
USE DEF Threads, Base, Loops, OwnerPositions, Destroying, Running

(* The pool as its constructor leaves it satisfies the invariant. *)
LEMMA InitIInv == Init => IInv
  BY PoolAssumption, SMT DEF Init, IInv, TypeOK, Sizes, Positions, Quits, ToldToQuit, Turns

(* loops_ is no longer than threads_, and that no longer than allowed. *)
LEMMA SizeFacts ==
  IInv => /\ Len(loops) \in Nat /\ threads \in Nat
          /\ Len(loops) <= threads /\ threads <= MaxThreads
  <1> SUFFICES ASSUME IInv PROVE /\ Len(loops) \in Nat /\ threads \in Nat
                                 /\ Len(loops) <= threads /\ threads <= MaxThreads
    OBVIOUS
  <1>1. Len(loops) \in Nat
    BY SMT DEF IInv, TypeOK
  <1>2. threads \in Nat /\ threads <= MaxThreads
    BY PoolAssumption, SMT DEF IInv, TypeOK
  <1> QED
    BY <1>1, <1>2, SMT DEF IInv, Sizes

(* A loop of the pool is the loop of a thread. *)
LEMMA IndexFacts == IInv => \A k \in 1..Len(loops) : k \in Threads /\ k \in Loops
  BY SizeFacts, PoolAssumption, SMT

(* The destructor works on a thread of the pool. *)
LEMMA CurFacts == IInv /\ opc \in {"quit", "wakeup", "join"} => cur \in Threads
  <1> SUFFICES ASSUME IInv, opc \in {"quit", "wakeup", "join"} PROVE cur \in Threads
    OBVIOUS
  <1>1. cur \in Nat /\ cur >= 1
    BY PoolAssumption, SMT DEF IInv, TypeOK
  <1>2. cur <= threads
    BY DEF IInv, Sizes
  <1> QED
    BY <1>1, <1>2, SizeFacts, PoolAssumption, SMT

(* get_next_loop() returns the base loop, or the loop that next_ names. *)
LEMMA NextLoop ==
  IInv /\ GetNextLoop =>
    \/ /\ loops = <<>> /\ next' = next
       /\ given[Base] < MaxGiven
       /\ given' = [given EXCEPT ![Base] = given[Base] + 1]
    \/ /\ next + 1 \in 1..Len(loops) /\ next' = Advanced
       /\ given[next + 1] < MaxGiven
       /\ given' = [given EXCEPT ![next + 1] = given[next + 1] + 1]
  <1> SUFFICES ASSUME IInv, GetNextLoop, loops # <<>>
               PROVE  next + 1 \in 1..Len(loops) /\ loops[next + 1] = next + 1
    BY DEF GetNextLoop
  <1>1. Len(loops) \in Nat \ {0}
    BY SMT DEF IInv, TypeOK
  <1>2. next + 1 \in 1..Len(loops)
    BY <1>1, SMT DEF IInv, TypeOK
  <1> QED
    BY <1>2 DEF IInv, Sizes

(* Every step of the owner or of a thread of the pool keeps the invariant. *)
LEMMA StepIInv == IInv /\ [Next]_vars => IInv'
  <1> SUFFICES ASSUME IInv, [Next]_vars PROVE IInv'
    OBVIOUS
  <1>1. ASSUME NEW n \in 0..MaxThreads, SetThreadNum(n) PROVE IInv'
    <2>1. TypeOK'
      BY <1>1, PoolAssumption DEF SetThreadNum, IInv, TypeOK, ownerVars, threadVars
    <2>2. Sizes'
      BY <1>1, PoolAssumption DEF SetThreadNum, IInv, Sizes, ownerVars, threadVars
    <2>3. Positions'
      BY <1>1, PoolAssumption
         DEF SetThreadNum, IInv, TypeOK, Positions, ownerVars, threadVars
    <2>4. Quits'
      BY <1>1, PoolAssumption
         DEF SetThreadNum, IInv, TypeOK, Quits, ToldToQuit, ownerVars, threadVars
    <2>5. Turns'
      BY <1>1, PoolAssumption, SMT
         DEF SetThreadNum, IInv, TypeOK, Turns, ownerVars, threadVars
    <2> QED
      BY <2>1, <2>2, <2>3, <2>4, <2>5 DEF IInv
  <1>2. CASE StartBegin
    <2>1. TypeOK'
      BY <1>2, PoolAssumption DEF StartBegin, IInv, TypeOK, ownerVars, threadVars
    <2>2. Sizes'
      BY <1>2, PoolAssumption DEF StartBegin, IInv, Sizes, ownerVars, threadVars
    <2>3. Positions'
      BY <1>2, PoolAssumption
         DEF StartBegin, IInv, TypeOK, Positions, ownerVars, threadVars
    <2>4. Quits'
      BY <1>2, PoolAssumption
         DEF StartBegin, IInv, TypeOK, Quits, ToldToQuit, ownerVars, threadVars
    <2>5. Turns'
      BY <1>2, PoolAssumption DEF StartBegin, IInv, TypeOK, Turns, ownerVars, threadVars
    <2> QED
      BY <2>1, <2>2, <2>3, <2>4, <2>5 DEF IInv
  <1>3. CASE SpuriousWake
    <2>1. TypeOK'
      BY <1>3, PoolAssumption DEF SpuriousWake, IInv, TypeOK, ownerVars, threadVars
    <2>2. Sizes'
      BY <1>3, PoolAssumption DEF SpuriousWake, IInv, Sizes, ownerVars, threadVars
    <2>3. Positions'
      BY <1>3, PoolAssumption
         DEF SpuriousWake, IInv, TypeOK, Positions, ownerVars, threadVars
    <2>4. Quits'
      BY <1>3, PoolAssumption
         DEF SpuriousWake, IInv, TypeOK, Quits, ToldToQuit, ownerVars, threadVars
    <2>5. Turns'
      BY <1>3, PoolAssumption
         DEF SpuriousWake, IInv, TypeOK, Turns, ownerVars, threadVars
    <2> QED
      BY <2>1, <2>2, <2>3, <2>4, <2>5 DEF IInv
  <1>4. CASE GetNextLoop
    <2>1. TypeOK'
      <3>1. next' \in Nat /\ (next' < Len(loops) \/ next' = 0)
        <4>1. next \in Nat /\ (next < Len(loops) \/ next = 0) /\ Len(loops) \in Nat
          BY SizeFacts DEF IInv, TypeOK
        <4> QED
          BY <1>4, <4>1, NextLoop, SMT DEF Advanced
      <3>2. given' \in [Loops -> 0..MaxGiven]
        <4>1. CASE loops = <<>> /\ given' = [given EXCEPT ![Base] = given[Base] + 1] /\ given[Base] < MaxGiven
          BY <4>1, PoolAssumption, SMT DEF IInv, TypeOK
        <4>2. CASE /\ next + 1 \in 1..Len(loops) /\ given[next + 1] < MaxGiven
                   /\ given' = [given EXCEPT ![next + 1] = given[next + 1] + 1]
          <5>1. next + 1 \in Loops /\ given \in [Loops -> 0..MaxGiven]
            BY <4>2, IndexFacts DEF IInv, TypeOK
          <5>2. given[next + 1] + 1 \in 0..MaxGiven
            BY <4>2, <5>1, PoolAssumption, SMT
          <5> QED
            BY <4>2, <5>1, <5>2
        <4> QED
          BY <1>4, <4>1, <4>2, NextLoop
      <3> QED
        BY <1>4, <3>1, <3>2 DEF GetNextLoop, IInv, TypeOK, threadVars
    <2>2. Sizes'
      BY <1>4, PoolAssumption DEF GetNextLoop, IInv, Sizes, ownerVars, threadVars
    <2>3. Positions'
      BY <1>4, PoolAssumption
         DEF GetNextLoop, IInv, TypeOK, Positions, Sizes, ownerVars, threadVars
    <2>4. Quits'
      BY <1>4, PoolAssumption
         DEF GetNextLoop, IInv, TypeOK, Quits, ToldToQuit, ownerVars, threadVars
    <2>5. Turns'
      <3>0. opc = "serving" /\ UNCHANGED <<opc, loops, inited>>
        BY <1>4 DEF GetNextLoop, threadVars
      <3>1. CASE loops = <<>> /\ given' = [given EXCEPT ![Base] = given[Base] + 1]
        <4>1. Base \in inited /\ Len(loops) = 0
          BY <3>0, <3>1 DEF IInv, Turns
        <4> QED
          BY <3>0, <3>1, <4>1, PoolAssumption, SMT DEF IInv, TypeOK, Turns
      <3>2. CASE /\ next + 1 \in 1..Len(loops) /\ next' = Advanced
                 /\ given' = [given EXCEPT ![next + 1] = given[next + 1] + 1]
        <4>1. next \in Nat /\ Len(loops) \in Nat /\ next + 1 <= Len(loops)
          BY <3>2, SizeFacts, SMT DEF IInv, TypeOK
        <4>2. ASSUME NEW i \in 1..Len(loops), NEW j \in 1..Len(loops)
              PROVE  given'[i] + (IF j <= next' THEN 1 ELSE 0) = given'[j] + (IF i <= next' THEN 1 ELSE 0)
          <5>1. given[i] \in Nat /\ given[j] \in Nat
            <6>1. i \in Loops /\ j \in Loops /\ given \in [Loops -> 0..MaxGiven]
              BY IndexFacts DEF IInv, TypeOK
            <6> QED
              BY <6>1, PoolAssumption, SMT
          <5>2. /\ given'[i] = given[i] + (IF i = next + 1 THEN 1 ELSE 0)
                /\ given'[j] = given[j] + (IF j = next + 1 THEN 1 ELSE 0)
            <6>1. i \in Loops /\ j \in Loops /\ given \in [Loops -> 0..MaxGiven]
              BY IndexFacts DEF IInv, TypeOK
            <6> QED
              BY <3>2, <5>1, <6>1, SMT
          <5>3. given[i] + (IF j <= next THEN 1 ELSE 0) = given[j] + (IF i <= next THEN 1 ELSE 0)
            BY DEF IInv, Turns
          <5> QED
            BY <3>2, <4>1, <5>1, <5>2, <5>3, SMT DEF Advanced
        <4>3. next + 1 \in inited /\ next + 1 # Base
          BY <3>2, <4>1, IndexFacts, SMT DEF IInv, TypeOK, Sizes, Positions
        <4>4. \A l \in Loops : given'[l] > 0 => given[l] > 0 \/ l = next + 1
          BY <3>2 DEF IInv, TypeOK
        <4>5. loops # <<>>
          BY <4>1, SMT
        <4> QED
          BY <3>0, <4>2, <4>3, <4>4, <4>5 DEF IInv, Turns
      <3> QED
        BY <1>4, <3>1, <3>2, NextLoop
    <2> QED
      BY <2>1, <2>2, <2>3, <2>4, <2>5 DEF IInv
  <1>5. CASE DestroyBegin
    <2>1. TypeOK'
      BY <1>5, PoolAssumption DEF DestroyBegin, IInv, TypeOK, ownerVars, threadVars
    <2>2. Sizes'
      BY <1>5, PoolAssumption DEF DestroyBegin, IInv, Sizes, ownerVars, threadVars
    <2>3. Positions'
      BY <1>5, PoolAssumption
         DEF DestroyBegin, IInv, TypeOK, Positions, ownerVars, threadVars
    <2>4. Quits'
      BY <1>5, PoolAssumption
         DEF DestroyBegin, IInv, TypeOK, Quits, ToldToQuit, ownerVars, threadVars
    <2>5. Turns'
      BY <1>5, PoolAssumption, SMT
         DEF DestroyBegin, IInv, TypeOK, Turns, ownerVars, threadVars
    <2> QED
      BY <2>1, <2>2, <2>3, <2>4, <2>5 DEF IInv
  <1>6. CASE StartThread
    <2>1. TypeOK'
      BY <1>6, PoolAssumption, SMT DEF StartThread, IInv, TypeOK, ownerVars, threadVars
    <2>2. Sizes'
      BY <1>6, PoolAssumption
         DEF StartThread, IInv, Sizes, TypeOK, ownerVars, threadVars
    <2>3. Positions'
      BY <1>6, PoolAssumption, SMT
         DEF StartThread, IInv, TypeOK, Positions, Sizes, ownerVars, threadVars
    <2>4. Quits'
      BY <1>6, PoolAssumption
         DEF StartThread, IInv, TypeOK, Quits, ToldToQuit, Sizes, ownerVars, threadVars
    <2>5. Turns'
      BY <1>6, PoolAssumption
         DEF StartThread, IInv, TypeOK, Turns, ownerVars, threadVars
    <2> QED
      BY <2>1, <2>2, <2>3, <2>4, <2>5 DEF IInv
  <1>7. CASE StartLoopTest
    <2>1. TypeOK'
      <3>1. threads \in Threads
        BY <1>7, SizeFacts, PoolAssumption, SMT DEF StartLoopTest, IInv, TypeOK, Sizes
      <3>2. loops \in Seq(Threads) /\ next = 0
        BY <1>7 DEF StartLoopTest, IInv, TypeOK, Turns
      <3>3. loops' \in Seq(Threads)
        <4>1. Append(loops, threads) \in Seq(Threads)
          BY <3>1, <3>2, SMT
        <4> QED
          BY <1>7, <3>2, <4>1 DEF StartLoopTest
      <3> QED
        BY <1>7, <3>2, <3>3 DEF StartLoopTest, IInv, TypeOK, threadVars
    <2>2. Sizes'
      <3>1. CASE threads \in loop
        <4>1. threads = Len(loops) + 1 /\ Len(loops) \in Nat
          BY <1>7, SizeFacts DEF StartLoopTest, IInv, Sizes
        <4>2. Len(loops') = Len(loops) + 1 /\ \A k \in 1..Len(loops') : loops'[k] = k
          BY <1>7, <3>1, <4>1, SMT DEF StartLoopTest, IInv, TypeOK, Sizes
        <4> QED
          BY <1>7, <3>1, <4>1, <4>2 DEF StartLoopTest, IInv, Sizes
      <3>2. CASE threads \notin loop
        BY <1>7, <3>2 DEF StartLoopTest, IInv, Sizes
      <3> QED
        BY <3>1, <3>2
    <2>3. Positions'
      <3>1. CASE threads \in loop
        <4>1. threads = Len(loops) + 1 /\ Len(loops) \in Nat
          BY <1>7, SizeFacts DEF StartLoopTest, IInv, Sizes
        <4>2. Len(loops') = Len(loops) + 1
          BY <1>7, <3>1, SMT DEF StartLoopTest, IInv, TypeOK
        <4>3. tpc[threads] \notin {"init", "publish"}
          BY <3>1 DEF IInv, TypeOK, Positions
        <4> QED
          BY <1>7, <4>1, <4>2, <4>3, SMT DEF StartLoopTest, IInv, Positions, threadVars
      <3>2. CASE threads \notin loop
        BY <1>7, <3>2 DEF StartLoopTest, IInv, Positions, threadVars
      <3> QED
        BY <3>1, <3>2
    <2>4. Quits'
      BY <1>7, PoolAssumption
         DEF StartLoopTest, IInv, TypeOK, Quits, ToldToQuit, ownerVars, threadVars
    <2>5. Turns'
      BY <1>7, PoolAssumption, SMT
         DEF StartLoopTest, IInv, TypeOK, Turns, Sizes, ownerVars, threadVars
    <2> QED
      BY <2>1, <2>2, <2>3, <2>4, <2>5 DEF IInv
  <1>8. CASE StartEnd
    <2>1. TypeOK'
      BY <1>8, PoolAssumption DEF StartEnd, IInv, TypeOK, ownerVars, threadVars
    <2>2. Sizes'
      BY <1>8, PoolAssumption DEF StartEnd, IInv, Sizes, TypeOK, ownerVars, threadVars
    <2>3. Positions'
      BY <1>8, PoolAssumption, SMT
         DEF StartEnd, IInv, TypeOK, Positions, ownerVars, threadVars
    <2>4. Quits'
      BY <1>8, PoolAssumption
         DEF StartEnd, IInv, TypeOK, Quits, ToldToQuit, ownerVars, threadVars
    <2>5. Turns'
      BY <1>8, PoolAssumption, SMT
         DEF StartEnd, IInv, TypeOK, Turns, Sizes, ownerVars, threadVars
    <2> QED
      BY <2>1, <2>2, <2>3, <2>4, <2>5 DEF IInv
  <1>9. CASE DestroyThread
    <2>1. TypeOK'
      <3>1. opc' \in {"gone", "quit", "join"}
        BY <1>9, SMT DEF DestroyThread, IInv, TypeOK
      <3>2. UNCHANGED ownerVars /\ UNCHANGED threadVars
        BY <1>9 DEF DestroyThread
      <3> QED
        BY <3>1, <3>2 DEF IInv, TypeOK, ownerVars, threadVars
    <2>2. Sizes'
      BY <1>9, PoolAssumption, SMT
         DEF DestroyThread, IInv, Sizes, TypeOK, ownerVars, threadVars
    <2>3. Positions'
      BY <1>9, PoolAssumption
         DEF DestroyThread, IInv, TypeOK, Positions, ownerVars, threadVars
    <2>4. Quits'
      BY <1>9, PoolAssumption, SMT
         DEF DestroyThread, IInv, TypeOK, Quits, ToldToQuit, Sizes, Positions, ownerVars,
            threadVars
    <2>5. Turns'
      BY <1>9, PoolAssumption, SMT
         DEF DestroyThread, IInv, TypeOK, Turns, ownerVars, threadVars
    <2> QED
      BY <2>1, <2>2, <2>3, <2>4, <2>5 DEF IInv
  <1>10. CASE QuitSet
    <2>1. TypeOK'
      BY <1>10, CurFacts, PoolAssumption
         DEF QuitSet, IInv, TypeOK, ownerVars, threadVars
    <2>2. Sizes'
      BY <1>10, PoolAssumption DEF QuitSet, IInv, Sizes, ownerVars, threadVars
    <2>3. Positions'
      BY <1>10, PoolAssumption
         DEF QuitSet, IInv, TypeOK, Positions, ownerVars, threadVars
    <2>4. Quits'
      BY <1>10, PoolAssumption
         DEF QuitSet, IInv, TypeOK, Quits, ToldToQuit, Sizes, Positions, ownerVars, threadVars
    <2>5. Turns'
      BY <1>10, PoolAssumption, SMT DEF QuitSet, IInv, TypeOK, Turns, ownerVars, threadVars
    <2> QED
      BY <2>1, <2>2, <2>3, <2>4, <2>5 DEF IInv
  <1>11. CASE QuitWakeup
    <2>1. TypeOK'
      BY <1>11, CurFacts, PoolAssumption
         DEF QuitWakeup, IInv, TypeOK, ownerVars, threadVars
    <2>2. Sizes'
      BY <1>11, PoolAssumption DEF QuitWakeup, IInv, Sizes, ownerVars, threadVars
    <2>3. Positions'
      BY <1>11, PoolAssumption
         DEF QuitWakeup, IInv, TypeOK, Positions, ownerVars, threadVars
    <2>4. Quits'
      BY <1>11, PoolAssumption
         DEF QuitWakeup, IInv, TypeOK, Quits, ToldToQuit, ownerVars, threadVars
    <2>5. Turns'
      BY <1>11, PoolAssumption, SMT
         DEF QuitWakeup, IInv, TypeOK, Turns, ownerVars, threadVars
    <2> QED
      BY <2>1, <2>2, <2>3, <2>4, <2>5 DEF IInv
  <1>12. CASE Join
    <2>1. TypeOK'
      <3>1. cur' \in 1..(MaxThreads + 1)
        BY <1>12, CurFacts, PoolAssumption, SMT DEF Join
      <3> QED
        BY <1>12, <3>1 DEF Join, IInv, TypeOK, threadVars
    <2>2. Sizes'
      BY <1>12, PoolAssumption DEF Join, IInv, Sizes, TypeOK, ownerVars, threadVars
    <2>3. Positions'
      BY <1>12, PoolAssumption DEF Join, IInv, TypeOK, Positions, ownerVars, threadVars
    <2>4. Quits'
      BY <1>12, PoolAssumption, SMT
         DEF Join, IInv, TypeOK, Quits, ToldToQuit, Sizes, ownerVars, threadVars
    <2>5. Turns'
      BY <1>12, PoolAssumption, SMT DEF Join, IInv, TypeOK, Turns, ownerVars, threadVars
    <2> QED
      BY <2>1, <2>2, <2>3, <2>4, <2>5 DEF IInv
  <1>13. ASSUME NEW i \in Threads, RunInit(i) PROVE IInv'
    <2>1. TypeOK'
      BY <1>13, PoolAssumption DEF RunInit, IInv, TypeOK, ownerVars, threadVars
    <2>2. Sizes'
      BY <1>13, PoolAssumption DEF RunInit, IInv, Sizes, ownerVars, threadVars
    <2>3. Positions'
      BY <1>13, PoolAssumption
         DEF RunInit, IInv, TypeOK, Positions, ownerVars, threadVars
    <2>4. Quits'
      BY <1>13, PoolAssumption, SMT
         DEF RunInit, IInv, TypeOK, Quits, ToldToQuit, ownerVars, threadVars
    <2>5. Turns'
      BY <1>13, PoolAssumption, SMT DEF RunInit, IInv, TypeOK, Turns, ownerVars, threadVars
    <2> QED
      BY <2>1, <2>2, <2>3, <2>4, <2>5 DEF IInv
  <1>14. ASSUME NEW i \in Threads, Publish(i) PROVE IInv'
    <2>1. TypeOK'
      BY <1>14, PoolAssumption DEF Publish, IInv, TypeOK, ownerVars, threadVars
    <2>2. Sizes'
      BY <1>14, PoolAssumption DEF Publish, IInv, Sizes, ownerVars, threadVars
    <2>3. Positions'
      BY <1>14, PoolAssumption
         DEF Publish, IInv, TypeOK, Positions, ownerVars, threadVars
    <2>4. Quits'
      <3>1. UNCHANGED <<cur, quit, wakeup_fd, erased>> /\ (opc' \in Destroying <=> opc \in Destroying)
        BY <1>14 DEF Publish, ownerVars
      <3>2. opc \in Destroying \/ opc' \in Destroying => opc' = opc
        BY <1>14 DEF Publish
      <3>3. \A j \in Threads : tpc'[j] # tpc[j] => tpc[j] = "publish" /\ tpc'[j] = "enter"
        BY <1>14 DEF Publish, IInv, TypeOK
      <3>4. opc \in {"wakeup", "join"} => tpc[cur] # "publish"
        BY CurFacts DEF IInv, TypeOK, Sizes, Positions
      <3> QED
        BY <3>1, <3>2, <3>3, <3>4, CurFacts DEF IInv, Quits, ToldToQuit
    <2>5. Turns'
      BY <1>14, PoolAssumption, SMT DEF Publish, IInv, TypeOK, Turns, ownerVars, threadVars
    <2> QED
      BY <2>1, <2>2, <2>3, <2>4, <2>5 DEF IInv
  <1>15. ASSUME NEW i \in Threads, LoopEnter(i) PROVE IInv'
    <2>1. TypeOK'
      BY <1>15, PoolAssumption DEF LoopEnter, IInv, TypeOK, ownerVars, threadVars
    <2>2. Sizes'
      BY <1>15, PoolAssumption DEF LoopEnter, IInv, Sizes, ownerVars, threadVars
    <2>3. Positions'
      BY <1>15, PoolAssumption
         DEF LoopEnter, IInv, TypeOK, Positions, ownerVars, threadVars
    <2>4. Quits'
      BY <1>15, PoolAssumption, SMT
         DEF LoopEnter, IInv, TypeOK, Quits, ToldToQuit, ownerVars, threadVars
    <2>5. Turns'
      BY <1>15, PoolAssumption, SMT DEF LoopEnter, IInv, TypeOK, Turns, ownerVars, threadVars
    <2> QED
      BY <2>1, <2>2, <2>3, <2>4, <2>5 DEF IInv
  <1>16. ASSUME NEW i \in Threads, LoopCheck(i) PROVE IInv'
    <2>1. TypeOK'
      BY <1>16, PoolAssumption DEF LoopCheck, IInv, TypeOK, ownerVars, threadVars
    <2>2. Sizes'
      BY <1>16, PoolAssumption DEF LoopCheck, IInv, Sizes, ownerVars, threadVars
    <2>3. Positions'
      BY <1>16, PoolAssumption
         DEF LoopCheck, IInv, TypeOK, Positions, ownerVars, threadVars
    <2>4. Quits'
      BY <1>16, PoolAssumption, SMT
         DEF LoopCheck, IInv, TypeOK, Quits, ToldToQuit, ownerVars, threadVars
    <2>5. Turns'
      BY <1>16, PoolAssumption, SMT DEF LoopCheck, IInv, TypeOK, Turns, ownerVars, threadVars
    <2> QED
      BY <2>1, <2>2, <2>3, <2>4, <2>5 DEF IInv
  <1>17. ASSUME NEW i \in Threads, PollWakeup(i) PROVE IInv'
    <2>1. TypeOK'
      BY <1>17, PoolAssumption DEF PollWakeup, IInv, TypeOK, ownerVars, threadVars
    <2>2. Sizes'
      BY <1>17, PoolAssumption DEF PollWakeup, IInv, Sizes, ownerVars, threadVars
    <2>3. Positions'
      BY <1>17, PoolAssumption
         DEF PollWakeup, IInv, TypeOK, Positions, ownerVars, threadVars
    <2>4. Quits'
      BY <1>17, PoolAssumption, SMT
         DEF PollWakeup, IInv, TypeOK, Quits, ToldToQuit, ownerVars, threadVars
    <2>5. Turns'
      BY <1>17, PoolAssumption, SMT
         DEF PollWakeup, IInv, TypeOK, Turns, ownerVars, threadVars
    <2> QED
      BY <2>1, <2>2, <2>3, <2>4, <2>5 DEF IInv
  <1>18. ASSUME NEW i \in Threads, PollOther(i) PROVE IInv'
    <2>1. TypeOK'
      BY <1>18, PoolAssumption DEF PollOther, IInv, TypeOK, ownerVars, threadVars
    <2>2. Sizes'
      BY <1>18, PoolAssumption DEF PollOther, IInv, Sizes, ownerVars, threadVars
    <2>3. Positions'
      BY <1>18, PoolAssumption
         DEF PollOther, IInv, TypeOK, Positions, ownerVars, threadVars
    <2>4. Quits'
      BY <1>18, PoolAssumption, SMT
         DEF PollOther, IInv, TypeOK, Quits, ToldToQuit, ownerVars, threadVars
    <2>5. Turns'
      BY <1>18, PoolAssumption, SMT DEF PollOther, IInv, TypeOK, Turns, ownerVars, threadVars
    <2> QED
      BY <2>1, <2>2, <2>3, <2>4, <2>5 DEF IInv
  <1>19. ASSUME NEW i \in Threads, ClearLoop(i) PROVE IInv'
    <2>1. TypeOK'
      BY <1>19, PoolAssumption DEF ClearLoop, IInv, TypeOK, ownerVars, threadVars
    <2>2. Sizes'
      BY <1>19, PoolAssumption DEF ClearLoop, IInv, Sizes, ownerVars, threadVars
    <2>3. Positions'
      BY <1>19, PoolAssumption
         DEF ClearLoop, IInv, TypeOK, Positions, ownerVars, threadVars
    <2>4. Quits'
      BY <1>19, PoolAssumption, SMT
         DEF ClearLoop, IInv, TypeOK, Quits, ToldToQuit, ownerVars, threadVars
    <2>5. Turns'
      BY <1>19, PoolAssumption, SMT DEF ClearLoop, IInv, TypeOK, Turns, ownerVars, threadVars
    <2> QED
      BY <2>1, <2>2, <2>3, <2>4, <2>5 DEF IInv
  <1>20. ASSUME NEW i \in Threads, ThreadExit(i) PROVE IInv'
    <2>1. TypeOK'
      BY <1>20, PoolAssumption DEF ThreadExit, IInv, TypeOK, ownerVars, threadVars
    <2>2. Sizes'
      BY <1>20, PoolAssumption DEF ThreadExit, IInv, Sizes, ownerVars, threadVars
    <2>3. Positions'
      BY <1>20, PoolAssumption
         DEF ThreadExit, IInv, TypeOK, Positions, ownerVars, threadVars
    <2>4. Quits'
      BY <1>20, PoolAssumption, SMT
         DEF ThreadExit, IInv, TypeOK, Quits, ToldToQuit, ownerVars, threadVars
    <2>5. Turns'
      BY <1>20, PoolAssumption, SMT
         DEF ThreadExit, IInv, TypeOK, Turns, ownerVars, threadVars
    <2> QED
      BY <2>1, <2>2, <2>3, <2>4, <2>5 DEF IInv
  <1>21. CASE UNCHANGED vars
    <2>1. TypeOK'
      BY <1>21, PoolAssumption DEF vars, IInv, TypeOK, ownerVars, threadVars
    <2>2. Sizes'
      BY <1>21, PoolAssumption DEF vars, IInv, Sizes, ownerVars, threadVars
    <2>3. Positions'
      BY <1>21, PoolAssumption DEF vars, IInv, TypeOK, Positions, ownerVars, threadVars
    <2>4. Quits'
      BY <1>21, PoolAssumption
         DEF vars, IInv, TypeOK, Quits, ToldToQuit, ownerVars, threadVars
    <2>5. Turns'
      BY <1>21, PoolAssumption, SMT DEF vars, IInv, TypeOK, Turns, ownerVars, threadVars
    <2> QED
      BY <2>1, <2>2, <2>3, <2>4, <2>5 DEF IInv
  <1> QED
    BY <1>1, <1>2, <1>3, <1>4, <1>5, <1>6, <1>7, <1>8, <1>9, <1>10, <1>11, <1>12, <1>13, <1>14,
       <1>15, <1>16, <1>17, <1>18, <1>19, <1>20, <1>21
      DEF Next, OwnerStep, ThreadStep, Terminated

(* The invariant holds of the pool throughout its life. *)
THEOREM Inductive == Spec => []IInv
  BY InitIInv, StepIInv, PTL DEF Spec

(* next_ stays an index of loops_ and the state of the pool well typed. *)
THEOREM TypeCorrect == Spec => []TypeOK
  <1>1. IInv => TypeOK
    BY DEF IInv
  <1> QED
    BY <1>1, Inductive, PTL

(***************************************************************************)
(* The loops that start() stored and get_next_loop() hands out are         *)
(* initialised, and live until the destructor of the pool reaches them.    *)
(***************************************************************************)
THEOREM HandedOutUsable == Spec => []LoopsUsable
  <1>1. IInv => LoopsUsable
    <2> SUFFICES ASSUME IInv PROVE LoopsUsable
      OBVIOUS
    <2>1. ASSUME NEW k \in 1..Len(loops)
          PROVE  /\ loops[k] = k
                 /\ k \in inited
                 /\ tpc[k] \in Running \/ (opc \in Destroying /\ cur >= k)
      <3>1. loops[k] = k /\ k \in Threads
        BY IndexFacts DEF IInv, Sizes
      <3>2. k <= Len(loops) /\ ~(k > threads)
        BY SizeFacts, SMT
      <3>3. tpc[k] \notin {"none", "init", "publish"} /\ k \in inited
        BY <3>1, <3>2 DEF IInv, Positions
      <3>4. tpc[k] \in {"clear", "destruct", "exited"} => opc \in Destroying /\ cur >= k
        BY <3>1, SMT DEF IInv, TypeOK, Quits, ToldToQuit
      <3> QED
        BY <3>1, <3>3, <3>4 DEF IInv, TypeOK
    <2>2. \A l \in Loops : given[l] > 0 => l \in inited
      BY DEF IInv, Turns
    <2> QED
      BY <2>1, <2>2 DEF LoopsUsable
  <1> QED
    BY <1>1, Inductive, PTL

(* get_next_loop() hands out the loops evenly, however often it is called. *)
THEOREM RoundRobin == Spec => []Balanced
  <1>1. IInv => Balanced
    <2> SUFFICES ASSUME IInv PROVE Balanced
      OBVIOUS
    <2>1. \A i, j \in 1..Len(loops) : given[i] <= given[j] + 1
      <3> SUFFICES ASSUME NEW i \in 1..Len(loops), NEW j \in 1..Len(loops)
                   PROVE  given[i] <= given[j] + 1
        OBVIOUS
      <3>1. i \in Loops /\ j \in Loops
        BY IndexFacts
      <3>2. given[i] \in Nat /\ given[j] \in Nat
        BY <3>1, PoolAssumption, SMT DEF IInv, TypeOK
      <3> QED
        BY <3>2, SMT DEF IInv, Turns
    <2> QED
      BY <2>1 DEF IInv, Turns, Balanced
  <1> QED
    BY <1>1, Inductive, PTL

(***************************************************************************)
(* The destructor never joins a sleeping thread that nothing will wake,    *)
(* but where loop() erased its quit().                                     *)
(***************************************************************************)
THEOREM JoinNotStuck == Spec => []NoStuckJoin
  <1>1. IInv => NoStuckJoin
    BY DEF IInv, Quits, NoStuckJoin
  <1> QED
    BY <1>1, Inductive, PTL
=============================================================================
