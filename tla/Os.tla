--------------------------------- MODULE Os ---------------------------------
(***************************************************************************)
(* Epoller and FileAppender, the two that keep state of the operating      *)
(* system, with names of their own, to stand beside other modules.         *)
(***************************************************************************)
EXTENDS Naturals

CONSTANTS
  Channels, Fds, None,
  Callers, LineLens, RollSize, RollPeriod, Retain, CheckEvery, Start,
  MaxTime, MaxLines, MaxErrors

VARIABLES
  fd, events, index, added_to_loop, channels, interest, handling, active, todo, current,
  poller_failed

poller_vars ==
  <<fd, events, index, added_to_loop, channels, interest, handling, active, todo, current,
    poller_failed>>

P == INSTANCE Epoller WITH failed <- poller_failed

(* None is told apart from what it stands beside. *)
ASSUME PollerAssumption == None \notin Channels \cup Fds \cup P!Interest

(* Epoller: the three records of a registration agree. *)
RegistrationAgrees == P!RegistrationAgrees

(* Epoller: loop() has no dangling Channel left to handle. *)
ActiveAlive == P!ActiveAlive

(* Epoller: its asserts hold, and its epoll_ctl calls succeed. *)
ChecksHold == P!ChecksHold

-----------------------------------------------------------------------------
VARIABLES
  now, lck, file_pc, built, read_at, filename, file, open, opened, name, loaded,
  seen, raced, last_roll_time, this_roll_period, written_bytes, count, disk,
  buffered, lines, mine, gone, stale, errors, misused

file_vars ==
  <<now, lck, file_pc, built, read_at, filename, file, open, opened, name, loaded,
    seen, raced, last_roll_time, this_roll_period, written_bytes, count, disk,
    buffered, lines, mine, gone, stale, errors, misused>>

F == INSTANCE FileAppender WITH pc <- file_pc

(* A lock that is held is held by one of the threads. *)
ASSUME AppenderAssumption ==
  /\ None \notin Callers /\ Start \in Nat /\ Retain \in Nat
  /\ RollPeriod \in Nat \ {0} /\ CheckEvery \in Nat \ {0}

(* FileAppender: until an fwrite and an fflush overlap, the files, by name, *)
(* hold the lines in the order of append(); the open one is never deleted.  *)
FilesInOrder == F!FilesInOrder

(* FileAppender: few lines go to the file of a period that has ended. *)
PeriodLag == F!PeriodLag

(* FileAppender: until an fwrite and an fflush overlap, a line whose log() *)
(* has returned is in no stdio buffer.                                     *)
FlushedOnReturn == F!FlushedOnReturn
=============================================================================
