---------------------------- MODULE FileAppender ----------------------------
(***************************************************************************)
(* clia::log::FileAppender and the SyncLogger that drives it from several  *)
(* threads: append() under lck_ (thread_safe, or a single thread), then    *)
(* flush() without it.                                                     *)
(*                                                                         *)
(* A file is named after the second in which its name was made; names sort *)
(* as these seconds do, so the local time zone is one without daylight     *)
(* saving.  std::time() is read up to four times in one append(), and the  *)
(* clock may advance between any two of them.  Lines are numbered in the   *)
(* order of their fwrite.  A FILE is a number, 0 for stdout and stderr;    *)
(* what was written to it stays in its buffer until fflush or fclose.      *)
(*                                                                         *)
(* fwrite_unlocked takes no lock of the FILE, and fflush is called without *)
(* lck_, so that the two may overlap.  Each works on the buffer as it      *)
(* found it: fwrite_unlocked copies its line behind what it saw and then   *)
(* moves the end of the buffer there, fflush writes what it saw and then   *)
(* moves the end to the front.  Overlapping, they lose lines or repeat     *)
(* them.                                                                   *)
(***************************************************************************)
EXTENDS Naturals, Sequences

CONSTANTS
  Callers,     \* threads that call SyncLogger::log()
  None,        \* no thread
  LineLens,    \* lengths of lines
  RollSize,    \* roll_size_byte_
  RollPeriod,  \* roll_period_sec_
  Retain,      \* retain_period_sec_
  CheckEvery,  \* check_every_
  Start,       \* the second in which the appender is constructed
  MaxTime,     \* bound: the last second
  MaxLines,    \* bound: lines written
  MaxErrors    \* bound: calls of fopen, fwrite and opendir that fail

VARIABLES
  now,            \* the clock
  lck, pc,        \* who holds lck_, and where each thread is
  built,          \* the constructor has returned
  read_at,        \* the time that roll_file() read first
  filename,       \* ... and the name that it made
  file, open,     \* file_, and whether it has not been closed
  opened,         \* number of the latest FILE
  name,           \* the name under which it was opened
  loaded,         \* the FILE that flush() has loaded from file_
  seen,           \* the buffer as fwrite or fflush of a thread has found it
  raced,          \* fwrite and fflush have overlapped on one FILE
  last_roll_time, this_roll_period, written_bytes, count,
  disk,           \* the directory: lines that have reached each file
  buffered,       \* lines in the buffer of the open FILE
  lines,          \* lines written so far
  mine,           \* the latest line of each thread
  gone,           \* lines on stdout, lost to an error, or deleted
  stale,          \* lines written in a row after their period had ended
  errors,         \* calls that have failed
  misused         \* a closed FILE has been used

rolling == <<read_at, filename, last_roll_time, this_roll_period>>
stdio == <<file, open, opened, name, disk, buffered>>
history == <<lines, mine, gone>>
race == <<seen, raced>>
vars == <<now, lck, pc, built, loaded, errors, written_bytes, count, stale, misused,
          rolling, stdio, history, race>>

(* The constructor, run by some thread, calls roll_file(). *)
Init ==
  /\ now = Start
  /\ \E c \in Callers : lck = c /\ pc = [t \in Callers |-> IF t = c THEN "roll" ELSE "idle"]
  /\ built = FALSE
  /\ read_at = 0 /\ filename = 0 /\ last_roll_time = 0 /\ this_roll_period = 0
  /\ file = 0 /\ open = FALSE /\ opened = 0 /\ name = 0
  /\ loaded = [t \in Callers |-> 0]
  /\ seen = [t \in Callers |-> <<>>] /\ raced = FALSE
  /\ written_bytes = 0 /\ count = 0 /\ stale = 0
  /\ disk = <<>> /\ buffered = <<>>
  /\ lines = 0 /\ mine = [t \in Callers |-> 0] /\ gone = {}
  /\ errors = 0 /\ misused = FALSE

-----------------------------------------------------------------------------
Period(t) == (t \div RollPeriod) * RollPeriod

Goes(t, from, to) == pc[t] = from /\ ~misused /\ pc' = [pc EXCEPT ![t] = to]

(* A library call returns an error. *)
Fails == errors < MaxErrors /\ errors' = errors + 1

(* The lines in a file, or in a buffer. *)
LinesIn(s) == {s[i] : i \in DOMAIN s}

(* disk after b was written to the open FILE; an unlinked file takes lines *)
(* along.                                                                  *)
Flushed(b) == IF name \in DOMAIN disk THEN [disk EXCEPT ![name] = @ \o b] ELSE disk
LostByFlush(b) == IF name \in DOMAIN disk THEN {} ELSE LinesIn(b)

(* Mutant of Opened: mode "w". *)
OpenedEmpty(n) == [m \in DOMAIN disk \cup {n} |-> IF m = n THEN <<>> ELSE disk[m]]

(* fopen in mode "a". *)
Opened(n) == [m \in DOMAIN disk \cup {n} |-> IF m \in DOMAIN disk THEN disk[m] ELSE <<>>]

(* t is inside fwrite_unlocked or fflush, and another thread is. *)
InUse(t) == pc[t] \in {"fwrite", "flushing"}
Overlaps(t) == \E u \in Callers : u # t /\ InUse(u)

(* fflush and fclose take the lock of the FILE, one thread at a time. *)
FileFree == \A t \in Callers : pc[t] # "flushing"

(* The buffer after fwrite of the next line by t. *)
Fwritten(t) == Append(seen[t], lines + 1)

-----------------------------------------------------------------------------
(* Mutant of BeginAppend: the counter has to pass check_every_. *)
BeginAppendLate(t) ==
  /\ built /\ lck = None /\ lines < MaxLines
  /\ lck' = t
  /\ LET due == count + 1 > CheckEvery
         ended == Period(now) # this_roll_period
     IN \/ /\ written_bytes > RollSize
           /\ Goes(t, "idle", "roll")
           /\ UNCHANGED <<count, stale>>
        \/ /\ written_bytes <= RollSize
           /\ count' = IF due THEN 0 ELSE count + 1
           /\ Goes(t, "idle", IF due /\ ended THEN "roll" ELSE "write")
           /\ stale' = IF ended THEN (IF due THEN stale ELSE stale + 1) ELSE 0
  /\ UNCHANGED <<now, built, loaded, errors, written_bytes, misused, rolling, stdio, history, race>>

(***************************************************************************)
(* log() lets a line through, append() takes lck_, and append_unlocked()   *)
(* finds out whether a new file is due, by size or by the period.          *)
(***************************************************************************)
BeginAppend(t) ==
  /\ built /\ lck = None /\ lines < MaxLines
  /\ lck' = t
  /\ LET due == count + 1 >= CheckEvery
         ended == Period(now) # this_roll_period
     IN \/ /\ written_bytes > RollSize
           /\ Goes(t, "idle", "roll")
           /\ UNCHANGED <<count, stale>>
        \/ /\ written_bytes <= RollSize
           /\ count' = IF due THEN 0 ELSE count + 1
           /\ Goes(t, "idle", IF due /\ ended THEN "roll" ELSE "write")
           /\ stale' = IF ended THEN (IF due THEN stale ELSE stale + 1) ELSE 0
  /\ UNCHANGED <<now, built, loaded, errors, written_bytes, misused, rolling, stdio, history, race>>

(* roll_file(): at most one new file in a second. *)
Roll(t) ==
  /\ Goes(t, "roll", IF last_roll_time # now THEN "name" ELSE "write")
  /\ read_at' = IF last_roll_time # now THEN now ELSE 0
  /\ UNCHANGED <<now, lck, built, loaded, errors, written_bytes, count, stale, misused,
                 filename, last_roll_time, this_roll_period, stdio, history, race>>

(* get_logfilename() reads the clock again. *)
Name(t) ==
  /\ Goes(t, "name", "close")
  /\ filename' = now
  /\ last_roll_time' = read_at
  /\ this_roll_period' = Period(read_at)
  /\ stale' = 0
  /\ UNCHANGED <<now, lck, built, loaded, errors, written_bytes, count, misused,
                 read_at, stdio, history, race>>

(* fflush, fsync and fclose, unless file_ is null or a standard stream. *)
Close(t) ==
  /\ Goes(t, "close", "open")
  /\ \/ /\ file # 0 /\ FileFree
        /\ open' = FALSE
        /\ disk' = Flushed(buffered) /\ buffered' = <<>>
        /\ gone' = gone \cup LostByFlush(buffered)
     \/ file = 0 /\ UNCHANGED <<open, disk, buffered, gone>>
  /\ UNCHANGED <<now, lck, built, loaded, errors, written_bytes, count, stale, misused,
                 rolling, file, opened, name, lines, mine, race>>

(* fopen, or a standard stream when that fails. *)
Open(t) ==
  /\ Goes(t, "open", "delete")
  /\ \/ /\ opened' = opened + 1 /\ file' = opened + 1
        /\ open' = TRUE
        /\ name' = filename
        /\ disk' = Opened(filename)
        /\ UNCHANGED errors
     \/ /\ Fails
        /\ file' = 0
        /\ UNCHANGED <<opened, open, name, disk>>
  /\ written_bytes' = 0
  /\ filename' = 0
  /\ UNCHANGED <<now, lck, built, loaded, count, stale, misused, read_at,
                 last_roll_time, this_roll_period, buffered, history, race>>

(* del_old_files(), unless the directory cannot be opened; then the line,  *)
(* or the end of the constructor.                                          *)
Delete(t) ==
  /\ Goes(t, "delete", IF built THEN "write" ELSE "idle")
  /\ \/ LET old == {n \in DOMAIN disk : n + Retain < now} IN
        /\ disk' = [n \in DOMAIN disk \ old |-> disk[n]]
        /\ gone' = gone \cup UNION {LinesIn(disk[n]) : n \in old}
        /\ UNCHANGED errors
     \/ Fails /\ UNCHANGED <<disk, gone>>
  /\ read_at' = 0
  /\ built' = TRUE
  /\ lck' = IF built THEN t ELSE None
  /\ UNCHANGED <<now, loaded, written_bytes, count, stale, misused, filename,
                 last_roll_time, this_roll_period, file, open, opened, name,
                 buffered, lines, mine, race>>

(* fwrite_unlocked begins: it finds the end of the buffer. *)
WriteBegin(t) ==
  /\ Goes(t, "write", "fwrite")
  /\ seen' = [seen EXCEPT ![t] = buffered]
  /\ raced' = (raced \/ Overlaps(t))
  /\ UNCHANGED <<now, lck, built, loaded, errors, written_bytes, count, stale, misused,
                 rolling, stdio, history>>

(* It puts the line there, and append() ends; or an error cuts it short,   *)
(* and written_bytes_ counts only what was written before.                 *)
Write(t) ==
  /\ Goes(t, "fwrite", "flush")
  /\ lines' = lines + 1
  /\ mine' = [mine EXCEPT ![t] = lines + 1]
  /\ \E n \in LineLens :
       \/ /\ file # 0 /\ buffered' = Fwritten(t)
          /\ written_bytes' = written_bytes + n
          /\ UNCHANGED <<gone, errors>>
       \/ /\ file = 0 /\ gone' = gone \cup {lines + 1}
          /\ written_bytes' = written_bytes + n
          /\ UNCHANGED <<buffered, errors>>
       \/ /\ file # 0 /\ Fails /\ gone' = gone \cup {lines + 1}
          /\ \E k \in 0..(n - 1) : written_bytes' = written_bytes + k
          /\ UNCHANGED buffered
  /\ lck' = None
  /\ seen' = [seen EXCEPT ![t] = <<>>]
  /\ UNCHANGED <<now, built, loaded, count, stale, misused, rolling, raced,
                 file, open, opened, name, disk>>

(* flush(), without lck_: loads file_ ... *)
FlushLoad(t) ==
  /\ Goes(t, "flush", "fflush")
  /\ loaded' = [loaded EXCEPT ![t] = file]
  /\ UNCHANGED <<now, lck, built, errors, written_bytes, count, stale, misused, rolling,
                 stdio, history, race>>

(* Mutant of Flush: log() returns without it. *)
FlushNot(t) ==
  /\ Goes(t, "fflush", "idle")
  /\ loaded' = [loaded EXCEPT ![t] = 0]
  /\ UNCHANGED <<now, lck, built, errors, written_bytes, count, stale, misused, rolling,
                 stdio, history, race>>

(* ... and calls fflush; a FILE that has been closed since is misused. *)
Flush(t) ==
  /\ loaded' = [loaded EXCEPT ![t] = 0]
  /\ \/ /\ loaded[t] = 0
        /\ Goes(t, "fflush", "idle")
        /\ UNCHANGED <<misused, race>>
     \/ /\ loaded[t] = opened /\ loaded[t] # 0 /\ open /\ FileFree
        /\ Goes(t, "fflush", "flushing")
        /\ seen' = [seen EXCEPT ![t] = buffered]
        /\ raced' = (raced \/ Overlaps(t))
        /\ UNCHANGED misused
     \/ /\ loaded[t] # 0 /\ ~(loaded[t] = opened /\ open)
        /\ Goes(t, "fflush", "idle")
        /\ misused' = TRUE
        /\ UNCHANGED race
  /\ UNCHANGED <<now, lck, built, errors, written_bytes, count, stale, rolling,
                 stdio, history>>

(* fflush ends: what it saw is written, and the buffer empty. *)
FlushEnd(t) ==
  /\ Goes(t, "flushing", "idle")
  /\ disk' = Flushed(seen[t]) /\ buffered' = <<>>
  /\ gone' = gone \cup LostByFlush(seen[t])
  /\ seen' = [seen EXCEPT ![t] = <<>>]
  /\ UNCHANGED <<now, lck, built, loaded, errors, written_bytes, count, stale, misused,
                 rolling, file, open, opened, name, lines, mine, raced>>

(* The destructor, once no call is in progress. *)
Destroy ==
  /\ built /\ ~misused
  /\ \A t \in Callers : pc[t] = "idle"
  /\ pc' = [t \in Callers |-> "over"]
  /\ open' = FALSE
  /\ disk' = IF file # 0 THEN Flushed(buffered) ELSE disk
  /\ gone' = IF file # 0 THEN gone \cup LostByFlush(buffered) ELSE gone
  /\ buffered' = <<>>
  /\ UNCHANGED <<now, lck, built, loaded, errors, written_bytes, count, stale, misused,
                 rolling, file, opened, name, lines, mine, race>>

(* The clock; one roll_file() takes less than the retention period. *)
Tick ==
  /\ now < MaxTime /\ ~misused
  /\ \E t \in Callers : pc[t] # "over"
  /\ \A t \in Callers :
       pc[t] \in {"name", "close", "open", "delete"} => now < read_at + Retain
  /\ now' = now + 1
  /\ UNCHANGED <<lck, pc, built, loaded, errors, written_bytes, count, stale, misused,
                 rolling, stdio, history, race>>

(* The appender is destroyed, or the program has broken. *)
Terminated == (misused \/ \A t \in Callers : pc[t] = "over") /\ UNCHANGED vars

Step(t) ==
  \/ BeginAppend(t)
  \/ Roll(t) \/ Name(t) \/ Close(t) \/ Open(t) \/ Delete(t)
  \/ WriteBegin(t) \/ Write(t) \/ FlushLoad(t) \/ Flush(t) \/ FlushEnd(t)

Next == (\E t \in Callers : Step(t)) \/ Destroy \/ Tick \/ Terminated

Spec == Init /\ [][Next]_vars

-----------------------------------------------------------------------------
(***************************************************************************)
(* An inductive invariant.  Behind lck_, no more lines in a row are late   *)
(* than count_ has counted, unless a new file is under way; a FILE in use  *)
(* is the latest one.  As long as fwrite and fflush have not overlapped,   *)
(* they see the buffer as it is, and a thread whose line is in the buffer  *)
(* has yet to load file_, or has loaded the FILE that is open, or is       *)
(* flushing it.                                                            *)
(***************************************************************************)
Under == {"roll", "name", "close", "open", "delete", "write", "fwrite"}

ClockInv ==
  /\ now \in Nat
  /\ last_roll_time \in 0..now /\ read_at \in 0..now
  /\ this_roll_period = Period(last_roll_time)
  /\ filename \in Nat /\ name \in Nat

LockInv ==
  /\ pc \in [Callers -> Under \cup {"idle", "flush", "fflush", "flushing", "over"}]
  /\ \A t \in Callers : pc[t] \in Under => lck = t

LagInv ==
  /\ count \in 0..(CheckEvery - 1) /\ stale \in 0..(CheckEvery - 1)
  /\ \/ stale <= count
     \/ \E t \in Callers : pc[t] = "name" \/ (pc[t] = "roll" /\ last_roll_time < now)

StdioInv ==
  /\ opened \in Nat /\ file \in {0, opened}
  /\ buffered # <<>> => open
  /\ open => file # 0
  /\ \A t \in Callers : pc[t] = "open" => ~open
  /\ \/ file = 0 \/ open
     \/ (\E t \in Callers : pc[t] = "open") \/ \A t \in Callers : pc[t] = "over"

IsBuffer(s) == s \in Seq(Nat)

(* One thread at a time is in fflush of the open FILE, and nobody closes it. *)
FileLockInv ==
  /\ DOMAIN seen = Callers
  /\ \A t, u \in Callers : pc[t] = "flushing" /\ pc[u] = "flushing" => t = u
  /\ \A t \in Callers : pc[t] = "flushing" => file # 0 /\ open

(* Nobody but the user of a FILE changes it. *)
SeenInv ==
  \A t \in Callers : InUse(t) =>
    seen[t] = buffered /\ \A u \in Callers : InUse(u) => u = t

MineInv ==
  /\ lines \in Nat /\ mine \in [Callers -> 0..lines] /\ loaded \in [Callers -> 0..opened]
  /\ IsBuffer(buffered)
  /\ \A t \in Callers : mine[t] \in LinesIn(buffered) =>
       pc[t] \in {"flush", "flushing"} \/ (pc[t] = "fflush" /\ loaded[t] = file)

(* The lines of s ascend, and those of s come before those of u. *)
Ascending(s) == \A i, j \in DOMAIN s : i < j => s[i] < s[j]
Before(s, u) == \A i \in DOMAIN s, j \in DOMAIN u : s[i] < u[j]

(* The lines that have reached a file, and those in a file or buffer. *)
OnDisk == UNION {LinesIn(disk[n]) : n \in DOMAIN disk}
Present == LinesIn(buffered) \cup OnDisk

(* Files and buffer hold the lines that are left, in order and none twice. *)
LinesInOrder ==
  /\ Ascending(buffered)
  /\ \A n \in DOMAIN disk : Ascending(disk[n]) /\ Before(disk[n], buffered)
  /\ \A m, n \in DOMAIN disk : m < n => Before(disk[m], disk[n])
  /\ Present = (1..lines) \ gone

(* The file that is being written is in the directory. *)
FileKept == file # 0 /\ open => name \in DOMAIN disk

(***************************************************************************)
(* The files, read in the order of their names, hold the lines in the      *)
(* order in which append() wrote them, none twice; nothing is missing but  *)
(* what went to a standard stream, met an error or was deleted with its    *)
(* file.  Two files may share a name, and a name may be newer than the     *)
(* time noted in last_roll_time_.  All this is so until fwrite_unlocked of *)
(* one thread and fflush of another overlap.  In any case del_old_files()  *)
(* never takes the file that is being written.                             *)
(***************************************************************************)
FilesInOrder == (~raced => LinesInOrder) /\ FileKept

(* No file has a later name than the latest one, whose name is next to be  *)
(* followed by one that is not earlier.                                    *)
NamesInv ==
  /\ name \in 0..now /\ gone \subseteq 1..lines
  /\ DOMAIN disk \subseteq 0..name
  /\ \A n \in DOMAIN disk : IsBuffer(disk[n])
  /\ \A t \in Callers : pc[t] \in {"close", "open"} => filename \in name..now

FilesInv == NamesInv /\ LinesInOrder

(* A file under way is too young for del_old_files(). *)
YoungInv ==
  /\ FileKept
  /\ \A t \in Callers :
       /\ pc[t] \in {"name", "close", "open", "delete"} => now <= read_at + Retain
       /\ pc[t] \in {"close", "open"} => read_at <= filename
       /\ pc[t] = "delete" /\ file # 0 => read_at <= name

AppenderInv ==
  /\ ClockInv /\ LockInv /\ LagInv /\ StdioInv /\ FileLockInv /\ YoungInv
  /\ ~raced => SeenInv /\ MineInv /\ FilesInv

(***************************************************************************)
(* A line goes to the file of a period that has ended at most CheckEvery-1 *)
(* times in a row, whatever the sizes of the lines and however many files  *)
(* were opened for their size in between.                                  *)
(***************************************************************************)
PeriodLag == stale < CheckEvery

(***************************************************************************)
(* When SyncLogger::log() has returned, its line is in no stdio buffer,    *)
(* even if another thread moved on to a new file before it called flush(); *)
(* again, until fwrite_unlocked and fflush of two threads overlap.         *)
(***************************************************************************)
FlushedOnReturn ==
  ~raced => \A t \in Callers : pc[t] = "idle" => mine[t] \notin LinesIn(buffered)

(***************************************************************************)
(* SyncLogger::log() is thread safe: a line whose log() has returned is in *)
(* a file, unless it met an error, and no thread hands a closed FILE to    *)
(* fflush.                                                                 *)
(***************************************************************************)
LogThreadSafe ==
  /\ ~misused
  /\ \A t \in Callers :
       pc[t] = "idle" /\ mine[t] # 0 => mine[t] \in OnDisk \cup gone
=============================================================================
