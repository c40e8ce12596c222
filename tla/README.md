# A TLA+ model of clia

clia is a C++ library with two halves: a reactor network stack (event loop,
poller, channels, TCP connections and server) and a logging stack (asynchronous
logger, appenders), with a few containers and utilities. This directory models
the parts whose correctness depends on orders of events that are hard to test.

## Parts of the system

| Part | Source | Model |
| --- | --- | --- |
| `EventLoop` | `reactor/event_loop.cc` | `EventLoop`, abstract `SerialExecutor` |
| `Epoller`, `Channel` | `reactor/epoller.cc`, `channel.cc` | `Epoller` |
| `EventLoopThread`, `EventLoopThreadPool` | `reactor/event_loop_thread.cc`, `event_loop_thread_pool.cc` | `EventLoopThreadPool` |
| `TcpConnection` | `net/tcp_connection.cc` | `TcpConnection` |
| `TcpServer`, `Acceptor` | `net/tcp_server.cc`, `acceptor.cc`, `socket.cc` | `TcpServer` |
| `net::Buffer` | `net/buffer.cc` | `NetBuffer` |
| `AsyncLogger` (and its `FixedBuffer`) | `log/async_logger.cc`, `container/fixed_buffer.h` | `AsyncLogger` |
| `FileAppender`, `SyncLogger` | `log/file_appender.cc`, `sync_logger.cc` | `FileAppender` |
| `Event`, `LargeEvent`, the macros, `FixedOStream` | `log/event.cc`, `log.h`, `container/fixed_ostream.h` | `LogEvent` |
| `BoundedBlockingQueue`, `CircularBuffer` | `container/` | `BlockingQueue` |

One thread runs each `EventLoop`: it polls, calls the handlers of the active
`Channel`s, then runs the functors that any thread has queued. A `TcpServer`
accepts on its base loop and gives each `TcpConnection` to a loop of the pool;
everything a connection does is a handler or a functor of that loop. A log
statement builds its line in an `Event`, whose destructor hands it to a logger:
`SyncLogger` writes it through an appender at once, `AsyncLogger` has a thread of
its own for that, fed by `log()` under a mutex.

Beside these, `Stores` puts `NetBuffer`, `BlockingQueue` and `LogEvent` together and
`Os` instantiates `Epoller` and `FileAppender`: they hold the definitions that both
a run and the proofs use. The `MC` modules are for TLC alone. Proofs are in the modules
whose names end in `Proofs`, and in `TcpServerLoops`, the first half of the proofs
of `TcpServer`.

`PROJECT.json` lists every component, the source lines of every definition, the
hazards the code is exposed to, and which properties watch them.

## Modules

An assert that concerns the users of a class is a guard of the action. An
assert that concerns the class itself is recorded in a variable `failed`, after
which nothing happens, as in a debug build. Definitions marked "Mutant of X"
are plausible bugs: each makes a property fail, which shows that the property
says something about the code. They are not part of `Next`.

### EventLoop

State: `quit_`, `calling_pending_functors_`, `pending_functors_`, the local
`functors`, the eventfd, the active list, and where each thread is. A step is a
critical section of `mutex_`, one access to an atomic, or one system call.
`QueuePush`/`QueueWakeup` are `queue_in_loop()`, `QuitSet`/`QuitWakeup` are
`quit()`; `LoopEnter`, `LoopCheck`, `PollReady`, `PollNothing`, `HandleRead`,
`HandleIo`, `DoPendingBegin`, `SwapPending`, `RunFunctor`, `DoPendingEnd` follow
`loop()` and `do_pending_functors()` line by line. Channels other than the
wakeup channel are the element `"io"`, whose handler may make any call on the
loop. `SerialExecutor` is what the loop promises to its users (functors run one
at a time, once, in order), and `ImplementsExecutor` says that it does.

### EventLoopThreadPool

The thread of the base loop (`opc`) in `start()`, `get_next_loop()` and the
destructor, and each thread of the pool (`tpc`) in `thread_func()`. The loops are
reduced to `quit_`, the eventfd and the alternation of the test of `quit_` with
`epoll_wait`, which is what `quit()` depends on. `cond_.wait()` may wake up
without reason. A history variable records where `loop()` reset a `quit_` that
the destructor had set already: there the join never returns, and
`JoinReturns` and `NoStuckJoin` say that there is no other way to get stuck.
`threads_` is destroyed from front to back, as in libstdc++. A `quit()` by user
code on a loop of the pool is not modelled.

### Epoller

State: for each `Channel` object its `fd_`, `events_`, `index_` and
`added_to_loop_`; `channels_`; the kernel's interest list; the active list and
how far it has been walked. Objects are constructed and destroyed and
descriptors reused. Handlers may do anything to any channel, within the asserts
of `Channel::remove()` and `EventLoop::remove_channel()`. `epoll_ctl` is
external: ADD of a present entry and MOD or DEL of an absent one fail.

### TcpConnection

One connection: `state_`, the channel's events, `output_buffer_`, the loop's
functors that concern it, and the places that hold a `TcpConnectionPtr` (map
entry, queued and executed functors of a batch, callers, a running handler).
The loop is the executor of module `EventLoop`: `Poll`, the parts of
`handle_event_with_guard()` in their order, then a batch of functors. Other
threads take `send()` and `shutdown()` apart into the test of `state_`, the
assignment, and the queueing. `write()` takes any part of what it is given, or
fails. Each byte carries the number of its message. `RemoveConnectionInLoop` is
the functor on the server's base loop. SIGPIPE is taken to be ignored. EPOLLHUP
without EPOLLIN comes without EPOLLPRI and EPOLLRDHUP too.

### TcpServer

Several connections, each with its descriptor, owner loop, `state_` and channel;
`connections_`; and for the base loop and each loop of the pool its functors, its
round and `quit_`. `NewConnection` is `Acceptor::handle_read()` with
`new_connection()`; `HandleClose`, `RemoveConnectionInLoop` and `ConnectDestroyed`
are the way of a closed connection from its loop to the base loop and back.
A `TcpConnectionPtr` lives in the map, in queued functors and in the functors of
a round until the round ends; where the last one goes, `Destruct` follows at
once, in whichever thread that is, and the descriptor is free for `accept()`.
`DestroyConnection`, `PoolQuit` and `ServerGone` are `~TcpServer()` and its members.
As in `test_server.cc` the server goes out of scope after `loop()` of the base
loop has returned, and before the base loop does. A loop that has quit drops the
functors it still holds. Errors of `accept()` are logged and change nothing; the
`abort()` on an errno that `accept()` does not list is left out. Bytes, and
`shutdown()` by users, are in `TcpConnection`.

`listening_` is not a variable: `start()` tests it in an assert before it calls
`listen()`, behind the `started_++ == 0` that lets one call through.

The starting of the threads, and the `quit()` that `loop()` may erase, are in
`EventLoopThreadPool`; here a loop of the pool runs from the start, which no
functor can tell, as they are queued until it does.

### NetBuffer

The array, its size and the two indices. Bytes are numbered as they are put in,
so that the content shows where each came from. `ReadFd(n)` takes any `n` that
`readv()` can return, up to the room in the array and `sizeof(extrabuf)`: what does
not fit in the array goes to `extrabuf` and is appended from there. At its end
`read_fd()` copies all readable bytes and a terminator to `extrabuf`; where these
are more than it holds, that is recorded in `failed` like a failing assert
(`CopyFailure`). A `readv()` that fails is `ReadFdError`, which makes the copy too.
Copy and move are left out: nothing in the repository uses them.

### AsyncLogger

The buffers of the logger and of `sync_thread()`, message numbers as contents.
`log()` and the critical section of `sync_thread()` are single steps, as both
hold `lck_`; the rest of `sync_thread()` is a step per statement group. The
destructor's flag, notification and join are separate steps. The appender is
the sequence of what it was given, with 0 for a "Dropped" notice. `NothingLost`
accounts for every accepted number: delivered, in one of the buffers, or cut off
and announced; what is delivered is in order and ahead of what is buffered.

### BlockingQueue

The ring (`slots`, `start_`, `end_`, `count_`) and the threads in `put()` and
`take()`.
A critical section is a step; the notification of `put()` follows it after the
mutex is released, that of `take()` is made with the mutex held. Waits may end
without a notification. `take()` is modelled as it is written: it waits while
the buffer is full. Values are numbered as they are put in.

### LogEvent

Threads that construct an `Event` or `LargeEvent`, stream pieces and end the line;
`default_logger_`; the clock, in half seconds; the `thread_local` time buffer. A
piece is a kind (text, integer, newline) and a length, and a line has the position
`cur_` beside its pieces: that decides whether `convert()` leaves a piece out and
whether `add()` aborts. The model notes with each piece streamed where `cur_` was, and
which pieces the line holds. `printf`-style pieces count as text. The clock may be
set back. The digits that `convert()` makes are left out, and with them its table
look-up for negative integers (`str_func.h:28`).

### FileAppender

Threads in `SyncLogger::log()`: `append()` with `lck_` held, then `flush()` without
it. `roll_file()` is a step per reading of the clock and per library call (`Roll`,
`Name`, `Close`, `Open`, `Delete`), so that the clock advances between them; `Open`
takes `fopen` and the fall back to a standard stream together. The directory maps
names, which are the seconds they were made in, to lines; what was written to a
`FILE` is buffered until `fflush` or `fclose`. `fopen`, `fwrite` and `opendir` may
fail; a write that fails adds to `written_bytes_` only what came before the error.

`fflush` and `fclose` lock the `FILE`, `fwrite_unlocked` does not, and `flush()` runs
without `lck_`: an `fwrite` and an `fflush` of two threads may overlap. Each is two
steps, a beginning that takes note of the buffer (`seen`) and an end that acts on
what was noted: `fwrite` puts its line behind what it saw, `fflush` writes what it
saw and resets the buffer. That is how stdio works on its pointers, and it loses
lines or repeats them; the standard gives this data race no meaning at all. The
variable `raced` records that there has been an overlap. What the files hold
(`FilesInOrder`) and what is flushed (`FlushedOnReturn`) is stated up to the first
overlap; what happens with it is the run `log_flush`. That `del_old_files()` never
takes the file being written, and `PeriodLag`, hold in any case.

Assumed: the clock does not go back, the time zone has no daylight saving (names then
sort as time does), the appender is `thread_safe` or used by one thread, one roll
takes less time than the retention period, and the directory is the appender's own
(`del_old_files()` takes every regular file whose name sorts low enough, hidden ones
included, whatever the comment at `file_appender.cc:180` says). That stdio may write
a full buffer earlier is left out: it takes the lines to the same place in the same
order. So are errors of `fflush` and `fclose`, which the code does not look at.

## Runs

| Run | Question | Result |
| --- | --- | --- |
| `loop` | Is no wakeup and no quit lost, is the loop an executor? Is what is queued executed and does `quit()` work without the timeout, and are functors queued before `loop()` executed thanks to it? | holds |
| `pool` | Does `start()` return, are the loops handed out usable and evenly used, does the destructor get stuck other than by the erased `quit()`? | holds |
| `connection` | Stream order, EPOLLOUT exactly when output is buffered, shutdown after drain, asserts and lifetime; is all output written and the shutdown carried out, is a closed connection destroyed? | holds |
| `connection_dtor` | Does the destructor find the connection disconnected, as it asserts? | no |
| `server` | Do the asserts about `connections_`, states and channels hold while descriptors are reused; does a poller keep a dead channel; is a closed connection released; does taking the server down return, and what can fail then? | holds |
| `stores` | Bytes in order and asserts of `make_space()` (Buffer); values in order (BoundedBlockingQueue); whole lines with the right time (Event); three records of a registration that agree, no dangling pointer in the list being walked (Epoller); lines in order over files, files of an ended period, lines flushed when `log()` returns (FileAppender, the first and the last until `fwrite` and `fflush` overlap) | holds |
| `buffer_read` | Is there always room when `read_fd()` is called, as it asserts? | no |
| `buffer_copy` | Does what `read_fd()` asks `readv()` for fit in the `extrabuf` it is copied to? | no |
| `queue_take` | Does `take()` call `front()` on a queue with a value only, as that asserts? | no |
| `logger` | Order and completeness of output, asserts of `sync_thread()`, clean end; does the destructor return, is everything flushed? | holds |
| `logger_append` | Does every message that `log()` lets through fit, as `append()` asserts? | no |
| `log_flush` | Is `SyncLogger::log()` thread safe, as `log()` is required to be? | no |

The six that do not hold:

- `shutdown()` on another thread can overwrite the `kDisconnected` that
  `handle_close()` has set between its test and its assignment; the destructor's
  assert then fails (`tcp_connection.cc:58-59` and `28`).
- A read that fills the input buffer exactly, left unread, makes the assert of
  the next `read_fd()` fail (`buffer.cc:131`).
- `readv()` may return the room in the array and `sizeof(extrabuf)` bytes more, and
  all of it is copied to `extrabuf`, with a terminator, before a callback sees it:
  a read of `sizeof(extrabuf)` bytes or more overflows it, even if the buffer was
  empty (`buffer.cc:133` and `145-146`).
- `take()` waits while the queue is full instead of while it is empty; on an
  empty queue the assert of `front()` fails (`bounded_blocking_queue.h:70`).
- A message of exactly `kBufferSize` bytes passes `log()` and fails the assert of
  `FixedBuffer::append()` (`async_logger.cc:34`, `fixed_buffer.h:100`).
- `flush()` runs without the mutex of `append()`. Its `fflush` can overlap the
  `fwrite_unlocked` of another thread and reset the buffer behind it: that line is in
  no file although its `log()` has returned. With a roll in between, `fflush` gets
  a `FILE` that the other thread has closed; the same property fails
  (`file_appender.cc:74` and `151`, `sync_logger.cc:16`).

Three results describe limits of what holds. `OnlyDroppedFail`: taking a server
down can fail an assert or use a destroyed loop, and only for a connection whose
functor came after the last round of its loop had begun. `LifetimeSafe`: a
connection used by other threads may be used after it is destroyed, as `send()`
and `shutdown()` bind a plain `this`; one that is not may not. If the other threads
only call `send()`, no assert fails; only their `shutdown()` leads to the failure of
`connection_dtor`. `LineWhole`: near the end of a full line an integer is left out
without notice.

For the other failures theorems say where they end. A callback that retrieves
everything meets no failing assert in the next `read_fd()`, and its buffer overflows
`extrabuf` for the reads of `sizeof(extrabuf)` bytes or more and no others
(`EmptiedBufferIsRead`). Messages shorter than `kBufferSize` always fit
(`ShorterMessagesFit`). A `SyncLogger` that one thread uses never flushes a closed
file and never overlaps: its lines are in the files, in order, when `log()` returns
(`OneThreadIsSafe`).

`stores` puts five modules that do not interact into one run: a behaviour picks
one of them, so that their states add up and do not multiply.

### Bounds

- EventLoop: two callers and the loop's thread; four functors. A
  batch can be split by the swap, and a functor can queue another while a third
  thread does too. No symmetry, as liveness is checked in the same run.
- EventLoopThreadPool: up to three threads, up to three uses of each loop: every
  wrap of `next_` for every size, and the destruction of one thread while others
  still start, run or have ended.
- Epoller: three objects on two descriptors: a descriptor is reused while
  another channel is being handled.
- TcpConnection: messages of 0 to 2 bytes, so that a write can take none, a
  part or all of one. Two messages from the loop's thread and one other, so that
  one is buffered behind the other. The proofs cover more threads and messages.
  The violation run needs no message at all.
- TcpServer: pools of zero to two loops; three connections on two descriptors,
  so that a descriptor is reused while its former connection is still being
  destroyed elsewhere, and one loop has two connections.
- NetBuffer: a reserve of 2, an array of 3, an `extrabuf` of 5, 8 bytes in all:
  the array grows, compacts, and overflows into `extrabuf`, several times, and one
  read can return more than `extrabuf` holds.
- BlockingQueue: seven values through a ring of three: both indices go around
  twice. Three threads, so that two wait on different conditions.
- LogEvent: a line of 8, of which `convert()` asks for 3 (for 1024 and 32), and
  integers of 2 characters (for 20); two pieces beside the header fill a
  line exactly, or nearly, or break it. Three times cover a new fraction, a new
  second and a clock set back.
- FileAppender: two threads, three lines of one or two bytes, a roll size of 1, a
  period of 3 and a retention of 2 seconds over four seconds, one error: rolls by
  size and by period, two rolls in one second, a name shared by two files, deletion,
  and an `fwrite` that overlaps an `fflush`. The violation run needs two lines and
  no roll.
- AsyncLogger: buffers of 3 bytes and a threshold of 2 (for 4 MB and 25): with
  six messages two overlong batches occur in one behaviour.

### Fairness

- EventLoop: a thread that is not blocked goes on, and `epoll_wait` returns once
  the eventfd is readable. That the timeout works is a hypothesis of
  `EarlyIsExecuted` alone. Nobody has to call anything.
- EventLoopThreadPool: as for EventLoop; neither the timeout nor a spurious wakeup
  is relied on.
- AsyncLogger: `sync_thread()` is scheduled, `wait_for()` honours its timeout, a
  destructor that has begun continues.
- TcpConnection: the loops run (module EventLoop shows that a queued functor is
  executed) and calls that have begun are finished. Level-triggered epoll
  reports a writable socket again and again, and a peer that stays connected
  reads, so that `write()` does not fail for ever (strong fairness). Callers let
  go of their pointers at some time.
- TcpServer: loops go on with their rounds, destructors run, and the thread of
  the base loop continues when its `loop()` has returned. Nobody has to connect,
  to close or to quit.
- The other modules claim safety only.

## Proofs

TLAPS checks these for every value of the constants:

- `EventLoopProofs`: `TypeOK`, `QueueOrder`, `NoLostWakeup`, `NoLostQuit` and
  the refinement of `SerialExecutor`. `NoLostWakeup` speaks of `epoll_wait` only
  and is not inductive; it is strengthened to every position from which the loop
  gets to `epoll_wait` without passing the swap: there, whatever is pending has
  a wakeup written or about to be written. For that the flag
  `calling_pending_functors_` must be tied to the position of the loop, which is
  why `TypeOK` says so. `NoLostQuit` is inductive as it stands. The refinement
  follows from the invariant.
- `EventLoopThreadPoolProofs`: `TypeOK`, `LoopsUsable`, `Balanced`,
  `NoStuckJoin`. The invariant says that a thread is past the test of `quit_`
  only if the destructor has told it to quit, which keeps the handed-out loops
  alive, and that the loops before `next_` have been used exactly once more than
  the others.
- `AsyncLoggerProofs`: `TypeOK`, `SyncAssertsHold`, `NoSleepOnFullBuffer`,
  `ExitFlushesAll`, `NothingLost`. The invariant counts, for each position of
  `sync_thread()`, how many buffers the batch holds against how many of
  `new_buffer1` and `new_buffer2` were given away: that is why the two asserts
  before `pop_back()` hold, also after the cut to two buffers. For `NothingLost`
  a second part, `OrderInv`, says where messages may be: in order within each
  buffer, and all those of the batch below those of `buffers_`, all those below
  the current buffer's. Lemmas say what each step does to these places (logging,
  taking the batch, the cut, an append, the reuse of a buffer); the theorem is
  that they still add up to what was accepted. `ShorterMessagesFit` states
  `AppendAssertHolds` for sets of lengths without the capacity itself.
- `TcpConnectionProofs`: `TypeOK`, `StreamOrder`, `WritingIffBuffered`,
  `ShutdownAfterDrain`, `LifetimeSafe`, for every set of callers, number of
  sends and length. The stream properties need to know when the channel can be
  written or registered: the control part of the invariant ties `state_`, the
  channel, the position of the loop, the parts of the event still to be handled,
  and the functors and the map entry that remain. A second part follows a
  connection through its phases (to be established, in use, being removed, to be
  destroyed, gone). It holds as long as the other threads have only called `send()`:
  their functors may come at any place of the queue, and none of them changes
  `state_` or brings the connection back to the map. That is why no assert fails;
  that `this` is alive when a functor runs needs, in addition, that no other thread
  has used the connection.
- `TcpServerLoops`, `TcpServerProofs`: `TypeOK`, `ServingAssertsHold`,
  `PolledIsAlive`, `OnlyDroppedFail`, for any number of connections, descriptors
  and loops. The invariant has a part for each kind of state. `LoopInv`: only a
  loop told to quit ends, the pool is told after the base loop has ended and the
  map is empty, and the functors of a queue are distinct and in an order that
  makes sense. `ConnOk`, for each connection: what a functor in a queue says of
  its state, its channel and its map entry, and why it is still alive (in the
  map, about to be destroyed, destroyed, or dropped). `MapInv`: no two living
  connections share a descriptor, which is what makes reuse harmless. `DueInv`:
  a destructor finds the loop of its connection. `DroppedInv`: functors are
  dropped only when base loop and owner have ended. `TcpServerLoops` shows that
  rounds and functors keep it, `TcpServerProofs` the rest: accepting, closing,
  quitting, `~TcpServer()`, and the destructors.
- `StoresProofs`: of `NetBuffer` `TypeOK`, `BytesInOrder`, `SpaceAssertsHold`, with
  reads of every size that `readv()` can return.
  Each operator on buffers (compact, resize, write, retrieve) is shown to keep a
  buffer well formed with the same numbered bytes; the actions combine the
  lemmas. A further invariant, `Roomy` (the array never gets smaller than at first,
  and an empty buffer begins right after the reserve), gives `EmptiedBufferHasRoom`
  and the action property `EmptiedBufferIsRead`. Of `BlockingQueue` `QueueFifo`, for
  every capacity above zero, any number of threads and of calls: `end_` lies
  `count_` slots after `start_` around the end of the array, and lemmas about walking around it show what
  `push_back()` and `pop_front()` do. Of `LogEvent` `IntegersFit`,
  `StampIsCurrent` and `LineWhole`, by `EventInv`: the cached text of a thread is
  that of its cached second, and between constructor and header the cache is that
  of the line under way; an integer is put only where more room is left than any
  has characters; each piece of a line begins where the one before it ends, and a
  piece that the line does not hold is an integer that found too little room.
- `OsProofs`: of `Epoller` `TypeOK`, `RegistrationAgrees`, `ActiveAlive`,
  `ChecksHold`. They are inductive together with the type invariant and three
  facts: no two channels share a descriptor, the channel being handled is no
  longer to be handled, and what is still to be handled is part of the active
  list. Of `FileAppender` `PeriodLag`, `FlushedOnReturn` and `FilesInOrder`, by
  `AppenderInv`. It has a part that holds always and one (`SeenInv`, `MineInv`,
  `FilesInv`) that holds until `raced`: there, whoever is inside `fwrite` or
  `fflush` is alone and sees the buffer as it is (`SeenInv`). `FileLockInv`, always:
  one thread is in `fflush`, on the open `FILE`, which nobody closes meanwhile.
  `PeriodLag`: the lines written late are at most the `count_` since the clock
  was last read, unless a roll is under way that will open a new file.
  `FlushedOnReturn`: a line is buffered only while its thread has yet to flush,
  with the `FILE` it has loaded being the current one, or else that `FILE` was
  closed, which flushes it too. `FilesInOrder`: no file has a later name than the
  latest, and a name being made is not earlier (`NamesInv`), so new lines go behind
  all others, also where two files share a name; while a roll is under way the clock
  is within the retention of its first reading, so the new file is too young to be
  deleted (`YoungInv`, also after an overlap). `OneThreadIsSafe`: the `FILE` that
  the only thread has loaded is still the current one when `fflush` gets it, and
  nothing overlaps it, so `raced` stays false and the second part holds for good.

Assumptions: the loop's thread is not a caller; `None` and `Null` are not
objects; the base loop is not one of the pool; sizes, bounds, descriptors and
times are natural numbers, the retention too; the drop threshold is at least two;
an integer has at least one character and fewer than `convert()` asks for (at most
20 for 64 bits, and 32); the roll period and `check_every_` are above zero. (With
`++count_ >= check_every_`, values of 0 and less do what 1 does.) Each is a named
`ASSUME` that TLC evaluates too. Hypotheses of single theorems are that the capacity
of the queue is above zero (`FirstInFirstOut`), that the initial size of a buffer is
(`EmptiedBufferIsRead`; 1024 in the code), that no message has the length of a whole
buffer (`ShorterMessagesFit`) and that there is one caller (`OneThreadIsSafe`).

Every safety property that a run shows to hold is proved, for `FlushedOnReturn`
and `FilesInOrder` with the same condition on overlaps. Only the liveness
properties are model-checked alone (`QueuedIsExecuted`, `QuitReturns`,
`EarlyIsExecuted`, `StartReturns`, `JoinReturns`, `DestructorReturns`,
`AcceptedIsFlushed`, `OutputCompletes`, `ClosedIsDestroyed`, `ClosedIsReleased`,
`ServerDestructs`): fairness and `ENABLED` are beyond the prover.

`EventInv`, `AppenderInv`, `OrderInv`, the invariant of `TcpServer` and
`EmptiedIsRead` were checked with TLC, on the instances of the runs, before they
were proved.

## Not modelled

- `InetAddress`, the options of `Socket`, the constructor of `Acceptor`,
  `StdoutAppender`, `process`, the text of log lines and of time stamps: system
  calls and conversions that keep no state.
- `LoggerManger::register_logger()` and `logger()`: a map from names, which no macro
  uses. That they and `default_logger()` read without the mutex is a data race
  below the level of the model.
- `CountDownLatch` is used nowhere, and its `wait()` passes a `unique_lock` without
  a mutex to `condition_variable::wait()`, for which the standard gives no
  behaviour to model. `AtomLck` and `LockGuard` are used nowhere. `MemoryPool` is a
  placeholder.
- `CircularBuffer::resize()`, copies and moves of `Buffer`: called nowhere.
- The test programs and the build.
