------------------------------ MODULE Epoller -------------------------------
(***************************************************************************)
(* clia::reactor::Epoller and Channel, with the part of EventLoop that     *)
(* walks active_channels_.  Everything here runs on the thread of the      *)
(* loop, in handlers ("dispatch") or between two of them ("functors").     *)
(*                                                                         *)
(* The set of registered channels exists three times: as channels_, as     *)
(* the index_ of each Channel, and as the kernel's interest list, which    *)
(* holds raw Channel pointers.  File descriptors are reused: once a        *)
(* Channel is gone and its fd closed, another may get the same fd.         *)
(*                                                                         *)
(* The asserts that bind the users of a Channel (Channel::remove, the      *)
(* destructor, EventLoop::remove_channel) are guards.  The asserts of the  *)
(* Epoller about its own bookkeeping, and the results of epoll_ctl, are    *)
(* recorded in failed.                                                     *)
(***************************************************************************)
EXTENDS Naturals

CONSTANTS
  Channels,  \* Channel objects (addresses)
  Fds,       \* file descriptors
  None       \* no object, no descriptor, no entry

Events == {"read", "write"}
Interest == [ptr : Channels, events : SUBSET Events]

VARIABLES
  fd,             \* fd_ of each Channel; None when no such object exists
  events,         \* events_
  index,          \* index_
  added_to_loop,  \* added_to_loop_
  channels,       \* channels_
  interest,       \* the kernel's list: what epoll_ctl set for each fd
  handling,       \* event_handing_
  active,         \* active_channels_
  todo,           \* the part of it not yet handled
  current,        \* current_active_channel_
  failed          \* the check that has failed

object == <<fd, events, index, added_to_loop>>
walk == <<handling, active, todo, current>>
vars == <<object, channels, interest, walk, failed>>

Init ==
  /\ fd = [c \in Channels |-> None]
  /\ events = [c \in Channels |-> {}]
  /\ index = [c \in Channels |-> "kNew"]
  /\ added_to_loop = [c \in Channels |-> FALSE]
  /\ channels = [f \in Fds |-> None]
  /\ interest = [f \in Fds |-> None]
  /\ handling = FALSE
  /\ active = {} /\ todo = {} /\ current = None
  /\ failed = "none"

-----------------------------------------------------------------------------
(* The constructor, for a descriptor that the kernel has just handed out. *)
Construct(c, f) ==
  /\ fd[c] = None
  /\ \A d \in Channels : fd[d] # f
  /\ fd' = [fd EXCEPT ![c] = f]
  /\ events' = [events EXCEPT ![c] = {}]
  /\ index' = [index EXCEPT ![c] = "kNew"]
  /\ added_to_loop' = [added_to_loop EXCEPT ![c] = FALSE]
  /\ UNCHANGED <<channels, interest, walk, failed>>

(***************************************************************************)
(* Epoller::update(): epoll_ctl.  ADD of a present descriptor and MOD or   *)
(* DEL of an absent one fail and change nothing.                           *)
(***************************************************************************)
CtlAdd(f, c, es) ==
  IF interest[f] = None THEN [interest EXCEPT ![f] = [ptr |-> c, events |-> es]] ELSE interest

CtlMod(f, c, es) ==
  IF interest[f] # None THEN [interest EXCEPT ![f] = [ptr |-> c, events |-> es]] ELSE interest

CtlDel(f) == [interest EXCEPT ![f] = None]

Check(name, ok) == failed' = IF ok THEN failed ELSE name

(***************************************************************************)
(* Channel::update() after events_ became es, with Epoller::update_channel *)
(* for each index_.                                                        *)
(***************************************************************************)
UpdateNew(c, es) ==
  /\ index[c] = "kNew"
  /\ channels' = [channels EXCEPT ![fd[c]] = c]
  /\ index' = [index EXCEPT ![c] = "kAdded"]
  /\ interest' = CtlAdd(fd[c], c, es)
  /\ Check("new", channels[fd[c]] = None /\ interest[fd[c]] = None)

UpdateDeleted(c, es) ==
  /\ index[c] = "kDeleted"
  /\ UNCHANGED channels
  /\ index' = [index EXCEPT ![c] = "kAdded"]
  /\ interest' = CtlAdd(fd[c], c, es)
  /\ Check("deleted", channels[fd[c]] = c /\ interest[fd[c]] = None)

(* Mutant of UpdateAdded: index_ stays kAdded after EPOLL_CTL_DEL. *)
UpdateAddedKeepsIndex(c, es) ==
  /\ index[c] = "kAdded"
  /\ UNCHANGED <<channels, index>>
  /\ interest' = IF es = {} THEN CtlDel(fd[c]) ELSE CtlMod(fd[c], c, es)
  /\ Check("added", channels[fd[c]] = c /\ interest[fd[c]] # None)

UpdateAdded(c, es) ==
  /\ index[c] = "kAdded"
  /\ UNCHANGED channels
  /\ index' = IF es = {} THEN [index EXCEPT ![c] = "kDeleted"] ELSE index
  /\ interest' = IF es = {} THEN CtlDel(fd[c]) ELSE CtlMod(fd[c], c, es)
  /\ Check("added", channels[fd[c]] = c /\ interest[fd[c]] # None)

Update(c, es) ==
  /\ fd[c] # None
  /\ events' = [events EXCEPT ![c] = es]
  /\ added_to_loop' = [added_to_loop EXCEPT ![c] = TRUE]
  /\ UpdateNew(c, es) \/ UpdateDeleted(c, es) \/ UpdateAdded(c, es)
  /\ UNCHANGED <<fd, walk>>

(* enable_reading() and enable_writing() *)
Enable(c, e) == Update(c, events[c] \cup {e})

(* disable_reading() and disable_writing() *)
Disable(c, e) == Update(c, events[c] \ {e})

(* disable_all() *)
DisableAll(c) == Update(c, {})

(* Mutant of MayRemove: any active channel may be removed. *)
MayRemoveAny(c) == fd[c] # None /\ events[c] = {} /\ added_to_loop[c]

(***************************************************************************)
(* The asserts of Channel::remove(), EventLoop::remove_channel() and, for  *)
(* a Channel that was never registered, Epoller::remove_channel().         *)
(***************************************************************************)
MayRemove(c) ==
  /\ fd[c] # None
  /\ events[c] = {}
  /\ added_to_loop[c]
  /\ handling => (c = current \/ c \notin active)

(* Mutant of Remove: the kernel is not told. *)
RemoveNoDel(c) ==
  /\ MayRemove(c)
  /\ added_to_loop' = [added_to_loop EXCEPT ![c] = FALSE]
  /\ channels' = [channels EXCEPT ![fd[c]] = None]
  /\ index' = [index EXCEPT ![c] = "kNew"]
  /\ UNCHANGED <<fd, events, interest, walk, failed>>

(* Channel::remove(), down to Epoller::remove_channel(). *)
Remove(c) ==
  /\ MayRemove(c)
  /\ added_to_loop' = [added_to_loop EXCEPT ![c] = FALSE]
  /\ channels' = [channels EXCEPT ![fd[c]] = None]
  /\ index' = [index EXCEPT ![c] = "kNew"]
  /\ interest' = IF index[c] = "kAdded" THEN CtlDel(fd[c]) ELSE interest
  /\ Check("remove", /\ channels[fd[c]] = c
                     /\ index[c] \in {"kAdded", "kDeleted"}
                     /\ index[c] = "kAdded" => interest[fd[c]] # None)
  /\ UNCHANGED <<fd, events, walk>>

(***************************************************************************)
(* The destructor, whose asserts say that the channel is not being handled *)
(* nor registered, and the close() of its descriptor, which also takes it  *)
(* off the kernel's list.                                                  *)
(***************************************************************************)
Destroy(c) ==
  /\ fd[c] # None
  /\ ~added_to_loop[c]
  /\ c # current
  /\ fd' = [fd EXCEPT ![c] = None]
  /\ interest' = [interest EXCEPT ![fd[c]] = None]
  /\ Check("destroy", channels[fd[c]] # c)
  /\ UNCHANGED <<events, index, added_to_loop, channels, walk>>

-----------------------------------------------------------------------------
(***************************************************************************)
(* Epoller::poll() and fill_active_channels(): the kernel reports some of  *)
(* the descriptors on its list, by the pointers registered for them.  An   *)
(* entry without events can be reported too, for EPOLLHUP and EPOLLERR.    *)
(***************************************************************************)
Poll(ready) ==
  /\ ~handling
  /\ \A f \in ready : interest[f] # None
  /\ handling' = TRUE
  /\ active' = {interest[f].ptr : f \in ready}
  /\ todo' = active'
  /\ Check("fill", \A c \in active' : fd[c] # None /\ channels[fd[c]] = c)
  /\ UNCHANGED <<object, channels, interest, current>>

(* loop(): on to the next active channel, in whatever order they came. *)
HandleEvent(c) ==
  /\ c \in todo
  /\ current' = c
  /\ todo' = todo \ {c}
  /\ UNCHANGED <<object, channels, interest, handling, active, failed>>

EndDispatch ==
  /\ handling
  /\ todo = {}
  /\ handling' = FALSE
  /\ active' = {}
  /\ current' = None
  /\ UNCHANGED <<object, channels, interest, todo, failed>>

Next ==
  \/ \E c \in Channels, f \in Fds : Construct(c, f)
  \/ \E c \in Channels, e \in Events : Enable(c, e) \/ Disable(c, e)
  \/ \E c \in Channels : DisableAll(c) \/ Remove(c) \/ Destroy(c) \/ HandleEvent(c)
  \/ \E ready \in SUBSET Fds : Poll(ready)
  \/ EndDispatch

Spec == Init /\ [][Next]_vars

-----------------------------------------------------------------------------
(* The type invariant. *)
TypeOK ==
  /\ fd \in [Channels -> Fds \cup {None}]
  /\ events \in [Channels -> SUBSET Events]
  /\ index \in [Channels -> {"kNew", "kAdded", "kDeleted"}]
  /\ added_to_loop \in [Channels -> BOOLEAN]
  /\ channels \in [Fds -> Channels \cup {None}]
  /\ interest \in [Fds -> Interest \cup {None}]
  /\ handling \in BOOLEAN
  /\ active \subseteq Channels /\ todo \subseteq active
  /\ current \in Channels \cup {None}
  /\ failed \in {"none", "new", "deleted", "added", "remove", "destroy", "fill"}

(***************************************************************************)
(* The three records of a registration agree: channels_ maps an fd to the  *)
(* live Channel whose index_ says so, and the kernel's list holds exactly  *)
(* the kAdded ones, with their own pointer and current events_.  The       *)
(* kernel therefore never reports a pointer to a destroyed Channel, even   *)
(* when the fd has been reused.                                            *)
(***************************************************************************)
RegistrationAgrees ==
  /\ \A c \in Channels : fd[c] # None =>
       /\ added_to_loop[c] <=> index[c] # "kNew"
       /\ index[c] # "kNew" => channels[fd[c]] = c
  /\ \A f \in Fds :
       /\ channels[f] # None =>
            fd[channels[f]] = f /\ index[channels[f]] # "kNew"
       /\ interest[f] # None =>
            /\ interest[f].ptr = channels[f]
            /\ index[channels[f]] = "kAdded"
            /\ interest[f].events = events[channels[f]]
       /\ (channels[f] # None /\ interest[f] = None) =>
            index[channels[f]] = "kDeleted"

(***************************************************************************)
(* Every channel that loop() has still to handle exists and is registered, *)
(* whatever the handlers before it destroyed: active_channels_ holds no    *)
(* dangling pointer.                                                       *)
(***************************************************************************)
ActiveAlive == \A c \in todo : fd[c] # None /\ channels[fd[c]] = c

(* No assert of the Epoller about its bookkeeping fails, and neither does  *)
(* an epoll_ctl call on account of an entry that is missing or present.    *)
ChecksHold == failed = "none"
=============================================================================
