------------------------------ MODULE LogEvent ------------------------------
(***************************************************************************)
(* clia::log::Event and LargeEvent, which build one log line: the macros   *)
(* of log.h test the default logger, the constructor writes the header,    *)
(* the caller streams pieces, the destructor ends the line and logs it.    *)
(*                                                                         *)
(* An Event keeps its line in a FixedOStream of Nm characters, a LargeEvent*)
(* in a std::stringstream that grows.  A piece is its kind and its length; *)
(* the event notes where each piece was streamed, and the line is the      *)
(* numbers of the pieces that it holds.                                    *)
(* The clock counts half seconds, so that it has seconds and a fraction,   *)
(* and may be set back.  An assert that fails aborts the process.          *)
(***************************************************************************)
EXTENDS Naturals, Sequences

CONSTANTS
  Writers,     \* threads that log
  Nm,          \* size of the FixedOStream
  MinConvert,  \* 32: room that str_func::convert() asks for
  Places,      \* lengths of a file and function name
  Texts,       \* lengths of what a caller streams as text, or by printf
  Digits,      \* lengths of integers
  Levels,      \* a subset of Nat
  NoLogger,    \* default_logger_ before set_default()
  Times,       \* readings of the clock
  MaxPieces    \* bound: pieces streamed into one event

VARIABLES
  default_logger,  \* a logger is known by its level
  now,             \* the clock
  cache,           \* kTimeBuf and kLastUpdateSec
  event,           \* the Event of each thread
  pc,              \* where each thread is
  broken           \* the kind of piece whose assert failed

vars == <<default_logger, now, cache, event, pc, broken>>

NoEvent == [large |-> FALSE, born |-> 0, stamp |-> <<0, 0>>, sent |-> <<>>, text |-> <<>>, cur |-> 0]

Init ==
  /\ default_logger = NoLogger
  /\ now \in Times
  /\ cache = [w \in Writers |-> [last |-> 0, sec |-> 0, micro |-> 0]]
  /\ event = [w \in Writers |-> NoEvent]
  /\ pc = [w \in Writers |-> "idle"]
  /\ broken = "none"

-----------------------------------------------------------------------------
(* Timestamp: sec_since_epoch() and the fraction. *)
Sec(t) == t \div 2
Micro(t) == t % 2

(* Mutant of Slot: the time buffer is shared, not thread_local. *)
SlotShared(w) == CHOOSE x \in Writers : TRUE

(* The thread_local variables of thread w. *)
Slot(w) == w

Piece(kind, len) == [kind |-> kind, len |-> len]

(* What is left behind cur_. *)
Avail(e) == Nm - e.cur

(* Mutant of Kept: convert() does not ask for room. *)
KeptAlways(e, p) == TRUE

(* convert() writes nothing when there is too little room. *)
Kept(e, p) == e.large \/ p.kind # "int" \/ Avail(e) >= MinConvert

(* add() asserts that a place is left behind the piece. *)
Fits(e, p) == e.large \/ ~Kept(e, p) \/ Avail(e) > p.len

(* operator<< and format() of a piece that Fits(). *)
Put(e, p) ==
  [e EXCEPT !.sent = Append(@, [kind |-> p.kind, len |-> p.len, at |-> e.cur]),
            !.text = IF Kept(e, p) THEN Append(@, Len(e.sent) + 1) ELSE @,
            !.cur = IF Kept(e, p) THEN @ + p.len ELSE @]

-----------------------------------------------------------------------------
Goes(w, from, to) == broken = "none" /\ pc[w] = from /\ pc' = [pc EXCEPT ![w] = to]

(* Streams p into the event of w, or aborts. *)
Streams(w, p) ==
  \/ Fits(event[w], p) /\ event' = [event EXCEPT ![w] = Put(@, p)] /\ UNCHANGED broken
  \/ ~Fits(event[w], p) /\ broken' = p.kind /\ UNCHANGED event

(* set_default(): the first one stays. *)
SetDefault(l) ==
  /\ broken = "none"
  /\ default_logger' = IF default_logger = NoLogger THEN l ELSE default_logger
  /\ UNCHANGED <<now, cache, event, pc, broken>>

Tick ==
  /\ broken = "none"
  /\ now' \in Times \ {now}
  /\ UNCHANGED <<default_logger, cache, event, pc, broken>>

(***************************************************************************)
(* The macro lets a line through that the default logger does not find too *)
(* low, and tips_message() brings the time buffer up to date: the seconds  *)
(* when they have changed, the fraction always.                            *)
(***************************************************************************)
Construct(w, level, large) ==
  /\ default_logger # NoLogger /\ default_logger <= level
  /\ Goes(w, "idle", "stamped")
  /\ event' = [event EXCEPT ![w] = [NoEvent EXCEPT !.large = large, !.born = now]]
  /\ cache' = [cache EXCEPT ![Slot(w)] =
       [last |-> Sec(now), sec |-> IF Sec(now) # @.last THEN Sec(now) ELSE @.sec,
        micro |-> Micro(now)]]
  /\ UNCHANGED <<default_logger, now, broken>>

(* tips_message() streams the time, an id, and the place of the log call. *)
Header(w, place) ==
  LET c == cache[Slot(w)]
      e == [event[w] EXCEPT !.stamp = <<c.sec, c.micro>>]
      front == Put(Put(e, Piece("text", 1)), Piece("int", 1))
  IN /\ Goes(w, "stamped", "open")
     /\ \/ /\ Fits(front, Piece("text", place))
           /\ event' = [event EXCEPT ![w] = Put(front, Piece("text", place))]
           /\ UNCHANGED broken
        \/ /\ ~Fits(front, Piece("text", place))
           /\ broken' = "text"
           /\ UNCHANGED event
     /\ UNCHANGED <<default_logger, now, cache>>

Stream(w, p) ==
  /\ Goes(w, "open", "open")
  /\ Len(event[w].sent) < 3 + MaxPieces
  /\ Streams(w, p)
  /\ UNCHANGED <<default_logger, now, cache>>

(* Mutant of Finish: a line that is full is logged without its newline. *)
FinishAsItIs(w) ==
  /\ Goes(w, "open", "logged")
  /\ IF Avail(event[w]) > 1 THEN Streams(w, Piece("newline", 1))
                                 ELSE UNCHANGED <<event, broken>>
  /\ UNCHANGED <<default_logger, now, cache>>

(* The destructor: the newline, and log(). *)
Finish(w) ==
  /\ Goes(w, "open", "logged")
  /\ Streams(w, Piece("newline", 1))
  /\ UNCHANGED <<default_logger, now, cache>>

Return(w) ==
  /\ Goes(w, "logged", "idle")
  /\ event' = [event EXCEPT ![w] = NoEvent]
  /\ UNCHANGED <<default_logger, now, cache, broken>>

(* An assert has ended the program. *)
Terminated == broken # "none" /\ UNCHANGED vars

Pieces == {Piece("text", n) : n \in Texts} \cup {Piece("int", n) : n \in Digits}

Next ==
  \/ \E l \in Levels : SetDefault(l)
  \/ Tick
  \/ \E w \in Writers :
       \/ \E level \in Levels, large \in BOOLEAN : Construct(w, level, large)
       \/ \E n \in Places : Header(w, n)
       \/ \E p \in Pieces : Stream(w, p)
       \/ Finish(w)
       \/ Return(w)
  \/ Terminated

Spec == Init /\ [][Next]_vars

-----------------------------------------------------------------------------
(* The pieces that the line holds, and where the piece k left cur_. *)
OnLine(e) == {e.text[i] : i \in DOMAIN e.text}
Behind(e, k) == e.sent[k].at + (IF k \in OnLine(e) THEN e.sent[k].len ELSE 0)

(***************************************************************************)
(* The line holds pieces in the order in which they were streamed, each at *)
(* the end of the one before.  Only integers are left out, and only by an  *)
(* Event: all from the first one on that found less room than MinConvert.  *)
(***************************************************************************)
InPlace(e) ==
  /\ \A i, j \in DOMAIN e.text : i < j => e.text[i] < e.text[j]
  /\ OnLine(e) \subseteq DOMAIN e.sent
  /\ \A k \in DOMAIN e.sent : e.sent[k].at = IF k = 1 THEN 0 ELSE Behind(e, k - 1)
  /\ \A k \in DOMAIN e.sent \ OnLine(e) :
       /\ ~e.large /\ e.sent[k].kind = "int" /\ Nm - e.sent[k].at < MinConvert
       /\ \A j \in OnLine(e) : k < j => e.sent[j].kind # "int"

(* The newline is the last piece, and on the line. *)
Ended(e) == LET n == Len(e.sent) IN n \in OnLine(e) /\ e.sent[n].kind = "newline"

(***************************************************************************)
(* An inductive invariant.  The pieces end at cur_; the cached seconds are *)
(* those of the last line of the thread, and from the constructor to the   *)
(* header the cache as a whole is that of the line under way.              *)
(***************************************************************************)
Streamed == [kind : {"text", "int", "newline"}, len : Nat, at : Nat]

IsEvent(e) ==
  /\ {"large", "born", "stamp", "sent", "text", "cur"} \subseteq DOMAIN e
  /\ e.cur \in Nat /\ e.sent \in Seq(Streamed) /\ e.text \in Seq(Nat)
  /\ InPlace(e)
  /\ \A k \in DOMAIN e.sent : e.sent[k].at <= e.cur
  /\ e.cur = IF e.sent = <<>> THEN 0 ELSE Behind(e, Len(e.sent))

StampOf(t) == <<Sec(t), Micro(t)>>

WriterInv(w) ==
  /\ IsEvent(event[w])
  /\ cache[w].sec = cache[w].last
  /\ pc[w] = "stamped" => <<cache[w].sec, cache[w].micro>> = StampOf(event[w].born)
  /\ pc[w] \in {"open", "logged"} /\ broken = "none" =>
       event[w].stamp = StampOf(event[w].born)
  /\ pc[w] = "logged" /\ broken = "none" => Ended(event[w])

EventInv ==
  /\ now \in Times
  /\ DOMAIN event = Writers
  /\ cache \in [Writers -> [last : Nat, sec : Nat, micro : Nat]]
  /\ pc \in [Writers -> {"idle", "stamped", "open", "logged"}]
  /\ broken \in {"none", "text", "newline"}
  /\ \A w \in Writers : WriterInv(w)

(***************************************************************************)
(* Streaming an integer aborts no program, however full the line is: what  *)
(* convert() asks for covers the longest integer and the place that add()  *)
(* wants behind it.                                                        *)
(***************************************************************************)
IntegersFit == broken # "int"

(***************************************************************************)
(* A line handed to log() holds everything that was streamed, in order,    *)
(* and ends in a newline.  Only integers may be missing: those streamed    *)
(* into an Event after its line came within MinConvert of the end of the   *)
(* FixedOStream.  No text is ever cut.                                     *)
(***************************************************************************)
LineWhole ==
  \A w \in Writers :
    pc[w] = "logged" /\ broken = "none" => Ended(event[w]) /\ InPlace(event[w])

(***************************************************************************)
(* The time on a line is the time at which its Event was constructed, to   *)
(* the fraction of a second, though the seconds are formatted only when    *)
(* they change, the clock may be set back and other threads log between.   *)
(***************************************************************************)
StampIsCurrent ==
  \A w \in Writers :
    pc[w] \in {"open", "logged"} /\ broken = "none" =>
      event[w].stamp = StampOf(event[w].born)
=============================================================================
