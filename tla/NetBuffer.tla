----------------------------- MODULE NetBuffer ------------------------------
(***************************************************************************)
(* clia::net::Buffer: a growing array with a reader and a writer index.    *)
(*                                                                         *)
(* The bytes that pass through are numbered: the n-th byte put in has the  *)
(* value n, so that what the array holds between the indices shows where   *)
(* each byte came from.  0 is a byte that nobody wrote.  The member        *)
(* functions that retrieve are guarded by the assert that binds their      *)
(* callers; the asserts about the buffer itself, and a copy that does not  *)
(* fit, are recorded in failed, after which nothing happens.               *)
(***************************************************************************)
EXTENDS Integers

CONSTANTS
  CheapPrepend,  \* kCheapPrepend
  InitialSize,   \* kInitialSize
  ExtraSize,     \* sizeof(extrabuf)
  MaxBytes       \* bound: bytes put in during one behaviour

ASSUME BufferAssumption ==
  /\ CheapPrepend \in Nat /\ InitialSize \in Nat /\ ExtraSize \in Nat
  /\ MaxBytes \in Nat

VARIABLES
  buf,     \* buffer_ with its size, reader_index_ and writer_index_
  put,     \* bytes put in so far
  got,     \* bytes retrieved so far
  failed   \* the assert that failed, or the array that overflowed

vars == <<buf, put, got, failed>>

Init ==
  /\ buf = [cells |-> [i \in 0..(CheapPrepend + InitialSize - 1) |-> 0],
            size |-> CheapPrepend + InitialSize,
            reader |-> CheapPrepend, writer |-> CheapPrepend]
  /\ put = 0 /\ got = 0
  /\ failed = "none"

-----------------------------------------------------------------------------
Readable(b) == b.writer - b.reader
Writable(b) == b.size - b.writer
Prependable(b) == b.reader

(* The len bytes from number n on are copied to the writer index. *)
Written(b, n, len) ==
  [cells |-> [i \in 0..(b.size - 1) |->
                IF i \in b.writer..(b.writer + len - 1)
                  THEN n + (i - b.writer) ELSE b.cells[i]],
   size |-> b.size, reader |-> b.reader, writer |-> b.writer + len]

(* resize() of the vector: the cells are kept, new ones are zero. *)
Resized(b, size) ==
  [cells |-> [i \in 0..(size - 1) |-> IF i < b.size THEN b.cells[i] ELSE 0],
   size |-> size, reader |-> b.reader, writer |-> b.writer]

(* The readable bytes are moved to the front. *)
Compacted(b) ==
  [cells |-> [i \in 0..(b.size - 1) |->
                IF i \in CheapPrepend..(CheapPrepend + Readable(b) - 1)
                  THEN b.cells[b.reader + (i - CheapPrepend)] ELSE b.cells[i]],
   size |-> b.size, reader |-> CheapPrepend, writer |-> CheapPrepend + Readable(b)]

(* Mutant of MustGrow: the reserve at the front is counted as room. *)
MustGrowNoReserve(b, len) == Writable(b) + Prependable(b) < len

MustGrow(b, len) == Writable(b) + Prependable(b) < len + CheapPrepend

MakeSpace(b, len) ==
  IF MustGrow(b, len) THEN Resized(b, b.writer + len) ELSE Compacted(b)

(* ensure_writable_bytes(), and the asserts on its way. *)
Ensured(b, len) == IF Writable(b) < len THEN MakeSpace(b, len) ELSE b

EnsureFailure(b, len) ==
  IF Writable(b) < len /\ ~MustGrow(b, len) /\ ~(CheapPrepend < b.reader)
    THEN "make_space"
  ELSE IF Writable(Ensured(b, len)) < len THEN "ensure" ELSE "none"

Appended(b, n, len) == Written(Ensured(b, len), n, len)

-----------------------------------------------------------------------------
(* append() *)
AppendBytes(len) ==
  /\ failed = "none"
  /\ put + len <= MaxBytes
  /\ failed' = EnsureFailure(buf, len)
  /\ buf' = IF failed' = "none" THEN Appended(buf, put + 1, len) ELSE buf
  /\ put' = put + len
  /\ UNCHANGED got

(* ensure_writable_bytes() on its own *)
EnsureWritable(len) ==
  /\ failed = "none"
  /\ failed' = EnsureFailure(buf, len)
  /\ buf' = IF failed' = "none" THEN Ensured(buf, len) ELSE buf
  /\ UNCHANGED <<put, got>>

(* The end of read_fd(): the readable bytes and a terminator are copied to  *)
(* extrabuf, whether they fit or not.                                       *)
CopyFailure(b) == IF Readable(b) < ExtraSize THEN "none" ELSE "extrabuf"

(***************************************************************************)
(* read_fd() when readv() returns n >= 0: what the array has no room for   *)
(* went to extrabuf and is appended from there.                            *)
(***************************************************************************)
ReadFd(n) ==
  LET w == Writable(buf)
      full == Written(buf, put + 1, w)
      ensured == EnsureFailure(full, n - w)
  IN /\ failed = "none"
     /\ n <= w + ExtraSize
     /\ put + n <= MaxBytes
     /\ \/ /\ w = 0
           /\ failed' = "iov"
           /\ UNCHANGED <<buf, put>>
        \/ /\ w > 0 /\ n <= w
           /\ buf' = Written(buf, put + 1, n)
           /\ put' = put + n
           /\ failed' = CopyFailure(buf')
        \/ /\ w > 0 /\ n > w
           /\ buf' = IF ensured = "none" THEN Appended(full, put + w + 1, n - w) ELSE full
           /\ put' = put + n
           /\ failed' = IF ensured = "none" THEN CopyFailure(buf') ELSE ensured
     /\ UNCHANGED got

(* read_fd() when readv() fails: the copy to extrabuf is made all the same. *)
ReadFdError ==
  /\ failed = "none"
  /\ failed' = IF Writable(buf) = 0 THEN "iov" ELSE CopyFailure(buf)
  /\ UNCHANGED <<buf, put, got>>

(* Mutant of Retrieved: only the reader index is reset. *)
RetrievedKeepsWriter(b, len) ==
  [cells |-> b.cells, size |-> b.size, writer |-> b.writer,
   reader |-> IF len < Readable(b) THEN b.reader + len ELSE CheapPrepend]

(* Both indices go back to the front when nothing is left. *)
Retrieved(b, len) ==
  [cells |-> b.cells, size |-> b.size,
   reader |-> IF len < Readable(b) THEN b.reader + len ELSE CheapPrepend,
   writer |-> IF len < Readable(b) THEN b.writer ELSE CheapPrepend]

(* retrieve(), retrieve_as_string() and retrieve_all() *)
Retrieve(len) ==
  /\ failed = "none"
  /\ len <= Readable(buf)
  /\ buf' = Retrieved(buf, len)
  /\ got' = got + len
  /\ UNCHANGED <<put, failed>>

(* write_fd() when write() takes n bytes; nothing happens when it fails. *)
WriteFd(n) == Retrieve(n)

(* An assert has ended the program, or a write behind the end of extrabuf. *)
Terminated ==
  /\ failed # "none"
  /\ UNCHANGED vars

Next ==
  \/ \E n \in 0..MaxBytes :
       \/ ReadFd(n) \/ AppendBytes(n) \/ EnsureWritable(n) \/ Retrieve(n) \/ WriteFd(n)
  \/ ReadFdError
  \/ Terminated

Spec == Init /\ [][Next]_vars

-----------------------------------------------------------------------------
WellFormed(b) ==
  /\ b = [cells |-> b.cells, size |-> b.size, reader |-> b.reader, writer |-> b.writer]
  /\ b.size \in Nat
  /\ b.writer \in CheapPrepend..b.size
  /\ b.reader \in CheapPrepend..b.writer
  /\ b.cells \in [0..(b.size - 1) -> Nat]

(***************************************************************************)
(* The type invariant.  The reserve, reader_index_, writer_index_ and the  *)
(* size are in order, so that the unsigned differences readable_bytes()    *)
(* and writable_bytes() never wrap around and no index leaves the array.   *)
(***************************************************************************)
TypeOK ==
  /\ WellFormed(buf)
  /\ put \in Nat /\ got \in Nat
  /\ failed \in {"none", "make_space", "ensure", "iov", "extrabuf"}

(* b holds the bytes with the numbers g + 1 to p. *)
Holds(b, g, p) ==
  /\ p = g + Readable(b)
  /\ \A i \in b.reader..(b.writer - 1) : b.cells[i] = g + 1 + (i - b.reader)

(***************************************************************************)
(* What is readable is what was put in and not yet retrieved, in order:    *)
(* growing, compacting and the detour through extrabuf lose, repeat or     *)
(* move no byte.                                                           *)
(***************************************************************************)
BytesInOrder == failed = "none" => Holds(buf, got, put)

(* The asserts of make_space() and ensure_writable_bytes() hold.           *)
SpaceAssertsHold == failed \notin {"make_space", "ensure"}

(* The assert of read_fd() holds: the array has room when it is called.    *)
ReadAssertHolds == failed # "iov"

(* What read_fd() asks readv() for, it can also copy back to extrabuf.     *)
CopyFits == failed # "extrabuf"
=============================================================================
