---------------------------- MODULE StoresProofs ----------------------------
(***************************************************************************)
(* Proofs about what keeps bytes, values and lines.                        *)
(*                                                                         *)
(* Buffer: TypeOK, BytesInOrder and SpaceAssertsHold are inductive         *)
(* together; each operator on buffers is shown to keep a buffer well       *)
(* formed and its bytes in order, and the actions combine them.            *)
(*                                                                         *)
(* BoundedBlockingQueue: it hands out what was put in, in order, for every *)
(* capacity and every set of threads; push_back() and pop_front() are      *)
(* shown to keep what the ring holds, around the end of the array.         *)
(*                                                                         *)
(* Event: an integer always fits, a line is whole but for integers at its  *)
(* end, and its time is that of the Event, for every size of line, piece   *)
(* and clock.                                                              *)
(***************************************************************************)
EXTENDS Stores, Sequences, TLAPS

(* Zenon proves the steps below, and SMT those that need arithmetic or      *)
(* reason about sequences and records.                                     *)
USE ZenonT(60)

(* The bytes g + 1 to p are held by a well-formed buffer. *)
Good(b, g, p) == WellFormed(b) /\ Holds(b, g, p)

(* The same, of the fields of the buffer. *)
Parts(c, s, r, w, g, p) ==
  /\ s \in Nat
  /\ w \in Nat /\ CheapPrepend <= w /\ w <= s
  /\ r \in Nat /\ CheapPrepend <= r /\ r <= w
  /\ c \in [0..(s - 1) -> Nat]
  /\ p = g + (w - r)
  /\ \A i \in r..(w - 1) : c[i] = g + 1 + (i - r)

(* A good buffer is the record of its fields, which are good.              *)
LEMMA GoodParts ==
  ASSUME NEW b, NEW g \in Nat, NEW p \in Nat, Good(b, g, p)
  PROVE  Parts(b.cells, b.size, b.reader, b.writer, g, p)
<1>1. /\ b.size \in Nat /\ b.writer \in CheapPrepend..b.size
      /\ b.reader \in CheapPrepend..b.writer /\ b.cells \in [0..(b.size - 1) -> Nat]
      /\ p = g + (b.writer - b.reader)
      /\ \A i \in b.reader..(b.writer - 1) : b.cells[i] = g + 1 + (i - b.reader)
  BY DEF Good, WellFormed, Holds, Readable
<1>2. /\ b.writer \in Nat /\ CheapPrepend <= b.writer /\ b.writer <= b.size
      /\ b.reader \in Nat /\ CheapPrepend <= b.reader /\ b.reader <= b.writer
  BY <1>1, BufferAssumption, SMT
<1> QED
  BY <1>1, <1>2 DEF Parts

(* The converse: such parts make a well-formed buffer. *)
LEMMA PartsGood ==
  ASSUME NEW c, NEW s, NEW r, NEW w, NEW g \in Nat, NEW p \in Nat,
         Parts(c, s, r, w, g, p)
  PROVE  Good([cells |-> c, size |-> s, reader |-> r, writer |-> w], g, p)
<1> DEFINE b == [cells |-> c, size |-> s, reader |-> r, writer |-> w]
<1>1. b.cells = c /\ b.size = s /\ b.reader = r /\ b.writer = w
  OBVIOUS
<1> HIDE DEF b
<1>2. b = [cells |-> b.cells, size |-> b.size, reader |-> b.reader, writer |-> b.writer]
  BY <1>1 DEF b
<1>3. WellFormed(b)
  BY <1>1, <1>2, BufferAssumption, SMT DEF WellFormed, Parts
<1>4. Holds(b, g, p)
  BY <1>1 DEF Holds, Readable, Parts
<1> QED
  BY <1>3, <1>4 DEF Good, b

(* Compacting moves the readable bytes to the front and frees the rest.    *)
LEMMA CompactedGood ==
  ASSUME NEW b, NEW g \in Nat, NEW p \in Nat, Good(b, g, p)
  PROVE  /\ Good(Compacted(b), g, p)
         /\ Compacted(b).size = b.size
         /\ Compacted(b).writer = CheapPrepend + Readable(b)
<1>1. ASSUME NEW c, NEW s, NEW r, NEW w, Parts(c, s, r, w, g, p)
      PROVE  Parts([i \in 0..(s - 1) |->
                      IF i \in CheapPrepend..(CheapPrepend + (w - r) - 1)
                        THEN c[r + (i - CheapPrepend)] ELSE c[i]],
                   s, CheapPrepend, CheapPrepend + (w - r), g, p)
  <2> DEFINE d == [i \in 0..(s - 1) |->
                     IF i \in CheapPrepend..(CheapPrepend + (w - r) - 1)
                       THEN c[r + (i - CheapPrepend)] ELSE c[i]]
  <2>0. /\ s \in Nat /\ w \in Nat /\ r \in Nat /\ CheapPrepend \in Nat
        /\ CheapPrepend <= r /\ r <= w /\ w <= s
        /\ c \in [0..(s - 1) -> Nat]
        /\ \A i \in r..(w - 1) : c[i] = g + 1 + (i - r)
    BY <1>1, BufferAssumption DEF Parts
  <2>1. ASSUME NEW i \in CheapPrepend..(CheapPrepend + (w - r) - 1)
        PROVE  d[i] \in Nat /\ d[i] = g + 1 + (i - CheapPrepend)
    <3>1. i \in 0..(s - 1)
      BY <2>0, SMT
    <3>2. d[i] = c[r + (i - CheapPrepend)]
      BY <3>1
    <3>3. PICK j \in Nat : j = r + (i - CheapPrepend)
      BY <2>0, SMT
    <3>4. j \in r..(w - 1) /\ j - r = i - CheapPrepend
      BY <2>0, <3>3, SMT
    <3> QED
      BY <2>0, <3>2, <3>3, <3>4, SMT
  <2>2. ASSUME NEW i \in 0..(s - 1)
        PROVE  d[i] \in Nat
    BY <2>0, <2>1
  <2>3. d \in [0..(s - 1) -> Nat]
    BY <2>2
  <2> HIDE DEF d
  <2>4. Parts(d, s, CheapPrepend, CheapPrepend + (w - r), g, p)
    BY <1>1, <2>0, <2>1, <2>3, SMT DEF Parts
  <2> QED
    BY <2>4 DEF d
<1>2. Parts(Compacted(b).cells, b.size, CheapPrepend, CheapPrepend + Readable(b), g, p)
  BY <1>1, GoodParts DEF Compacted, Readable
<1> QED
  BY <1>2, PartsGood DEF Compacted

(* Resizing to a larger array keeps the bytes and the indices.             *)
LEMMA ResizedGood ==
  ASSUME NEW b, NEW g \in Nat, NEW p \in Nat, Good(b, g, p),
         NEW size \in Nat, size >= b.size
  PROVE  /\ Good(Resized(b, size), g, p)
         /\ Resized(b, size).size = size
         /\ Resized(b, size).writer = b.writer
<1>1. ASSUME NEW c, NEW s, NEW r, NEW w, Parts(c, s, r, w, g, p), size >= s
      PROVE  Parts([i \in 0..(size - 1) |-> IF i < s THEN c[i] ELSE 0],
                   size, r, w, g, p)
  BY <1>1, BufferAssumption, SMT DEF Parts
<1>2. Parts(Resized(b, size).cells, size, b.reader, b.writer, g, p)
  BY <1>1, GoodParts DEF Resized
<1> QED
  BY <1>2, PartsGood DEF Resized

(***************************************************************************)
(* ensure_writable_bytes() keeps the bytes, makes the room it promises,    *)
(* and none of the asserts on its way fails.                               *)
(***************************************************************************)
LEMMA EnsuredGood ==
  ASSUME NEW b, NEW g \in Nat, NEW p \in Nat, Good(b, g, p), NEW len \in Nat
  PROVE  /\ Good(Ensured(b, len), g, p)
         /\ len <= Writable(Ensured(b, len))
         /\ EnsureFailure(b, len) = "none"
<1>0. /\ b.size \in Nat /\ b.writer \in Nat /\ b.reader \in Nat
      /\ b.writer <= b.size /\ b.reader <= b.writer /\ CheapPrepend <= b.reader
      /\ CheapPrepend \in Nat
  BY BufferAssumption, SMT DEF Good, WellFormed
<1>1. CASE Writable(b) >= len
  BY <1>0, <1>1, SMT DEF Ensured, EnsureFailure, Writable
<1>2. CASE Writable(b) < len /\ MustGrow(b, len)
  <2>1. b.writer + len \in Nat /\ b.writer + len >= b.size
    BY <1>0, <1>2, SMT DEF Writable
  <2>2. Ensured(b, len) = Resized(b, b.writer + len)
    BY <1>2 DEF Ensured, MakeSpace
  <2>3. len <= Writable(Ensured(b, len))
    BY <1>0, <2>1, <2>2, ResizedGood, SMT DEF Writable
  <2>4. Writable(Ensured(b, len)) = len
    BY <1>0, <2>1, <2>2, ResizedGood, SMT DEF Writable
  <2>5. EnsureFailure(b, len) = "none"
    BY <1>2, <2>4, SMT DEF EnsureFailure
  <2> QED
    BY <2>1, <2>2, <2>3, <2>5, ResizedGood, SMT
<1>3. CASE Writable(b) < len /\ ~MustGrow(b, len)
  <2>1. CheapPrepend < b.reader
    BY <1>0, <1>3, SMT DEF MustGrow, Writable, Prependable
  <2>2. Ensured(b, len) = Compacted(b)
    BY <1>3 DEF Ensured, MakeSpace
  <2>3. Writable(Ensured(b, len)) = b.size - (CheapPrepend + (b.writer - b.reader))
    BY <1>0, <2>2, CompactedGood DEF Writable, Readable
  <2>4. len <= Writable(Ensured(b, len)) /\ Writable(Ensured(b, len)) \in Int
    BY <1>0, <1>3, <2>3, SMT DEF MustGrow, Writable, Prependable
  <2>5. EnsureFailure(b, len) = "none"
    BY <1>3, <2>1, <2>4, SMT DEF EnsureFailure
  <2> QED
    BY <1>0, <2>2, <2>4, <2>5, CompactedGood, SMT
<1> QED
  BY <1>0, <1>1, <1>2, <1>3, SMT DEF Writable

(* Copying len bytes to the writer index, where there is room for them.    *)
LEMMA WrittenGood ==
  ASSUME NEW b, NEW g \in Nat, NEW p \in Nat, Good(b, g, p),
         NEW len \in Nat, len <= Writable(b)
  PROVE  Good(Written(b, p + 1, len), g, p + len)
<1>1. ASSUME NEW c, NEW s, NEW r, NEW w, Parts(c, s, r, w, g, p), len <= s - w
      PROVE  Parts([i \in 0..(s - 1) |->
                      IF i \in w..(w + len - 1) THEN p + 1 + (i - w) ELSE c[i]],
                   s, r, w + len, g, p + len)
  BY <1>1, BufferAssumption, SMT DEF Parts
<1>2. Parts(Written(b, p + 1, len).cells, b.size, b.reader, b.writer + len, g, p + len)
  BY <1>1, GoodParts DEF Written, Writable
<1>3. p + len \in Nat
  BY SMT
<1> QED
  BY <1>2, <1>3, PartsGood DEF Written

(* retrieve() of len readable bytes.                                       *)
LEMMA RetrievedGood ==
  ASSUME NEW b, NEW g \in Nat, NEW p \in Nat, Good(b, g, p),
         NEW len \in Nat, len <= Readable(b)
  PROVE  Good(Retrieved(b, len), g + len, p)
<1>1. ASSUME NEW c, NEW s, NEW r, NEW w, Parts(c, s, r, w, g, p), len < w - r
      PROVE  Parts(c, s, r + len, w, g + len, p)
  BY <1>1, BufferAssumption, SMT DEF Parts
<1>2. ASSUME NEW c, NEW s, NEW r, NEW w, Parts(c, s, r, w, g, p), len = w - r
      PROVE  Parts(c, s, CheapPrepend, CheapPrepend, g + len, p)
  BY <1>2, BufferAssumption, SMT DEF Parts
<1>3. Parts(b.cells, b.size, b.reader, b.writer, g, p)
  BY GoodParts
<1>4. CASE len < Readable(b)
  BY <1>1, <1>3, <1>4, PartsGood, SMT DEF Retrieved, Readable
<1>5. CASE ~(len < Readable(b))
  <2>1. len = b.writer - b.reader
    BY <1>3, <1>5, SMT DEF Readable, Parts
  <2> QED
    BY <1>2, <1>3, <1>5, <2>1, PartsGood, SMT DEF Retrieved, Readable
<1> QED
  BY <1>4, <1>5

-----------------------------------------------------------------------------
IInv == TypeOK /\ BytesInOrder /\ SpaceAssertsHold

(* append() of len bytes, ensure_writable_bytes() included.                *)
LEMMA AppendedGood ==
  ASSUME NEW b, NEW g \in Nat, NEW p \in Nat, Good(b, g, p), NEW len \in Nat
  PROVE  Good(Appended(b, p + 1, len), g, p + len)
BY EnsuredGood, WrittenGood DEF Appended

(* read_fd() adds what it has read, ahead of the copy that it ends with.    *)
LEMMA ReadFdGood ==
  ASSUME put \in Nat, got \in Nat, Good(buf, got, put), NEW n \in Nat, ReadFd(n),
         Writable(buf) # 0
  PROVE  /\ Good(buf', got', put') /\ got' = got /\ put' = put + n
         /\ failed' = CopyFailure(buf')
<1> DEFINE w == Writable(buf)
           full == Written(buf, put + 1, w)
           ensured == EnsureFailure(full, n - w)
<1>1. w \in Nat /\ w <= Writable(buf)
  BY BufferAssumption, SMT DEF Good, WellFormed, Writable
<1>2. got' = got /\ put' = put + n
  BY DEF ReadFd
<1>3. CASE n <= w /\ buf' = Written(buf, put + 1, n) /\ failed' = CopyFailure(buf')
  BY <1>2, <1>3, WrittenGood
<1>4. CASE /\ n > w
           /\ buf' = IF ensured = "none" THEN Appended(full, put + w + 1, n - w) ELSE full
           /\ failed' = IF ensured = "none" THEN CopyFailure(buf') ELSE ensured
  <2>1. n - w \in Nat /\ put + w \in Nat /\ (put + w) + (n - w) = put + n
    BY <1>1, <1>4, SMT
  <2>2. Good(full, got, put + w)
    BY <1>1, WrittenGood
  <2>3. ensured = "none"
    <3> HIDE DEF full, w
    <3> QED
      BY <2>1, <2>2, EnsuredGood DEF ensured
  <2> HIDE DEF full, w, ensured
  <2>4. buf' = Appended(full, (put + w) + 1, n - w) /\ failed' = CopyFailure(buf')
    BY <1>4, <2>3
  <2>5. Good(buf', got, (put + w) + (n - w))
    BY <2>1, <2>2, <2>4, AppendedGood
  <2> QED
    BY <1>2, <2>1, <2>4, <2>5
<1> QED
  BY <1>3, <1>4 DEF ReadFd

(* The constructor leaves an empty, well-formed buffer.                    *)
LEMMA InitIInv == Init => IInv
<1> SUFFICES ASSUME Init PROVE IInv
  OBVIOUS
<1> DEFINE c == [i \in 0..(CheapPrepend + InitialSize - 1) |-> 0]
<1>1. Parts(c, CheapPrepend + InitialSize, CheapPrepend, CheapPrepend, 0, 0)
  BY BufferAssumption, SMT DEF Parts
<1>2. Good(buf, got, put)
  BY <1>1, PartsGood DEF Init
<1> QED
  BY <1>2 DEF Init, IInv, TypeOK, BytesInOrder, SpaceAssertsHold, Good

(* Every call keeps the invariant.                                         *)
LEMMA StepIInv == IInv /\ [Next]_vars => IInv'
<1> SUFFICES ASSUME IInv, [Next]_vars PROVE IInv'
  OBVIOUS
<1>1. put \in Nat /\ got \in Nat
  BY DEF IInv, TypeOK
<1>2. failed = "none" => Good(buf, got, put)
  BY DEF IInv, TypeOK, BytesInOrder, Good
<1>3. ASSUME Good(buf', got', put'), put' \in Nat, got' \in Nat,
             failed' = "none" \/ failed' = CopyFailure(buf')
      PROVE  IInv'
  <2>1. failed' \in {"none", "extrabuf"}
    BY <1>3 DEF CopyFailure
  <2> QED
    BY <1>3, <2>1 DEF IInv, TypeOK, BytesInOrder, SpaceAssertsHold, Good
<1>4. ASSUME NEW n \in 0..MaxBytes, AppendBytes(n) PROVE IInv'
  <2>1. n \in Nat /\ failed = "none"
    BY <1>4, BufferAssumption, SMT DEF AppendBytes
  <2>2. failed' = "none"
    BY <1>1, <1>2, <1>4, <2>1, EnsuredGood DEF AppendBytes
  <2>3. buf' = Appended(buf, put + 1, n) /\ put' = put + n /\ got' = got
    BY <1>4, <2>2 DEF AppendBytes
  <2> QED
    BY <1>1, <1>2, <1>3, <2>1, <2>2, <2>3, AppendedGood, SMT
<1>5. ASSUME NEW n \in 0..MaxBytes, EnsureWritable(n) PROVE IInv'
  <2>1. n \in Nat /\ failed = "none"
    BY <1>5, BufferAssumption, SMT DEF EnsureWritable
  <2>2. failed' = "none"
    BY <1>1, <1>2, <1>5, <2>1, EnsuredGood DEF EnsureWritable
  <2>3. buf' = Ensured(buf, n) /\ put' = put /\ got' = got
    BY <1>5, <2>2 DEF EnsureWritable
  <2> QED
    BY <1>1, <1>2, <1>3, <2>1, <2>2, <2>3, EnsuredGood
<1>6. ASSUME NEW n \in 0..MaxBytes, ReadFd(n) PROVE IInv'
  <2>1. n \in Nat /\ put + n \in Nat /\ failed = "none" /\ Good(buf, got, put)
    BY <1>1, <1>2, <1>6, BufferAssumption, SMT DEF ReadFd
  <2>2. CASE Writable(buf) = 0
    <3>1. failed' = "iov" /\ UNCHANGED <<buf, put, got>>
      BY <1>6, <2>2, SMT DEF ReadFd
    <3> QED
      BY <2>1, <3>1 DEF IInv, TypeOK, BytesInOrder, SpaceAssertsHold
  <2>3. CASE Writable(buf) # 0
    BY <1>1, <1>3, <1>6, <2>1, <2>3, ReadFdGood
  <2> QED
    BY <2>2, <2>3
<1>9. CASE ReadFdError
  <2>1. failed = "none" /\ UNCHANGED <<buf, put, got>>
    BY <1>9 DEF ReadFdError
  <2>2. CASE failed' = "iov"
    BY <2>1, <2>2 DEF IInv, TypeOK, BytesInOrder, SpaceAssertsHold
  <2>3. CASE failed' = CopyFailure(buf')
    BY <1>1, <1>2, <1>3, <2>1, <2>3
  <2> QED
    BY <1>9, <2>1, <2>2, <2>3 DEF ReadFdError
<1>7. ASSUME NEW n \in 0..MaxBytes, Retrieve(n) PROVE IInv'
  <2>1. n \in Nat /\ failed = "none" /\ failed' = "none" /\ n <= Readable(buf)
    BY <1>7, BufferAssumption, SMT DEF Retrieve
  <2>2. buf' = Retrieved(buf, n) /\ put' = put /\ got' = got + n
    BY <1>7 DEF Retrieve
  <2> QED
    BY <1>1, <1>2, <1>3, <2>1, <2>2, RetrievedGood, SMT
<1>8. CASE UNCHANGED vars
  BY <1>8 DEF IInv, TypeOK, BytesInOrder, SpaceAssertsHold, vars
<1> QED
  BY <1>4, <1>5, <1>6, <1>7, <1>8, <1>9 DEF Next, WriteFd, Terminated

(* The three invariants hold together in every reachable state.            *)
THEOREM Inductive == Spec => []IInv
BY InitIInv, StepIInv, PTL DEF Spec

(* No sequence of calls brings the indices of a Buffer out of order, for   *)
(* any reserve, initial size and size of extrabuf.                         *)
THEOREM IndicesInOrder == Spec => []TypeOK
BY Inductive, PTL DEF IInv

(* No sequence of calls loses, repeats or reorders a byte.                 *)
THEOREM ContentsKept == Spec => []BytesInOrder
BY Inductive, PTL DEF IInv

(* The asserts of make_space() and ensure_writable_bytes() never fail.     *)
THEOREM SpaceAsserts == Spec => []SpaceAssertsHold
BY Inductive, PTL DEF IInv

(* The array never shrinks, and an empty buffer begins at its front. *)
Roomy(b) ==
  /\ b.size >= CheapPrepend + InitialSize
  /\ b.reader = b.writer => b.writer = CheapPrepend

(* The indices of a well-formed buffer are numbers in order. *)
LEMMA GoodIndices ==
  ASSUME NEW b, NEW g \in Nat, NEW p \in Nat, Good(b, g, p)
  PROVE  /\ CheapPrepend \in Nat /\ InitialSize \in Nat
         /\ b.size \in Nat /\ b.writer \in Nat /\ b.reader \in Nat
         /\ CheapPrepend <= b.reader /\ b.reader <= b.writer /\ b.writer <= b.size
BY GoodParts, BufferAssumption DEF Parts

(* Neither resizing nor compacting leaves less room. *)
LEMMA EnsuredRoomy ==
  ASSUME NEW b, NEW g \in Nat, NEW p \in Nat, Good(b, g, p), Roomy(b), NEW len \in Nat
  PROVE  Roomy(Ensured(b, len))
<1>1. CASE Ensured(b, len) = b
  BY <1>1
<1>2. CASE Writable(b) < len /\ Ensured(b, len) = Resized(b, b.writer + len)
  <2> DEFINE e == Resized(b, b.writer + len)
  <2>1. e.size = b.writer + len /\ e.reader = b.reader /\ e.writer = b.writer
    BY DEF Resized
  <2>2. b.writer + len >= CheapPrepend + InitialSize
    <3>1. b.size \in Nat /\ b.writer \in Nat /\ CheapPrepend \in Nat /\ InitialSize \in Nat
      BY GoodIndices
    <3>2. b.size - b.writer < len /\ b.size >= CheapPrepend + InitialSize
      BY <1>2 DEF Roomy, Writable
    <3> QED
      BY ONLY <3>1, <3>2, len \in Nat, SMT
  <2> QED
    BY <1>2, <2>1, <2>2 DEF Roomy
<1>3. CASE Ensured(b, len) = Compacted(b)
  <2> DEFINE e == Compacted(b)
  <2>1. e.size = b.size /\ e.reader = CheapPrepend
    BY DEF Compacted
  <2> QED
    BY <1>3, <2>1 DEF Roomy
<1> QED
  BY <1>1, <1>2, <1>3 DEF Ensured, MakeSpace

(* Bytes that are copied behind the writer index make the buffer fuller. *)
LEMMA WrittenRoomy ==
  ASSUME NEW b, NEW g \in Nat, NEW p \in Nat, Good(b, g, p), Roomy(b), NEW n, NEW len \in Nat
  PROVE  Roomy(Written(b, n, len))
<1> DEFINE e == Written(b, n, len)
<1>1. e.size = b.size /\ e.reader = b.reader /\ e.writer = b.writer + len
  BY DEF Written
<1>2. b.reader = b.writer + len => b.reader = b.writer /\ b.writer + len = b.writer
  BY GoodIndices, SMT
<1> QED
  BY <1>1, <1>2 DEF Roomy

(* retrieve() of the last byte brings the indices back to the front. *)
LEMMA RetrievedRoomy ==
  ASSUME NEW b, NEW g \in Nat, NEW p \in Nat, Good(b, g, p), Roomy(b), NEW len \in Nat
  PROVE  Roomy(Retrieved(b, len))
<1> DEFINE e == Retrieved(b, len)
<1>1. e.size = b.size
  BY DEF Retrieved
<1>2. CASE len < Readable(b)
  <2>1. e.reader = b.reader + len /\ e.writer = b.writer
    BY <1>2 DEF Retrieved
  <2>2. b.reader + len # b.writer
    BY <1>2, GoodIndices, SMT DEF Readable
  <2> QED
    BY <1>1, <2>1, <2>2 DEF Roomy
<1>3. CASE ~(len < Readable(b))
  BY <1>1, <1>3 DEF Retrieved, Roomy
<1> QED
  BY <1>2, <1>3

(* An emptied buffer is as good as new: it has room for kInitialSize bytes. *)
EmptiedHasRoom == failed = "none" /\ Readable(buf) = 0 => InitialSize <= Writable(buf)

(* Every call leaves the room that the buffer had at first. *)
LEMMA RoomyStep ==
  ASSUME IInv, failed = "none" => Roomy(buf), [Next]_vars, failed' = "none"
  PROVE  Roomy(buf')
<1>1. put \in Nat /\ got \in Nat
  BY DEF IInv, TypeOK
<1>2. failed = "none" => Good(buf, got, put) /\ Roomy(buf)
  BY DEF IInv, TypeOK, BytesInOrder, Good
<1>3. \A n \in 0..MaxBytes : n \in Nat
  BY BufferAssumption, SMT
<1>4. ASSUME NEW n \in 0..MaxBytes, AppendBytes(n) PROVE Roomy(buf')
  <2>1. failed = "none" /\ buf' = Written(Ensured(buf, n), put + 1, n)
    BY <1>4 DEF AppendBytes, Appended
  <2>2. Good(Ensured(buf, n), got, put) /\ Roomy(Ensured(buf, n))
    BY <1>1, <1>2, <1>3, <2>1, EnsuredGood, EnsuredRoomy
  <2> QED
    BY <1>1, <1>3, <2>1, <2>2, WrittenRoomy
<1>5. ASSUME NEW n \in 0..MaxBytes, EnsureWritable(n) PROVE Roomy(buf')
  BY <1>1, <1>2, <1>3, <1>5, EnsuredRoomy DEF EnsureWritable
<1>6. ASSUME NEW n \in 0..MaxBytes, ReadFd(n) PROVE Roomy(buf')
  <2> DEFINE w == Writable(buf)
             full == Written(buf, put + 1, w)
  <2>1. failed = "none" /\ Good(buf, got, put) /\ Roomy(buf) /\ n \in Nat
    BY <1>2, <1>3, <1>6 DEF ReadFd
  <2>2. w \in Nat /\ w <= Writable(buf) /\ put + w \in Nat
    BY <1>1, <2>1, GoodIndices, SMT DEF Writable
  <2>3. CASE buf' = Written(buf, put + 1, n)
    BY <1>1, <2>1, <2>3, WrittenRoomy
  <2>4. CASE n > w /\ buf' = Appended(full, put + w + 1, n - w)
    <3>1. n - w \in Nat
      BY <2>1, <2>2, <2>4, SMT
    <3>2. Good(full, got, put + w) /\ Roomy(full)
      BY <1>1, <2>1, <2>2, WrittenGood, WrittenRoomy
    <3> HIDE DEF full, w
    <3>3. Good(Ensured(full, n - w), got, put + w) /\ Roomy(Ensured(full, n - w))
      BY <1>1, <2>2, <3>1, <3>2, EnsuredGood, EnsuredRoomy
    <3> QED
      BY <1>1, <2>2, <2>4, <3>1, <3>3, WrittenRoomy DEF Appended
  <2> QED
    BY <1>6, <2>3, <2>4 DEF ReadFd
<1>9. CASE ReadFdError
  BY <1>2, <1>9 DEF ReadFdError
<1>7. ASSUME NEW n \in 0..MaxBytes, Retrieve(n) PROVE Roomy(buf')
  BY <1>1, <1>2, <1>3, <1>7, RetrievedRoomy DEF Retrieve
<1>8. CASE UNCHANGED vars
  BY <1>2, <1>8 DEF vars
<1> QED
  BY <1>4, <1>5, <1>6, <1>7, <1>8, <1>9 DEF Next, WriteFd, Terminated

(* A Buffer whose bytes have all been retrieved has room for kInitialSize   *)
(* bytes, whatever calls have been made on it.                             *)
THEOREM EmptiedBufferHasRoom == Spec => []EmptiedHasRoom
<1> DEFINE RoomInv == failed = "none" => Roomy(buf)
<1>1. Init => RoomInv
  BY BufferAssumption, SMT DEF Init, Roomy
<1>2. IInv /\ RoomInv /\ [Next]_vars => RoomInv'
  BY RoomyStep
<1>3. IInv /\ RoomInv => EmptiedHasRoom
  <2> SUFFICES ASSUME IInv, RoomInv, failed = "none", Readable(buf) = 0
               PROVE  InitialSize <= Writable(buf)
    BY DEF EmptiedHasRoom
  <2>1. Good(buf, got, put) /\ put \in Nat /\ got \in Nat /\ Roomy(buf)
    BY DEF IInv, TypeOK, BytesInOrder, Good
  <2> QED
    BY <2>1, GoodIndices, SMT DEF Readable, Writable, Roomy
<1> HIDE DEF RoomInv
<1> QED
  BY <1>1, <1>2, <1>3, Inductive, PTL DEF Spec

(***************************************************************************)
(* read_fd() on a Buffer that has been emptied fails none of the asserts.   *)
(* What it reads is in order when it is less than extrabuf holds, and when  *)
(* it is not, the copy at the end overflows extrabuf.                       *)
(***************************************************************************)
EmptiedIsRead ==
  \A n \in 0..MaxBytes : ReadFd(n) /\ Readable(buf) = 0 =>
    failed' = IF n < ExtraSize THEN "none" ELSE "extrabuf"

(* For a caller that leaves no byte unread, ReadAssertHolds does not fail,  *)
(* and CopyFits fails for exactly the reads of sizeof(extrabuf) or more.    *)
THEOREM EmptiedBufferIsRead ==
  ASSUME InitialSize > 0
  PROVE  Spec => [][EmptiedIsRead]_vars
<1>1. IInv /\ EmptiedHasRoom /\ [Next]_vars /\ IInv' => [EmptiedIsRead]_vars
  <2> SUFFICES ASSUME IInv, EmptiedHasRoom, IInv', NEW n \in 0..MaxBytes,
                      ReadFd(n), Readable(buf) = 0
               PROVE  failed' = IF n < ExtraSize THEN "none" ELSE "extrabuf"
    BY DEF EmptiedIsRead
  <2>1. failed = "none" /\ InitialSize <= Writable(buf)
    BY DEF ReadFd, EmptiedHasRoom
  <2>2. Writable(buf) # 0
    BY <2>1, BufferAssumption, SMT
  <2>3. n \in Nat /\ put \in Nat /\ got \in Nat /\ Good(buf, got, put)
    BY <2>1, BufferAssumption, SMT DEF IInv, TypeOK, BytesInOrder, Good
  <2>4. Good(buf', got, put + n) /\ failed' = CopyFailure(buf')
    BY <2>2, <2>3, ReadFdGood
  <2>5. put = got + Readable(buf) /\ put + n = got + Readable(buf')
    BY <2>3, <2>4 DEF Good, Holds
  <2>6. PICK k \in Int : k = Readable(buf')
    BY <2>3, <2>4, GoodIndices, SMT DEF Readable
  <2>7. Readable(buf') = n
    <3>1. put = got + 0 /\ put + n = got + k
      BY <2>5, <2>6
    <3>2. k = n
      BY ONLY <2>3, <3>1, k \in Int, SMT
    <3> QED
      BY <2>6, <3>2
  <2> QED
    BY <2>4, <2>7 DEF CopyFailure
<1> QED
  BY <1>1, Inductive, EmptiedBufferHasRoom, PTL DEF Spec

-----------------------------------------------------------------------------
(* The slot that lies n slots after slot i, around the end of the array. *)
Ahead(i, n) == IF i + n < Capacity THEN i + n ELSE i + n - Capacity

RingOk(r) ==
  /\ r = [slots |-> r.slots, start |-> r.start, end |-> r.end, count |-> r.count]
  /\ r.slots \in [0..(Capacity - 1) -> Nat]
  /\ r.start \in 0..(Capacity - 1)
  /\ r.count \in 0..Capacity
  /\ r.end = Ahead(r.start, r.count)

(* The slots of r from start_ on hold the values that follow number n. *)
RingHolds(r, n) == \A i \in 0..(Capacity - 1) : i < r.count => r.slots[Ahead(r.start, i)] = n + 1 + i

QueueInv ==
  /\ RingOk(ring)
  /\ puts \in Nat /\ takes \in Nat /\ taken = takes
  /\ puts = takes + ring.count
  /\ RingHolds(ring, takes)

-----------------------------------------------------------------------------
(* The slot n + 1 after slot i is the slot n after the one that follows i. *)
LEMMA AheadWrap ==
  ASSUME Capacity \in Nat \ {0},
         NEW i \in 0..(Capacity - 1), NEW n \in 0..(Capacity - 1)
  PROVE  /\ Q!Wrap(i + 1) \in 0..(Capacity - 1)
         /\ Ahead(Q!Wrap(i + 1), n) = Ahead(i, n + 1)
<1>1. CASE i + 1 = Capacity
  <2>1. Q!Wrap(i + 1) = 0
    BY <1>1 DEF Q!Wrap
  <2>2. Ahead(0, n) = n /\ Ahead(i, n + 1) = n
    BY <1>1, SMT DEF Ahead
  <2> QED
    BY <2>1, <2>2, SMT
<1>2. CASE i + 1 # Capacity
  <2>1. Q!Wrap(i + 1) = i + 1
    BY <1>2 DEF Q!Wrap
  <2>2. i + 1 \in 0..(Capacity - 1) /\ Ahead(i + 1, n) = Ahead(i, n + 1)
    BY <1>2, SMT DEF Ahead
  <2> QED
    BY <2>1, <2>2
<1> QED
  BY <1>1, <1>2

(* Slot n after slot i is a slot, and the slot that follows it is n + 1 after i. *)
LEMMA AheadNext ==
  ASSUME Capacity \in Nat \ {0},
         NEW i \in 0..(Capacity - 1), NEW n \in 0..(Capacity - 1)
  PROVE  /\ Ahead(i, n) \in 0..(Capacity - 1)
         /\ Q!Wrap(Ahead(i, n) + 1) = Ahead(i, n + 1)
<1>1. CASE i + n < Capacity
  BY <1>1, SMT DEF Ahead, Q!Wrap
<1>2. CASE ~(i + n < Capacity)
  BY <1>2, SMT DEF Ahead, Q!Wrap
<1> QED
  BY <1>1, <1>2

(* Two places of the ring that are not as far ahead are two places. *)
LEMMA AheadApart ==
  ASSUME Capacity \in Nat \ {0}, NEW i \in 0..(Capacity - 1), NEW j \in 0..(Capacity - 1),
         NEW k \in 0..(Capacity - 1), j < k
  PROVE  Ahead(i, j) # Ahead(i, k)
BY SMT DEF Ahead

(* push_back() on a buffer that is not full adds the next value behind the *)
(* others and moves none of them.                                          *)
LEMMA PushBackKeeps ==
  ASSUME Capacity \in Nat \ {0},
         NEW r, RingOk(r), ~Q!Full(r),
         NEW n \in Nat, RingHolds(r, n)
  PROVE  /\ RingOk(Q!PushBack(r, n + r.count + 1))
         /\ RingHolds(Q!PushBack(r, n + r.count + 1), n)
         /\ Q!PushBack(r, n + r.count + 1).count = r.count + 1
<1> DEFINE v == n + r.count + 1
           q == Q!PushBack(r, v)
<1>1. /\ r.count \in 0..(Capacity - 1) /\ r.start \in 0..(Capacity - 1)
      /\ r.slots \in [0..(Capacity - 1) -> Nat]
      /\ r.end = Ahead(r.start, r.count)
  BY SMT DEF RingOk, Q!Full
<1>2. r.end \in 0..(Capacity - 1)
  BY <1>1, AheadNext
<1>0. q = [slots |-> q.slots, start |-> q.start, end |-> q.end, count |-> q.count]
  BY DEF Q!PushBack
<1>3. /\ q.slots = [r.slots EXCEPT ![r.end] = v]
      /\ q.start = r.start
      /\ q.end = Q!Wrap(r.end + 1)
      /\ q.count = r.count + 1
  BY DEF Q!PushBack
<1>4. v \in Nat /\ Capacity \in Nat /\ Capacity > 0
  BY <1>1, SMT
<1> HIDE DEF q, v
<1>5. q.slots \in [0..(Capacity - 1) -> Nat]
  BY <1>1, <1>3, <1>4
<1>6. q.end = Ahead(q.start, q.count)
  <2>1. Q!Wrap(Ahead(r.start, r.count) + 1) = Ahead(r.start, r.count + 1)
    BY <1>1, AheadNext
  <2> QED
    BY <2>1, <1>1, <1>3
<1>7. RingHolds(q, n)
  <2> SUFFICES ASSUME NEW i \in 0..(Capacity - 1), i < q.count
               PROVE  q.slots[Ahead(q.start, i)] = n + 1 + i
    BY DEF RingHolds
  <2>1. Ahead(r.start, i) \in 0..(Capacity - 1)
    BY <1>1, AheadNext
  <2>2. CASE i = r.count
    <3>1. q.slots[r.end] = v
      BY <1>1, <1>2, <1>3
    <3>2. Ahead(q.start, i) = r.end
      BY <2>2, <1>1, <1>3
    <3>3. v = n + 1 + i
      <4>1. r.count \in Nat /\ i \in Nat /\ n \in Nat
        BY <1>1, SMT
      <4> QED
        BY ONLY <4>1, <2>2 DEF v
    <3> QED
      BY <3>1, <3>2, <3>3
  <2>3. CASE i < r.count
    <3>1. Ahead(r.start, i) # r.end
      BY <2>3, <1>1, AheadApart
    <3>2. r.slots[Ahead(r.start, i)] = n + 1 + i
      BY <2>3 DEF RingHolds
    <3>3. q.slots[Ahead(r.start, i)] = r.slots[Ahead(r.start, i)]
      BY <3>1, <2>1, <1>1, <1>2, <1>3
    <3> QED
      BY <3>2, <3>3, <1>3
  <2> QED
    BY <2>2, <2>3, <1>1, <1>3, SMT
<1>8. RingOk(q)
  <2>1. r.count + 1 \in 0..Capacity
    <3>1. r.count \in 0..(Capacity - 1) /\ Capacity \in Nat
      BY <1>1, <1>4
    <3> QED
      BY ONLY <3>1, SMT
  <2> QED
    BY <1>0, <1>1, <1>3, <1>5, <1>6, <2>1 DEF RingOk
<1> QED
  BY <1>3, <1>7, <1>8 DEF q, v

(* front() is the oldest value, and pop_front() leaves the others.         *)
LEMMA PopFrontKeeps ==
  ASSUME Capacity \in Nat \ {0},
         NEW r, RingOk(r), ~Q!Empty(r),
         NEW n \in Nat, RingHolds(r, n)
  PROVE  /\ Q!Front(r) = n + 1
         /\ RingOk(Q!PopFront(r))
         /\ RingHolds(Q!PopFront(r), n + 1)
         /\ Q!PopFront(r).count = r.count - 1
<1> DEFINE q == Q!PopFront(r)
<1>1. /\ r.count \in 1..Capacity /\ r.start \in 0..(Capacity - 1)
      /\ r.slots \in [0..(Capacity - 1) -> Nat]
      /\ r.end = Ahead(r.start, r.count)
  BY SMT DEF RingOk, Q!Empty
<1>0. q = [slots |-> q.slots, start |-> q.start, end |-> q.end, count |-> q.count]
  BY DEF Q!PopFront
<1>2. /\ q.slots = r.slots /\ q.start = Q!Wrap(r.start + 1)
      /\ q.end = r.end /\ q.count = r.count - 1
  BY DEF Q!PopFront
<1> HIDE DEF q
<1>9. Capacity \in Nat /\ Capacity > 0
  BY SMT
<1>3. Q!Front(r) = n + 1
  <2>1. r.slots[Ahead(r.start, 0)] = n + 1 + 0
    BY <1>1, SMT DEF RingHolds
  <2>2. Ahead(r.start, 0) = r.start
    BY <1>1, SMT DEF Ahead
  <2> QED
    BY <2>1, <2>2, SMT DEF Q!Front
<1>4. q.start \in 0..(Capacity - 1) /\ q.end = Ahead(q.start, q.count)
  <2>1. /\ Q!Wrap(r.start + 1) \in 0..(Capacity - 1)
        /\ Ahead(r.start, r.count) = Ahead(Q!Wrap(r.start + 1), r.count - 1)
    <3>1. r.count - 1 \in 0..(Capacity - 1) /\ (r.count - 1) + 1 = r.count
      BY <1>1, <1>9, SMT
    <3>2. /\ Q!Wrap(r.start + 1) \in 0..(Capacity - 1)
          /\ Ahead(Q!Wrap(r.start + 1), r.count - 1) = Ahead(r.start, (r.count - 1) + 1)
      BY <3>1, <1>1, AheadWrap
    <3> QED
      BY <3>1, <3>2
  <2> QED
    BY <2>1, <1>1, <1>2
<1>5. RingHolds(q, n + 1)
  <2> SUFFICES ASSUME NEW i \in 0..(Capacity - 1), i < q.count
               PROVE  q.slots[Ahead(q.start, i)] = n + 1 + 1 + i
    BY DEF RingHolds
  <2>1. i + 1 \in 0..(Capacity - 1) /\ i + 1 < r.count
    <3>1. i < r.count - 1 /\ r.count \in 1..Capacity
      BY <1>1, <1>2
    <3> QED
      BY ONLY <3>1, <1>9, i \in 0..(Capacity - 1)
  <2>2. r.slots[Ahead(r.start, i + 1)] = n + 1 + (i + 1)
    BY <2>1 DEF RingHolds
  <2>3. Ahead(q.start, i) = Ahead(r.start, i + 1)
    <3>1. Ahead(Q!Wrap(r.start + 1), i) = Ahead(r.start, i + 1)
      BY <1>1, AheadWrap
    <3> QED
      BY <3>1, <1>2
  <2> QED
    BY <2>2, <2>3, <1>2, SMT
<1>6. RingOk(q)
  BY <1>0, <1>1, <1>2, <1>4, SMT DEF RingOk
<1> QED
  BY <1>2, <1>3, <1>5, <1>6 DEF q

-----------------------------------------------------------------------------
(* The empty ring holds nothing. *)
LEMMA QueueInit ==
  ASSUME Capacity \in Nat \ {0}
  PROVE  Q!Init => QueueInv
<1> SUFFICES ASSUME Q!Init PROVE QueueInv
  OBVIOUS
<1>1. /\ ring = [slots |-> ring.slots, start |-> ring.start, end |-> ring.end, count |-> ring.count]
      /\ ring.slots = [i \in 0..(Capacity - 1) |-> 0]
      /\ ring.start = 0 /\ ring.end = 0 /\ ring.count = 0
  BY DEF Q!Init
<1>2. RingOk(ring)
  BY <1>1, SMT DEF RingOk, Ahead
<1> QED
  BY <1>1, <1>2, SMT DEF QueueInv, Q!Init, RingHolds

(* Every step keeps what the ring holds: put() adds the next value, take() *)
(* removes the oldest one.                                                 *)
LEMMA QueueStep ==
  ASSUME Capacity \in Nat \ {0}
  PROVE  QueueInv /\ [Q!Next]_Q!vars => QueueInv'
<1> SUFFICES ASSUME QueueInv, [Q!Next]_Q!vars PROVE QueueInv'
  OBVIOUS
<1>1. ASSUME NEW t \in Threads, Q!PutPush(t) PROVE QueueInv'
  <2>1. ring' = Q!PushBack(ring, takes + ring.count + 1)
    BY <1>1 DEF Q!PutPush, QueueInv
  <2>2. /\ RingOk(ring') /\ RingHolds(ring', takes)
        /\ ring'.count = ring.count + 1
    <3>1. RingOk(ring) /\ ~Q!Full(ring) /\ takes \in Nat /\ RingHolds(ring, takes)
      BY <1>1 DEF Q!PutPush, QueueInv
    <3> QED
      BY <2>1, <3>1, PushBackKeeps
  <2>3. /\ puts' = puts + 1 /\ takes' = takes /\ taken' = taken
        /\ ring.count \in Nat
    BY <1>1, SMT DEF Q!PutPush, QueueInv, RingOk
  <2>4. RingHolds(ring', takes') /\ puts' = takes' + ring'.count /\ taken' = takes'
    BY <2>2, <2>3, SMT DEF QueueInv
  <2> QED
    BY <2>2, <2>3, <2>4, SMT DEF QueueInv
<1>2. ASSUME NEW t \in Threads, Q!TakePop(t) PROVE QueueInv'
  <2>1. /\ ring' = Q!PopFront(ring) /\ taken' = Q!Front(ring)
        /\ takes' = takes + 1 /\ puts' = puts
    BY <1>2 DEF Q!TakePop
  <2>2. /\ Q!Front(ring) = takes + 1
        /\ RingOk(ring') /\ RingHolds(ring', takes + 1)
        /\ ring'.count = ring.count - 1
    <3>1. RingOk(ring) /\ ~Q!Empty(ring) /\ takes \in Nat /\ RingHolds(ring, takes)
      BY <1>2 DEF Q!TakePop, QueueInv
    <3> QED
      BY <2>1, <3>1, PopFrontKeeps
  <2>3. ring.count \in Nat
    BY SMT DEF QueueInv, RingOk
  <2>4. RingHolds(ring', takes') /\ puts' = takes' + ring'.count /\ taken' = takes'
    BY <2>1, <2>2, <2>3, SMT DEF QueueInv
  <2> QED
    BY <2>1, <2>2, <2>4, SMT DEF QueueInv
<1>3. ASSUME UNCHANGED <<ring, puts, takes, taken>> PROVE QueueInv'
  BY <1>3 DEF QueueInv, RingOk, RingHolds, Ahead
<1> QED
  BY <1>1, <1>2, <1>3 DEF Q!Next, Q!Step, Q!Call, Q!PutWait, Q!PutNotify, Q!TakeWait, Q!TakeEmpty,
     Q!SpuriousWake, Q!Terminated, Q!vars

(* What the ring holds makes the value taken the oldest one. *)
LEMMA QueueInvFifo ==
  ASSUME Capacity \in Nat \ {0}
  PROVE  QueueInv => QueueFifo
  BY SMT DEF QueueInv, RingOk, RingHolds, Ahead, QueueFifo, Q!QueueFifo, Q!Holds

(***************************************************************************)
(* take() returns the values in the order of put(), each once, for every   *)
(* capacity, any number of threads and any number of calls.                *)
(***************************************************************************)
THEOREM FirstInFirstOut ==
  ASSUME Capacity \in Nat \ {0}
  PROVE  Q!Spec => []QueueFifo
  BY QueueInit, QueueStep, QueueInvFifo, PTL DEF Q!Spec

-----------------------------------------------------------------------------
(* The numbers in a sequence, and that they ascend. *)
Numbers(s) == {s[i] : i \in DOMAIN s}
Ascends(s) == \A i, j \in DOMAIN s : i < j => s[i] < s[j]

(* A number behind the others of an ascending sequence. *)
LEMMA NumberAdded ==
  ASSUME NEW s \in Seq(Nat), Ascends(s), NEW n \in Nat, \A x \in Numbers(s) : x < n
  PROVE  /\ Append(s, n) \in Seq(Nat) /\ Ascends(Append(s, n))
         /\ Numbers(Append(s, n)) = Numbers(s) \cup {n}
<1> DEFINE v == Append(s, n)
<1>1. /\ v \in Seq(Nat) /\ Len(s) \in Nat /\ DOMAIN v = 1..(Len(s) + 1)
      /\ DOMAIN s = 1..Len(s)
      /\ \A i \in DOMAIN v : v[i] = IF i <= Len(s) THEN s[i] ELSE n
  BY SMT
<1> HIDE DEF v
<1>2. /\ \A i \in DOMAIN s : i \in DOMAIN v /\ i <= Len(s)
      /\ \A i \in DOMAIN v : i \in DOMAIN s \/ ~(i <= Len(s))
      /\ Len(s) + 1 \in DOMAIN v /\ ~(Len(s) + 1 <= Len(s))
  BY <1>1, SMT
<1>3. /\ \A i \in DOMAIN s : i \in DOMAIN v /\ v[i] = s[i]
      /\ \A i \in DOMAIN v : (i \in DOMAIN s /\ v[i] = s[i]) \/ v[i] = n
      /\ Len(s) + 1 \in DOMAIN v /\ v[Len(s) + 1] = n
  BY <1>1, <1>2
<1>4. Numbers(v) = Numbers(s) \cup {n}
  BY <1>3 DEF Numbers
<1>5. \A i \in DOMAIN s : s[i] < n
  BY DEF Numbers
<1>6. Ascends(v)
  <2> SUFFICES ASSUME NEW i \in DOMAIN v, NEW j \in DOMAIN v, i < j PROVE v[i] < v[j]
    BY DEF Ascends
  <2>1. i \in DOMAIN s /\ i <= Len(s)
    BY <1>1, SMT
  <2> QED
    BY <1>1, <1>2, <1>5, <2>1 DEF Ascends
<1> QED
  BY <1>1, <1>4, <1>6 DEF v

(* A piece put into an Event leaves it one, with the same origin and stamp; *)
(* a newline ends the line.                                                 *)
LEMMA PutKeeps ==
  ASSUME NEW e, E!IsEvent(e), NEW p, p.len \in Nat, p.kind \in {"text", "int", "newline"}
  PROVE  /\ E!IsEvent(E!Put(e, p))
         /\ E!Put(e, p).born = e.born /\ E!Put(e, p).stamp = e.stamp
         /\ p.kind = "newline" => E!Ended(E!Put(e, p))
<1> DEFINE f == E!Put(e, p)
           n == Len(e.sent) + 1
           r == [kind |-> p.kind, len |-> p.len, at |-> e.cur]
<1>1. /\ {"large", "born", "stamp", "sent", "text", "cur"} \subseteq DOMAIN f
      /\ f.large = e.large /\ f.born = e.born /\ f.stamp = e.stamp
      /\ f.sent = Append(e.sent, r)
      /\ f.text = IF E!Kept(e, p) THEN Append(e.text, n) ELSE e.text
      /\ f.cur = IF E!Kept(e, p) THEN e.cur + p.len ELSE e.cur
  BY SMT DEF E!Put, E!IsEvent
<1>2. /\ e.cur \in Nat /\ e.sent \in Seq(E!Streamed) /\ e.text \in Seq(Nat) /\ E!InPlace(e)
      /\ \A k \in DOMAIN e.sent : e.sent[k].at <= e.cur
      /\ e.cur = IF e.sent = <<>> THEN 0 ELSE E!Behind(e, Len(e.sent))
  BY DEF E!IsEvent
<1>3. r \in E!Streamed /\ r.kind = p.kind /\ r.len = p.len /\ r.at = e.cur
  <2>1. e.cur \in Nat
    BY <1>2
  <2> QED
    BY <2>1 DEF E!Streamed
<1> HIDE DEF f, r
<1>4. /\ f.sent \in Seq(E!Streamed) /\ Len(f.sent) = n /\ n \in Nat /\ 1 <= n
      /\ DOMAIN f.sent = 1..n /\ DOMAIN e.sent = 1..(n - 1)
      /\ \A k \in DOMAIN e.sent : f.sent[k] = e.sent[k]
      /\ f.sent[n] = r /\ f.sent # <<>> /\ (e.sent = <<>> <=> n = 1) /\ Len(e.sent) = n - 1
      /\ \A k \in DOMAIN e.sent : e.sent[k] \in E!Streamed
  <2>1. e.sent \in Seq(E!Streamed) /\ r \in E!Streamed /\ f.sent = Append(e.sent, r)
    BY <1>1, <1>2, <1>3
  <2> QED
    BY ONLY <2>1, SMT DEF n
<1> HIDE DEF n
<1>5. /\ \A k \in DOMAIN f.sent : k \in DOMAIN e.sent \/ k = n
      /\ \A k \in DOMAIN e.sent : k \in DOMAIN f.sent /\ k < n /\ ~(n < k)
      /\ n \in DOMAIN f.sent /\ n \notin DOMAIN e.sent
  BY <1>4, SMT
<1>6. \A k \in DOMAIN e.sent : e.sent[k].at \in Nat /\ e.sent[k].at <= e.cur
  <2>1. \A x \in E!Streamed : x.at \in Nat
    BY SMT DEF E!Streamed
  <2> QED
    BY <1>2, <1>4, <2>1
<1>7. \A k \in E!OnLine(e) : k \in DOMAIN e.sent
  BY <1>2 DEF E!InPlace
<1>8. /\ f.text \in Seq(Nat)
      /\ \A i, j \in DOMAIN f.text : i < j => f.text[i] < f.text[j]
      /\ E!OnLine(f) = IF E!Kept(e, p) THEN E!OnLine(e) \cup {n} ELSE E!OnLine(e)
  <2>1. CASE E!Kept(e, p)
    <3>1. E!OnLine(e) = Numbers(e.text) /\ E!OnLine(f) = Numbers(f.text)
      BY DEF E!OnLine, Numbers
    <3>2. \A x \in Numbers(e.text) : x < n
      BY <1>5, <1>7, <3>1
    <3>3. f.text = Append(e.text, n) /\ e.text \in Seq(Nat) /\ n \in Nat /\ Ascends(e.text)
      BY <1>1, <1>2, <1>4, <2>1 DEF E!InPlace, Ascends
    <3>4. f.text \in Seq(Nat) /\ Ascends(f.text) /\ Numbers(f.text) = Numbers(e.text) \cup {n}
      BY <3>2, <3>3, NumberAdded
    <3> QED
      BY <2>1, <3>1, <3>4 DEF Ascends
  <2>2. CASE ~E!Kept(e, p)
    <3>1. f.text = e.text
      BY <1>1, <2>2
    <3>2. E!OnLine(f) = E!OnLine(e)
      BY <3>1 DEF E!OnLine
    <3> QED
      BY <1>2, <2>2, <3>1, <3>2 DEF E!InPlace
  <2> QED
    BY <2>1, <2>2
<1>9. \A k \in DOMAIN e.sent : E!Behind(f, k) = E!Behind(e, k)
  BY <1>4, <1>5, <1>8 DEF E!Behind
<1>10. E!Behind(f, n) = f.cur
  <2>1. CASE E!Kept(e, p)
    BY <1>1, <1>3, <1>4, <1>8, <2>1 DEF E!Behind
  <2>2. CASE ~E!Kept(e, p)
    <3>1. E!Behind(f, n) = e.cur + 0
      BY <1>3, <1>4, <1>5, <1>7, <1>8, <2>2 DEF E!Behind
    <3> QED
      BY <1>1, <1>2, <2>2, <3>1, SMT
  <2> QED
    BY <2>1, <2>2
<1>11. E!InPlace(f)
  <2>1. E!OnLine(f) \subseteq DOMAIN f.sent
    BY <1>5, <1>7, <1>8
  <2>2. ASSUME NEW k \in DOMAIN f.sent
        PROVE  f.sent[k].at = IF k = 1 THEN 0 ELSE E!Behind(f, k - 1)
    <3>1. CASE k = n
      <4>1. k = 1 \/ (k # 1 /\ k - 1 \in DOMAIN e.sent /\ k - 1 = Len(e.sent))
        BY <1>4, <3>1, SMT
      <4>2. f.sent[k].at = e.cur /\ (k = 1 => e.sent = <<>>) /\ (k # 1 => e.sent # <<>>)
        BY <1>3, <1>4, <3>1
      <4> QED
        BY <1>2, <1>9, <4>1, <4>2
    <3>2. CASE k \in DOMAIN e.sent
      <4>1. k = 1 \/ (k # 1 /\ k - 1 \in DOMAIN e.sent)
        BY <1>4, <3>2, SMT
      <4>2. f.sent[k].at = IF k = 1 THEN 0 ELSE E!Behind(e, k - 1)
        <5>1. e.sent[k].at = IF k = 1 THEN 0 ELSE E!Behind(e, k - 1)
          BY <1>2, <3>2 DEF E!InPlace
        <5>2. f.sent[k] = e.sent[k]
          BY <1>4, <3>2
        <5> QED
          BY <5>1, <5>2
      <4> QED
        BY <1>9, <4>1, <4>2
    <3> QED
      BY <1>5, <3>1, <3>2
  <2>3. ASSUME NEW k \in DOMAIN f.sent \ E!OnLine(f)
        PROVE  /\ ~f.large /\ f.sent[k].kind = "int" /\ Nm - f.sent[k].at < MinConvert
               /\ \A j \in E!OnLine(f) : k < j => f.sent[j].kind # "int"
    <3>1. CASE k = n
      <4>1. ~e.large /\ p.kind = "int" /\ ~(Nm - e.cur >= MinConvert)
        BY <1>8, <2>3, <3>1 DEF E!Kept, E!Avail
      <4>2. Nm - e.cur < MinConvert
        BY <1>2, <4>1, EventAssumption, SMT
      <4>3. \A j \in E!OnLine(f) : ~(k < j)
        BY <1>5, <1>7, <1>8, <2>3, <3>1
      <4> QED
        BY <1>1, <1>3, <1>4, <3>1, <4>1, <4>2, <4>3
    <3>2. CASE k \in DOMAIN e.sent
      <4>1. /\ k \in DOMAIN e.sent \ E!OnLine(e)
            /\ f.sent[k] = e.sent[k]
        BY <1>4, <1>8, <2>3, <3>2
      <4>2. /\ ~e.large /\ e.sent[k].kind = "int" /\ Nm - e.sent[k].at < MinConvert
            /\ \A j \in E!OnLine(e) : k < j => e.sent[j].kind # "int"
        BY <1>2, <4>1 DEF E!InPlace
      <4>3. ~(Nm - e.cur >= MinConvert)
        <5>1. e.sent[k].at \in Nat /\ e.sent[k].at <= e.cur
          BY <1>6, <3>2
        <5>2. Nm \in Nat /\ MinConvert \in Nat /\ Nm - e.sent[k].at < MinConvert
          BY <4>2, EventAssumption
        <5> QED
          BY <1>2, <5>1, <5>2, SMT
      <4>4. E!Kept(e, p) => p.kind # "int"
        BY <4>2, <4>3 DEF E!Kept, E!Avail
      <4>5. ASSUME NEW j \in E!OnLine(f), k < j
            PROVE  f.sent[j].kind # "int"
        <5>1. CASE j \in E!OnLine(e)
          BY <1>4, <1>7, <4>2, <4>5, <5>1
        <5>2. CASE j = n /\ E!Kept(e, p)
          BY <1>3, <1>4, <4>4, <5>2
        <5> QED
          BY <1>8, <5>1, <5>2
      <4> QED
        BY <1>1, <4>1, <4>2, <4>5
    <3> QED
      BY <1>5, <2>3, <3>1, <3>2
  <2> QED
    BY <1>8, <2>1, <2>2, <2>3 DEF E!InPlace
<1>12. f.cur \in Nat /\ \A k \in DOMAIN f.sent : f.sent[k].at <= f.cur
  <2>1. f.cur \in Nat /\ e.cur <= f.cur
    BY <1>1, <1>2, SMT
  <2>2. ASSUME NEW k \in DOMAIN e.sent PROVE f.sent[k].at <= f.cur
    <3>1. e.sent[k].at <= f.cur
      BY <1>2, <1>6, <2>1, SMT
    <3> QED
      BY <1>4, <3>1
  <2> QED
    BY <1>3, <1>4, <1>5, <2>1, <2>2
<1>13. p.kind = "newline" => E!Ended(f)
  BY <1>3, <1>4, <1>8 DEF E!Ended, E!Kept
<1>14. E!IsEvent(f)
  BY <1>1, <1>4, <1>8, <1>10, <1>11, <1>12 DEF E!IsEvent
<1> QED
  BY <1>1, <1>13, <1>14 DEF f

(* An Event that has streamed nothing. *)
LEMMA FreshEvent ==
  ASSUME NEW e, {"large", "born", "stamp", "sent", "text", "cur"} \subseteq DOMAIN e,
         e.sent = <<>>, e.text = <<>>, e.cur = 0
  PROVE  E!IsEvent(e)
<1>1. DOMAIN e.sent = {} /\ E!OnLine(e) = {}
  BY SMT DEF E!OnLine
<1>2. E!InPlace(e)
  BY <1>1, SMT DEF E!InPlace
<1> QED
  BY <1>1, <1>2, SMT DEF E!IsEvent

(* The time stamp is no part of the line. *)
LEMMA StampKeeps ==
  ASSUME NEW e, E!IsEvent(e), NEW x
  PROVE  /\ E!IsEvent([e EXCEPT !.stamp = x])
         /\ [e EXCEPT !.stamp = x].born = e.born /\ [e EXCEPT !.stamp = x].stamp = x
<1> DEFINE f == [e EXCEPT !.stamp = x]
<1>1. /\ {"large", "born", "stamp", "sent", "text", "cur"} \subseteq DOMAIN f
      /\ f.large = e.large /\ f.sent = e.sent /\ f.text = e.text /\ f.cur = e.cur
      /\ f.born = e.born /\ f.stamp = x
  BY SMT DEF E!IsEvent
<1> HIDE DEF f
<1>2. E!OnLine(f) = E!OnLine(e)
  BY <1>1 DEF E!OnLine
<1>3. \A k : E!Behind(f, k) = E!Behind(e, k)
  BY <1>1, <1>2 DEF E!Behind
<1>4. E!InPlace(f)
  BY <1>1, <1>2, <1>3, SMT DEF E!IsEvent, E!InPlace
<1>5. E!IsEvent(f)
  BY <1>1, <1>3, <1>4 DEF E!IsEvent
<1> QED
  BY <1>1, <1>5 DEF f

(* An integer that convert() keeps is one that add() takes. *)
LEMMA IntegerFits ==
  ASSUME NEW e, E!IsEvent(e), NEW n \in Digits
  PROVE  E!Fits(e, E!Piece("int", n))
  <1>1. n \in Nat /\ n < MinConvert
    BY EventAssumption, SMT
  <1>2. e.cur \in Nat
    BY DEF E!IsEvent
  <1> QED
    BY <1>1, <1>2, EventAssumption, SMT DEF E!Fits, E!Kept, E!Avail, E!Piece

(* The initial states satisfy the invariant of Event. *)
LEMMA EventInit ==
  ASSUME E!Init
  PROVE  E!EventInv
  <1>1. E!IsEvent(E!NoEvent)
    BY FreshEvent, SMT DEF E!NoEvent
  <1> QED
    BY <1>1 DEF E!Init, E!EventInv, E!WriterInv

(* Streaming a piece keeps the line, or breaks the program on a text. *)
LEMMA StreamsKeeps ==
  ASSUME E!EventInv, NEW w \in Writers, NEW p, p.len \in Nat, E!Streams(w, p),
         p.kind = "int" => E!Fits(event[w], p), p.kind \in {"text", "int", "newline"}
  PROVE  /\ DOMAIN event' = Writers
         /\ broken' \in {broken, "text", "newline"}
         /\ \A x \in Writers :
              E!IsEvent(event'[x]) /\ event'[x].born = event[x].born /\ event'[x].stamp = event[x].stamp
         /\ \A x \in Writers \ {w} : event'[x] = event[x]
         /\ p.kind = "newline" /\ broken' = "none" => E!Ended(event'[w])
  <1>1. DOMAIN event = Writers /\ \A x \in Writers : E!IsEvent(event[x])
    BY DEF E!EventInv, E!WriterInv
  <1>2. CASE E!Fits(event[w], p)
    <2>1. event' = [event EXCEPT ![w] = E!Put(event[w], p)] /\ broken' = broken
      BY <1>2 DEF E!Streams
    <2> QED
      BY <1>1, <2>1, PutKeeps, SMT
  <1>3. CASE ~E!Fits(event[w], p)
    BY <1>1, <1>3 DEF E!Streams
  <1> QED
    BY <1>2, <1>3

(* A step that does not touch the line of x. *)
LEMMA WriterStays ==
  ASSUME NEW x \in Writers, E!WriterInv(x), cache'[x] = cache[x], event'[x] = event[x],
         event_pc'[x] = event_pc[x], broken' = "none" => broken = "none"
  PROVE  E!WriterInv(x)'
BY DEF E!WriterInv

(* Every step keeps the invariant of Event. *)
LEMMA EventStep ==
  ASSUME E!EventInv, [E!Next]_(E!vars)
  PROVE  E!EventInv'
  <1> USE DEF E!Goes
  <1>1. ASSUME NEW l \in Levels, E!SetDefault(l) PROVE E!EventInv'
    BY <1>1 DEF E!SetDefault, E!EventInv, E!WriterInv
  <1>2. CASE E!Tick
    BY <1>2 DEF E!Tick, E!EventInv, E!WriterInv
  <1>3. ASSUME NEW w \in Writers, NEW level \in Levels, NEW large \in BOOLEAN,
               E!Construct(w, level, large)
        PROVE  E!EventInv'
    <2>1. event_now \in Nat
      BY EventAssumption DEF E!EventInv, E!WriterInv
    <2>2. E!Sec(event_now) \in Nat /\ E!Micro(event_now) \in Nat
      BY <2>1, SMT DEF E!Sec, E!Micro
    <2>3. E!IsEvent([E!NoEvent EXCEPT !.large = large, !.born = event_now])
      BY FreshEvent DEF E!NoEvent
    <2>4. DOMAIN event' = Writers /\ E!IsEvent(event'[w]) /\ event'[w].born = event_now
      BY <1>3, <2>3 DEF E!Construct, E!EventInv, E!NoEvent
    <2>5. /\ cache' \in [Writers -> [last : Nat, sec : Nat, micro : Nat]]
          /\ cache'[w] = [last |-> E!Sec(event_now), sec |-> E!Sec(event_now),
                          micro |-> E!Micro(event_now)]
      BY <1>3, <2>2 DEF E!Construct, E!EventInv, E!WriterInv, E!Slot
    <2>6. /\ UNCHANGED <<event_now, broken>>
          /\ event_pc' = [event_pc EXCEPT ![w] = "stamped"]
          /\ \A x \in Writers \ {w} : cache'[x] = cache[x] /\ event'[x] = event[x]
      BY <1>3 DEF E!Construct, E!EventInv, E!Slot
    <2>7. /\ cache'[w].sec = cache'[w].last
          /\ <<cache'[w].sec, cache'[w].micro>> = E!StampOf(event'[w].born)
      BY <2>4, <2>5, SMT DEF E!StampOf
    <2>8. /\ event_pc' \in [Writers -> {"idle", "stamped", "open", "logged"}]
          /\ event_pc'[w] = "stamped"
          /\ \A x \in Writers \ {w} : event_pc'[x] = event_pc[x]
      BY <2>6, SMT DEF E!EventInv
    <2>9. E!WriterInv(w)'
      BY <2>4, <2>7, <2>8 DEF E!WriterInv
    <2>10. ASSUME NEW x \in Writers \ {w} PROVE E!WriterInv(x)'
      BY <2>6, <2>8, WriterStays DEF E!EventInv
    <2> QED
      BY <2>4, <2>5, <2>6, <2>8, <2>9, <2>10 DEF E!EventInv
  <1>4. ASSUME NEW w \in Writers, NEW n \in Places, E!Header(w, n) PROVE E!EventInv'
    <2> DEFINE e == [event[w] EXCEPT !.stamp = <<cache[w].sec, cache[w].micro>>]
               f == E!Put(e, E!Piece("text", 1))
               g == E!Put(f, E!Piece("int", 1))
               h == E!Put(g, E!Piece("text", n))
    <2>1. E!IsEvent(e) /\ e.born = event[w].born
          /\ e.stamp = <<cache[w].sec, cache[w].micro>>
      BY StampKeeps DEF E!EventInv, E!WriterInv
    <2>2. n \in Nat
      BY EventAssumption
    <2>3. \A k \in {"text", "int"}, m \in Nat :
            E!Piece(k, m).len \in Nat /\ E!Piece(k, m).kind \in {"text", "int", "newline"}
      BY SMT DEF E!Piece
    <2>4. /\ UNCHANGED <<event_now, cache>>
          /\ event_pc[w] = "stamped" /\ event_pc' = [event_pc EXCEPT ![w] = "open"]
          /\ \/ event' = [event EXCEPT ![w] = h] /\ broken' = broken
             \/ event' = event /\ broken' = "text"
      BY <1>4 DEF E!Header, E!Slot
    <2> HIDE DEF e, f, g, h
    <2>5. E!IsEvent(f) /\ f.born = e.born /\ f.stamp = e.stamp
      BY <2>1, <2>3, PutKeeps DEF f
    <2>6. E!IsEvent(g) /\ g.born = f.born /\ g.stamp = f.stamp
      BY <2>3, <2>5, PutKeeps DEF g
    <2>7. E!IsEvent(h) /\ h.born = g.born /\ h.stamp = g.stamp
      BY <2>2, <2>3, <2>6, PutKeeps DEF h
    <2>8. h.born = event[w].born /\ h.stamp = <<cache[w].sec, cache[w].micro>>
      BY <2>1, <2>5, <2>6, <2>7
    <2>9. CASE event' = event /\ broken' = "text"
      BY <2>4, <2>9 DEF E!EventInv, E!WriterInv
    <2>10. CASE event' = [event EXCEPT ![w] = h] /\ broken' = broken
      BY <2>4, <2>7, <2>8, <2>10 DEF E!EventInv, E!WriterInv
    <2> QED
      BY <2>4, <2>9, <2>10
  <1>5. ASSUME NEW w \in Writers, NEW p \in E!Pieces, E!Stream(w, p) PROVE E!EventInv'
    <2>1. p.len \in Nat /\ p.kind \in {"text", "int"}
      BY EventAssumption, SMT DEF E!Pieces, E!Piece
    <2>2. p.kind = "int" => E!Fits(event[w], p)
      BY IntegerFits, SMT DEF E!Pieces, E!Piece, E!EventInv, E!WriterInv
    <2>3. E!Streams(w, p) /\ UNCHANGED <<event_now, cache>> /\ event_pc[w] = "open"
          /\ event_pc' = [event_pc EXCEPT ![w] = "open"]
      BY <1>5 DEF E!Stream
    <2>4. /\ DOMAIN event' = Writers /\ broken' \in {broken, "text", "newline"}
          /\ \A x \in Writers : /\ E!IsEvent(event'[x]) /\ event'[x].born = event[x].born
                               /\ event'[x].stamp = event[x].stamp
          /\ \A x \in Writers \ {w} : event'[x] = event[x]
      BY <2>1, <2>2, <2>3, StreamsKeeps
    <2>5. \A x \in Writers : event_pc'[x] = event_pc[x]
      BY <2>3 DEF E!EventInv
    <2>6. event_pc' = event_pc /\ broken = "none"
      BY <1>5, <2>3, SMT DEF E!Stream, E!EventInv
    <2>7. E!WriterInv(w)'
      BY <2>3, <2>4, <2>6 DEF E!EventInv, E!WriterInv
    <2>8. ASSUME NEW x \in Writers \ {w} PROVE E!WriterInv(x)'
      BY <2>3, <2>4, <2>5, <2>6, WriterStays DEF E!EventInv
    <2> QED
      BY <2>3, <2>4, <2>6, <2>7, <2>8 DEF E!EventInv
  <1>6. ASSUME NEW w \in Writers, E!Finish(w) PROVE E!EventInv'
    <2>1. E!Piece("newline", 1).len \in Nat /\ E!Piece("newline", 1).kind = "newline"
      BY DEF E!Piece
    <2>2. E!Streams(w, E!Piece("newline", 1)) /\ UNCHANGED <<event_now, cache>>
          /\ event_pc[w] = "open" /\ event_pc' = [event_pc EXCEPT ![w] = "logged"]
      BY <1>6 DEF E!Finish
    <2>3. /\ DOMAIN event' = Writers /\ broken' \in {broken, "text", "newline"}
          /\ \A x \in Writers : /\ E!IsEvent(event'[x]) /\ event'[x].born = event[x].born
                               /\ event'[x].stamp = event[x].stamp
          /\ \A x \in Writers \ {w} : event'[x] = event[x]
          /\ broken' = "none" => E!Ended(event'[w])
      BY <2>1, <2>2, StreamsKeeps
    <2>4. /\ broken = "none" /\ event_pc'[w] = "logged"
          /\ event_pc' \in [Writers -> {"idle", "stamped", "open", "logged"}]
          /\ \A x \in Writers \ {w} : event_pc'[x] = event_pc[x]
      BY <1>6, <2>2, SMT DEF E!Finish, E!EventInv
    <2>5. E!WriterInv(w)'
      BY <2>2, <2>3, <2>4 DEF E!EventInv, E!WriterInv
    <2>6. ASSUME NEW x \in Writers \ {w} PROVE E!WriterInv(x)'
      BY <2>2, <2>3, <2>4, WriterStays DEF E!EventInv
    <2> QED
      BY <2>2, <2>3, <2>4, <2>5, <2>6 DEF E!EventInv
  <1>7. ASSUME NEW w \in Writers, E!Return(w) PROVE E!EventInv'
    <2>1. E!IsEvent(E!NoEvent)
      BY FreshEvent, SMT DEF E!NoEvent
    <2> QED
      BY <1>7, <2>1 DEF E!Return, E!EventInv, E!WriterInv
  <1>8. CASE UNCHANGED E!vars
    BY <1>8 DEF E!vars, E!EventInv, E!WriterInv
  <1> QED
    BY <1>1, <1>2, <1>3, <1>4, <1>5, <1>6, <1>7, <1>8 DEF E!Next, E!Terminated

(* Streaming an integer never fails an assert. *)
THEOREM IntegersAlwaysFit == E!Spec => []IntegersFit
  <1>1. E!EventInv => IntegersFit
    BY DEF E!EventInv, IntegersFit, E!IntegersFit
  <1> QED
    BY <1>1, EventInit, EventStep, PTL DEF E!Spec

(* A line shows the time of its construction. *)
THEOREM StampsAreCurrent == E!Spec => []StampIsCurrent
  <1>1. E!EventInv => StampIsCurrent
    BY DEF E!EventInv, E!WriterInv, StampIsCurrent, E!StampIsCurrent
  <1> QED
    BY <1>1, EventInit, EventStep, PTL DEF E!Spec

(* A logged line holds what was streamed, in order, but for late integers. *)
THEOREM LinesAreWhole == E!Spec => []LineWhole
  <1>1. E!EventInv => LineWhole
    BY DEF E!EventInv, E!WriterInv, E!IsEvent, LineWhole, E!LineWhole
  <1> QED
    BY <1>1, EventInit, EventStep, PTL DEF E!Spec
=============================================================================
