----------------------------- MODULE RingBuffer ------------------------------
(***************************************************************************)
(* lwrb: a ring buffer that one writer and one reader use without a lock.  *)
(* The writer owns w and only looks at r, the reader owns r and only looks *)
(* at w; each call looks once, then copies byte by byte, then moves its    *)
(* own index.  The two are equal when the buffer is empty, so one slot is  *)
(* always unused.  The writer may be hardware: it asks for the linear      *)
(* block, fills it and calls advance; the reader likewise with skip.       *)
(***************************************************************************)
EXTENDS Integers, Sequences

CONSTANTS
  Size,   (* the number of bytes of the buffer's memory                    *)
  Value,  (* the bytes                                                     *)
  Data    (* what writers pass                                             *)

ASSUME SizeAssumption == Size \in Nat \ {0}
ASSUME DataAssumption == Data \subseteq Seq(Value) \ {<<>>}

Slots == 0 .. Size - 1

VARIABLES
  ready,  (* buff is set: lwrb_init was called, lwrb_free not              *)
  mem,    (* the bytes of buff                                             *)
  w, r,   (* the write and the read index                                  *)
  wop,    (* writer: the call it is in                                     *)
  wdata,  (* writer: the data of the call                                  *)
  wn,     (* writer: btw or len, how many bytes it writes                  *)
  wi,     (* writer: how many it has written                               *)
  rop,    (* reader: the call it is in                                     *)
  roff,   (* reader: skip_count of a peek                                  *)
  rn,     (* reader: btr, btp or len                                       *)
  rbuf,   (* reader: the bytes copied so far                               *)
  got     (* reader: the result of the last call that returned data        *)

writerVars == <<wop, wdata, wn, wi>>
readerVars == <<rop, roff, rn, rbuf, got>>
vars == <<ready, mem, w, r, writerVars, readerVars>>

Least(m, n) == IF m < n THEN m ELSE n

\* lwrb_get_full and lwrb_get_free, for the values of w and r they have read.
Full(a, b) == IF a = b THEN 0 ELSE IF a > b THEN a - b ELSE Size - (b - a)
Free(a, b) == (IF a = b THEN Size ELSE IF b > a THEN b - a ELSE Size - (a - b)) - 1

\* Mutant: the slot that tells full from empty is given away when r is 0.
WriteBlockWhole(a, b) == IF a >= b THEN Size - a ELSE b - a - 1

\* The bytes from w, or from r, to the end of what is free, or written, or to
\* the end of the memory.
WriteBlock(a, b) == IF a >= b THEN Size - a - (IF b = 0 THEN 1 ELSE 0) ELSE b - a - 1
ReadBlock(a, b)  == IF a > b THEN a - b ELSE IF b > a THEN Size - b ELSE 0

\* The slot of byte i of a copy that begins at p: the linear part up to the
\* end of the memory, then the part at its beginning.
At(p, i) == IF i < Size - p THEN p + i ELSE i - (Size - p)

\* Mutant: an index that has reached the end of the memory stays there.
AfterCopyNoEnd(p, n) ==
  LET tocopy == Least(Size - p, n) IN IF n > tocopy THEN n - tocopy ELSE p + tocopy

\* Where the two steps of a copy leave the index.
AfterCopy(p, n) ==
  LET tocopy == Least(Size - p, n)
      end    == IF n > tocopy THEN n - tocopy ELSE p + tocopy
  IN IF end >= Size THEN 0 ELSE end

\* Where advance and skip leave it.
AfterSkip(p, n) == IF p + n >= Size THEN p + n - Size ELSE p + n

Init ==
  /\ ready = FALSE
  /\ mem \in [Slots -> Value]
  /\ w = 0 /\ r = 0
  /\ wop = "idle" /\ wdata = <<>> /\ wn = 0 /\ wi = 0
  /\ rop = "idle" /\ roff = 0 /\ rn = 0 /\ rbuf = <<>> /\ got = <<>>

-----------------------------------------------------------------------------
(* The handle: the caller sees to it that no call is under way. *)

Idle == wop = "idle" /\ rop = "idle"

InitHandle ==
  /\ Idle /\ ready' = TRUE /\ w' = 0 /\ r' = 0
  /\ UNCHANGED <<mem, writerVars, readerVars>>

FreeHandle ==
  /\ Idle /\ ready /\ ready' = FALSE
  /\ UNCHANGED <<mem, w, r, writerVars, readerVars>>

Reset ==
  /\ Idle /\ ready /\ w' = 0 /\ r' = 0
  /\ UNCHANGED <<ready, mem, writerVars, readerVars>>

-----------------------------------------------------------------------------
(* The writer *)

\* lwrb_write has read r and knows how much it may write.
WriteCall(d) ==
  /\ ready /\ wop = "idle"
  /\ LET n == Least(Free(w, r), Len(d)) IN n > 0 /\ wn' = n
  /\ wop' = "write" /\ wdata' = d /\ wi' = 0
  /\ UNCHANGED <<ready, mem, w, r, readerVars>>

\* The writer has asked for the linear block, and fills some of it.
BlockCall(d) ==
  /\ ready /\ wop = "idle"
  /\ Len(d) <= WriteBlock(w, r)
  /\ wop' = "advance" /\ wdata' = d /\ wn' = Len(d) /\ wi' = 0
  /\ UNCHANGED <<ready, mem, w, r, readerVars>>

Store ==
  /\ wop # "idle" /\ wi < wn
  /\ mem' = [mem EXCEPT ![IF wop = "write" THEN At(w, wi) ELSE w + wi] = wdata[wi + 1]]
  /\ wi' = wi + 1
  /\ UNCHANGED <<ready, w, r, wop, wdata, wn, readerVars>>

WriterDone == wop' = "idle" /\ wdata' = <<>> /\ wn' = 0 /\ wi' = 0

\* Mutant: the index moves when the linear part has been copied.
WriteEndEarly ==
  /\ wop = "write" /\ wi = Least(Size - w, wn)
  /\ w' = AfterCopy(w, wn)
  /\ WriterDone
  /\ UNCHANGED <<ready, mem, r, readerVars>>

\* The bytes are written; moving w makes them visible.
WriteEnd ==
  /\ wop = "write" /\ wi = wn
  /\ w' = AfterCopy(w, wn)
  /\ WriterDone
  /\ UNCHANGED <<ready, mem, r, readerVars>>

\* lwrb_advance reads r again.
Advance ==
  /\ wop = "advance" /\ wi = wn
  /\ w' = AfterSkip(w, Least(wn, Free(w, r)))
  /\ WriterDone
  /\ UNCHANGED <<ready, mem, r, readerVars>>

-----------------------------------------------------------------------------
(* The reader *)

ReaderStarts(op, off, n) ==
  /\ ready /\ rop = "idle" /\ n > 0
  /\ rop' = op /\ roff' = off /\ rn' = n /\ rbuf' = <<>>
  /\ UNCHANGED <<ready, mem, w, r, writerVars, got>>

\* lwrb_read, lwrb_peek and lwrb_skip have read w; the application has asked
\* for the linear block and reads some of it.
ReadCall(n)      == ReaderStarts("read", 0, Least(Full(w, r), n))
PeekCall(off, n) == off < Full(w, r) /\ ReaderStarts("peek", off, Least(Full(w, r) - off, n))
SkipCall(n)      == ReaderStarts("drop", 0, Least(n, Full(w, r)))
BlockReadCall(n) == n <= ReadBlock(w, r) /\ ReaderStarts("skip", 0, n)

Load ==
  /\ rop \in {"read", "peek", "skip"} /\ Len(rbuf) < rn
  /\ rbuf' = Append(rbuf, mem[IF rop = "skip" THEN r + Len(rbuf)
                              ELSE At(At(r, roff), Len(rbuf))])
  /\ UNCHANGED <<ready, mem, w, r, writerVars, rop, roff, rn, got>>

ReaderDone == rop' = "idle" /\ roff' = 0 /\ rn' = 0 /\ rbuf' = <<>>

\* Mutant: the space is given back while it is still being read.
ReadEndEarly ==
  /\ rop = "read" /\ Len(rbuf) = 0
  /\ r' = AfterCopy(r, rn)
  /\ UNCHANGED <<ready, mem, w, writerVars, readerVars>>

ReadEnd ==
  /\ rop = "read" /\ Len(rbuf) = rn
  /\ r' = AfterCopy(r, rn)
  /\ got' = rbuf /\ ReaderDone
  /\ UNCHANGED <<ready, mem, w, writerVars>>

PeekEnd ==
  /\ rop = "peek" /\ Len(rbuf) = rn
  /\ got' = rbuf /\ ReaderDone
  /\ UNCHANGED <<ready, mem, w, r, writerVars>>

\* The end of lwrb_skip, after a linear block was read or without reading.
SkipEnd ==
  /\ \/ rop = "skip" /\ Len(rbuf) = rn /\ got' = rbuf
     \/ rop = "drop" /\ got' = got
  /\ r' = AfterSkip(r, Least(rn, Full(w, r)))
  /\ ReaderDone
  /\ UNCHANGED <<ready, mem, w, writerVars>>

-----------------------------------------------------------------------------
Writer == \/ \E d \in Data : WriteCall(d) \/ BlockCall(d)
          \/ Store \/ WriteEnd \/ Advance

Reader ==
  \/ \E n \in 1 .. Size : ReadCall(n) \/ SkipCall(n) \/ BlockReadCall(n)
  \/ \E n \in 1 .. Size, off \in 0 .. Size - 1 : PeekCall(off, n)
  \/ Load \/ ReadEnd \/ PeekEnd \/ SkipEnd

Next == Writer \/ Reader \/ InitHandle \/ FreeHandle \/ Reset

Spec == Init /\ [][Next]_vars

-----------------------------------------------------------------------------
\* Every variable holds a value the program can give it.
TypeOK ==
  /\ ready \in BOOLEAN
  /\ mem \in [Slots -> Value]
  /\ w \in Slots /\ r \in Slots
  /\ wop \in {"idle", "write", "advance"}
  /\ wdata \in Seq(Value) /\ wn \in 0 .. Size - 1 /\ wi \in 0 .. wn
  /\ rop \in {"idle", "read", "peek", "skip", "drop"}
  /\ roff \in Slots /\ rn \in 0 .. Size - 1
  /\ rbuf \in Seq(Value) /\ Len(rbuf) <= rn
  /\ got \in Seq(Value)

\* The bytes between the indices, from the oldest.
Contents == [i \in 1 .. Full(w, r) |-> mem[At(r, i - 1)]]

\* What the reader has copied is what the buffer holds at that place, and stays
\* so while the writer goes on: nothing is overwritten before it is read.
ReadsTrue ==
  rop # "idle" => /\ roff + rn <= Full(w, r)
                  /\ \A i \in 1 .. Len(rbuf) : rbuf[i] = Contents[roff + i]

\* The block a writer is given lies in the memory, holds no byte that is still
\* to be read, leaves the buffer distinguishable from an empty one, and is as
\* long as that allows; likewise the reader's with the bytes written.
BlocksExact ==
  /\ WriteBlock(w, r) = Least(Free(w, r), Size - w)
  /\ ReadBlock(w, r) = Least(Full(w, r), Size - r)

Fifo == INSTANCE BoundedFifo WITH
  Cap  <- Size - 1,
  q    <- Contents,
  arg  <- wdata,
  fit  <- wn,
  want <- IF rop \in {"read", "skip"} THEN rn ELSE 0

\* Seen from outside, the buffer is a queue of Size - 1 bytes: what is written
\* is read once, in order, and each call takes effect at one moment.
ImplementsFifo == Fifo!Spec
=============================================================================
