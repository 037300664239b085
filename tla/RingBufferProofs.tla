-------------------------- MODULE RingBufferProofs ---------------------------
(***************************************************************************)
(* Theorems about RingBuffer for every size of the memory, every set of    *)
(* bytes and all data writers pass.                                        *)
(***************************************************************************)
EXTENDS RingBuffer, SequenceTheorems, TLAPS

(* Where the indices go: arithmetic around the end of the memory *)

\* What is free and what is written make up the memory but for one slot.
LEMMA FreeAndFull ==
  ASSUME NEW a \in Slots, NEW b \in Slots
  PROVE  /\ Full(a, b) \in 0 .. Size - 1
         /\ Free(a, b) = Size - 1 - Full(a, b)
  BY SizeAssumption DEF Slots, Full, Free

\* At is addition around the end of the memory.
LEMMA AtValue ==
  ASSUME NEW p \in Slots, NEW i \in Slots
  PROVE  /\ At(p, i) \in Slots
         /\ At(p, i) = IF p + i < Size THEN p + i ELSE p + i - Size
  BY SizeAssumption DEF Slots, At

LEMMA AtSum ==
  ASSUME NEW p \in Slots, NEW i \in Slots, NEW j \in Slots, i + j < Size
  PROVE  At(At(p, i), j) = At(p, i + j)
  BY SizeAssumption DEF Slots, At

\* Different bytes are at different slots.
LEMMA AtDiffers ==
  ASSUME NEW p \in Slots, NEW i \in Slots, NEW j \in Slots, At(p, i) = At(p, j)
  PROVE  i = j
  BY SizeAssumption DEF Slots, At

\* The write index is where the bytes written end.
LEMMA WriteIndex ==
  ASSUME NEW a \in Slots, NEW b \in Slots
  PROVE  a = At(b, Full(a, b))
  BY SizeAssumption DEF Slots, At, Full

\* Both ways to move an index move it by n bytes.
LEMMA Moves ==
  ASSUME NEW p \in Slots, NEW n \in 1 .. Size - 1
  PROVE  AfterCopy(p, n) = At(p, n) /\ AfterSkip(p, n) = At(p, n)
  BY SizeAssumption DEF Slots, At, AfterCopy, AfterSkip, Least

LEMMA FullAfterWrite ==
  ASSUME NEW a \in Slots, NEW b \in Slots, NEW n \in 1 .. Size - 1,
         n <= Free(a, b)
  PROVE  Full(At(a, n), b) = Full(a, b) + n
  BY SizeAssumption DEF Slots, At, Full, Free

LEMMA FullAfterRead ==
  ASSUME NEW a \in Slots, NEW b \in Slots, NEW n \in 1 .. Size - 1,
         n <= Full(a, b)
  PROVE  Full(a, At(b, n)) = Full(a, b) - n
  BY SizeAssumption DEF Slots, At, Full

-----------------------------------------------------------------------------
(* The inductive invariant *)

\* A writer's call has room for all it is going to write, the linear block
\* does not reach past the memory, and what it has stored is in place.
WriterInv ==
  IF wop = "idle" THEN wdata = <<>> /\ wn = 0 /\ wi = 0
  ELSE /\ wn \in 1 .. Len(wdata) /\ wn <= Free(w, r)
       /\ wop = "advance" => wn <= Size - w
       /\ \A i \in 0 .. wi - 1 : mem[At(w, i)] = wdata[i + 1]

\* A reader's call finds all it is going to read, and what it has copied is
\* still in the memory.
ReaderInv ==
  IF rop = "idle" THEN roff = 0 /\ rn = 0 /\ rbuf = <<>>
  ELSE /\ rn >= 1 /\ roff + rn <= Full(w, r)
       /\ rop # "peek" => roff = 0
       /\ rop = "skip" => rn <= Size - r
       /\ \A i \in 1 .. Len(rbuf) : rbuf[i] = mem[At(r, roff + i - 1)]

IInv == TypeOK /\ WriterInv /\ ReaderInv

LEMMA InitIInv == Init => IInv
  <1>. SUFFICES ASSUME Init PROVE IInv OBVIOUS
  <1>1. <<>> \in Seq(Value) /\ Len(<<>>) = 0 BY EmptySeq
  <1>2. TypeOK
    <2>1. 0 \in Slots /\ 0 \in 0 .. Size - 1 /\ 0 \in 0 .. 0 BY SizeAssumption DEF Slots
    <2>2. /\ ready \in BOOLEAN /\ mem \in [Slots -> Value] /\ w \in Slots /\ r \in Slots
          /\ wop \in {"idle", "write", "advance"}
          /\ rop \in {"idle", "read", "peek", "skip", "drop"}
      BY <2>1 DEF Init
    <2>. QED BY <1>1, <2>1, <2>2 DEF Init, TypeOK
  <1>3. WriterInv /\ ReaderInv BY DEF Init, WriterInv, ReaderInv
  <1>. QED BY <1>2, <1>3 DEF IInv

\* The ends of the calls, with the two forms of the new index made one.
LEMMA WriterEnds ==
  ASSUME IInv
  PROVE  /\ WriteEnd => w' = At(w, wn)
         /\ Advance => w' = At(w, wn)
         /\ wop # "idle" => /\ wn \in 1 .. Size - 1
                            /\ At(w, wn) \in Slots
                            /\ Full(At(w, wn), r) = Full(w, r) + wn
  <1>1. ASSUME wop # "idle"
        PROVE  /\ wn \in 1 .. Size - 1 /\ At(w, wn) \in Slots
               /\ Full(At(w, wn), r) = Full(w, r) + wn
               /\ AfterCopy(w, wn) = At(w, wn)
               /\ AfterSkip(w, Least(wn, Free(w, r))) = At(w, wn)
    <2>1. wn \in 1 .. Size - 1 /\ wn \in Slots /\ wn <= Free(w, r) /\ w \in Slots /\ r \in Slots
      BY <1>1, SizeAssumption DEF IInv, TypeOK, WriterInv, Slots
    <2>2. Least(wn, Free(w, r)) = wn
      BY <2>1, FreeAndFull, SizeAssumption DEF Least, Free, Slots
    <2>. QED BY <2>1, <2>2, AtValue, Moves, FullAfterWrite
  <1>. QED BY <1>1 DEF WriteEnd, Advance

LEMMA ReaderEnds ==
  ASSUME IInv
  PROVE  /\ ReadEnd => r' = At(r, rn)
         /\ SkipEnd => r' = At(r, rn)
         /\ rop \in {"read", "skip", "drop"} =>
              /\ rn \in 1 .. Size - 1 /\ rn <= Full(w, r)
              /\ At(r, rn) \in Slots
              /\ Full(w, At(r, rn)) = Full(w, r) - rn
  <1>1. ASSUME rop \in {"read", "skip", "drop"}
        PROVE  /\ rn \in 1 .. Size - 1 /\ rn <= Full(w, r) /\ At(r, rn) \in Slots
               /\ Full(w, At(r, rn)) = Full(w, r) - rn
               /\ AfterCopy(r, rn) = At(r, rn)
               /\ AfterSkip(r, Least(rn, Full(w, r))) = At(r, rn)
    <2>1. w \in Slots /\ r \in Slots /\ Full(w, r) \in 0 .. Size - 1
      BY FreeAndFull DEF IInv, TypeOK
    <2>2. rn \in 1 .. Size - 1 /\ rn \in Slots /\ rn <= Full(w, r)
      BY <1>1, <2>1, SizeAssumption DEF IInv, TypeOK, ReaderInv, Slots
    <2>3. Least(rn, Full(w, r)) = rn
      BY <2>1, <2>2, SizeAssumption DEF Least
    <2>. QED BY <2>1, <2>2, <2>3, AtValue, Moves, FullAfterRead
  <1>. QED BY <1>1 DEF ReadEnd, SkipEnd

\* How much a call that begins is going to move.
LEMMA CallsFit ==
  ASSUME IInv
  PROVE  /\ \A d \in Data : d \in Seq(Value) /\ d # <<>> /\ Len(d) \in Nat \ {0}
         /\ Full(w, r) \in 0 .. Size - 1 /\ Free(w, r) = Size - 1 - Full(w, r)
         /\ \A d \in Data : Len(d) <= WriteBlock(w, r) =>
              Len(d) <= Free(w, r) /\ Len(d) <= Size - w
         /\ \A n \in 1 .. Size : n <= ReadBlock(w, r) => n <= Full(w, r) /\ n <= Size - r
  <1>1. w \in Slots /\ r \in Slots BY DEF IInv, TypeOK
  <1>2. \A d \in Data : d \in Seq(Value) /\ d # <<>> /\ Len(d) \in Nat \ {0}
    BY DataAssumption, EmptySeq
  <1>3. WriteBlock(w, r) <= Free(w, r) /\ WriteBlock(w, r) <= Size - w
         /\ WriteBlock(w, r) \in Int
    BY <1>1, SizeAssumption DEF WriteBlock, Free, Slots
  <1>4. ReadBlock(w, r) <= Full(w, r) /\ ReadBlock(w, r) <= Size - r
         /\ ReadBlock(w, r) \in Int
    BY <1>1, SizeAssumption DEF ReadBlock, Full, Slots
  <1>5. Free(w, r) \in Int /\ Full(w, r) \in 0 .. Size - 1 /\ Free(w, r) = Size - 1 - Full(w, r)
    BY <1>1, FreeAndFull, SizeAssumption
  <1>6. \A d \in Data : Len(d) <= WriteBlock(w, r) =>
              Len(d) <= Free(w, r) /\ Len(d) <= Size - w
    BY <1>1, <1>2, <1>3, <1>5, SizeAssumption DEF Slots
  <1>7. \A n \in 1 .. Size : n <= ReadBlock(w, r) => n <= Full(w, r) /\ n <= Size - r
    BY <1>1, <1>4, <1>5, SizeAssumption DEF Slots
  <1>. QED BY <1>2, <1>5, <1>6, <1>7

-----------------------------------------------------------------------------
(* Every step keeps the types *)

LEMMA TypeStep == IInv /\ [Next]_vars => TypeOK'
  <1>. SUFFICES ASSUME IInv, [Next]_vars PROVE TypeOK'
    OBVIOUS
  <1>. USE SizeAssumption
  <1>. TypeOK BY DEF IInv
  <1>0. 0 \in Slots /\ 0 \in 0 .. Size - 1 /\ <<>> \in Seq(Value) /\ Len(<<>>) = 0
    BY EmptySeq DEF Slots
  <1>1. ASSUME NEW d \in Data, WriteCall(d) \/ BlockCall(d) PROVE TypeOK'
    <2>1. d \in Seq(Value) /\ wn' \in 0 .. Size - 1
      BY <1>1, CallsFit DEF WriteCall, BlockCall, Least
    <2>2. wi' \in 0 .. wn' /\ wop' \in {"idle", "write", "advance"} /\ wdata' = d
      BY <1>1, <2>1 DEF WriteCall, BlockCall
    <2>. QED BY <1>1, <2>1, <2>2 DEF TypeOK, WriteCall, BlockCall, readerVars
  <1>2. CASE Store
    <2>1. wn \in 1 .. Len(wdata) /\ wi + 1 \in 1 .. wn /\ wdata \in Seq(Value)
      BY <1>2 DEF Store, TypeOK, IInv, WriterInv
    <2>2. wdata[wi + 1] \in Value BY <2>1, ElementOfSeq
    <2>3. mem' \in [Slots -> Value]
      <3>1. PICK x : mem' = [mem EXCEPT ![x] = wdata[wi + 1]] BY <1>2 DEF Store
      <3>. QED BY <3>1, <2>2 DEF TypeOK
    <2>. QED BY <1>2, <2>1, <2>3 DEF Store, TypeOK, readerVars
  <1>3. CASE WriteEnd \/ Advance
    <2>1. w' \in Slots BY <1>3, WriterEnds DEF WriteEnd, Advance
    <2>2. 0 \in 0 .. 0 OBVIOUS
    <2>3. WriterDone /\ UNCHANGED <<ready, mem, r, rop, roff, rn, rbuf, got>>
      BY <1>3 DEF WriteEnd, Advance, readerVars
    <2>. QED BY <1>0, <2>1, <2>2, <2>3 DEF WriterDone, TypeOK
  <1>4. ASSUME NEW op \in {"read", "peek", "skip", "drop"}, NEW off \in Slots, NEW n \in 0 .. Size - 1,
               ReaderStarts(op, off, n)
        PROVE TypeOK'
    BY <1>0, <1>4 DEF ReaderStarts, TypeOK, writerVars
  <1>5. ASSUME NEW n \in 1 .. Size, ReadCall(n) \/ SkipCall(n) \/ BlockReadCall(n) PROVE TypeOK'
    <2>1. /\ Least(Full(w, r), n) \in 0 .. Size - 1 /\ Least(n, Full(w, r)) \in 0 .. Size - 1
          /\ BlockReadCall(n) => n \in 0 .. Size - 1
      BY CallsFit DEF Least, BlockReadCall
    <2>. QED BY <1>0, <1>4, <1>5, <2>1 DEF ReadCall, SkipCall, BlockReadCall
  <1>6. ASSUME NEW n \in 1 .. Size, NEW off \in 0 .. Size - 1, PeekCall(off, n) PROVE TypeOK'
    <2>1. Least(Full(w, r) - off, n) \in 0 .. Size - 1 /\ off \in Slots
      BY <1>6, CallsFit DEF Least, PeekCall, Slots
    <2>. QED BY <1>4, <1>6, <2>1 DEF PeekCall
  <1>7. CASE Load
    <2>1. PICK s \in Slots : rbuf' = Append(rbuf, mem[s])
      <3>1. rop # "idle" /\ Len(rbuf) \in Nat /\ Len(rbuf) < rn
        BY <1>7, LenProperties DEF Load, TypeOK
      <3>2. rop = "skip" => r + Len(rbuf) \in Slots
        BY <3>1 DEF IInv, ReaderInv, TypeOK, Slots
      <3>3. At(At(r, roff), Len(rbuf)) \in Slots
        <4>1. Len(rbuf) \in Slots /\ r \in Slots /\ roff \in Slots BY <3>1 DEF TypeOK, Slots
        <4>2. At(r, roff) \in Slots BY <4>1, AtValue
        <4>. QED BY <4>1, <4>2, AtValue
      <3>. QED BY <1>7, <3>2, <3>3 DEF Load
    <2>2. mem[s] \in Value BY DEF TypeOK
    <2>3. rbuf' \in Seq(Value) /\ Len(rbuf') = Len(rbuf) + 1 /\ Len(rbuf) \in Nat
      BY <2>1, <2>2, LenProperties, AppendProperties DEF TypeOK
    <2>. QED BY <1>7, <2>3 DEF Load, TypeOK, writerVars
  <1>8. CASE ReadEnd \/ SkipEnd
    <2>1. r' \in Slots BY <1>8, ReaderEnds DEF ReadEnd, SkipEnd
    <2>2. got' \in Seq(Value) BY <1>8 DEF ReadEnd, SkipEnd, TypeOK
    <2>3. ReaderDone /\ UNCHANGED <<ready, mem, w, wop, wdata, wn, wi>>
      BY <1>8 DEF ReadEnd, SkipEnd, writerVars
    <2>. QED BY <1>0, <2>1, <2>2, <2>3 DEF ReaderDone, TypeOK
  <1>9. CASE PeekEnd
    BY <1>0, <1>9 DEF PeekEnd, ReaderDone, TypeOK, writerVars
  <1>10. CASE InitHandle \/ FreeHandle \/ Reset
    BY <1>0, <1>10 DEF InitHandle, FreeHandle, Reset, TypeOK, writerVars, readerVars
  <1>11. CASE UNCHANGED vars
    BY <1>11 DEF vars, writerVars, readerVars, TypeOK
  <1>. QED
    BY <1>1, <1>2, <1>3, <1>5, <1>6, <1>7, <1>8, <1>9, <1>10, <1>11 DEF Next, Writer, Reader

-----------------------------------------------------------------------------
(* Every step keeps the two parts of the invariant *)

\* The slot a writer stores into, as seen from either index: it is none of
\* the bytes that are still to be read.
LEMMA StoreSlot ==
  ASSUME IInv, Store
  PROVE  /\ mem' = [mem EXCEPT ![At(w, wi)] = wdata[wi + 1]]
         /\ wi \in Slots /\ At(w, wi) \in Slots
         /\ \A k \in 0 .. Full(w, r) - 1 : k \in Slots /\ At(r, k) # At(w, wi)
  <1>1. /\ w \in Slots /\ r \in Slots /\ wop # "idle" /\ wi \in 0 .. wn - 1
        /\ wn \in 0 .. Size - 1 /\ wn <= Free(w, r)
        /\ wop = "advance" => wn <= Size - w
        /\ wop \in {"write", "advance"}
    BY DEF IInv, TypeOK, WriterInv, Store
  <1>2. Full(w, r) \in 0 .. Size - 1 /\ Free(w, r) = Size - 1 - Full(w, r)
    BY <1>1, FreeAndFull
  <1>3. /\ wi \in Slots /\ Full(w, r) \in Slots /\ Full(w, r) + wi \in Slots
        /\ Full(w, r) + wi < Size /\ wi < Size
    BY <1>1, <1>2, SizeAssumption DEF Slots
  <1>4. At(w, wi) \in Slots BY <1>1, <1>3, AtValue
  <1>5. wop = "advance" => At(w, wi) = w + wi
    BY <1>1, <1>3, SizeAssumption DEF At, Slots
  <1>6. mem' = [mem EXCEPT ![At(w, wi)] = wdata[wi + 1]]
    <2>1. CASE wop = "write" BY <2>1 DEF Store
    <2>2. CASE wop = "advance"
      <3>1. (IF wop = "write" THEN At(w, wi) ELSE w + wi) = At(w, wi) BY <2>2, <1>5
      <3>. QED BY <3>1 DEF Store
    <2>. QED BY <1>1, <2>1, <2>2
  <1>7. At(w, wi) = At(r, Full(w, r) + wi)
    <2>1. w = At(r, Full(w, r)) BY <1>1, WriteIndex
    <2>2. At(At(r, Full(w, r)), wi) = At(r, Full(w, r) + wi) BY <1>1, <1>3, AtSum
    <2>. QED BY <2>1, <2>2
  <1>8. ASSUME NEW k \in 0 .. Full(w, r) - 1 PROVE k \in Slots /\ At(r, k) # At(w, wi)
    <2>1. k \in Slots /\ k # Full(w, r) + wi BY <1>1, <1>2, SizeAssumption DEF Slots
    <2>. QED BY <1>1, <1>3, <1>7, <2>1, AtDiffers
  <1>. QED BY <1>3, <1>4, <1>6, <1>8

\* A step of the reader leaves the writer at least as much room.
LEMMA ReaderGivesRoom ==
  ASSUME IInv, ReadEnd \/ SkipEnd
  PROVE  Free(w', r') >= Free(w, r) /\ Free(w, r) \in Int /\ Free(w', r') \in Int
  <1>1. w \in Slots /\ r \in Slots BY DEF IInv, TypeOK
  <1>2. /\ r' = At(r, rn) /\ r' \in Slots /\ w' = w /\ rn \in Nat
        /\ Full(w', r') = Full(w, r) - rn
    <2>1. rop \in {"read", "skip", "drop"} /\ w' = w BY DEF ReadEnd, SkipEnd
    <2>. QED BY <2>1, ReaderEnds, SizeAssumption
  <1>3. Free(w, r) = Size - 1 - Full(w, r) /\ Full(w, r) \in Int BY <1>1, FreeAndFull
  <1>4. Free(w', r') = Size - 1 - Full(w', r') BY <1>1, <1>2, FreeAndFull
  <1>. QED BY <1>2, <1>3, <1>4, SizeAssumption

LEMMA WriterStep == IInv /\ [Next]_vars => WriterInv'
  <1>. SUFFICES ASSUME IInv, [Next]_vars PROVE WriterInv'
    OBVIOUS
  <1>. TypeOK /\ WriterInv BY DEF IInv
  <1>1. ASSUME NEW d \in Data, WriteCall(d) \/ BlockCall(d) PROVE WriterInv'
    <2>1. /\ wn' \in 1 .. Len(d) /\ wn' <= Free(w, r)
          /\ wop' = "advance" => wn' <= Size - w
      <3>1. Len(d) \in Nat \ {0} /\ Free(w, r) \in Int BY CallsFit, SizeAssumption
      <3>2. CASE WriteCall(d) BY <3>1, <3>2 DEF WriteCall, Least
      <3>3. CASE BlockCall(d) BY <3>1, <3>3, CallsFit DEF BlockCall
      <3>. QED BY <1>1, <3>2, <3>3
    <2>2. /\ w' = w /\ r' = r /\ mem' = mem /\ wdata' = d /\ wi' = 0
          /\ wop' \in {"write", "advance"}
      BY <1>1 DEF WriteCall, BlockCall
    <2>. QED BY <2>1, <2>2 DEF WriterInv, Free
  <1>2. CASE Store
    <2>1. /\ mem' = [mem EXCEPT ![At(w, wi)] = wdata[wi + 1]]
          /\ wi \in Slots /\ At(w, wi) \in Slots
      BY <1>2, StoreSlot
    <2>2. /\ w' = w /\ r' = r /\ wop' = wop /\ wn' = wn /\ wdata' = wdata /\ wi' = wi + 1
          /\ wop # "idle"
      BY <1>2 DEF Store
    <2>3. ASSUME NEW i \in 0 .. wi PROVE mem'[At(w, i)] = wdata[i + 1]
      <3>1. CASE i = wi BY <2>1, <3>1 DEF TypeOK
      <3>2. CASE i # wi
        <4>1. i \in Slots /\ i \in 0 .. wi - 1 /\ w \in Slots BY <2>1, <3>2, SizeAssumption DEF Slots, TypeOK
        <4>2. At(w, i) # At(w, wi) BY <2>1, <3>2, <4>1, AtDiffers
        <4>3. At(w, i) \in Slots BY <4>1, AtValue
        <4>4. mem[At(w, i)] = wdata[i + 1] BY <2>2, <4>1 DEF WriterInv
        <4>. QED BY <2>1, <4>2, <4>3, <4>4 DEF TypeOK
      <3>. QED BY <3>1, <3>2
    <2>4. wi' - 1 = wi BY <2>1, <2>2 DEF Slots
    <2>. QED BY <2>2, <2>3, <2>4 DEF WriterInv, Free
  <1>3. CASE WriteEnd \/ Advance
    BY <1>3 DEF WriteEnd, Advance, WriterDone, WriterInv
  <1>4. CASE UNCHANGED <<mem, w, r, wop, wdata, wn, wi>>
    BY <1>4 DEF WriterInv, Free, At
  <1>5. CASE ReadEnd \/ SkipEnd
    <2>1. UNCHANGED <<mem, w, wop, wdata, wn, wi>> BY <1>5 DEF ReadEnd, SkipEnd, writerVars
    <2>2. wop # "idle" => wn <= Free(w', r') BY <1>5, ReaderGivesRoom DEF WriterInv, TypeOK
    <2>. QED BY <2>1, <2>2 DEF WriterInv, At
  <1>6. CASE InitHandle \/ FreeHandle \/ Reset
    BY <1>6 DEF InitHandle, FreeHandle, Reset, Idle, WriterInv, writerVars
  <1>7. ASSUME NEW op, NEW off, NEW n, ReaderStarts(op, off, n) PROVE WriterInv'
    BY <1>4, <1>7 DEF ReaderStarts, writerVars
  <1>8. CASE Load \/ PeekEnd
    BY <1>4, <1>8 DEF Load, PeekEnd, writerVars
  <1>9. CASE UNCHANGED vars
    BY <1>4, <1>9 DEF vars, writerVars
  <1>. QED
    BY <1>1, <1>2, <1>3, <1>5, <1>6, <1>7, <1>8, <1>9
       DEF Next, Writer, Reader, ReadCall, PeekCall, SkipCall, BlockReadCall

LEMMA ReaderStep == IInv /\ [Next]_vars => ReaderInv'
  <1>. SUFFICES ASSUME IInv, [Next]_vars PROVE ReaderInv'
    OBVIOUS
  <1>. TypeOK /\ ReaderInv BY DEF IInv
  <1>0. w \in Slots /\ r \in Slots /\ Full(w, r) \in 0 .. Size - 1
    BY CallsFit DEF TypeOK
  <1>1. ASSUME NEW op \in {"read", "peek", "skip", "drop"}, NEW off \in Nat, NEW n \in Nat,
               off + n <= Full(w, r), op # "peek" => off = 0,
               op = "skip" => n <= Size - r, ReaderStarts(op, off, n)
        PROVE ReaderInv'
    <2>1. /\ w' = w /\ r' = r /\ rop' = op /\ roff' = off /\ rn' = n /\ rbuf' = <<>>
          /\ n > 0 /\ op # "idle"
      BY <1>1 DEF ReaderStarts
    <2>2. Len(rbuf') = 0 BY <2>1
    <2>3. n >= 1 BY <2>1
    <2>. QED BY <1>1, <2>1, <2>2, <2>3 DEF ReaderInv, Full
  <1>2. ASSUME NEW n \in 1 .. Size, ReadCall(n) \/ SkipCall(n) \/ BlockReadCall(n) PROVE ReaderInv'
    <2>1. /\ Least(Full(w, r), n) \in Nat /\ Least(Full(w, r), n) <= Full(w, r)
          /\ Least(n, Full(w, r)) \in Nat /\ Least(n, Full(w, r)) <= Full(w, r)
      BY <1>0, SizeAssumption DEF Least
    <2>2. BlockReadCall(n) => n \in Nat /\ n <= Full(w, r) /\ n <= Size - r
      BY CallsFit, SizeAssumption DEF BlockReadCall
    <2>. QED BY <1>0, <1>1, <1>2, <2>1, <2>2 DEF ReadCall, SkipCall, BlockReadCall
  <1>3. ASSUME NEW n \in 1 .. Size, NEW off \in 0 .. Size - 1, PeekCall(off, n) PROVE ReaderInv'
    <2>1. /\ off \in Nat /\ Least(Full(w, r) - off, n) \in Nat
          /\ off + Least(Full(w, r) - off, n) <= Full(w, r)
      BY <1>0, <1>3, SizeAssumption DEF Least, PeekCall
    <2>. QED BY <1>1, <1>3, <2>1 DEF PeekCall
  <1>4. CASE Load
    <2>1. /\ rop \in {"read", "peek", "skip"} /\ Len(rbuf) \in Nat /\ Len(rbuf) < rn
          /\ roff + rn <= Full(w, r) /\ roff \in Nat /\ rn \in Nat
          /\ rop = "skip" => roff = 0 /\ rn <= Size - r
      BY <1>4, LenProperties DEF Load, TypeOK, ReaderInv, Slots
    <2>2. /\ roff \in Slots /\ Len(rbuf) \in Slots /\ roff + Len(rbuf) \in Slots
          /\ roff + Len(rbuf) < Size
      BY <1>0, <2>1, SizeAssumption DEF Slots
    <2>3. At(At(r, roff), Len(rbuf)) = At(r, roff + Len(rbuf)) BY <1>0, <2>2, AtSum
    <2>4. rop = "skip" => r + Len(rbuf) = At(r, roff + Len(rbuf))
      BY <1>0, <2>1, SizeAssumption DEF At, Slots
    <2>5. rbuf' = Append(rbuf, mem[At(r, roff + Len(rbuf))])
      BY <1>4, <2>3, <2>4 DEF Load
    <2>6. mem[At(r, roff + Len(rbuf))] \in Value
      <3>1. At(r, roff + Len(rbuf)) \in Slots BY <1>0, <2>2, AtValue
      <3>. QED BY <3>1 DEF TypeOK
    <2>7. /\ Len(rbuf') = Len(rbuf) + 1
          /\ \A i \in 1 .. Len(rbuf) : rbuf'[i] = rbuf[i]
          /\ rbuf'[Len(rbuf) + 1] = mem[At(r, roff + Len(rbuf))]
      BY <2>5, <2>6, AppendProperties DEF TypeOK
    <2>8. ASSUME NEW i \in 1 .. Len(rbuf') PROVE rbuf'[i] = mem[At(r, roff + i - 1)]
      <3>1. CASE i = Len(rbuf) + 1
        <4>1. roff + i - 1 = roff + Len(rbuf) BY <2>1, <3>1
        <4>. QED BY <2>7, <3>1, <4>1
      <3>2. CASE i # Len(rbuf) + 1
        <4>1. i \in 1 .. Len(rbuf) BY <2>1, <2>7, <3>2
        <4>. QED BY <2>1, <2>7, <4>1 DEF ReaderInv
      <3>. QED BY <3>1, <3>2
    <2>9. UNCHANGED <<mem, w, r, rop, roff, rn>> /\ rop # "idle" BY <1>4, <2>1 DEF Load
    <2>. QED BY <2>1, <2>8, <2>9 DEF ReaderInv, Full, At
  <1>5. CASE ReadEnd \/ SkipEnd \/ PeekEnd
    BY <1>5 DEF ReadEnd, SkipEnd, PeekEnd, ReaderDone, ReaderInv
  <1>6. CASE Store
    <2>1. /\ mem' = [mem EXCEPT ![At(w, wi)] = wdata[wi + 1]]
          /\ \A k \in 0 .. Full(w, r) - 1 : k \in Slots /\ At(r, k) # At(w, wi)
      BY <1>6, StoreSlot
    <2>2. UNCHANGED <<w, r, rop, roff, rn, rbuf>> BY <1>6 DEF Store, readerVars
    <2>3. ASSUME rop # "idle", NEW i \in 1 .. Len(rbuf)
          PROVE  mem'[At(r, roff + i - 1)] = mem[At(r, roff + i - 1)]
      <3>1. roff + i - 1 \in 0 .. Full(w, r) - 1
        BY <1>0, <2>3, LenProperties DEF ReaderInv, TypeOK, Slots
      <3>2. At(r, roff + i - 1) # At(w, wi) /\ At(r, roff + i - 1) \in Slots
        BY <1>0, <2>1, <3>1, AtValue
      <3>. QED BY <2>1, <3>2 DEF TypeOK
    <2>. QED BY <2>2, <2>3 DEF ReaderInv, Full, At
  <1>7. CASE WriteEnd \/ Advance
    <2>1. wop # "idle" /\ UNCHANGED <<mem, r, rop, roff, rn, rbuf>>
      BY <1>7 DEF WriteEnd, Advance, readerVars
    <2>2. Full(w', r') = Full(w, r) + wn /\ wn \in 1 .. Size - 1
      BY <1>7, <2>1, WriterEnds
    <2>3. rop # "idle" => roff + rn <= Full(w', r')
      BY <1>0, <2>2, SizeAssumption DEF ReaderInv, TypeOK, Slots
    <2>. QED BY <2>1, <2>3 DEF ReaderInv, At
  <1>8. ASSUME NEW d \in Data, WriteCall(d) \/ BlockCall(d) PROVE ReaderInv'
    BY <1>8 DEF WriteCall, BlockCall, readerVars, ReaderInv, Full, At
  <1>9. CASE InitHandle \/ FreeHandle \/ Reset
    BY <1>9 DEF InitHandle, FreeHandle, Reset, Idle, readerVars, ReaderInv
  <1>10. CASE UNCHANGED vars
    BY <1>10 DEF vars, readerVars, ReaderInv, Full, At
  <1>. QED
    BY <1>2, <1>3, <1>4, <1>5, <1>6, <1>7, <1>8, <1>9, <1>10 DEF Next, Writer, Reader

-----------------------------------------------------------------------------
(* The queue the memory stands for *)

LEMMA QueueOf ==
  ASSUME NEW m \in [Slots -> Value], NEW a \in Slots, NEW b \in Slots,
         NEW c, c = [i \in 1 .. Full(a, b) |-> m[At(b, i - 1)]]
  PROVE  /\ c \in Seq(Value)
         /\ Len(c) = Full(a, b) /\ Full(a, b) \in 0 .. Size - 1
         /\ \A i \in 1 .. Full(a, b) : c[i] = m[At(b, i - 1)]
  <1>1. Full(a, b) \in 0 .. Size - 1 /\ Full(a, b) \in Nat
    BY FreeAndFull, SizeAssumption
  <1>2. ASSUME NEW i \in 1 .. Full(a, b) PROVE m[At(b, i - 1)] \in Value
    <2>1. i - 1 \in Slots BY <1>1, SizeAssumption DEF Slots
    <2>2. At(b, i - 1) \in Slots BY <2>1, AtValue
    <2>. QED BY <2>2
  <1>3. c \in [1 .. Full(a, b) -> Value] BY <1>2
  <1>4. c \in Seq(Value) BY <1>1, <1>3
  <1>5. Len(c) = Full(a, b) BY <1>1, <1>3, <1>4, LenProperties
  <1>. QED BY <1>1, <1>4, <1>5

LEMMA ContentsQueue ==
  ASSUME TypeOK
  PROVE  /\ Contents \in Seq(Value)
         /\ Len(Contents) = Full(w, r) /\ Full(w, r) \in 0 .. Size - 1
         /\ \A i \in 1 .. Full(w, r) : Contents[i] = mem[At(r, i - 1)]
  <1>1. mem \in [Slots -> Value] /\ w \in Slots /\ r \in Slots BY DEF TypeOK
  <1>. QED BY <1>1, QueueOf DEF Contents

\* The same of the next state.
LEMMA NextContentsQueue ==
  ASSUME TypeOK'
  PROVE  /\ Contents' \in Seq(Value)
         /\ Len(Contents') = Full(w', r') /\ Full(w', r') \in 0 .. Size - 1
         /\ \A i \in 1 .. Full(w', r') : Contents'[i] = mem'[At(r', i - 1)]
  <1>1. mem' \in [Slots -> Value] /\ w' \in Slots /\ r' \in Slots BY DEF TypeOK
  <1>2. Contents' = [i \in 1 .. Full(w', r') |-> mem'[At(r', i - 1)]] BY DEF Contents
  <1>. QED BY <1>1, <1>2, QueueOf

\* Storing into the free part does not change the queue.
LEMMA StoreKeepsQueue ==
  ASSUME IInv, Store
  PROVE  Contents' = Contents
  <1>1. /\ mem' = [mem EXCEPT ![At(w, wi)] = wdata[wi + 1]]
        /\ \A k \in 0 .. Full(w, r) - 1 : k \in Slots /\ At(r, k) # At(w, wi)
    BY StoreSlot
  <1>2. w' = w /\ r' = r /\ r \in Slots /\ Full(w', r') = Full(w, r)
        /\ Full(w, r) \in 0 .. Size - 1
    BY ContentsQueue DEF Store, Full, IInv, TypeOK
  <1>3. ASSUME NEW i \in 1 .. Full(w, r)
        PROVE  mem'[At(r', i - 1)] = mem[At(r, i - 1)]
    <2>1. i - 1 \in 0 .. Full(w, r) - 1 BY <1>2, SizeAssumption
    <2>2. At(r, i - 1) \in Slots /\ At(r, i - 1) # At(w, wi) BY <1>1, <1>2, <2>1, AtValue
    <2>3. At(r', i - 1) = At(r, i - 1) BY <1>2
    <2>. QED BY <1>1, <2>2, <2>3 DEF IInv, TypeOK
  <1>. QED BY <1>2, <1>3 DEF Contents

\* Moving the write index appends the bytes stored.
LEMMA WriteAppends ==
  ASSUME IInv, TypeOK', WriteEnd \/ Advance
  PROVE  Contents' = Contents \o SubSeq(wdata, 1, wn)
  <1>1. /\ wop # "idle" /\ wi = wn /\ mem' = mem /\ r' = r /\ w' = At(w, wn)
        /\ w \in Slots /\ r \in Slots
    BY WriterEnds DEF WriteEnd, Advance, IInv, TypeOK
  <1>2. /\ wn \in 1 .. Size - 1 /\ Full(w', r') = Full(w, r) + wn
        /\ Full(w, r) \in 0 .. Size - 1 /\ Full(w', r') \in 0 .. Size - 1
    BY <1>1, WriterEnds, ContentsQueue, NextContentsQueue DEF IInv
  <1>3. Contents \in Seq(Value) /\ Len(Contents) = Full(w, r) BY ContentsQueue DEF IInv
  <1>4. Contents' \in Seq(Value) /\ Len(Contents') = Full(w', r')
        /\ \A i \in 1 .. Full(w', r') : Contents'[i] = mem'[At(r', i - 1)]
    BY NextContentsQueue
  <1>5. /\ SubSeq(wdata, 1, wn) \in Seq(Value) /\ Len(SubSeq(wdata, 1, wn)) = wn
        /\ \A i \in 1 .. wn : SubSeq(wdata, 1, wn)[i] = wdata[i]
    <2>1. wdata \in Seq(Value) /\ wn \in 1 .. Len(wdata)
      BY <1>1 DEF IInv, TypeOK, WriterInv
    <2>2. \A i \in 1 .. wn : wdata[i] \in Value
      BY <2>1, ElementOfSeq, LenProperties
    <2>. QED BY <1>2, <2>2, SubSeqProperties, SizeAssumption
  <1>6. ASSUME NEW i \in 1 .. Full(w, r) + wn
        PROVE  Contents'[i] = (Contents \o SubSeq(wdata, 1, wn))[i]
    <2>1. Contents'[i] = mem[At(r, i - 1)] BY <1>1, <1>2, <1>4
    <2>2. CASE i <= Full(w, r)
      <3>1. i \in 1 .. Full(w, r) BY <1>2, <2>2
      <3>2. Contents[i] = mem[At(r, i - 1)] BY <3>1, ContentsQueue DEF IInv
      <3>. QED BY <1>3, <1>5, <2>1, <2>2, <3>2, ConcatProperties
    <2>3. CASE i > Full(w, r)
      <3>. DEFINE k == i - 1 - Full(w, r)
      <3>1. k \in 0 .. wn - 1 /\ k \in Slots /\ Full(w, r) \in Slots
            /\ Full(w, r) + k = i - 1 /\ Full(w, r) + k < Size
        BY <1>2, <2>3, SizeAssumption DEF Slots
      <3>2. At(r, i - 1) = At(w, k)
        <4>1. w = At(r, Full(w, r)) BY <1>1, WriteIndex
        <4>2. At(At(r, Full(w, r)), k) = At(r, Full(w, r) + k) BY <1>1, <3>1, AtSum
        <4>. QED BY <3>1, <4>1, <4>2
      <3>3. mem[At(w, k)] = wdata[k + 1] BY <1>1, <3>1 DEF IInv, WriterInv
      <3>4. (Contents \o SubSeq(wdata, 1, wn))[i] = SubSeq(wdata, 1, wn)[i - Full(w, r)]
        BY <1>2, <1>3, <1>5, <2>3, ConcatProperties
      <3>5. k + 1 = i - Full(w, r) /\ i - Full(w, r) \in 1 .. wn BY <1>2, <2>3
      <3>. QED BY <1>5, <2>1, <3>2, <3>3, <3>4, <3>5
    <2>4. i <= Full(w, r) \/ i > Full(w, r) BY <1>2, SizeAssumption
    <2>. QED BY <2>2, <2>3, <2>4
  <1>7. /\ Contents \o SubSeq(wdata, 1, wn) \in Seq(Value)
        /\ Len(Contents \o SubSeq(wdata, 1, wn)) = Full(w, r) + wn
    BY <1>3, <1>5, ConcatProperties
  <1>8. Len(Contents') = Full(w, r) + wn BY <1>2, <1>4
  <1>. QED BY <1>4, <1>6, <1>7, <1>8, SeqEqual

\* Moving the read index removes the oldest bytes.
LEMMA ReadRemoves ==
  ASSUME IInv, TypeOK', ReadEnd \/ SkipEnd
  PROVE  /\ rn \in 1 .. Len(Contents)
         /\ Contents' = SubSeq(Contents, rn + 1, Len(Contents))
  <1>1. /\ rop \in {"read", "skip", "drop"} /\ mem' = mem /\ w' = w /\ r' = At(r, rn)
        /\ w \in Slots /\ r \in Slots
    BY ReaderEnds DEF ReadEnd, SkipEnd, IInv, TypeOK
  <1>2. /\ rn \in 1 .. Size - 1 /\ rn <= Full(w, r) /\ Full(w', r') = Full(w, r) - rn
        /\ Full(w, r) \in 0 .. Size - 1
    BY <1>1, ReaderEnds, ContentsQueue DEF IInv
  <1>3. Contents \in Seq(Value) /\ Len(Contents) = Full(w, r) BY ContentsQueue DEF IInv
  <1>4. Contents' \in Seq(Value) /\ Len(Contents') = Full(w', r')
        /\ \A i \in 1 .. Full(w', r') : Contents'[i] = mem'[At(r', i - 1)]
    BY NextContentsQueue
  <1>5. /\ SubSeq(Contents, rn + 1, Len(Contents)) \in Seq(Value)
        /\ Len(SubSeq(Contents, rn + 1, Len(Contents))) = Full(w, r) - rn
        /\ \A i \in 1 .. Full(w, r) - rn :
             SubSeq(Contents, rn + 1, Len(Contents))[i] = Contents[rn + i]
    <2>1. \A i \in rn + 1 .. Len(Contents) : Contents[i] \in Value
      BY <1>2, <1>3, ElementOfSeq
    <2>2. rn + 1 \in Int /\ Len(Contents) \in Int BY <1>2, <1>3
    <2>3. /\ SubSeq(Contents, rn + 1, Len(Contents)) \in Seq(Value)
          /\ Len(SubSeq(Contents, rn + 1, Len(Contents))) =
               IF rn + 1 <= Len(Contents) THEN Len(Contents) - (rn + 1) + 1 ELSE 0
          /\ \A i \in 1 .. Len(Contents) - (rn + 1) + 1 :
               SubSeq(Contents, rn + 1, Len(Contents))[i] = Contents[rn + 1 + i - 1]
      BY <2>1, <2>2, SubSeqProperties
    <2>. QED BY <1>2, <1>3, <2>3
  <1>6. ASSUME NEW i \in 1 .. Full(w, r) - rn
        PROVE  Contents'[i] = SubSeq(Contents, rn + 1, Len(Contents))[i]
    <2>1. /\ i - 1 \in Slots /\ rn \in Slots /\ rn + (i - 1) \in Slots
          /\ rn + (i - 1) < Size /\ rn + i \in 1 .. Full(w, r)
          /\ (rn + i) - 1 = rn + (i - 1)
      BY <1>2, SizeAssumption DEF Slots
    <2>2. At(At(r, rn), i - 1) = At(r, rn + (i - 1)) BY <1>1, <2>1, AtSum
    <2>3. Contents'[i] = mem[At(r, rn + (i - 1))] BY <1>1, <1>2, <1>4, <2>2
    <2>4. Contents[rn + i] = mem[At(r, (rn + i) - 1)] BY <2>1, ContentsQueue DEF IInv
    <2>. QED BY <1>5, <2>1, <2>3, <2>4
  <1>7. Len(Contents') = Full(w, r) - rn BY <1>2, <1>4
  <1>8. Contents' = SubSeq(Contents, rn + 1, Len(Contents))
    BY <1>4, <1>5, <1>6, <1>7, SeqEqual
  <1>. QED BY <1>2, <1>3, <1>8

\* What a complete read or peek has copied is that part of the queue.
LEMMA CopyIsQueue ==
  ASSUME IInv, rop \in {"read", "skip", "peek"}, Len(rbuf) = rn
  PROVE  /\ rbuf = SubSeq(Contents, roff + 1, roff + rn)
         /\ roff \in 0 .. Len(Contents) /\ rn \in 1 .. Len(Contents) - roff
         /\ rop # "peek" => roff = 0
  <1>1. /\ Contents \in Seq(Value) /\ Len(Contents) = Full(w, r)
        /\ Full(w, r) \in 0 .. Size - 1
        /\ \A i \in 1 .. Full(w, r) : Contents[i] = mem[At(r, i - 1)]
    BY ContentsQueue DEF IInv
  <1>2. /\ roff \in Nat /\ rn \in Nat /\ rn >= 1 /\ roff + rn <= Full(w, r)
        /\ rop # "peek" => roff = 0
        /\ rbuf \in Seq(Value)
        /\ \A i \in 1 .. Len(rbuf) : rbuf[i] = mem[At(r, roff + i - 1)]
    BY SizeAssumption DEF IInv, TypeOK, ReaderInv, Slots
  <1>3. \A i \in roff + 1 .. roff + rn : Contents[i] \in Value
    BY <1>1, <1>2, ElementOfSeq
  <1>4. roff + 1 \in Int /\ roff + rn \in Int BY <1>2
  <1>5. /\ SubSeq(Contents, roff + 1, roff + rn) \in Seq(Value)
        /\ Len(SubSeq(Contents, roff + 1, roff + rn)) =
             IF roff + 1 <= roff + rn THEN (roff + rn) - (roff + 1) + 1 ELSE 0
        /\ \A i \in 1 .. (roff + rn) - (roff + 1) + 1 :
             SubSeq(Contents, roff + 1, roff + rn)[i] = Contents[roff + 1 + i - 1]
    BY <1>3, <1>4, SubSeqProperties
  <1>6. Len(SubSeq(Contents, roff + 1, roff + rn)) = rn BY <1>2, <1>5
  <1>7. ASSUME NEW i \in 1 .. rn
        PROVE  rbuf[i] = SubSeq(Contents, roff + 1, roff + rn)[i]
    <2>1. roff + i \in 1 .. Full(w, r) /\ roff + 1 + i - 1 = roff + i
          /\ i \in 1 .. (roff + rn) - (roff + 1) + 1
      BY <1>1, <1>2
    <2>. QED BY <1>1, <1>2, <1>5, <2>1
  <1>8. rbuf = SubSeq(Contents, roff + 1, roff + rn)
    BY <1>2, <1>5, <1>6, <1>7, SeqEqual
  <1>. QED BY <1>1, <1>2, <1>8

-----------------------------------------------------------------------------
(* The theorems *)

LEMMA Invariant == Spec => []IInv
  <1>1. IInv /\ [Next]_vars => IInv'
    BY TypeStep, WriterStep, ReaderStep DEF IInv
  <1>. QED BY InitIInv, <1>1, PTL DEF Spec

\* Every variable of lwrb_t, and every local of a call, is in its range.
THEOREM TypeCorrect == Spec => []TypeOK
  <1>1. IInv => TypeOK BY DEF IInv
  <1>. QED BY Invariant, <1>1, PTL

\* A reader's copy is never overwritten while it is being made.
THEOREM NothingIsOverwritten == Spec => []ReadsTrue
  <1>1. IInv => ReadsTrue
    <2>. SUFFICES ASSUME IInv, rop # "idle"
                  PROVE  /\ roff + rn <= Full(w, r)
                         /\ \A i \in 1 .. Len(rbuf) : rbuf[i] = Contents[roff + i]
      BY DEF ReadsTrue
    <2>1. roff + rn <= Full(w, r) BY DEF IInv, ReaderInv
    <2>2. ASSUME NEW i \in 1 .. Len(rbuf) PROVE rbuf[i] = Contents[roff + i]
      <3>1. /\ roff \in Nat /\ rn \in Nat /\ Len(rbuf) \in Nat /\ Len(rbuf) <= rn
            /\ Full(w, r) \in Int
        BY LenProperties, ContentsQueue, SizeAssumption DEF IInv, TypeOK, Slots
      <3>2. roff + i \in 1 .. Full(w, r) /\ (roff + i) - 1 = roff + i - 1
        BY <2>1, <3>1
      <3>3. Contents[roff + i] = mem[At(r, (roff + i) - 1)]
        BY <3>2, ContentsQueue DEF IInv
      <3>4. rbuf[i] = mem[At(r, roff + i - 1)] BY DEF IInv, ReaderInv
      <3>. QED BY <3>2, <3>3, <3>4
    <2>. QED BY <2>1, <2>2
  <1>. QED BY Invariant, <1>1, PTL

\* The linear blocks are exactly the contiguous free and written parts.
THEOREM BlocksAreExact == Spec => []BlocksExact
  <1>1. TypeOK => BlocksExact
    BY SizeAssumption
       DEF TypeOK, BlocksExact, WriteBlock, ReadBlock, Free, Full, Least, Slots
  <1>. QED BY TypeCorrect, <1>1, PTL

LEMMA InitImplements == Init => Fifo!Init
  <1>. SUFFICES ASSUME Init PROVE Fifo!Init OBVIOUS
  <1>1. TypeOK BY InitIInv DEF IInv
  <1>2. Full(w, r) = 0 BY DEF Init, Full
  <1>3. Contents \in Seq(Value) /\ Len(Contents) = 0 BY <1>1, <1>2, ContentsQueue
  <1>4. Contents = <<>> BY <1>3, EmptySeq
  <1>. QED BY <1>4 DEF Init, Fifo!Init

\* Every step of the buffer is a step of the queue or does not show.
LEMMA StepImplements ==
  IInv /\ IInv' /\ [Next]_vars =>
    [Fifo!Next]_<<Contents, wdata, wn, IF rop \in {"read", "skip"} THEN rn ELSE 0, got>>
  <1>. DEFINE Want == IF rop \in {"read", "skip"} THEN rn ELSE 0
              Same == /\ Contents' = Contents /\ wdata' = wdata /\ wn' = wn
                      /\ Want' = Want /\ got' = got
  <1>. SUFFICES ASSUME IInv, IInv', [Next]_vars PROVE Fifo!Next \/ Same
    OBVIOUS
  <1>. TypeOK /\ TypeOK' /\ WriterInv /\ ReaderInv BY DEF IInv
  <1>0. /\ Contents \in Seq(Value) /\ Len(Contents) = Full(w, r)
        /\ Full(w, r) \in 0 .. Size - 1 /\ Free(w, r) = Size - 1 - Full(w, r)
    BY ContentsQueue, CallsFit
  <1>1. ASSUME UNCHANGED <<mem, w, r>> PROVE Contents' = Contents
    BY <1>1 DEF Contents, Full, At
  <1>2. ASSUME NEW d \in Data, WriteCall(d) \/ BlockCall(d) PROVE Fifo!Next
    <2>1. /\ wdata = <<>> /\ wdata' = d /\ d \in Seq(Value) /\ d # <<>>
          /\ UNCHANGED <<rop, rn, got>> /\ Contents' = Contents
      BY <1>1, <1>2, CallsFit DEF WriteCall, BlockCall, WriterInv, readerVars
    <2>2. wn' = Fifo!Lesser((Size - 1) - Len(Contents), Len(d)) /\ wn' > 0
      <3>1. Len(d) \in Nat \ {0} BY CallsFit
      <3>2. CASE WriteCall(d)
        BY <1>0, <3>1, <3>2, SizeAssumption DEF WriteCall, Least, Fifo!Lesser
      <3>3. CASE BlockCall(d)
        <4>1. wn' = Len(d) /\ Len(d) <= Free(w, r) BY <3>3, CallsFit DEF BlockCall
        <4>. QED BY <1>0, <3>1, <4>1, SizeAssumption DEF Fifo!Lesser
      <3>. QED BY <1>2, <3>2, <3>3
    <2>3. Want' = Want BY <2>1
    <2>. QED BY <2>1, <2>2, <2>3 DEF Fifo!Next, Fifo!Offer
  <1>3. ASSUME Store PROVE Same
    <2>1. UNCHANGED <<wdata, wn, rop, rn, got>> BY <1>3 DEF Store, readerVars
    <2>. QED BY <1>3, <2>1, StoreKeepsQueue
  <1>4. ASSUME WriteEnd \/ Advance PROVE Fifo!Next
    <2>1. /\ wop # "idle" /\ wdata' = <<>> /\ wn' = 0 /\ UNCHANGED <<rop, rn, got>>
      BY <1>4 DEF WriteEnd, Advance, WriterDone, readerVars
    <2>2. wdata # <<>>
      <3>1. wn \in 1 .. Len(wdata) BY <2>1 DEF WriterInv
      <3>2. wdata = <<>> => Len(wdata) = 0 BY EmptySeq
      <3>. QED BY <3>1, <3>2
    <2>3. Contents' = Contents \o SubSeq(wdata, 1, wn) BY <1>4, WriteAppends
    <2>4. Want' = Want BY <2>1
    <2>. QED BY <2>1, <2>2, <2>3, <2>4 DEF Fifo!Next, Fifo!Put
  <1>5. ASSUME NEW op \in {"read", "skip"}, NEW n \in Nat, n <= Full(w, r),
               ReaderStarts(op, 0, n)
        PROVE  Fifo!Next
    <2>1. /\ rop = "idle" /\ rop' \in {"read", "skip"} /\ rn' = n /\ n > 0
          /\ UNCHANGED <<wdata, wn, got>> /\ Contents' = Contents
      BY <1>1, <1>5 DEF ReaderStarts, writerVars
    <2>2. Want = 0 /\ Want' \in 1 .. Len(Contents) BY <1>0, <1>5, <2>1
    <2>. QED BY <2>1, <2>2 DEF Fifo!Next, Fifo!Ask
  <1>6. ASSUME NEW op \in {"peek", "drop"}, NEW off, NEW n, ReaderStarts(op, off, n)
        PROVE  Same
    <2>1. /\ rop = "idle" /\ rop' \in {"peek", "drop"}
          /\ UNCHANGED <<wdata, wn, got>> /\ Contents' = Contents
      BY <1>1, <1>6 DEF ReaderStarts, writerVars
    <2>. QED BY <2>1
  <1>7. ASSUME NEW n \in 1 .. Size, ReadCall(n) \/ SkipCall(n) \/ BlockReadCall(n)
        PROVE  Fifo!Next \/ Same
    <2>1. CASE ReadCall(n)
      <3>1. Least(Full(w, r), n) \in Nat /\ Least(Full(w, r), n) <= Full(w, r)
        BY <1>0, SizeAssumption DEF Least
      <3>. QED BY <1>5, <2>1, <3>1 DEF ReadCall
    <2>2. CASE SkipCall(n) BY <1>6, <2>2 DEF SkipCall
    <2>3. CASE BlockReadCall(n)
      <3>1. n \in Nat /\ n <= Full(w, r) BY <2>3, CallsFit, SizeAssumption DEF BlockReadCall
      <3>. QED BY <1>5, <2>3, <3>1 DEF BlockReadCall
    <2>. QED BY <1>7, <2>1, <2>2, <2>3
  <1>8. ASSUME NEW n, NEW off, PeekCall(off, n) PROVE Same
    BY <1>6, <1>8 DEF PeekCall
  <1>9. ASSUME Load PROVE Same
    <2>1. UNCHANGED <<mem, w, r, wdata, wn, rop, rn, got>> BY <1>9 DEF Load, writerVars
    <2>. QED BY <1>1, <2>1
  <1>10. ASSUME ReadEnd \/ SkipEnd PROVE Fifo!Next
    <2>1. /\ rop \in {"read", "skip", "drop"} /\ rop' = "idle"
          /\ UNCHANGED <<wdata, wn>>
          /\ rop # "drop" => Len(rbuf) = rn /\ got' = rbuf
          /\ rop = "drop" => got' = got
      BY <1>10 DEF ReadEnd, SkipEnd, ReaderDone, writerVars
    <2>2. /\ rn \in 1 .. Len(Contents)
          /\ Contents' = SubSeq(Contents, rn + 1, Len(Contents))
      BY <1>10, ReadRemoves
    <2>3. CASE rop = "drop"
      <3>1. Want = 0 /\ Want' = 0 BY <2>1, <2>3
      <3>. QED BY <2>1, <2>2, <2>3, <3>1 DEF Fifo!Next, Fifo!Drop
    <2>4. CASE rop # "drop"
      <3>1. Want = rn /\ Want' = 0 /\ rn > 0 BY <2>1, <2>2, <2>4
      <3>2. rbuf = SubSeq(Contents, roff + 1, roff + rn) /\ roff = 0
        BY <2>1, <2>4, CopyIsQueue
      <3>3. rbuf = SubSeq(Contents, 1, rn)
        <4>1. 0 + 1 = 1 /\ 0 + rn = rn BY <2>2
        <4>. QED BY <3>2, <4>1
      <3>. QED BY <2>1, <2>2, <2>4, <3>1, <3>3 DEF Fifo!Next, Fifo!Take
    <2>. QED BY <2>3, <2>4
  <1>11. ASSUME PeekEnd PROVE Fifo!Next
    <2>1. /\ rop = "peek" /\ rop' = "idle" /\ Len(rbuf) = rn /\ got' = rbuf
          /\ UNCHANGED <<wdata, wn>> /\ Contents' = Contents
      BY <1>1, <1>11 DEF PeekEnd, ReaderDone, writerVars
    <2>2. /\ rbuf = SubSeq(Contents, roff + 1, roff + rn)
          /\ roff \in 0 .. Len(Contents) /\ rn \in 1 .. Len(Contents) - roff
      BY <2>1, CopyIsQueue
    <2>3. Want = 0 /\ Want' = 0 BY <2>1
    <2>. QED BY <2>1, <2>2, <2>3 DEF Fifo!Next, Fifo!Look
  <1>12. ASSUME InitHandle \/ Reset PROVE Fifo!Next
    <2>1. /\ wop = "idle" /\ rop = "idle" /\ w' = 0 /\ r' = 0
          /\ UNCHANGED <<wdata, wn, rop, rn, got>>
      BY <1>12 DEF InitHandle, Reset, Idle, writerVars, readerVars
    <2>2. Full(w', r') = 0 BY <2>1 DEF Full
    <2>3. Contents' \in Seq(Value) /\ Len(Contents') = 0 BY <2>2, NextContentsQueue
    <2>4. Contents' = <<>> BY <2>3, EmptySeq
    <2>5. wdata = <<>> /\ Want = 0 /\ Want' = Want BY <2>1 DEF WriterInv
    <2>. QED BY <2>1, <2>4, <2>5 DEF Fifo!Next, Fifo!Clear
  <1>13. ASSUME FreeHandle \/ UNCHANGED vars PROVE Same
    <2>1. UNCHANGED <<mem, w, r, wdata, wn, rop, rn, got>>
      BY <1>13 DEF FreeHandle, vars, writerVars, readerVars
    <2>. QED BY <1>1, <2>1
  <1>. QED
    BY <1>2, <1>3, <1>4, <1>7, <1>8, <1>9, <1>10, <1>11, <1>12, <1>13
       DEF Next, Writer, Reader

\* For every size, the buffer is a queue of Size - 1 bytes, although neither
\* side takes a lock.
THEOREM ImplementsAQueue == Spec => ImplementsFifo
  <1>. QED BY Invariant, InitImplements, StepImplements, PTL
         DEF Spec, ImplementsFifo, Fifo!Spec, Fifo!fifoVars
=============================================================================
