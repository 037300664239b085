----------------------------- MODULE MyAllocation -----------------------------
(***************************************************************************)
(* The heap of Memory_Management: my_malloc and my_free over memory that   *)
(* sbrk hands out, and the programs that use them.  A block is a header of *)
(* three words, its length and the two links of the free list, and the     *)
(* words the caller gets.  Memory is an array of words, so that a header   *)
(* or a link written in the wrong place lands on what is really there.     *)
(*                                                                         *)
(* A program keeps its blocks in bufs and fills each one as soon as it has *)
(* it, as main.c does: block i is filled with the mark -i.                 *)
(***************************************************************************)
EXTENDS Integers, FiniteSetsExt

CONSTANTS
  N,         (* the number of pointers the program keeps                   *)
  Pool,      (* the pointers a program of one size keeps                   *)
  Size,      (* the block sizes programs ask for, in words                 *)
  Program,   (* the kinds of program: "rounds" or "pool"                 *)
  MaxHeap    (* bound: words sbrk hands out                                *)

HDR  == 3
NULL == 0
None == [ptr |-> NULL, size |-> 0]
Bufs == 1 .. N
(* the slack holds a header that a split places over the end of the heap   *)
Addr == 1 .. MaxHeap + HDR

ASSUME BoundAssumption == N \in Nat /\ Pool <= N /\ MaxHeap \in Nat /\ Size \subseteq Nat \ {0}
ASSUME ProgramAssumption == Program \subseteq {"rounds", "pool"}

VARIABLES
  mem,       (* the words of the heap                                      *)
  brk,       (* the first address sbrk has not handed out                  *)
  head,      (* m_free_ll_head                                             *)
  bufs,      (* the blocks the program holds                               *)
  prog, base, (* the program's kind, and its (first) block size            *)
  round, i,  (* a "rounds" program: which loop it is in, and its index     *)
  blocks     (* history: the headers of the blocks sbrk has made           *)

heap == <<mem, brk, head, blocks>>
vars == <<heap, bufs, prog, base, round, i>>

Length(h) == mem[h]
NextChunk(h) == mem[h + 2]
Header(p) == p - HDR
Memory(h) == h + HDR
Live      == {b \in Bufs : bufs[b] # None}
MaxChunks == 3 * N   (* sbrk and splits make fewer chunks than that *)

(* The free list as my_malloc walks it, from the head. *)
Chunk == LET c[k \in 0 .. MaxChunks] ==
               IF k = 0 THEN head
               ELSE IF c[k - 1] = NULL THEN NULL ELSE NextChunk(c[k - 1])
         IN  c
FreeList == {Chunk[k] : k \in 0 .. MaxChunks} \ {NULL}

Fits(size)  == {k \in 0 .. MaxChunks : Chunk[k] # NULL /\ Length(Chunk[k]) >= size}
FirstFit(size) == Chunk[Min(Fits(size))]

Init ==
  /\ mem = [a \in Addr |-> 0]
  /\ brk = 1
  /\ head = NULL
  /\ bufs = [b \in Bufs |-> None]
  /\ prog \in Program
  /\ base \in Size
  /\ prog = "rounds" => base >= N     \* main.c: 100 blocks, the first of 100
  /\ round = "first"
  /\ i = 1
  /\ blocks = {}

Fill(m, b, p, size) ==
  [a \in Addr |-> IF a \in p .. p + size - 1 THEN 0 - b ELSE m[a]]

(* ll_remove: the links of c's neighbours, then the head. *)
NoUnlinkNext(m, c) == m   \* a mutant: the next chunk keeps its link back
UnlinkNext(m, c) ==
  IF m[c + 2] = NULL THEN m ELSE [m EXCEPT ![m[c + 2] + 1] = m[c + 1]]
Unlinked(c) ==
  UnlinkNext(IF mem[c + 1] = NULL THEN mem ELSE [mem EXCEPT ![mem[c + 1] + 2] = NextChunk(c)], c)
HeadFromBlock(c) == IF mem[c + 1] = NULL THEN mem[Memory(c)] ELSE head   \* a mutant
HeadAfterUnlink(c) == IF mem[c + 1] = NULL THEN NextChunk(c) ELSE head

(* ll_replace: the neighbours of c point to n, and n takes c's links. *)
Replaced(m, c, n) ==
  LET m1 == IF m[c + 1] = NULL THEN m ELSE [m EXCEPT ![m[c + 1] + 2] = n]
      m2 == IF m1[c + 2] = NULL THEN m1 ELSE [m1 EXCEPT ![m1[c + 2] + 1] = n]
      m3 == [m2 EXCEPT ![n + 1] = m2[c + 1]]
  IN  [m3 EXCEPT ![n + 2] = m3[c + 2]]

Hand(b, p, size) == bufs' = [bufs EXCEPT ![b] = [ptr |-> p, size |-> size]]

(* The first chunk that is large enough is used whole ... *)
TakeWhole(b, size) ==
  /\ Fits(size) # {}
  /\ LET c == FirstFit(size)
     IN  /\ Length(c) <= size + HDR
         /\ mem' = Fill(Unlinked(c), b, Memory(c), size)
         /\ head' = HeadAfterUnlink(c)
         /\ Hand(b, Memory(c), size)
  /\ UNCHANGED <<brk, blocks>>

(* ... or, when more than a header is left over, its rest takes its place  *)
(* on the list.                                                            *)
RestAt(c, size) == Memory(c) + size

TakeAndSplit(b, size) ==
  /\ Fits(size) # {}
  /\ LET c == FirstFit(size)
         n == RestAt(c, size)
         m == [mem EXCEPT ![n] = Length(c) - size]
     IN  /\ Length(c) > size + HDR
         /\ mem' = Fill(Replaced(m, c, n), b, Memory(c), size)
         /\ head' = IF m[c + 1] = NULL THEN n ELSE head
         /\ Hand(b, Memory(c), size)
  /\ UNCHANGED <<brk, blocks>>

(* No chunk is large enough: the heap grows by a header and the block. *)
Expand(b, size) ==
  /\ Fits(size) = {}
  /\ brk + size + HDR <= MaxHeap + 1
  /\ mem' = Fill([mem EXCEPT ![brk] = size, ![brk + 1] = NULL, ![brk + 2] = NULL],
                 b, Memory(brk), size)
  /\ brk' = brk + size + HDR
  /\ blocks' = blocks \cup {brk}
  /\ Hand(b, Memory(brk), size)
  /\ UNCHANGED head

Malloc(b, size) == TakeWhole(b, size) \/ TakeAndSplit(b, size) \/ Expand(b, size)

(* A mutant of my_free that loses the rest of the list. *)
FreeForgets(b) ==
  LET h == Header(bufs[b].ptr)
  IN  /\ b \in Live
      /\ mem' = [mem EXCEPT ![h + 1] = NULL, ![h + 2] = NULL]
      /\ head' = h
      /\ bufs' = [bufs EXCEPT ![b] = None]
      /\ UNCHANGED <<brk, blocks>>

(* my_free: the block becomes the head of the list.  The old head's link   *)
(* back is set to the caller's pointer, not to the header.                 *)
Free(b) ==
  LET p == bufs[b].ptr
      h == Header(p)
      m == [mem EXCEPT ![h + 1] = NULL, ![h + 2] = head]
  IN  /\ b \in Live
      /\ mem' = IF head = NULL THEN m ELSE [m EXCEPT ![head + 1] = p]
      /\ head' = h
      /\ bufs' = [bufs EXCEPT ![b] = None]
      /\ UNCHANGED <<brk, blocks>>

(* main.c's simple_free_test: N blocks, each one word longer than the one  *)
(* before, all freed in the same order, and the same N blocks again.       *)
Advance ==
  /\ IF i = N
     THEN \/ round = "first" /\ round' = "free" /\ i' = 1
          \/ round = "free" /\ round' = "second" /\ i' = 1
          \/ round = "second" /\ i' = N + 1 /\ UNCHANGED round
     ELSE i' = i + 1 /\ UNCHANGED round
  /\ UNCHANGED <<prog, base>>

Allocating == prog = "rounds" /\ i <= N /\ round # "free"
RoundWhole  == Allocating /\ TakeWhole(i, base + i - 1) /\ Advance
RoundSplit  == Allocating /\ TakeAndSplit(i, base + i - 1) /\ Advance
RoundExpand == Allocating /\ Expand(i, base + i - 1) /\ Advance
RoundFree   == prog = "rounds" /\ round = "free" /\ Free(i) /\ Advance

(* A program whose blocks all have one size, allocated and freed in any    *)
(* order, and one that mixes sizes.                                        *)
PoolWith(b) == prog = "pool" /\ b <= Pool /\ UNCHANGED <<prog, base, round, i>>
PoolWhole(b)  == PoolWith(b) /\ bufs[b] = None /\ TakeWhole(b, base)
PoolExpand(b) == PoolWith(b) /\ bufs[b] = None /\ Expand(b, base)
PoolFree(b)   == PoolWith(b) /\ Free(b)

Mixed == \E b \in Bufs :
           \/ \E size \in Size : bufs[b] = None /\ Malloc(b, size)
           \/ Free(b)

Next ==
  \/ RoundWhole \/ RoundSplit \/ RoundExpand \/ RoundFree
  \/ \E b \in Bufs : PoolWhole(b) \/ PoolExpand(b) \/ PoolFree(b)
Spec == Init /\ [][Next]_vars
MixedSpec == Init /\ [][Mixed /\ UNCHANGED <<prog, base, round, i>>]_vars

-------------------------------------------------------------------------------
(* The heap's variables have their types, and so do the program's. *)
TypeOK ==
  /\ mem \in [Addr -> Int]
  /\ brk \in 1 .. MaxHeap + 1
  /\ head \in 0 .. MaxHeap
  /\ \A b \in Bufs : bufs[b] = None \/ (bufs[b].ptr \in Addr /\ bufs[b].size > 0)
  /\ prog \in Program /\ base \in Size
  /\ round \in {"first", "free", "second"} /\ i \in 1 .. N + 1
  /\ blocks \subseteq 1 .. MaxHeap

(* What the program wrote into a block it holds stays there whatever is    *)
(* allocated and freed around it: no header, no link and no other block    *)
(* ever covers it (my_malloc 119-136, my_free 253-265).                    *)
Intact ==
  \A b \in Live : \A k \in 0 .. bufs[b].size - 1 : mem[bufs[b].ptr + k] = 0 - b

(* A block that sbrk made is on the free list exactly when the program     *)
(* does not hold it, whatever was split, taken from the middle and freed   *)
(* before: none is lost, none is hidden behind another one or put outside  *)
(* the list by a wrong link, and none is handed out a second time          *)
(* (my_malloc 116-140, my_free 253-265).                                   *)
FreedIsListed == FreeList \cap blocks = blocks \ {Header(bufs[b].ptr) : b \in Live}

(* A block that was handed out is no longer on the free list: ll_remove    *)
(* promises to remove the item from the free nodes linked list.            *)
RemovedIsGone == \A b \in Live : Header(bufs[b].ptr) \notin FreeList
===============================================================================
