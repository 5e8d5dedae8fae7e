-------------------------------- MODULE Heap --------------------------------
(***************************************************************************)
(* kmalloc.c: a chain of blocks in a fixed region, each behind a header of *)
(* four bytes, a size and flags of 16 bits.  The memory is modelled byte   *)
(* by byte, because what goes wrong in it is that a header is read where   *)
(* the bytes of a caller are.                                              *)
(*                                                                         *)
(* fat32.c, the only user of the heap, takes one block at a time, of the   *)
(* size of a cluster, and gives it back before it takes the next one.  The *)
(* model lets callers take and give back in any order; careless and alone  *)
(* record how they did.                                                    *)
(***************************************************************************)
EXTENDS Integers

CONSTANTS
  KMALLOC_SIZE,  \* bytes of the heap
  Radix,         \* values of a byte
  Sizes,         \* sizes that callers ask for
  Fills,         \* bytes that callers write into a block
  MaxCalls,      \* bound: calls of kmalloc and kcalloc
  Leftovers      \* bytes that the memory may be full of at boot

VARIABLES
  heap,      \* the bytes of the region, by offset
  live,      \* the blocks that callers have: where, and of which size
  panic,     \* kpanic was called
  outside,   \* a header was written behind the end of the heap
  use        \* how the callers used the heap so far

vars == <<heap, live, panic, outside, use>>

NULL == -1
HEADER == 4
KMALLOC_MIN_BLOCK_SIZE == 2

Offsets == 0 .. KMALLOC_SIZE - 1

ASSUME HeapAssumption ==
  /\ KMALLOC_SIZE \in Nat /\ KMALLOC_SIZE > HEADER
  /\ Radix \in Nat /\ Radix > 1 /\ Radix % 2 = 0
  /\ Sizes \subseteq Nat \ {0} /\ MaxCalls \in Nat
  /\ Fills \union Leftovers \subseteq 0 .. Radix - 1

Block(at, size) == [at |-> at, size |-> size]
Bytes(b) == b.at .. b.at + b.size - 1
Extent(b) == b.at - HEADER .. b.at + b.size - 1

\* kmalloc_init, which would clear the heap, has no caller.
Init ==
  /\ \E byte \in Leftovers :
       /\ heap = [o \in Offsets |-> byte]
       /\ use = [cleared |-> byte = 0, calls |-> 0, sizes |-> {},
                 alone |-> TRUE, careless |-> FALSE]
  /\ live = {}
  /\ panic = FALSE
  /\ outside = FALSE

-----------------------------------------------------------------------------
(* Headers *)

Size(h, i) == h[i] + Radix * h[i + 1]
Used(h, i) == h[i + 2] % 2 = 1

SetSize(h, i, size) ==
  [h EXCEPT ![i] = size % Radix, ![i + 1] = (size \div Radix) % Radix]
SetUsed(h, i)   == [h EXCEPT ![i + 2] = @ + 1 - (@ % 2)]
ClearUsed(h, i) == [h EXCEPT ![i + 2] = @ - (@ % 2)]

\* Mutant: the bound leaves the header out.
find_beyond(h, size) ==
  LET from[i \in Nat] ==
        IF i + size > KMALLOC_SIZE \/ i + HEADER > KMALLOC_SIZE THEN NULL
        ELSE IF ~Used(h, i) /\ (Size(h, i) >= size \/ Size(h, i) = 0) THEN i
        ELSE from[i + HEADER + Size(h, i)]
  IN  from[0]

\* Mutant: the next header is looked for too early.
find_without_header(h, size) ==
  LET from[i \in Nat] ==
        IF i + HEADER + size > KMALLOC_SIZE THEN NULL
        ELSE IF ~Used(h, i) /\ (Size(h, i) >= size \/ Size(h, i) = 0) THEN i
        ELSE from[i + HEADER + Size(h, i) - 1]
  IN  from[0]

\* The first free block that is large enough, or the end of the chain, which
\* is a free block of size 0.
find_free_block(h, size) ==
  LET from[i \in Nat] ==
        IF i + HEADER + size > KMALLOC_SIZE THEN NULL
        ELSE IF ~Used(h, i) /\ (Size(h, i) >= size \/ Size(h, i) = 0) THEN i
        ELSE from[i + HEADER + Size(h, i)]
  IN  from[0]

-----------------------------------------------------------------------------
(* kmalloc, kcalloc, kfree *)

Room(size) == size + HEADER + KMALLOC_MIN_BLOCK_SIZE

\* The rest of a block that is split goes behind info + info->size, which
\* counts in headers; only its size is written.
RestAt(h, i) == i + HEADER * Size(h, i)
SplitsOutside(h, i, size) == Size(h, i) >= Room(size) /\ RestAt(h, i) + 1 \notin Offsets
PutRest(h, i, size) ==
  IF SplitsOutside(h, i, size) THEN h
  ELSE SetSize(h, RestAt(h, i), Size(h, i) - size - HEADER)

\* Mutant: a block that is used again always keeps the room for another header.
TakeGrowing(h, i, size) ==
  SetSize(SetUsed(h, i), i, IF Size(h, i) = 0 THEN size ELSE Size(h, i) + Room(size))

\* The header at i becomes that of a block of a caller.
Take(h, i, size) ==
  IF Size(h, i) = 0 THEN SetSize(SetUsed(h, i), i, size)
  ELSE IF Size(h, i) < Room(size) THEN SetSize(SetUsed(h, i), i, Room(size))
  ELSE SetSize(PutRest(SetUsed(h, i), i, size), i, size)

Fill(h, b, byte) == [o \in Offsets |-> IF o \in Bytes(b) THEN byte ELSE h[o]]

\* A careless call uses a block again beside another one, or asks for more
\* than 16 bits hold once the block has grown.
Careless(i, size) ==
  (live # {} /\ i # NULL /\ Size(heap, i) # 0) \/ Room(size) >= Radix * Radix

\* alloc_block, and the memset of kcalloc.
Alloc(i, size, zeroed) ==
  /\ ~panic
  /\ use.calls < MaxCalls
  /\ use' = [use EXCEPT !.calls = @ + 1, !.sizes = @ \union {size}, !.alone = @ /\ live = {},
                        !.careless = @ \/ Careless(i, size)]
  /\ panic' = (i = NULL)
  /\ IF i = NULL
     THEN UNCHANGED <<heap, live, outside>>
     ELSE /\ heap' = IF zeroed THEN Fill(Take(heap, i, size), Block(i + HEADER, size), 0)
                     ELSE Take(heap, i, size)
          /\ live' = live \union {Block(i + HEADER, size)}
          /\ outside' = (outside \/ SplitsOutside(heap, i, size))

kmalloc(size) == Alloc(find_free_block(heap, size), size, FALSE)
kcalloc(size) == Alloc(find_free_block(heap, size), size, TRUE)

kfree(b) ==
  /\ ~panic /\ b \in live
  /\ heap' = ClearUsed(heap, b.at - HEADER)
  /\ live' = live \ {b}
  /\ UNCHANGED <<panic, outside, use>>

\* The caller writes into its block.
Write(b, byte) ==
  /\ ~panic /\ b \in live
  /\ heap' = Fill(heap, b, byte)
  /\ UNCHANGED <<live, panic, outside, use>>

Next ==
  \/ \E size \in Sizes : kmalloc(size) \/ kcalloc(size)
  \/ \E b \in live : kfree(b) \/ \E byte \in Fills : Write(b, byte)

Spec == Init /\ [][Next]_vars

-----------------------------------------------------------------------------
(* Properties *)

\* The state has its type, and no sizes ever make a block leave the heap: the
\* bound of find_free_block holds for whatever the chain has become.
\* (find_free_block)
TypeOK ==
  /\ heap \in [Offsets -> 0 .. Radix - 1]
  /\ live \subseteq [at : Offsets, size : Sizes]
  /\ \A b \in live : Extent(b) \subseteq Offsets
  /\ panic \in BOOLEAN /\ outside \in BOOLEAN
  /\ use \in [cleared : BOOLEAN, calls : 0 .. MaxCalls, sizes : SUBSET Sizes,
              alone : BOOLEAN, careless : BOOLEAN]

\* No call changes the bytes of a block that stays with its caller, neither by
\* a header nor by a block that overlaps it, unless a block was used again
\* while another one was live or a size was cut to 16 bits: a block that is
\* used again grows over the header behind it, and the chain then goes on
\* inside the bytes of a caller.  (alloc_block:54-61, kfree)
LiveBytesKept ==
  [][~use'.careless =>
       \A b \in live \intersect live' :
         \/ \A o \in Bytes(b) : heap'[o] = heap[o]
         \/ \E byte \in Fills : Write(b, byte)]_vars

\* The way fat32.c uses the heap is safe, although the sizes of the headers
\* and the place of the rest of a split are wrong: with one block at a time,
\* always of one size, in a heap that was clear, no call runs out of memory
\* or writes behind the heap.  The block grows before it is split, so the size
\* it grows to must have 16 bits.  (fat32.c:103, 211, 558, 636, 699, 752)
OneBlockIsSafe ==
  /\ use.cleared /\ use.alone
  /\ \E size \in Sizes : /\ use.sizes \subseteq {size}
                        /\ Room(size) < Radix * Radix
                        /\ HEADER * Room(size) + 1 < KMALLOC_SIZE
  => ~panic /\ ~outside
=============================================================================
