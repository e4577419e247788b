------------------------------- MODULE EsLoco -------------------------------
(* EsLoco, the power-of-two free-list allocator (src/ptmdb/common/        *)
(* EsLoco.hpp).  Its metadata, poolTop and freelists[], and the block     *)
(* headers live in the persistent heap, and every malloc and free is made *)
(* inside a write transaction that holds the replica exclusively.  A call *)
(* is therefore a function from allocator state to allocator state, and a *)
(* client composes the calls one transaction makes into a single step.    *)
(*                                                                         *)
(* Allocator state A: top (poolTop), fl[c] (freelists[c].next), next[b]   *)
(* (block b's next field, defined once free() wrote it) and size[b]       *)
(* (block b's size exponent, written when b was carved).  Pointers are    *)
(* byte addresses; nullptr is 0.                                           *)
EXTENDS Integers, FiniteSets, Sequences, Functions, TLC

CONSTANTS
  PoolAddr,       \* poolAddr: the base of the replica's heap
  PoolSize        \* poolSize in bytes (g_main_size)

Null == 0

kMaxBlockSize == 40
BlockHdr      == 16          \* sizeof(block): next and size
TopSize       == 8           \* sizeof(*poolTop)
Classes       == 0..kMaxBlockSize-1

(* highestBit(val): while ((val >> (b+1)) != 0) b++; then one more when   *)
(* val is not a power of two.  (1 << b) is an int shift; the requests    *)
(* modelled keep b far below 31.                                          *)
RECURSIVE HighestBitLoop(_, _)
HighestBitLoop(val, b) ==
  IF val \div 2^(b+1) # 0 THEN HighestBitLoop(val, b+1) ELSE b

HighestBitWrong(val) ==
  LET b == HighestBitLoop(val, 0) IN IF val >= 2^b THEN b + 1 ELSE b

HighestBit(val) ==
  LET b == HighestBitLoop(val, 0) IN IF val > 2^b THEN b + 1 ELSE b

(* aligned(addr): (addr & ~0x3F) + 128 *)
Aligned(addr) == (addr - (addr % 64)) + 128

FirstBlock == Aligned(PoolAddr + TopSize + BlockHdr * kMaxBlockSize)

(* init(addr, size, clearPool = true): every free list empty, poolTop past *)
(* the freelists array.                                                    *)
InitAlloc ==
  [top  |-> FirstBlock,
   fl   |-> [c \in Classes |-> Null],
   next |-> [b \in {} |-> Null],
   size |-> [b \in {} |-> 0]]

\* mutant: the end-of-pool check made on poolTop instead of the block's end
MallocTopCheck(A, size) ==
  LET bsize == HighestBit(size + BlockHdr)
      blk   == A.fl[bsize]
  IN  IF blk # Null
      THEN [a |-> [A EXCEPT !.fl[bsize] = A.next[blk]], ptr |-> blk + BlockHdr]
      ELSE IF A.top > PoolSize + PoolAddr
           THEN [a |-> A, ptr |-> Null]
           ELSE [a |-> [A EXCEPT !.top  = A.top + 2^bsize,
                                 !.size = (A.top :> bsize) @@ A.size],
                 ptr |-> A.top + BlockHdr]

(* malloc(size): pop freelists[bsize] if it has a block, otherwise carve a *)
(* block of 2^bsize bytes at poolTop, or return nullptr when the pool has  *)
(* no room.  Result: the new state and the user pointer (block + 16).      *)
Malloc(A, size) ==
  LET bsize == HighestBit(size + BlockHdr)
      blk   == A.fl[bsize]
  IN  IF blk # Null
      THEN [a |-> [A EXCEPT !.fl[bsize] = A.next[blk]], ptr |-> blk + BlockHdr]
      ELSE IF A.top + 2^bsize > PoolSize + PoolAddr
           THEN [a |-> A, ptr |-> Null]
           ELSE [a |-> [A EXCEPT !.top  = A.top + 2^bsize,
                                 !.size = (A.top :> bsize) @@ A.size],
                 ptr |-> A.top + BlockHdr]

(* free(ptr): nothing for nullptr; otherwise push the block on the free   *)
(* list of the size exponent stored in its header.                         *)
Free(A, ptr) ==
  IF ptr = Null THEN A
  ELSE LET blk == ptr - BlockHdr
           sz  == A.size[blk]
       IN  [A EXCEPT !.next  = (blk :> A.fl[sz]) @@ A.next,
                     !.fl[sz] = blk]

(* getUsedSize(): poolTop - poolAddr *)
UsedSize(A) == A.top - PoolAddr

-----------------------------------------------------------------------------
(* Derived views, for the properties of clients.                           *)

(* The blocks carved so far, walking the block headers from the first     *)
(* block, each block starting where the previous one ends.                *)
RECURSIVE CarvedFrom(_, _)
CarvedFrom(A, b) ==
  IF b >= A.top \/ b \notin DOMAIN A.size THEN {}
  ELSE {b} \cup CarvedFrom(A, b + 2^A.size[b])

Carved(A) == CarvedFrom(A, FirstBlock)

(* Free list c in list order, following at most n links.                  *)
RECURSIVE ListFrom(_, _, _)
ListFrom(A, b, n) ==
  IF b = Null \/ n = 0 \/ b \notin DOMAIN A.next THEN <<>>
  ELSE <<b>> \o ListFrom(A, A.next[b], n - 1)

FreeList(A, c) == ListFrom(A, A.fl[c], Cardinality(DOMAIN A.next) + 1)

FreeBlocks(A) == UNION {Range(FreeList(A, c)) : c \in Classes}

(* The allocator's own structure: poolTop never passes the end of the     *)
(* pool, and every free list ends, holds distinct carved blocks of its own *)
(* class, and shares no block with another list.                           *)
AllocatorSound(A) ==
  LET lists == [c \in Classes |-> FreeList(A, c)] IN
  /\ A.top <= PoolAddr + PoolSize
  /\ \A c \in Classes :
        /\ lists[c] = <<>> \/ A.next[lists[c][Len(lists[c])]] = Null
        /\ IsInjective(lists[c])
        /\ \A b \in Range(lists[c]) : b \in Carved(A) /\ A.size[b] = c
  /\ \A c, d \in Classes : c # d => Range(lists[c]) \cap Range(lists[d]) = {}

=============================================================================
