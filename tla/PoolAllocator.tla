---------------------------- MODULE PoolAllocator ----------------------------
(***************************************************************************)
(* kfd::detail::PoolAllocator (lib/detail/pool_allocator.cpp): the first-  *)
(* fit, coalescing free list that hands out slices of a device's scratch   *)
(* aperture.  Every operation runs under the allocator's mutex (module     *)
(* Mutex), so it is one action.  Offsets and sizes are in bytes.           *)
(***************************************************************************)
EXTENDS Naturals, SequencesExt

CONSTANTS RegionSize,   \* managed.size()
          Align,        \* alignment(), a power of two
          Word,         \* 2^64, the width of size_t
          Sizes,        \* the sizes clients ask for
          InlineBlocks  \* capacity the free list has without malloc()

ASSUME PoolAssumption ==
  /\ RegionSize \in Nat \ {0} /\ Align \in Nat \ {0} /\ InlineBlocks \in Nat
  /\ Word \in Nat /\ Word % Align = 0 /\ RegionSize < Word
  /\ Sizes \subseteq 0..(Word - 1)

VARIABLES freeList,  \* the free blocks, [off, size], in list order
          live,      \* the blocks clients own, with the size they asked for
          last       \* the last call and what it returned

vars == <<freeList, live, last>>

Block(off, size) == [off |-> off, size |-> size]

TypeOK ==
  /\ freeList \in Seq([off : 0..(RegionSize - 1), size : 1..RegionSize])
  /\ live \subseteq [off : 0..(RegionSize - 1), size : Sizes]
  /\ last.ret \in {"ok", "EINVAL", "ENOMEM"}

Init ==
  /\ freeList = <<Block(0, RegionSize)>>
  /\ live = {}
  /\ last = [op |-> "create", size |-> RegionSize, ret |-> "ok"]

Returns(op, size, ret) == last' = [op |-> op, size |-> size, ret |-> ret]

(* (size + align - 1) & ~(align - 1), in size_t.                           *)
Rounded(size) == LET x == (size + Align - 1) % Word IN x - (x % Align)

-----------------------------------------------------------------------------
LargeEnough(n) == {i \in DOMAIN freeList : freeList[i].size >= n}

(* Cut n bytes off the front of block i; an exact match leaves the list.   *)
Cut(i, n) ==
  IF freeList[i].size = n THEN RemoveAt(freeList, i)
  ELSE [freeList EXCEPT ![i] = Block(@.off + n, @.size - n)]

Allocate(size) ==
  /\ size # 0 /\ LargeEnough(Rounded(size)) # {}
  /\ LET i == Min(LargeEnough(Rounded(size)))
     IN  /\ freeList' = Cut(i, Rounded(size))
         /\ live' = live \cup {Block(freeList[i].off, size)}
  /\ Returns("allocate", size, "ok")

AllocateFails(size) ==
  /\ \/ size = 0 /\ Returns("allocate", size, "EINVAL")
     \/ /\ size # 0 /\ LargeEnough(Rounded(size)) = {}
        /\ Returns("allocate", size, "ENOMEM")
  /\ UNCHANGED <<freeList, live>>

-----------------------------------------------------------------------------
(* Where a block at offset off belongs in the sorted list.                 *)
InsertionPoint(off) ==
  Min({i \in DOMAIN freeList : freeList[i].off >= off} \cup {Len(freeList) + 1})

\* Mutants of Coalesce: never join; join without adding the size.
NeverCoalesce(l, i) == l
CoalesceForgets(l, i) ==
  IF i \in 1..(Len(l) - 1) /\ l[i].off + l[i].size = l[i + 1].off
  THEN RemoveAt(l, i + 1) ELSE l

(* Join block i of list l with its right neighbour if they touch.          *)
Coalesce(l, i) ==
  IF i \in 1..(Len(l) - 1) /\ l[i].off + l[i].size = l[i + 1].off
  THEN RemoveAt([l EXCEPT ![i].size = @ + l[i + 1].size], i + 1)
  ELSE l

(* A client gives back a block, with the size it asked for.                *)
Deallocate(b) ==
  LET i == InsertionPoint(b.off)
      l == InsertAt(freeList, i, Block(b.off, Rounded(b.size)))
  IN  /\ b \in live
      /\ freeList' = Coalesce(Coalesce(l, i), i - 1)
      /\ live' = live \ {b}
      /\ Returns("deallocate", b.size, "ok")

(* Null pointers are accepted, foreign ones refused, and growing the list  *)
(* may fail: the list is as before and the caller keeps its block.         *)
DeallocateKeeps(size) ==
  /\ \/ \E ret \in {"ok", "EINVAL"} : Returns("deallocate", size, ret)
     \/ /\ Len(freeList) >= InlineBlocks /\ \E b \in live : b.size = size
        /\ Returns("deallocate", size, "ENOMEM")
  /\ UNCHANGED <<freeList, live>>

Next ==
  \/ \E s \in Sizes : Allocate(s) \/ AllocateFails(s) \/ DeallocateKeeps(s)
  \/ \E b \in live : Deallocate(b)

Spec == Init /\ [][Next]_vars

-----------------------------------------------------------------------------
(* The free list stays sorted and fully coalesced, without empty blocks:   *)
(* two neighbours are separated by at least one allocated byte.            *)
Canonical ==
  /\ \A i \in DOMAIN freeList : freeList[i].size > 0
  /\ \A i \in 1..(Len(freeList) - 1) :
       freeList[i].off + freeList[i].size < freeList[i + 1].off

Bytes(b, n) == b.off..(b.off + n - 1)
FreeBytes == UNION {Bytes(freeList[i], freeList[i].size) : i \in DOMAIN freeList}
LiveBytes(b) == Bytes(b, Rounded(b.size))

(* Every byte of the region is either free or belongs to exactly one live  *)
(* allocation: nothing leaks and no two allocations overlap.               *)
Partition ==
  /\ FreeBytes \cup UNION {LiveBytes(b) : b \in live} = 0..(RegionSize - 1)
  /\ \A b \in live : LiveBytes(b) \cap FreeBytes = {}
  /\ \A b, c \in live : b # c => LiveBytes(b) \cap LiveBytes(c) = {}

(* The free list is canonical, and with the live allocations it partitions *)
(* the region (pool_allocator.cpp:30-106).                                 *)
Inv == TypeOK /\ Canonical /\ Partition

(* The free list behaves as a set of free bytes would: an allocation takes *)
(* the lowest run that is long enough and fails only if there is none,     *)
(* which is what coalescing on every deallocation is for.                  *)
Pool == INSTANCE PoolSpec WITH free <- FreeBytes
ImplementsPool == Pool!Spec
=============================================================================
