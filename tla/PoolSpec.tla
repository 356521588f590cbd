------------------------------ MODULE PoolSpec ------------------------------
(***************************************************************************)
(* What kfd::detail::PoolAllocator promises: an allocation gets the lowest *)
(* free run of bytes that is long enough, it fails only when there is no   *)
(* such run, and what is given back can be allocated again.  How the free  *)
(* bytes are kept is not said here.                                        *)
(***************************************************************************)
EXTENDS Naturals, FiniteSetsExt

CONSTANTS RegionSize,   \* managed.size()
          Align,        \* the allocation granule
          Sizes         \* the sizes clients ask for

VARIABLES free,  \* the free bytes of the region
          live,  \* the outstanding allocations, [off, size]
          last   \* the last call and what it returned

vars == <<free, live, last>>

Bytes(off, n) == off..(off + n - 1)
WholeGranules(size) == ((size + Align - 1) \div Align) * Align
Fits(n) == {o \in free : Bytes(o, n) \subseteq free}

Init ==
  /\ free = Bytes(0, RegionSize)
  /\ live = {}
  /\ last = [op |-> "create", size |-> RegionSize, ret |-> "ok"]

Returns(op, size, ret) == last' = [op |-> op, size |-> size, ret |-> ret]

Allocate(size) ==
  LET n == WholeGranules(size)
  IN  /\ size > 0 /\ Fits(n) # {}
      /\ free' = free \ Bytes(Min(Fits(n)), n)
      /\ live' = live \cup {[off |-> Min(Fits(n)), size |-> size]}
      /\ Returns("allocate", size, "ok")

Refuse(size) ==
  /\ \/ size = 0 /\ Returns("allocate", size, "EINVAL")
     \/ size > 0 /\ Fits(WholeGranules(size)) = {} /\ Returns("allocate", size, "ENOMEM")
  /\ UNCHANGED <<free, live>>

Deallocate(b) ==
  /\ b \in live
  /\ free' = free \cup Bytes(b.off, WholeGranules(b.size))
  /\ live' = live \ {b}
  /\ Returns("deallocate", b.size, "ok")

(* A call that gives nothing back: a null or foreign pointer, or no memory *)
(* for the bookkeeping, in which case the caller still owns the block.     *)
KeepAll ==
  /\ \E ret \in {"ok", "EINVAL", "ENOMEM"}, size \in Sizes :
       Returns("deallocate", size, ret)
  /\ UNCHANGED <<free, live>>

Next == \/ \E s \in Sizes : Allocate(s) \/ Refuse(s)
        \/ \E b \in live : Deallocate(b)
        \/ KeepAll

Spec == Init /\ [][Next]_vars
=============================================================================
