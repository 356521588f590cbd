-------------------------- MODULE MCPoolAllocator ---------------------------
(* A region of nine bytes in granules of two: four granules and an odd     *)
(* byte at the end, as for a region that is no multiple of the alignment.  *)
EXTENDS PoolAllocator
MCSizes == {0, 1, 2, 3, 4, 6, 8, 9, 10}
=============================================================================
