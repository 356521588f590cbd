---------------------------- MODULE MCRingQueue -----------------------------
(* A ring of four dwords, every submission length from nothing to the      *)
(* whole ring, and two threads: padding, wrapping and a full ring all      *)
(* happen within three calls.                                              *)
EXTENDS RingQueue, TLC
CONSTANTS t1, t2
MCThreads == {t1, t2}
MCSizes == 0..Cap
=============================================================================
