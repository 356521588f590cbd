--------------------------- MODULE MCQueueSignals ---------------------------
(* Two threads signal on a compute queue and an SDMA queue that wait for   *)
(* each other.                                                             *)
EXTENDS QueueSignals, TLC
CONSTANTS t1, t2, c1, d1, s1, s2
=============================================================================
