------------------------------ MODULE MCMutex -------------------------------
(* Model values for Mutex: three threads, so that two can sleep while a    *)
(* third barges in, and two polls before sleeping.                         *)
EXTENDS Mutex, TLC
CONSTANTS t1, t2, t3
MCThreads == {t1, t2, t3}
=============================================================================
