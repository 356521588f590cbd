--------------------------- MODULE MCFaultWatcher ---------------------------
(* Two queues that are created and destroyed while events fire.            *)
EXTENDS FaultWatcher
CONSTANTS o1, o2
=============================================================================
