------------------------------ MODULE KfdEvents ------------------------------
(***************************************************************************)
(* External: the KFD driver's events, as lib/event.cpp, lib/signal.cpp and *)
(* lib/context.cpp use them through WAIT_EVENTS, SET_EVENT and             *)
(* RESET_EVENT.  Those in Sticky stay signaled; the others are created     *)
(* with auto_reset: one that is set with nobody waiting for it stays       *)
(* signaled; one that is set while threads wait activates each of them and *)
(* does not stay signaled.  A thread that starts to wait takes the         *)
(* signaled events of its list, whether or not that is enough to end its   *)
(* wait.                                                                   *)
(***************************************************************************)
CONSTANTS Waiters, Events, Sticky

VARIABLES signaled,    \* per event: set, and taken by nobody yet
          registered,  \* per waiter: the events of its wait in progress
          activated    \* per waiter: those of them it has received

kernel == <<signaled, registered, activated>>

KernelTypeOK ==
  /\ signaled \in [Events -> BOOLEAN]
  /\ registered \in [Waiters -> SUBSET Events]
  /\ activated \in [Waiters -> SUBSET Events]

KernelInit ==
  /\ signaled = [e \in Events |-> FALSE]
  /\ registered = [w \in Waiters |-> {}]
  /\ activated = [w \in Waiters |-> {}]

(* The threads on the wait queue of event e.                               *)
Queued(e) == {w \in Waiters : e \in registered[w] \ activated[w]}

WaitEvents(w, events) ==
  /\ registered' = [registered EXCEPT ![w] = events]
  /\ activated' = [activated EXCEPT ![w] = {e \in events : signaled[e]}]
  /\ signaled' = [e \in Events |-> signaled[e] /\ (e \in Sticky \/ e \notin events)]

(* A wait ends by completing or by its timeout; what it received is gone.  *)
EndWait(w) ==
  /\ registered' = [registered EXCEPT ![w] = {}]
  /\ activated' = [activated EXCEPT ![w] = {}]
  /\ UNCHANGED signaled

SetEvent(e) ==
  /\ signaled' = [signaled EXCEPT ![e] = e \in Sticky \/ Queued(e) = {}]
  /\ activated' = [w \in Waiters |->
                     activated[w] \cup (IF w \in Queued(e) THEN {e} ELSE {})]
  /\ UNCHANGED registered

ResetEvent(e) ==
  /\ signaled' = [signaled EXCEPT ![e] = FALSE]
  /\ UNCHANGED <<registered, activated>>

WaitComplete(w, all) ==
  IF all THEN activated[w] = registered[w] ELSE activated[w] # {}
=============================================================================
