---------------------------- MODULE AbstractLock ----------------------------
(***************************************************************************)
(* What kfd::detail::Mutex promises its callers: at most one holder, and a *)
(* free lock that somebody waits for is taken by somebody.  It promises no *)
(* order among the waiters, and a thread that does not wait may overtake   *)
(* one that does.                                                          *)
(***************************************************************************)
CONSTANT Threads

VARIABLES holders,  \* the threads between lock() and unlock()
          waiters   \* the threads inside lock()

vars == <<holders, waiters>>

Init == holders = {} /\ waiters = {}

Request(t) ==
  /\ t \notin holders \cup waiters
  /\ waiters' = waiters \cup {t}
  /\ UNCHANGED holders

Acquire(t) ==
  /\ holders = {}
  /\ holders' = {t}
  /\ waiters' = waiters \ {t}

Release(t) ==
  /\ holders = {t}
  /\ holders' = {}
  /\ UNCHANGED waiters

Next == \E t \in Threads : Request(t) \/ Acquire(t) \/ Release(t)

AcquireWaiting == \E t \in waiters : Acquire(t)

Spec == Init /\ [][Next]_vars /\ WF_vars(AcquireWaiting)
=============================================================================
