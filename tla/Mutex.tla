------------------------------- MODULE Mutex --------------------------------
(***************************************************************************)
(* kfd::detail::Mutex (include/libkfd/detail/mutex.h and                   *)
(* lib/detail/mutex.cpp): the three-state futex lock every other component *)
(* of libkfd is built on.  One action is one atomic access to the lock     *)
(* word, or one futex(2) system call.                                      *)
(*                                                                         *)
(* The kernel's futex queue is external: FUTEX_WAIT compares and sleeps    *)
(* atomically, may return for a signal at any time, and FUTEX_WAKE wakes   *)
(* any one sleeper.                                                        *)
(***************************************************************************)
EXTENDS Naturals

CONSTANTS Threads,    \* the threads that use the lock
          SpinLimit   \* SPIN_LIMIT, polls of the lock word before sleeping

ASSUME SpinLimitAssumption == SpinLimit \in Nat

UNLOCKED  == 0
LOCKED    == 1
CONTENDED == 2
LockWords == {UNLOCKED, LOCKED, CONTENDED}

VARIABLES state,     \* the lock word
          pc,        \* where each thread is in lock() or unlock()
          expected,  \* each thread's last observation of the lock word
          spins      \* iterations of the spin loop done in this lock()

lockVars == <<state, pc, expected, spins>>

Places == {"outside",  \* not in lock(), does not hold the lock
           "spin",     \* top of the spin loop of lock_contended()
           "xchg",     \* about to exchange CONTENDED into the lock word
           "futex",    \* about to call FUTEX_WAIT
           "asleep",   \* sleeping in the kernel
           "held",     \* lock() returned
           "wake"}     \* unlock_contended(), about to call FUTEX_WAKE

LockTypeOK ==
  /\ state \in LockWords
  /\ pc \in [Threads -> Places]
  /\ expected \in [Threads -> LockWords]
  /\ spins \in [Threads -> 0..SpinLimit]

LockInit ==
  /\ state = UNLOCKED
  /\ pc = [t \in Threads |-> "outside"]
  /\ expected = [t \in Threads |-> UNLOCKED]
  /\ spins = [t \in Threads |-> 0]

Goto(t, place) == pc' = [pc EXCEPT ![t] = place]

-----------------------------------------------------------------------------
(* lock(): one compare-and-swap; the slow path starts from what it saw.    *)
Lock(t) ==
  /\ pc[t] = "outside"
  /\ IF state = UNLOCKED
     THEN /\ state' = LOCKED
          /\ Goto(t, "held")
          /\ UNCHANGED <<expected, spins>>
     ELSE /\ Goto(t, "spin")
          /\ expected' = [expected EXCEPT ![t] = state]
          /\ spins' = [spins EXCEPT ![t] = 0]
          /\ UNCHANGED state

(* The spin loop last saw UNLOCKED: try to take the lock without marking   *)
(* it contended.  A failed swap counts as an iteration.                    *)
SpinCas(t) ==
  /\ pc[t] = "spin" /\ spins[t] < SpinLimit
  /\ expected[t] = UNLOCKED
  /\ IF state = UNLOCKED
     THEN /\ state' = LOCKED
          /\ Goto(t, "held")
          /\ UNCHANGED <<expected, spins>>
     ELSE /\ expected' = [expected EXCEPT ![t] = state]
          /\ spins' = [spins EXCEPT ![t] = @ + 1]
          /\ UNCHANGED <<state, pc>>

(* The spin loop last saw LOCKED: look again.                              *)
SpinLoad(t) ==
  /\ pc[t] = "spin" /\ spins[t] < SpinLimit
  /\ expected[t] = LOCKED
  /\ expected' = [expected EXCEPT ![t] = state]
  /\ spins' = [spins EXCEPT ![t] = @ + 1]
  /\ UNCHANGED <<state, pc>>

(* Somebody else already waits, or the spin budget is used up.             *)
SpinStop(t) ==
  /\ pc[t] = "spin"
  /\ expected[t] = CONTENDED \/ spins[t] = SpinLimit
  /\ Goto(t, IF expected[t] = CONTENDED THEN "futex" ELSE "xchg")
  /\ UNCHANGED <<state, expected, spins>>

\* Mutant of Exchange: a waiter that gets the lock forgets the other waiters.
ExchangeForgets(t) ==
  /\ pc[t] = "xchg"
  /\ state' = IF state = UNLOCKED THEN LOCKED ELSE CONTENDED
  /\ expected' = [expected EXCEPT ![t] = state]
  /\ Goto(t, IF state = UNLOCKED THEN "held" ELSE "futex")
  /\ UNCHANGED spins

(* Take the lock word as CONTENDED, whoever holds it: this thread owns the *)
(* lock if the word was UNLOCKED and must sleep otherwise.                 *)
Exchange(t) ==
  /\ pc[t] = "xchg"
  /\ state' = CONTENDED
  /\ expected' = [expected EXCEPT ![t] = state]
  /\ Goto(t, IF state = UNLOCKED THEN "held" ELSE "futex")
  /\ UNCHANGED spins

\* Mutant of FutexWait: sleeps whatever the lock word says.
FutexWaitBlind(t) ==
  /\ pc[t] = "futex"
  /\ Goto(t, "asleep")
  /\ UNCHANGED <<state, expected, spins>>

(* FUTEX_WAIT sleeps only while the word is still CONTENDED.               *)
FutexWait(t) ==
  /\ pc[t] = "futex"
  /\ Goto(t, IF state = CONTENDED THEN "asleep" ELSE "xchg")
  /\ UNCHANGED <<state, expected, spins>>

(* FUTEX_WAIT returns EINTR: the code retries the exchange.                *)
FutexInterrupted(t) ==
  /\ pc[t] = "asleep"
  /\ Goto(t, "xchg")
  /\ UNCHANGED <<state, expected, spins>>

(* unlock(): release first, then wake a sleeper if there may be one.       *)
Unlock(t) ==
  /\ pc[t] = "held"
  /\ state' = UNLOCKED
  /\ Goto(t, IF state = CONTENDED THEN "wake" ELSE "outside")
  /\ UNCHANGED <<expected, spins>>

Sleepers == {t \in Threads : pc[t] = "asleep"}

\* Mutant of FutexWake: the woken thread believes the lock was handed to it.
FutexWakeHandsOver(t) ==
  /\ pc[t] = "wake"
  /\ \/ Sleepers = {} /\ Goto(t, "outside")
     \/ \E u \in Sleepers :
          pc' = [pc EXCEPT ![t] = "outside", ![u] = "held"]
  /\ UNCHANGED <<state, expected, spins>>

(* FUTEX_WAKE with a count of one.                                         *)
FutexWake(t) ==
  /\ pc[t] = "wake"
  /\ \/ /\ Sleepers = {}
        /\ Goto(t, "outside")
     \/ \E u \in Sleepers :
          pc' = [pc EXCEPT ![t] = "outside", ![u] = "xchg"]
  /\ UNCHANGED <<state, expected, spins>>

-----------------------------------------------------------------------------
(* The steps a thread inside lock() or unlock() takes without waiting for  *)
(* anybody.                                                                *)
Step(t) == \/ SpinCas(t) \/ SpinLoad(t) \/ SpinStop(t)
           \/ Exchange(t) \/ FutexWait(t) \/ FutexWake(t)

LockNext == \E t \in Threads :
              Lock(t) \/ Unlock(t) \/ Step(t) \/ FutexInterrupted(t)

LockSpec == LockInit /\ [][LockNext]_lockVars

(* A thread that is running its lock() or unlock() is scheduled; nothing   *)
(* forces a thread to call lock(), to leave its critical section, or the   *)
(* kernel to interrupt a sleeper.                                          *)
LockFairSpec == LockSpec /\ \A t \in Threads : WF_lockVars(Step(t))

-----------------------------------------------------------------------------
Holds(t) == pc[t] = "held"

(* Two threads are never both between lock() and unlock().  Every other    *)
(* class of libkfd relies on it.                                           *)
MutualExclusion == \A t, u \in Threads : Holds(t) /\ Holds(u) => t = u

(* One holder at most (mutex.h:10), and a spin loop that has its limit.    *)
LockSafe == LockTypeOK /\ MutualExclusion

(* The lock word is non-zero exactly while some thread holds the lock: the *)
(* strengthening that makes mutual exclusion inductive.                    *)
WordMatchesHolder == state = UNLOCKED <=> \A t \in Threads : ~Holds(t)

(* No lost wakeup: while a thread sleeps, either the lock word tells the   *)
(* holder to wake somebody, or a wake-up is already under way (a thread    *)
(* about to call FUTEX_WAKE or about to mark the word CONTENDED again).    *)
(* The hazard is a barging lock() that turns CONTENDED into LOCKED.        *)
NoLostWakeup ==
  Sleepers # {} =>
    \/ state = CONTENDED
    \/ \E t \in Threads : pc[t] \in {"wake", "xchg"}

(* The futex lock implements the abstract lock, its progress included: a   *)
(* free lock with a waiter does not stay free.                             *)
Abstract == INSTANCE AbstractLock WITH
  holders <- {t \in Threads : Holds(t)},
  waiters <- {t \in Threads : pc[t] \in {"spin", "xchg", "futex", "asleep"}}

ImplementsLock == Abstract!Spec
=============================================================================
