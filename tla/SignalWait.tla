----------------------------- MODULE SignalWait ------------------------------
(***************************************************************************)
(* kfd::Signal and the free functions wait_all() and wait_any()            *)
(* (include/libkfd/signal.h, lib/signal.cpp, lib/event.cpp).  A signal is  *)
(* a fence value that device queues decrement and an event they fire after *)
(* each decrement.  A waiter polls the fences, then sleeps on the events   *)
(* and polls again each time WAIT_EVENTS returns.                          *)
(*                                                                         *)
(* A wait is a request [all, sigs, cond, value].  The queues that signal   *)
(* are external; module KfdEvents models the events.                       *)
(***************************************************************************)
EXTENDS Integers, Sequences, FiniteSets, KfdEvents

CONSTANTS Initial,    \* the fence value each signal is created with
          Requests,   \* the waits each thread may call
          MaxWaits,   \* bound: waits per thread
          MaxResets,  \* bound: calls of reset()
          MaxSets     \* bound: calls of signal() from the host

Signals == Events

Request == [all : BOOLEAN, sigs : Seq(Signals), value : Nat,
            cond : {"LT", "LTE", "EQ", "NE", "GTE", "GT"}]

ASSUME SignalAssumption ==
  /\ Initial \in [Signals -> Nat] /\ Requests \in [Waiters -> SUBSET Request]
  /\ MaxWaits \in Nat /\ MaxResets \in Nat /\ MaxSets \in Nat

VARIABLES
  fence,     \* the fence value of each signal
  jobs,      \* decrements the device queues still owe each signal
  inflight,  \* events of past decrements that have not fired yet
  pc,        \* where each thread is
  req,       \* the wait each thread is executing, or executed last
  idx,       \* position of the signal whose fence is read next
  result,    \* what the last wait of each thread returned
  waits, resets, sets  \* calls made, against their bounds

queues == <<jobs, inflight>>
thread == <<pc, req, idx, result>>
counts == <<waits, resets, sets>>
vars == <<fence, jobs, inflight, pc, req, idx, result, waits, resets, sets,
          signaled, registered, activated>>

NoRequest == [all |-> TRUE, sigs |-> <<>>, cond |-> "EQ", value |-> 0]
Listed(r) == {r.sigs[i] : i \in DOMAIN r.sigs}

TypeOK ==
  /\ KernelTypeOK
  /\ fence \in [Signals -> Nat]
  /\ jobs \in [Signals -> Nat] /\ inflight \in [Signals -> Nat]
  /\ pc \in [Waiters -> {"idle", "spin", "check", "block", "asleep", "reset"}]
  /\ \A w \in Waiters :
       /\ req[w] \in Requests[w] \cup {[NoRequest EXCEPT !.sigs = <<s>>] : s \in Signals}
                                \cup {NoRequest}
       /\ idx[w] = 1 \/ idx[w] \in DOMAIN req[w].sigs
  /\ result \in [Waiters -> {"none", "ok", "ETIMEDOUT", "EINVAL", "failed"}]

Init ==
  /\ KernelInit
  /\ fence = Initial /\ jobs = Initial
  /\ inflight = [s \in Signals |-> 0]
  /\ pc = [w \in Waiters |-> "idle"]
  /\ req = [w \in Waiters |-> NoRequest]
  /\ idx = [w \in Waiters |-> 1]
  /\ result = [w \in Waiters |-> "none"]
  /\ waits = [w \in Waiters |-> 0] /\ resets = 0 /\ sets = 0

-----------------------------------------------------------------------------
(* check_condition()                                                       *)
Satisfies(current, cond, value) ==
  CASE cond = "LT"  -> current < value
    [] cond = "LTE" -> current <= value
    [] cond = "EQ"  -> current = value
    [] cond = "NE"  -> current # value
    [] cond = "GTE" -> current >= value
    [] cond = "GT"  -> current > value

FenceSatisfies(s, r) == Satisfies(fence[s], r.cond, r.value)

Goto(w, place) == pc' = [pc EXCEPT ![w] = place]
Return(w, r) == Goto(w, "idle") /\ result' = [result EXCEPT ![w] = r]
Rescan(w) == idx' = [idx EXCEPT ![w] = 1]

(* A thread calls wait_all() or wait_any(); an empty list returns at once. *)
CallWait(w, r) ==
  /\ pc[w] = "idle" /\ waits[w] < MaxWaits
  /\ waits' = [waits EXCEPT ![w] = @ + 1]
  /\ req' = [req EXCEPT ![w] = r]
  /\ Rescan(w)
  /\ \/ r.sigs # <<>> /\ Goto(w, "spin") /\ UNCHANGED result
     \/ r.sigs = <<>> /\ Return(w, IF r.all THEN "ok" ELSE "EINVAL")
  /\ UNCHANGED <<fence, queues, resets, sets, kernel>>

(* check_all() or check_any() reads one fence.                             *)
ScanGoesOn(w) == /\ idx[w] < Len(req[w].sigs)
                 /\ FenceSatisfies(req[w].sigs[idx[w]], req[w]) = req[w].all

ScanSucceeds(w) ==
  /\ FenceSatisfies(req[w].sigs[idx[w]], req[w])
  /\ req[w].all => idx[w] = Len(req[w].sigs)
ScanFails(w) == ~ScanGoesOn(w) /\ ~ScanSucceeds(w)

\* Mutant of ReadFence: the index is not advanced.
ReadSameFence(w) ==
  /\ pc[w] \in {"spin", "check"} /\ ScanGoesOn(w)
  /\ UNCHANGED vars

ReadFence(w) ==
  /\ pc[w] \in {"spin", "check"} /\ ScanGoesOn(w)
  /\ idx' = [idx EXCEPT ![w] = @ + 1]
  /\ UNCHANGED <<fence, queues, pc, req, result, counts, kernel>>

WaitReturns(w) ==
  /\ pc[w] \in {"spin", "check"} /\ ScanSucceeds(w)
  /\ Return(w, "ok")
  /\ UNCHANGED <<fence, queues, req, idx, counts, kernel>>

(* The polling phase goes on until its own deadline, then scans once more. *)
PollAgain(w) ==
  /\ pc[w] = "spin" /\ ScanFails(w)
  /\ \E place \in {"spin", "check"} : Goto(w, place)
  /\ Rescan(w)
  /\ UNCHANGED <<fence, queues, req, result, counts, kernel>>

StopPolling(w) ==
  /\ pc[w] = "check" /\ ScanFails(w)
  /\ Goto(w, "block")
  /\ UNCHANGED <<fence, queues, req, idx, result, counts, kernel>>

(* The deadline has passed after an unsuccessful scan.                     *)
TimeOut(w) ==
  /\ pc[w] = "block"
  /\ Return(w, "ETIMEDOUT")
  /\ UNCHANGED <<fence, queues, req, idx, counts, kernel>>

(* event_wait() fails: no memory for the list, or an error of the driver.  *)
WaitFails(w) ==
  /\ pc[w] = "block"
  /\ Return(w, "failed")
  /\ UNCHANGED <<fence, queues, req, idx, counts, kernel>>

\* Mutant of Sleep: the events are cleared before sleeping on them.
SleepAfterReset(w) ==
  /\ pc[w] = "block"
  /\ registered' = [registered EXCEPT ![w] = Listed(req[w])]
  /\ signaled' = [s \in Events |-> signaled[s] /\ s \notin Listed(req[w])]
  /\ Goto(w, "asleep")
  /\ UNCHANGED <<fence, queues, req, idx, result, counts, activated>>

(* event_wait(): wait_all() sleeps for all of the events, wait_any() for   *)
(* any of them.                                                            *)
Sleep(w) ==
  /\ pc[w] = "block"
  /\ WaitEvents(w, Listed(req[w]))
  /\ Goto(w, "asleep")
  /\ UNCHANGED <<fence, queues, req, idx, result, counts>>

\* Mutant of Wake: takes the event for the condition.
WakeBelievesEvent(w) ==
  /\ pc[w] = "asleep" /\ WaitComplete(w, req[w].all)
  /\ EndWait(w)
  /\ Return(w, "ok")
  /\ UNCHANGED <<fence, queues, req, idx, counts>>

Wake(w) ==
  /\ pc[w] = "asleep" /\ WaitComplete(w, req[w].all)
  /\ EndWait(w)
  /\ Goto(w, "check") /\ Rescan(w)
  /\ UNCHANGED <<fence, queues, req, result, counts>>

(* WAIT_EVENTS times out: the loop scans once more before it gives up.     *)
SleepExpires(w) ==
  /\ pc[w] = "asleep" /\ ~WaitComplete(w, req[w].all)
  /\ EndWait(w)
  /\ Goto(w, "check") /\ Rescan(w)
  /\ UNCHANGED <<fence, queues, req, result, counts>>

-----------------------------------------------------------------------------
(* reset() clears the event first and stores the fence second.  Its caller *)
(* reuses a signal that nobody waits for and whose decrements are done;    *)
(* their events may still be on the way.                                   *)
InUse(s) == \E w \in Waiters : pc[w] # "idle" /\ s \in Listed(req[w])

BeginReset(w, s) ==
  /\ pc[w] = "idle" /\ resets < MaxResets
  /\ ~InUse(s) /\ jobs[s] = 0
  /\ resets' = resets + 1
  /\ ResetEvent(s)
  /\ req' = [req EXCEPT ![w] = [NoRequest EXCEPT !.sigs = <<s>>]]
  /\ Goto(w, "reset") /\ Rescan(w)
  /\ UNCHANGED <<fence, queues, result, waits, sets>>

EndReset(w) ==
  LET s == req[w].sigs[1]
  IN  /\ pc[w] = "reset"
      /\ fence' = [fence EXCEPT ![s] = Initial[s]]
      /\ jobs' = [jobs EXCEPT ![s] = Initial[s]]
      /\ Return(w, "none")
      /\ UNCHANGED <<inflight, req, idx, counts, kernel>>

(* Signal::signal(): the host fires the event without touching the fence.  *)
HostSignal(s) ==
  /\ sets < MaxSets
  /\ sets' = sets + 1
  /\ SetEvent(s)
  /\ UNCHANGED <<fence, queues, thread, waits, resets>>

(* External: a device queue executes a signal packet (ATOMIC_MEM, then     *)
(* RELEASE_MEM with an interrupt): the decrement precedes its event.       *)
Decrement(s) ==
  /\ jobs[s] > 0
  /\ jobs' = [jobs EXCEPT ![s] = @ - 1]
  /\ fence' = [fence EXCEPT ![s] = @ - 1]
  /\ inflight' = [inflight EXCEPT ![s] = @ + 1]
  /\ UNCHANGED <<thread, counts, kernel>>

FireEvent(s) ==
  /\ inflight[s] > 0
  /\ inflight' = [inflight EXCEPT ![s] = @ - 1]
  /\ SetEvent(s)
  /\ UNCHANGED <<fence, jobs, thread, counts>>

-----------------------------------------------------------------------------
WaitStep(w) == \/ ReadFence(w) \/ WaitReturns(w) \/ PollAgain(w)
               \/ StopPolling(w) \/ Sleep(w) \/ Wake(w) \/ EndReset(w)

(* The bounds are used up, and everything that had to happen has happened. *)
Finished ==
  /\ \A w \in Waiters : pc[w] = "idle" /\ waits[w] = MaxWaits
  /\ \A s \in Signals : jobs[s] = 0 /\ inflight[s] = 0
  /\ UNCHANGED vars

Next ==
  \/ \E w \in Waiters : WaitStep(w) \/ TimeOut(w) \/ WaitFails(w) \/ SleepExpires(w)
  \/ \E w \in Waiters : \E r \in Requests[w] : CallWait(w, r)
  \/ Finished
  \/ \E w \in Waiters, s \in Signals : BeginReset(w, s)
  \/ \E s \in Signals : HostSignal(s) \/ Decrement(s) \/ FireEvent(s)

Spec == Init /\ [][Next]_vars

(* Threads are scheduled, and a device that has decremented a fence fires  *)
(* the event.  No timeout is relied on, and no decrement either: a device  *)
(* may stop before its work is done.                                       *)
FairSpec ==
  /\ Spec
  /\ \A w \in Waiters : WF_vars(WaitStep(w))
  /\ \A s \in Signals : WF_vars(FireEvent(s))

-----------------------------------------------------------------------------
Waiting(w) == pc[w] \in {"spin", "check", "block", "asleep"}

(* The condition the caller waits for holds now.                           *)
Met(w) == LET met == {s \in Listed(req[w]) : FenceSatisfies(s, req[w])}
          IN  IF req[w].all THEN met = Listed(req[w]) ELSE met # {}

(* A wait that reports success is telling the truth, although it reads the *)
(* fences one by one while devices change them.  (For conditions that stay *)
(* true as fences decrease, the use signal.h:8 names.)                     *)
OkMeansMet ==
  [][\A w \in Waiters :
       Waiting(w) /\ pc'[w] = "idle" /\ result'[w] = "ok" => Met(w)]_vars

(* One event is enough to end the wait's sleep.                            *)
ForOne(w) == req[w].all => Len(req[w].sigs) <= 1

(* A thread that sleeps although its condition holds has been woken or is  *)
(* about to be: the event of the decisive decrement is not lost between    *)
(* the scan of the fences and the sleep.  (WaitEnds shows what happens to  *)
(* a sleep for all of several events.)                                     *)
SleeperIsWoken ==
  \A w \in Waiters :
    pc[w] = "asleep" /\ ForOne(w) /\ Met(w) =>
      \/ WaitComplete(w, req[w].all)
      \/ \E s \in registered[w] \ activated[w] : inflight[s] > 0

(* No wait_all() or wait_any() that one event can end misses that event.   *)
Inv == TypeOK /\ SleeperIsWoken

(* A wait that one event can end does not go on for ever while its         *)
(* condition holds, although no timeout is relied on.                      *)
WaitForOneEnds == \A w \in Waiters : []<>~(Waiting(w) /\ ForOne(w) /\ Met(w))

(* signal.h:56 "Block until the fence value satisfies the condition": no   *)
(* wait goes on for ever while its condition holds.                        *)
WaitEnds == \A w \in Waiters : []<>~(Waiting(w) /\ Met(w))
=============================================================================
