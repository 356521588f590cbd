--------------------------- MODULE SignalWaitProofs ---------------------------
(***************************************************************************)
(* Proofs about module SignalWait, for any signals, fence values, requests *)
(* and numbers of calls, of one waiting thread: two threads that wait for  *)
(* one auto-reset event take it from each other.                           *)
(*                                                                         *)
(* The argument for SleeperIsWoken follows a fence from the scan to the    *)
(* sleep.  A fence that was read too early and satisfies the condition now *)
(* was decremented since, and the event of that decrement is Pending: it   *)
(* is on the way, or it has fired and stays signaled, for nobody sleeps    *)
(* yet.  Sleep takes a signaled event, and one on the way wakes it.        *)
(***************************************************************************)
EXTENDS SignalWait, TLAPS

OneWaiter == \E w : Waiters = {w}

(* Conditions that stay true as a fence goes down to 0.                    *)
Stable(r) == r.cond \in {"LT", "LTE"} \/ (r.cond = "EQ" /\ r.value = 0)

Pending(s) == inflight[s] > 0 \/ signaled[s]
Scanning(w) == pc[w] \in {"spin", "check"}
Sig(w, i) == req[w].sigs[i]

Types ==
  /\ KernelTypeOK
  /\ fence \in [Signals -> Nat] /\ fence = jobs /\ inflight \in [Signals -> Nat]
  /\ pc \in [Waiters -> {"idle", "spin", "check", "block", "asleep", "reset"}]
  /\ req \in [Waiters -> Request] /\ idx \in [Waiters -> Nat]
  /\ result \in [Waiters -> {"none", "ok", "ETIMEDOUT", "EINVAL", "failed"}]

Asked ==
  \A w \in Waiters :
    /\ \/ req[w] \in Requests[w] \/ req[w] = NoRequest
       \/ \E s \in Signals : req[w] = [NoRequest EXCEPT !.sigs = <<s>>]
    /\ idx[w] = 1 \/ idx[w] \in DOMAIN req[w].sigs
    /\ Waiting(w) => idx[w] \in DOMAIN req[w].sigs /\ req[w] \in Requests[w]
    /\ pc[w] = "reset" => req[w].sigs # <<>>

(* A thread is on the queues of its events while it sleeps.                *)
OnQueues ==
  \A w \in Waiters :
    /\ registered[w] = IF pc[w] = "asleep" THEN Listed(req[w]) ELSE {}
    /\ activated[w] \subseteq registered[w]

(* The fences the scan has passed.                                         *)
Scanned ==
  \A w \in Waiters : Scanning(w) =>
    \A i \in DOMAIN req[w].sigs : i < idx[w] =>
      IF req[w].all THEN Stable(req[w]) => FenceSatisfies(Sig(w, i), req[w])
                    ELSE FenceSatisfies(Sig(w, i), req[w]) => Pending(Sig(w, i))

NoneMissed ==
  \A w \in Waiters : pc[w] = "block" /\ ForOne(w) =>
    \A s \in Listed(req[w]) : FenceSatisfies(s, req[w]) => Pending(s)

WaitInv == Types /\ Asked /\ OnQueues /\ Scanned /\ NoneMissed /\ SleeperIsWoken

-----------------------------------------------------------------------------
LEMMA RequestFacts ==
  ASSUME NEW r \in Request
  PROVE  /\ r.all \in BOOLEAN /\ r.sigs \in Seq(Signals) /\ r.value \in Nat
         /\ r.cond \in {"LT", "LTE", "EQ", "NE", "GTE", "GT"}
         /\ Len(r.sigs) \in Nat /\ DOMAIN r.sigs = 1..Len(r.sigs)
         /\ \A i \in DOMAIN r.sigs : r.sigs[i] \in Signals
         /\ Listed(r) \subseteq Events
         /\ r.sigs # <<>> => 1 \in DOMAIN r.sigs
<1>1. r.all \in BOOLEAN /\ r.sigs \in Seq(Signals) /\ r.value \in Nat
      /\ r.cond \in {"LT", "LTE", "EQ", "NE", "GTE", "GT"}
  BY DEF Request
<1>2. Len(r.sigs) \in Nat /\ DOMAIN r.sigs = 1..Len(r.sigs)
      /\ \A i \in DOMAIN r.sigs : r.sigs[i] \in Signals
  BY <1>1
<1>3. r.sigs # <<>> => 1 \in DOMAIN r.sigs
  BY <1>1
<1> QED BY <1>1, <1>2, <1>3 DEF Listed, Signals

LEMMA ConditionTyped ==
  ASSUME NEW current \in Nat, NEW value \in Nat,
         NEW cond \in {"LT", "LTE", "EQ", "NE", "GTE", "GT"}
  PROVE  Satisfies(current, cond, value) \in BOOLEAN
<1>1. CASE cond = "LT"
  BY <1>1 DEF Satisfies
<1>2. CASE cond = "LTE"
  BY <1>2 DEF Satisfies
<1>3. CASE cond = "EQ"
  BY <1>3 DEF Satisfies
<1>4. CASE cond = "NE"
  BY <1>4 DEF Satisfies
<1>5. CASE cond = "GTE"
  BY <1>5 DEF Satisfies
<1>6. CASE cond = "GT"
  BY <1>6 DEF Satisfies
<1> QED BY <1>1, <1>2, <1>3, <1>4, <1>5, <1>6

LEMMA NoRequestFacts ==
  /\ NoRequest \in Request /\ NoRequest.sigs = <<>>
  /\ \A s \in Signals :
       LET r == [NoRequest EXCEPT !.sigs = <<s>>]
       IN  r \in Request /\ r.sigs = <<s>> /\ r.sigs # <<>> /\ 1 \in DOMAIN r.sigs
<1>1. <<>> \in Seq(Signals)
  OBVIOUS
<1>2. NoRequest \in Request /\ NoRequest.sigs = <<>>
  BY <1>1 DEF NoRequest, Request
<1>3. ASSUME NEW s \in Signals
      PROVE  LET r == [NoRequest EXCEPT !.sigs = <<s>>]
             IN  r \in Request /\ r.sigs = <<s>> /\ r.sigs # <<>> /\ 1 \in DOMAIN r.sigs
  <2>1. <<s>> \in Seq(Signals) /\ <<s>> # <<>> /\ 1 \in DOMAIN <<s>>
    OBVIOUS
  <2>2. [NoRequest EXCEPT !.sigs = <<s>>] \in Request
    BY <2>1 DEF NoRequest, Request
  <2>3. [NoRequest EXCEPT !.sigs = <<s>>].sigs = <<s>>
    BY DEF NoRequest
  <2> QED BY <2>1, <2>2, <2>3
<1> QED BY <1>2, <1>3

LEMMA Waited ==
  ASSUME WaitInv, NEW w \in Waiters
  PROVE  /\ req[w] \in Request /\ Requests[w] \subseteq Request /\ idx[w] \in Nat
         /\ pc[w] \in {"idle", "spin", "check", "block", "asleep", "reset"}
         /\ req[w].all \in BOOLEAN /\ Len(req[w].sigs) \in Nat
         /\ DOMAIN req[w].sigs = 1..Len(req[w].sigs)
         /\ \A i \in DOMAIN req[w].sigs : Sig(w, i) \in Signals
         /\ Listed(req[w]) \subseteq Events
         /\ Waiting(w) => idx[w] \in 1..Len(req[w].sigs) /\ req[w] \in Requests[w]
                          /\ req[w].sigs # <<>>
<1>1. req[w] \in Request /\ idx[w] \in Nat
      /\ pc[w] \in {"idle", "spin", "check", "block", "asleep", "reset"}
  BY DEF WaitInv, Types
<1>2. Requests[w] \subseteq Request
  BY SignalAssumption DEF SignalAssumption
<1>3. Waiting(w) => idx[w] \in DOMAIN req[w].sigs /\ req[w] \in Requests[w]
  BY DEF WaitInv, Asked
<1>4. DOMAIN req[w].sigs = 1..Len(req[w].sigs)
  BY <1>1, RequestFacts
<1>5. idx[w] \in 1..Len(req[w].sigs) => req[w].sigs # <<>>
  OBVIOUS
<1> QED BY <1>1, <1>2, <1>3, <1>4, <1>5, RequestFacts DEF Sig

(* A device or the host changes a fence or an event.                       *)
Notifies(s) == s \in Signals /\ (Decrement(s) \/ FireEvent(s) \/ HostSignal(s))

LEMMA Notified ==
  ASSUME OneWaiter, WaitInv, NEW s, Notifies(s), NEW w \in Waiters
  PROVE  /\ UNCHANGED <<pc, req, idx, result, registered>>
         /\ activated \in [Waiters -> SUBSET Events]
         /\ activated' \in [Waiters -> SUBSET Events]
         /\ activated[w] \subseteq activated'[w]
         /\ activated'[w] \subseteq activated[w] \cup registered[w]
         /\ signaled' \in [Events -> BOOLEAN]
         /\ fence' \in [Signals -> Nat] /\ fence' = jobs' /\ inflight' \in [Signals -> Nat]
         /\ \A r \in Signals : \/ fence'[r] = fence[r]
                               \/ fence'[r] = fence[r] - 1 /\ inflight'[r] > 0
         /\ \A r \in Signals : Pending(r) /\ r \notin registered[w] => Pending(r)'
         /\ \A r \in Signals : inflight[r] > 0 /\ r \in registered[w] \ activated[w] =>
              inflight'[r] > 0 \/ r \in activated'[w]
<1>0. /\ fence \in [Signals -> Nat] /\ fence = jobs /\ inflight \in [Signals -> Nat]
      /\ signaled \in [Events -> BOOLEAN] /\ activated \in [Waiters -> SUBSET Events]
      /\ registered \in [Waiters -> SUBSET Events] /\ s \in Events /\ Signals = Events
  BY DEF WaitInv, Types, KernelTypeOK, Notifies, Signals
<1>1. ASSUME SetEvent(s)
      PROVE  /\ registered' = registered
             /\ activated' \in [Waiters -> SUBSET Events]
             /\ activated[w] \subseteq activated'[w]
             /\ activated'[w] \subseteq activated[w] \cup registered[w]
             /\ s \in registered[w] => s \in activated'[w]
             /\ signaled' \in [Events -> BOOLEAN]
             /\ \A r \in Signals : r # s => signaled'[r] = signaled[r]
             /\ s \notin registered[w] => signaled'[s]
  <2>1. registered' = registered
    BY <1>1 DEF SetEvent
  <2>2. activated' = [v \in Waiters |->
                        activated[v] \cup (IF v \in Queued(s) THEN {s} ELSE {})]
    BY <1>1 DEF SetEvent
  <2>3. w \in Queued(s) <=> s \in registered[w] \ activated[w]
    BY DEF Queued
  <2>4. activated'[w] = activated[w] \cup (IF w \in Queued(s) THEN {s} ELSE {})
    BY <2>2
  <2>5. activated' \in [Waiters -> SUBSET Events]
    BY <1>0, <2>2
  <2>6. s \notin registered[w] => Queued(s) = {}
    <3>1. \A v \in Waiters : v = w
      BY DEF OneWaiter
    <3> QED BY <3>1 DEF Queued
  <2>7. signaled' = [signaled EXCEPT ![s] = s \in Sticky \/ Queued(s) = {}]
    BY <1>1 DEF SetEvent
  <2>8. signaled' \in [Events -> BOOLEAN]
    BY <1>0, <2>7
  <2>9. /\ \A r \in Signals : r # s => signaled'[r] = signaled[r]
        /\ s \notin registered[w] => signaled'[s]
    BY <1>0, <2>6, <2>7
  <2> QED BY <2>1, <2>3, <2>4, <2>5, <2>8, <2>9
<1>2. CASE Decrement(s)
  <2>1. /\ jobs[s] > 0 /\ jobs' = [jobs EXCEPT ![s] = @ - 1]
        /\ fence' = [fence EXCEPT ![s] = @ - 1]
        /\ inflight' = [inflight EXCEPT ![s] = @ + 1]
        /\ UNCHANGED <<pc, req, idx, result, registered, activated, signaled>>
    BY <1>2 DEF Decrement, thread, kernel
  <2>2. fence' \in [Signals -> Nat] /\ fence' = jobs' /\ inflight' \in [Signals -> Nat]
    BY <1>0, <2>1
  <2>3. \A r \in Signals : inflight'[r] >= inflight[r]
    BY <1>0, <2>1
  <2>4. \A r \in Signals : \/ fence'[r] = fence[r]
                           \/ fence'[r] = fence[r] - 1 /\ inflight'[r] > 0
    BY <1>0, <2>1
  <2>5. \A r \in Signals : inflight[r] > 0 => inflight'[r] > 0
    BY <1>0, <2>2, <2>3
  <2> QED BY <1>0, <2>1, <2>2, <2>4, <2>5 DEF Pending
<1>3. CASE FireEvent(s)
  <2>1. /\ inflight' = [inflight EXCEPT ![s] = @ - 1] /\ inflight[s] > 0
        /\ SetEvent(s)
        /\ UNCHANGED <<pc, req, idx, result, fence, jobs>>
    BY <1>3 DEF FireEvent, thread
  <2>2. inflight' \in [Signals -> Nat]
    BY <1>0, <2>1
  <2>3. \A r \in Signals : r # s => inflight'[r] = inflight[r]
    BY <1>0, <2>1
  <2>4. \A r \in Signals : Pending(r) /\ r \notin registered[w] => Pending(r)'
    BY <1>1, <2>1, <2>3 DEF Pending
  <2>5. \A r \in Signals : inflight[r] > 0 /\ r \in registered[w] \ activated[w] =>
              inflight'[r] > 0 \/ r \in activated'[w]
    BY <1>1, <2>1, <2>3
  <2> QED BY <1>0, <1>1, <2>1, <2>2, <2>4, <2>5
<1>4. CASE HostSignal(s)
  <2>1. /\ SetEvent(s)
        /\ UNCHANGED <<pc, req, idx, result, fence, jobs, inflight>>
    BY <1>4 DEF HostSignal, thread, queues
  <2>2. \A r \in Signals : Pending(r) /\ r \notin registered[w] => Pending(r)'
    BY <1>1, <2>1 DEF Pending
  <2> QED BY <1>0, <1>1, <2>1, <2>2
<1> QED BY <1>2, <1>3, <1>4 DEF Notifies

(* A thread takes a step that is not a wait's first or a reset's.          *)
Proceeds(w) ==
  /\ w \in Waiters
  /\ \/ ReadFence(w) \/ WaitReturns(w) \/ PollAgain(w) \/ StopPolling(w)
     \/ Sleep(w) \/ Wake(w) \/ TimeOut(w) \/ WaitFails(w) \/ SleepExpires(w)

LEMMA NextCases ==
  ASSUME Next
  PROVE  \/ \E w \in Waiters : Proceeds(w)
         \/ \E w \in Waiters : EndReset(w)
         \/ \E w \in Waiters : \E r \in Requests[w] : CallWait(w, r)
         \/ \E w \in Waiters, s \in Signals : BeginReset(w, s)
         \/ \E s \in Signals : Notifies(s)
         \/ UNCHANGED vars
BY DEF Next, WaitStep, Proceeds, Notifies, Finished

LEMMA TypesNext == OneWaiter /\ WaitInv /\ [Next]_vars => Types'
<1> SUFFICES ASSUME OneWaiter, WaitInv, [Next]_vars PROVE Types'
  OBVIOUS
<1>0. Types /\ Signals = Events
  BY DEF WaitInv, Signals
<1>1. ASSUME NEW w \in Waiters, Proceeds(w) PROVE Types'
  <2>0. Listed(req[w]) \subseteq Events
    BY <1>1, Waited
  <2>1. UNCHANGED <<fence, jobs, inflight, req>> /\ idx' \in [Waiters -> Nat]
    BY <1>0, <1>1 DEF Types, Proceeds, ReadFence, WaitReturns, PollAgain, StopPolling, Sleep,
                      Wake, TimeOut, WaitFails, SleepExpires, Rescan, queues
  <2>2. /\ pc' \in [Waiters -> {"idle", "spin", "check", "block", "asleep", "reset"}]
        /\ result' \in [Waiters -> {"none", "ok", "ETIMEDOUT", "EINVAL", "failed"}]
    BY <1>0, <1>1 DEF Types, Proceeds, ReadFence, WaitReturns, PollAgain, StopPolling, Sleep,
                      Wake, TimeOut, WaitFails, SleepExpires, Return, Goto
  <2>3. KernelTypeOK'
    <3>1. ASSUME Sleep(w) PROVE KernelTypeOK'
      <4>1. /\ registered' = [registered EXCEPT ![w] = Listed(req[w])]
            /\ activated' = [activated EXCEPT ![w] = {e \in Listed(req[w]) : signaled[e]}]
            /\ signaled' = [e \in Events |->
                              signaled[e] /\ (e \in Sticky \/ e \notin Listed(req[w]))]
        BY <3>1 DEF Sleep, WaitEvents
      <4>2. {e \in Listed(req[w]) : signaled[e]} \subseteq Events
        BY <2>0
      <4>3. signaled' \in [Events -> BOOLEAN]
        BY <4>1
      <4>4. registered' \in [Waiters -> SUBSET Events]
            /\ activated' \in [Waiters -> SUBSET Events]
        BY <1>0, <2>0, <4>1, <4>2 DEF Types, KernelTypeOK
      <4> QED BY <4>3, <4>4 DEF KernelTypeOK
    <3>2. Wake(w) \/ SleepExpires(w) => KernelTypeOK'
      BY <1>0 DEF Types, KernelTypeOK, Wake, SleepExpires, EndWait
    <3>3. UNCHANGED kernel => KernelTypeOK'
      BY <1>0 DEF Types, KernelTypeOK, kernel
    <3> QED BY <1>1, <3>1, <3>2, <3>3 DEF Proceeds, ReadFence, WaitReturns, PollAgain,
                                          StopPolling, TimeOut, WaitFails
  <2> QED BY <1>0, <2>1, <2>2, <2>3 DEF Types
<1>2. ASSUME NEW w \in Waiters, EndReset(w) PROVE Types'
  <2>1. fence' = [fence EXCEPT ![req[w].sigs[1]] = Initial[req[w].sigs[1]]]
        /\ jobs' = [jobs EXCEPT ![req[w].sigs[1]] = Initial[req[w].sigs[1]]]
    BY <1>2 DEF EndReset
  <2>2. req[w].sigs[1] \in Signals
    <3>1. pc[w] = "reset" /\ req[w].sigs # <<>>
      BY <1>2 DEF EndReset, WaitInv, Asked
    <3> QED BY <3>1, Waited, RequestFacts
  <2>3. Initial \in [Signals -> Nat]
    BY SignalAssumption DEF SignalAssumption
  <2>4. fence' \in [Signals -> Nat] /\ fence' = jobs'
    BY <1>0, <2>1, <2>2, <2>3 DEF Types
  <2>5. UNCHANGED <<inflight, req, idx, signaled, registered, activated>>
        /\ pc' = [pc EXCEPT ![w] = "idle"] /\ result' = [result EXCEPT ![w] = "none"]
    BY <1>2 DEF EndReset, Return, Goto, kernel
  <2> QED BY <1>0, <2>4, <2>5 DEF Types, KernelTypeOK
<1>3. ASSUME NEW w \in Waiters, NEW r \in Requests[w], CallWait(w, r) PROVE Types'
  <2>1. r \in Request
    BY <1>3, Waited
  <2>2. /\ UNCHANGED <<fence, jobs, inflight, signaled, registered, activated>>
        /\ req' = [req EXCEPT ![w] = r] /\ idx' = [idx EXCEPT ![w] = 1]
    BY <1>3 DEF CallWait, Rescan, queues, kernel
  <2>3. /\ pc' \in [Waiters -> {"idle", "spin", "check", "block", "asleep", "reset"}]
        /\ result' \in [Waiters -> {"none", "ok", "ETIMEDOUT", "EINVAL", "failed"}]
    BY <1>0, <1>3 DEF Types, CallWait, Return, Goto
  <2> QED BY <1>0, <2>1, <2>2, <2>3 DEF Types, KernelTypeOK
<1>4. ASSUME NEW w \in Waiters, NEW s \in Signals, BeginReset(w, s) PROVE Types'
  <2>1. [NoRequest EXCEPT !.sigs = <<s>>] \in Request
    BY NoRequestFacts
  <2>2. /\ UNCHANGED <<fence, jobs, inflight, result>>
        /\ req' = [req EXCEPT ![w] = [NoRequest EXCEPT !.sigs = <<s>>]]
        /\ idx' = [idx EXCEPT ![w] = 1] /\ pc' = [pc EXCEPT ![w] = "reset"]
    BY <1>4 DEF BeginReset, Rescan, Goto, queues
  <2>3. KernelTypeOK'
    BY <1>0, <1>4 DEF Types, KernelTypeOK, BeginReset, ResetEvent
  <2> QED BY <1>0, <2>1, <2>2, <2>3 DEF Types
<1>5. ASSUME NEW s \in Signals, Notifies(s) PROVE Types'
  <2>1. PICK w : Waiters = {w}
    BY DEF OneWaiter
  <2>2. w \in Waiters /\ registered' = registered
    BY <1>5, <2>1, Notified
  <2>3. KernelTypeOK'
    BY <1>0, <1>5, <2>2, Notified DEF Types, KernelTypeOK
  <2> QED BY <1>0, <1>5, <2>2, <2>3, Notified DEF Types
<1>6. UNCHANGED vars => Types'
  BY <1>0 DEF Types, KernelTypeOK, vars
<1> QED BY <1>1, <1>2, <1>3, <1>4, <1>5, <1>6, NextCases

LEMMA AskedNext == OneWaiter /\ WaitInv /\ [Next]_vars => Asked'
<1> SUFFICES ASSUME OneWaiter, WaitInv, [Next]_vars PROVE Asked'
  OBVIOUS
<1> DEFINE AskedBy(r, i, p, w) ==
      /\ \/ r \in Requests[w] \/ r = NoRequest
         \/ \E s \in Signals : r = [NoRequest EXCEPT !.sigs = <<s>>]
      /\ i = 1 \/ i \in DOMAIN r.sigs
      /\ p \in {"spin", "check", "block", "asleep"} => i \in DOMAIN r.sigs /\ r \in Requests[w]
      /\ p = "reset" => r.sigs # <<>>
<1>0. /\ pc \in [Waiters -> {"idle", "spin", "check", "block", "asleep", "reset"}]
      /\ req \in [Waiters -> Request] /\ idx \in [Waiters -> Nat]
      /\ \A w \in Waiters : AskedBy(req[w], idx[w], pc[w], w)
  BY DEF WaitInv, Types, Asked, Waiting
<1> SUFFICES ASSUME NEW v \in Waiters PROVE AskedBy(req'[v], idx'[v], pc'[v], v)
  BY DEF Asked, Waiting
<1>1. ASSUME NEW w \in Waiters, Proceeds(w) PROVE AskedBy(req'[v], idx'[v], pc'[v], v)
  <2>1. req' = req /\ v = w
    BY <1>1 DEF OneWaiter, Proceeds, ReadFence, WaitReturns, PollAgain, StopPolling, Sleep,
                Wake, TimeOut, WaitFails, SleepExpires
  <2>2. pc[w] \in {"spin", "check", "block", "asleep"} /\ pc'[w] # "reset"
    BY <1>0, <1>1 DEF Proceeds, ReadFence, WaitReturns, PollAgain, StopPolling, Sleep,
                Wake, TimeOut, WaitFails, SleepExpires, Return, Goto
  <2>3. /\ idx[w] \in 1..Len(req[w].sigs) /\ req[w] \in Requests[w]
        /\ DOMAIN req[w].sigs = 1..Len(req[w].sigs) /\ Len(req[w].sigs) \in Nat
    BY <2>2, Waited DEF Waiting
  <2>4. idx'[w] \in 1..Len(req[w].sigs)
    BY <1>0, <1>1, <2>3 DEF Proceeds, ReadFence, ScanGoesOn, WaitReturns, PollAgain,
       StopPolling, Sleep, Wake, TimeOut, WaitFails, SleepExpires, Rescan
  <2> QED BY <2>1, <2>2, <2>3, <2>4
<1>2. ASSUME NEW w \in Waiters, EndReset(w) PROVE AskedBy(req'[v], idx'[v], pc'[v], v)
  <2>1. req' = req /\ idx' = idx /\ pc'[w] = "idle" /\ v = w
    BY <1>0, <1>2 DEF OneWaiter, EndReset, Return, Goto
  <2> QED BY <1>0, <2>1
<1>3. ASSUME NEW w \in Waiters, NEW r \in Requests[w], CallWait(w, r)
      PROVE  AskedBy(req'[v], idx'[v], pc'[v], v)
  <2>1. /\ req'[w] = r /\ idx'[w] = 1 /\ v = w
        /\ \/ pc'[w] = "spin" /\ r.sigs # <<>>
           \/ pc'[w] = "idle"
    BY <1>0, <1>3 DEF OneWaiter, CallWait, Rescan, Return, Goto
  <2>2. r.sigs # <<>> => 1 \in DOMAIN r.sigs
    BY Waited, RequestFacts
  <2> QED BY <2>1, <2>2
<1>4. ASSUME NEW w \in Waiters, NEW s \in Signals, BeginReset(w, s)
      PROVE  AskedBy(req'[v], idx'[v], pc'[v], v)
  <2>1. /\ req'[w] = [NoRequest EXCEPT !.sigs = <<s>>]
        /\ idx'[w] = 1 /\ pc'[w] = "reset" /\ v = w
    BY <1>0, <1>4 DEF OneWaiter, BeginReset, Rescan, Goto
  <2> QED BY <2>1, NoRequestFacts
<1>5. ASSUME NEW s \in Signals, Notifies(s) PROVE AskedBy(req'[v], idx'[v], pc'[v], v)
  BY <1>0, <1>5, Notified
<1>6. UNCHANGED vars => AskedBy(req'[v], idx'[v], pc'[v], v)
  BY <1>0 DEF vars
<1> QED BY <1>1, <1>2, <1>3, <1>4, <1>5, <1>6, NextCases

LEMMA OnQueuesNext == OneWaiter /\ WaitInv /\ [Next]_vars => OnQueues'
<1> SUFFICES ASSUME OneWaiter, WaitInv, [Next]_vars PROVE OnQueues'
  OBVIOUS
<1>0. /\ pc \in [Waiters -> {"idle", "spin", "check", "block", "asleep", "reset"}]
      /\ req \in [Waiters -> Request]
      /\ registered \in [Waiters -> SUBSET Events] /\ activated \in [Waiters -> SUBSET Events]
      /\ OnQueues
  BY DEF WaitInv, Types, KernelTypeOK
<1> DEFINE Right(v) == /\ registered'[v] = IF pc'[v] = "asleep" THEN Listed(req'[v]) ELSE {}
                       /\ activated'[v] \subseteq registered'[v]
<1> SUFFICES ASSUME NEW v \in Waiters PROVE Right(v)
  BY DEF OnQueues, Listed
<1>1. ASSUME NEW w \in Waiters, Proceeds(w) PROVE Right(v)
  <2>1. req' = req /\ v = w
    BY <1>1 DEF OneWaiter, Proceeds, ReadFence, WaitReturns, PollAgain, StopPolling, Sleep,
                Wake, TimeOut, WaitFails, SleepExpires
  <2>2. CASE Sleep(w)
    BY <1>0, <2>1, <2>2 DEF Sleep, WaitEvents, Goto
  <2>3. CASE Wake(w) \/ SleepExpires(w)
    BY <1>0, <2>1, <2>3 DEF Wake, SleepExpires, EndWait, Goto
  <2>4. CASE ReadFence(w) \/ WaitReturns(w) \/ PollAgain(w) \/ StopPolling(w)
             \/ TimeOut(w) \/ WaitFails(w)
    <3>1. UNCHANGED <<registered, activated>> /\ pc[w] # "asleep" /\ pc'[w] # "asleep"
      BY <1>0, <2>4 DEF ReadFence, WaitReturns, PollAgain, StopPolling, TimeOut, WaitFails,
                        Return, Goto, kernel
    <3> QED BY <1>0, <2>1, <3>1 DEF OnQueues
  <2> QED BY <1>1, <2>2, <2>3, <2>4 DEF Proceeds
<1>2. ASSUME NEW w \in Waiters, EndReset(w) PROVE Right(v)
  BY <1>0, <1>2 DEF OneWaiter, EndReset, Return, Goto, kernel, OnQueues
<1>3. ASSUME NEW w \in Waiters, NEW r \in Requests[w], CallWait(w, r) PROVE Right(v)
  BY <1>0, <1>3 DEF OneWaiter, CallWait, Return, Goto, kernel, OnQueues
<1>4. ASSUME NEW w \in Waiters, NEW s \in Signals, BeginReset(w, s) PROVE Right(v)
  BY <1>0, <1>4 DEF OneWaiter, BeginReset, Goto, ResetEvent, OnQueues
<1>5. ASSUME NEW s \in Signals, Notifies(s) PROVE Right(v)
  <2>1. UNCHANGED <<pc, req, registered>> /\ activated'[v] \subseteq activated[v] \cup registered[v]
    BY <1>5, Notified
  <2> QED BY <1>0, <2>1 DEF OnQueues
<1>6. UNCHANGED vars => Right(v)
  BY <1>0 DEF vars, OnQueues
<1> QED BY <1>1, <1>2, <1>3, <1>4, <1>5, <1>6, NextCases

(* What a fence going down by one does to a condition and to an event.     *)
LEMMA Lowered ==
  ASSUME OneWaiter, WaitInv, NEW s, Notifies(s), NEW w \in Waiters, NEW r \in Signals
  PROVE  /\ Stable(req[w]) /\ FenceSatisfies(r, req[w]) => FenceSatisfies(r, req[w])'
         /\ /\ registered[w] = {}
            /\ FenceSatisfies(r, req[w]) => Pending(r)
            => (FenceSatisfies(r, req[w])' => Pending(r)')
<1>0. /\ fence \in [Signals -> Nat] /\ fence' \in [Signals -> Nat]
      /\ req'[w] = req[w] /\ req[w].value \in Nat
      /\ req[w].cond \in {"LT", "LTE", "EQ", "NE", "GTE", "GT"}
      /\ \/ fence'[r] = fence[r]
         \/ fence'[r] = fence[r] - 1 /\ inflight'[r] > 0
      /\ Pending(r) /\ r \notin registered[w] => Pending(r)'
  <2>1. req[w] \in Request /\ fence \in [Signals -> Nat]
    BY DEF WaitInv, Types
  <2> QED BY <2>1, RequestFacts, Notified
<1>1. ASSUME Stable(req[w]), FenceSatisfies(r, req[w]) PROVE FenceSatisfies(r, req[w])'
  <2>1. fence'[r] <= fence[r] /\ fence[r] \in Nat /\ fence'[r] \in Nat
    BY <1>0
  <2>2. \/ req[w].cond = "LT" /\ fence[r] < req[w].value
        \/ req[w].cond = "LTE" /\ fence[r] <= req[w].value
        \/ req[w].cond = "EQ" /\ req[w].value = 0 /\ fence[r] = 0
    BY <1>1 DEF Stable, FenceSatisfies, Satisfies
  <2>3. \/ req[w].cond = "LT" /\ fence'[r] < req[w].value
        \/ req[w].cond = "LTE" /\ fence'[r] <= req[w].value
        \/ req[w].cond = "EQ" /\ fence'[r] = req[w].value
    BY <1>0, <2>1, <2>2
  <2> QED BY <1>0, <2>3 DEF FenceSatisfies, Satisfies
<1>2. ASSUME registered[w] = {}, FenceSatisfies(r, req[w]) => Pending(r),
             FenceSatisfies(r, req[w])'
      PROVE  Pending(r)'
  <2>1. CASE fence'[r] = fence[r]
    <3>1. FenceSatisfies(r, req[w])
      BY <1>0, <1>2, <2>1 DEF FenceSatisfies, Satisfies
    <3> QED BY <1>0, <1>2, <3>1
  <2>2. CASE inflight'[r] > 0
    BY <2>2 DEF Pending
  <2> QED BY <1>0, <2>1, <2>2
<1> QED BY <1>1, <1>2

LEMMA ScannedNext == OneWaiter /\ WaitInv /\ [Next]_vars => Scanned'
<1> SUFFICES ASSUME OneWaiter, WaitInv, [Next]_vars,
                    NEW v \in Waiters, Scanning(v)',
                    NEW i \in DOMAIN req'[v].sigs, i < idx'[v]
             PROVE  /\ req'[v].all => (Stable(req[v])' => FenceSatisfies(Sig(v, i), req[v])')
                    /\ ~req'[v].all => (FenceSatisfies(Sig(v, i), req[v])' => Pending(Sig(v, i))')
  BY DEF Scanned
<1>0. /\ pc \in [Waiters -> {"idle", "spin", "check", "block", "asleep", "reset"}]
      /\ req \in [Waiters -> Request] /\ idx \in [Waiters -> Nat] /\ idx' \in [Waiters -> Nat]
      /\ req' \in [Waiters -> Request] /\ Scanned /\ OnQueues
  <2>1. Types'
    BY TypesNext
  <2> QED BY <2>1 DEF WaitInv, Types
<1>1. DOMAIN req'[v].sigs = 1..Len(req'[v].sigs) /\ Len(req'[v].sigs) \in Nat
  BY <1>0, RequestFacts
<1>2. idx'[v] # 1 /\ i \in Nat /\ i >= 1
  BY <1>0, <1>1
<1>3. ASSUME NEW w \in Waiters, ReadFence(w)
      PROVE  /\ req'[v].all => (Stable(req[v])' => FenceSatisfies(Sig(v, i), req[v])')
             /\ ~req'[v].all => (FenceSatisfies(Sig(v, i), req[v])' => Pending(Sig(v, i))')
  <2>1. /\ v = w /\ Scanning(v) /\ idx'[v] = idx[v] + 1 /\ ScanGoesOn(v)
        /\ UNCHANGED <<fence, req, inflight, signaled>>
    BY <1>0, <1>3 DEF OneWaiter, ReadFence, Scanning, queues, kernel
  <2>2. i < idx[v] \/ i = idx[v]
    BY <1>0, <1>2, <2>1
  <2>3. CASE i < idx[v]
    <3>1. IF req[v].all THEN Stable(req[v]) => FenceSatisfies(Sig(v, i), req[v])
                        ELSE FenceSatisfies(Sig(v, i), req[v]) => Pending(Sig(v, i))
      BY <1>0, <2>1, <2>3 DEF Scanned
    <3> QED BY <2>1, <3>1 DEF Stable, FenceSatisfies, Pending, Sig
  <2>4. CASE i = idx[v]
    BY <2>1, <2>4 DEF ScanGoesOn, FenceSatisfies, Sig
  <2> QED BY <2>2, <2>3, <2>4
<1>4. ASSUME NEW w \in Waiters, Proceeds(w) PROVE ReadFence(w)
  BY <1>0, <1>2, <1>4 DEF OneWaiter, Proceeds, WaitReturns, PollAgain, StopPolling, Sleep,
     Wake, TimeOut, WaitFails, SleepExpires, Return, Goto, Rescan, Scanning
<1>5. ASSUME NEW w \in Waiters, EndReset(w) PROVE FALSE
  BY <1>0, <1>5 DEF OneWaiter, EndReset, Return, Goto, Scanning
<1>6. ASSUME NEW w \in Waiters, NEW r \in Requests[w], CallWait(w, r) PROVE FALSE
  BY <1>0, <1>2, <1>6 DEF OneWaiter, CallWait, Rescan
<1>7. ASSUME NEW w \in Waiters, NEW s \in Signals, BeginReset(w, s) PROVE FALSE
  BY <1>0, <1>2, <1>7 DEF OneWaiter, BeginReset, Rescan
<1>8. ASSUME NEW s \in Signals, Notifies(s)
      PROVE  /\ req'[v].all => (Stable(req[v])' => FenceSatisfies(Sig(v, i), req[v])')
             /\ ~req'[v].all => (FenceSatisfies(Sig(v, i), req[v])' => Pending(Sig(v, i))')
  <2>1. UNCHANGED <<pc, req, idx, registered>>
    BY <1>8, Notified
  <2>2. PICK q \in Signals : q = req[v].sigs[i]
    BY <1>0, <2>1, RequestFacts
  <2>3. IF req[v].all THEN Stable(req[v]) => FenceSatisfies(q, req[v])
                      ELSE FenceSatisfies(q, req[v]) => Pending(q)
    BY <1>0, <2>1, <2>2 DEF Scanned, Scanning, Sig
  <2>4. registered[v] = {}
    BY <1>0, <2>1 DEF OnQueues, Scanning
  <2>5. /\ req[v].all => (Stable(req[v]) => FenceSatisfies(q, req[v])')
        /\ ~req[v].all => (FenceSatisfies(q, req[v])' => Pending(q)')
    BY <1>8, <2>3, <2>4, Lowered
  <2> QED BY <2>1, <2>2, <2>5 DEF Sig, Stable, FenceSatisfies, Pending
<1>9. UNCHANGED vars =>
        /\ req'[v].all => (Stable(req[v])' => FenceSatisfies(Sig(v, i), req[v])')
        /\ ~req'[v].all => (FenceSatisfies(Sig(v, i), req[v])' => Pending(Sig(v, i))')
  BY <1>0 DEF vars, Scanned, Scanning, Stable, FenceSatisfies, Pending, Sig
<1> QED BY <1>3, <1>4, <1>5, <1>6, <1>7, <1>8, <1>9, NextCases

(* A wait that one event can end waits for one fence.                      *)
LEMMA OneFence ==
  ASSUME WaitInv, NEW w \in Waiters, Waiting(w), ForOne(w)
  PROVE  /\ req[w].all => \E q \in Listed(req[w]) : Listed(req[w]) = {q}
         /\ Met(w) => \E q \in Listed(req[w]) : FenceSatisfies(q, req[w])
<1>1. Len(req[w].sigs) \in Nat /\ DOMAIN req[w].sigs = 1..Len(req[w].sigs)
      /\ idx[w] \in 1..Len(req[w].sigs)
  BY Waited
<1>2. ASSUME req[w].all PROVE Listed(req[w]) = {req[w].sigs[1]}
  <2>1. DOMAIN req[w].sigs = {1}
    BY <1>1, <1>2 DEF ForOne
  <2> QED BY <2>1 DEF Listed
<1>3. Met(w) => \E q \in Listed(req[w]) : FenceSatisfies(q, req[w])
  BY <1>2 DEF Met
<1> QED BY <1>2, <1>3

LEMMA NoneMissedNext == OneWaiter /\ WaitInv /\ [Next]_vars => NoneMissed'
<1> SUFFICES ASSUME OneWaiter, WaitInv, [Next]_vars,
                    NEW v \in Waiters, pc'[v] = "block", ForOne(v)',
                    NEW s \in Listed(req'[v]), FenceSatisfies(s, req[v])'
             PROVE  Pending(s)'
  BY DEF NoneMissed, Listed
<1>0. /\ pc \in [Waiters -> {"idle", "spin", "check", "block", "asleep", "reset"}]
      /\ req \in [Waiters -> Request] /\ Scanned /\ OnQueues /\ NoneMissed
  BY DEF WaitInv, Types
<1>1. ASSUME NEW w \in Waiters, StopPolling(w) PROVE Pending(s)'
  <2>1. /\ v = w /\ Scanning(v) /\ ScanFails(v)
        /\ UNCHANGED <<fence, req, idx, inflight, signaled>>
    BY <1>1 DEF OneWaiter, StopPolling, Scanning, queues, kernel
  <2>2. /\ req[v].all \in BOOLEAN /\ Len(req[v].sigs) \in Nat /\ idx[v] \in 1..Len(req[v].sigs)
        /\ DOMAIN req[v].sigs = 1..Len(req[v].sigs)
    BY <2>1, Waited DEF Scanning, Waiting
  <2>3. PICK i \in 1..Len(req[v].sigs) : s = Sig(v, i)
    BY <2>1, <2>2 DEF Listed, Sig
  <2>4. FenceSatisfies(Sig(v, i), req[v])
    BY <2>1, <2>3 DEF FenceSatisfies
  <2>5. req[v].all => Len(req[v].sigs) <= 1
    BY <2>1 DEF ForOne
  <2>6. i # idx[v]
    BY <2>1, <2>2, <2>4, <2>5 DEF ScanFails, ScanSucceeds, Sig
  <2>7. i < idx[v] /\ ~req[v].all
    <3>1. ~req[v].all
      BY <2>2, <2>5, <2>6
    <3>2. ~FenceSatisfies(req[v].sigs[idx[v]], req[v])
      BY <2>1, <3>1 DEF ScanFails, ScanSucceeds
    <3>3. FenceSatisfies(req[v].sigs[idx[v]], req[v]) \in BOOLEAN
      <4>1. req[v].sigs[idx[v]] \in Signals /\ req[v] \in Request
        BY <1>0, <2>2, RequestFacts
      <4>2. fence \in [Signals -> Nat]
        BY DEF WaitInv, Types
      <4> QED BY <4>1, <4>2, RequestFacts, ConditionTyped DEF FenceSatisfies
    <3>4. FenceSatisfies(req[v].sigs[idx[v]], req[v]) = req[v].all
      BY <2>2, <3>1, <3>2, <3>3
    <3>5. ~(idx[v] < Len(req[v].sigs))
      BY <2>1, <3>4 DEF ScanFails, ScanGoesOn
    <3> QED BY <2>2, <2>6, <3>1, <3>5
  <2>8. Pending(Sig(v, i))
    BY <1>0, <2>1, <2>2, <2>4, <2>7 DEF Scanned
  <2> QED BY <2>1, <2>3, <2>8 DEF Pending
<1>2. ASSUME NEW w \in Waiters, Proceeds(w) PROVE StopPolling(w)
  BY <1>0, <1>2 DEF OneWaiter, Proceeds, ReadFence, WaitReturns, PollAgain, Sleep, Wake,
     TimeOut, WaitFails, SleepExpires, Return, Goto
<1>3. ASSUME NEW w \in Waiters, EndReset(w) PROVE FALSE
  BY <1>0, <1>3 DEF OneWaiter, EndReset, Return, Goto
<1>4. ASSUME NEW w \in Waiters, NEW r \in Requests[w], CallWait(w, r) PROVE FALSE
  BY <1>0, <1>4 DEF OneWaiter, CallWait, Return, Goto
<1>5. ASSUME NEW w \in Waiters, NEW q \in Signals, BeginReset(w, q) PROVE FALSE
  BY <1>0, <1>5 DEF OneWaiter, BeginReset, Goto
<1>6. ASSUME NEW q \in Signals, Notifies(q) PROVE Pending(s)'
  <2>1. UNCHANGED <<pc, req, registered>>
    BY <1>6, Notified
  <2>2. s \in Signals /\ registered[v] = {} /\ ForOne(v) /\ pc[v] = "block"
    BY <1>0, <2>1, RequestFacts DEF OnQueues, ForOne, Signals
  <2>3. FenceSatisfies(s, req[v]) => Pending(s)
    BY <1>0, <2>1, <2>2 DEF NoneMissed
  <2> QED BY <1>6, <2>2, <2>3, Lowered
<1>7. UNCHANGED vars => Pending(s)'
  BY <1>0 DEF vars, NoneMissed, ForOne, FenceSatisfies, Pending
<1> QED BY <1>1, <1>2, <1>3, <1>4, <1>5, <1>6, <1>7, NextCases

LEMMA SleeperNext == OneWaiter /\ WaitInv /\ [Next]_vars => SleeperIsWoken'
<1> SUFFICES ASSUME OneWaiter, WaitInv, [Next]_vars,
                    NEW v \in Waiters, pc'[v] = "asleep", ForOne(v)', Met(v)'
             PROVE  \/ WaitComplete(v, req[v].all)'
                    \/ \E s \in registered'[v] \ activated'[v] : inflight'[s] > 0
  BY DEF SleeperIsWoken
<1>0. /\ pc \in [Waiters -> {"idle", "spin", "check", "block", "asleep", "reset"}]
      /\ req \in [Waiters -> Request] /\ OnQueues /\ OnQueues' /\ NoneMissed
      /\ registered \in [Waiters -> SUBSET Events] /\ activated \in [Waiters -> SUBSET Events]
  BY OnQueuesNext DEF WaitInv, Types, KernelTypeOK
<1>1. ASSUME NEW w \in Waiters, Sleep(w)
      PROVE  \/ WaitComplete(v, req[v].all)'
             \/ \E s \in registered'[v] \ activated'[v] : inflight'[s] > 0
  <2>1. /\ v = w /\ pc[v] = "block" /\ UNCHANGED <<fence, req, inflight>>
        /\ registered'[v] = Listed(req[v])
        /\ activated'[v] = {e \in Listed(req[v]) : signaled[e]}
    BY <1>0, <1>1 DEF OneWaiter, Sleep, WaitEvents, queues
  <2>2. Waiting(v) /\ ForOne(v) /\ Met(v)
    BY <2>1 DEF Waiting, ForOne, Met, FenceSatisfies, Listed
  <2>3. PICK q \in Listed(req[v]) : FenceSatisfies(q, req[v])
    BY <2>2, OneFence
  <2>4. req[v].all => Listed(req[v]) = {q}
    BY <2>2, OneFence
  <2>5. Pending(q)
    BY <1>0, <2>1, <2>2, <2>3 DEF NoneMissed
  <2>6. q \in activated'[v] => WaitComplete(v, req[v].all)'
    BY <2>1, <2>4 DEF WaitComplete
  <2> QED BY <2>1, <2>5, <2>6 DEF Pending
<1>2. ASSUME NEW w \in Waiters, Proceeds(w) PROVE Sleep(w)
  BY <1>0, <1>2 DEF OneWaiter, Proceeds, ReadFence, WaitReturns, PollAgain, StopPolling, Wake,
     TimeOut, WaitFails, SleepExpires, Return, Goto
<1>3. ASSUME NEW w \in Waiters, EndReset(w) PROVE FALSE
  BY <1>0, <1>3 DEF OneWaiter, EndReset, Return, Goto
<1>4. ASSUME NEW w \in Waiters, NEW r \in Requests[w], CallWait(w, r) PROVE FALSE
  BY <1>0, <1>4 DEF OneWaiter, CallWait, Return, Goto
<1>5. ASSUME NEW w \in Waiters, NEW q \in Signals, BeginReset(w, q) PROVE FALSE
  BY <1>0, <1>5 DEF OneWaiter, BeginReset, Goto
<1>6. ASSUME NEW s \in Signals, Notifies(s)
      PROVE  \/ WaitComplete(v, req[v].all)'
             \/ \E q \in registered'[v] \ activated'[v] : inflight'[q] > 0
  <2>1. /\ UNCHANGED <<pc, req, registered>> /\ pc[v] = "asleep"
        /\ activated[v] \subseteq activated'[v]
    BY <1>6, Notified
  <2>2. /\ registered[v] = Listed(req[v]) /\ activated'[v] \subseteq registered[v]
        /\ ForOne(v) /\ Waiting(v) /\ Listed(req[v]) \subseteq Signals
    BY <1>0, <2>1, RequestFacts DEF OnQueues, ForOne, Waiting, Signals, Listed
  <2>3. /\ req[v].all => \E p \in Listed(req[v]) : Listed(req[v]) = {p}
        /\ Met(v) => \E p \in Listed(req[v]) : FenceSatisfies(p, req[v])
    BY <2>2, OneFence
  <2>4. ASSUME NEW q \in registered[v], inflight'[q] > 0 \/ q \in activated'[v]
        PROVE  \/ WaitComplete(v, req[v].all)'
               \/ \E p \in registered'[v] \ activated'[v] : inflight'[p] > 0
    <3>1. q \in activated'[v] => WaitComplete(v, req[v].all)'
      BY <2>1, <2>2, <2>3 DEF WaitComplete
    <3> QED BY <2>1, <2>4, <3>1
  <2>5. CASE Met(v)
    <3>1. \/ WaitComplete(v, req[v].all)
          \/ \E q \in registered[v] \ activated[v] : inflight[q] > 0
      BY <2>1, <2>2, <2>5 DEF WaitInv, SleeperIsWoken
    <3>2. CASE WaitComplete(v, req[v].all)
      BY <2>1, <2>2, <3>2 DEF WaitComplete
    <3>3. CASE \E q \in registered[v] \ activated[v] : inflight[q] > 0
      <4>1. PICK q \in registered[v] \ activated[v] : inflight[q] > 0
        BY <3>3
      <4>2. inflight'[q] > 0 \/ q \in activated'[v]
        BY <1>6, <2>2, <4>1, Notified
      <4> QED BY <2>4, <4>1, <4>2
    <3> QED BY <3>1, <3>2, <3>3
  <2>6. CASE ~Met(v)
    <3>1. PICK q \in Listed(req[v]) : FenceSatisfies(q, req[v])' /\ ~FenceSatisfies(q, req[v])
      <4>1. CASE req[v].all
        BY <2>1, <2>3, <2>6, <4>1 DEF Met, Listed, FenceSatisfies
      <4>2. CASE ~req[v].all
        BY <2>1, <2>6, <4>2 DEF Met, Listed, FenceSatisfies
      <4> QED BY <4>1, <4>2
    <3>2. fence'[q] # fence[q]
      BY <2>1, <3>1 DEF FenceSatisfies
    <3>3. inflight'[q] > 0
      BY <1>6, <2>2, <3>2, Notified
    <3> QED BY <2>2, <2>4, <3>3
  <2> QED BY <2>5, <2>6
<1>7. UNCHANGED vars => \/ WaitComplete(v, req[v].all)'
                        \/ \E s \in registered'[v] \ activated'[v] : inflight'[s] > 0
  <2> SUFFICES ASSUME UNCHANGED vars
               PROVE  \/ WaitComplete(v, req[v].all)
                      \/ \E s \in registered[v] \ activated[v] : inflight[s] > 0
    BY DEF vars, WaitComplete
  <2>1. pc[v] = "asleep" /\ ForOne(v) /\ Met(v)
    BY DEF vars, ForOne, Met, FenceSatisfies, Listed
  <2> QED BY <2>1 DEF WaitInv, SleeperIsWoken
<1> QED BY <1>1, <1>2, <1>3, <1>4, <1>5, <1>6, <1>7, NextCases

LEMMA WaitInit == OneWaiter /\ Init => WaitInv
<1> SUFFICES ASSUME OneWaiter, Init PROVE WaitInv
  OBVIOUS
<1>0. /\ pc = [w \in Waiters |-> "idle"] /\ req = [w \in Waiters |-> NoRequest]
      /\ idx = [w \in Waiters |-> 1] /\ fence = Initial /\ jobs = Initial
      /\ registered = [w \in Waiters |-> {}] /\ activated = [w \in Waiters |-> {}]
  BY DEF Init, KernelInit
<1>1. Types
  <2>1. Initial \in [Signals -> Nat]
    BY SignalAssumption DEF SignalAssumption
  <2>2. req \in [Waiters -> Request]
    BY <1>0, NoRequestFacts
  <2> QED BY <1>0, <2>1, <2>2 DEF Types, Init, KernelInit, KernelTypeOK
<1>2. Asked
  BY <1>0 DEF Asked, Waiting
<1>3. OnQueues
  BY <1>0 DEF OnQueues
<1>4. Scanned /\ NoneMissed /\ SleeperIsWoken
  BY <1>0 DEF Scanned, Scanning, NoneMissed, SleeperIsWoken
<1> QED BY <1>1, <1>2, <1>3, <1>4 DEF WaitInv

LEMMA WaitNext == OneWaiter /\ WaitInv /\ [Next]_vars => WaitInv'
BY TypesNext, AskedNext, OnQueuesNext, ScannedNext, NoneMissedNext, SleeperNext DEF WaitInv

LEMMA WaitKept == WaitInv => Inv
<1> SUFFICES ASSUME WaitInv PROVE TypeOK
  BY DEF WaitInv, Inv
<1>1. Types /\ Asked
  BY DEF WaitInv
<1>2. ASSUME NEW w \in Waiters
      PROVE  /\ req[w] \in Requests[w] \cup {[NoRequest EXCEPT !.sigs = <<s>>] : s \in Signals}
                                       \cup {NoRequest}
             /\ idx[w] = 1 \/ idx[w] \in DOMAIN req[w].sigs
  BY <1>1 DEF Asked
<1> QED BY <1>1, <1>2 DEF Types, TypeOK

(* A thread that sleeps in wait_all() or wait_any() although its condition *)
(* holds has been woken, or the event that will wake it is on the way: the *)
(* event of the decisive decrement is not lost between the scan of the     *)
(* fences and WAIT_EVENTS, whatever devices, host and resets do meanwhile. *)
THEOREM WakeupNotLost == ASSUME OneWaiter PROVE Spec => []Inv
<1>1. Init => WaitInv
  BY WaitInit
<1>2. WaitInv /\ [Next]_vars => WaitInv'
  BY WaitNext
<1>3. WaitInv => Inv
  BY WaitKept
<1> QED BY <1>1, <1>2, <1>3, PTL DEF Spec

(* wait_all() of several signals is asked for conditions that stay true as *)
(* fences go down.                                                         *)
StableRequests ==
  \A w \in Waiters : \A r \in Requests[w] : r.all => Stable(r) \/ Len(r.sigs) <= 1

OkStep == \A w \in Waiters :
            Waiting(w) /\ pc'[w] = "idle" /\ result'[w] = "ok" => Met(w)

LEMMA OkStepHolds == OneWaiter /\ StableRequests /\ WaitInv /\ Next => OkStep
<1> SUFFICES ASSUME OneWaiter, StableRequests, WaitInv, Next,
                    NEW v \in Waiters, Waiting(v), pc'[v] = "idle", result'[v] = "ok"
             PROVE  Met(v)
  BY DEF OkStep
<1>0. /\ pc \in [Waiters -> {"idle", "spin", "check", "block", "asleep", "reset"}]
      /\ result \in [Waiters -> {"none", "ok", "ETIMEDOUT", "EINVAL", "failed"}]
      /\ Scanned
  BY DEF WaitInv, Types
<1>1. /\ req[v].all \in BOOLEAN /\ Len(req[v].sigs) \in Nat /\ idx[v] \in 1..Len(req[v].sigs)
      /\ DOMAIN req[v].sigs = 1..Len(req[v].sigs) /\ req[v] \in Requests[v]
  BY Waited
<1>2. ASSUME WaitReturns(v) PROVE Met(v)
  <2>1. /\ Scanning(v) /\ FenceSatisfies(Sig(v, idx[v]), req[v])
        /\ req[v].all => idx[v] = Len(req[v].sigs)
    BY <1>2 DEF WaitReturns, ScanSucceeds, Scanning, Sig
  <2>2. Sig(v, idx[v]) \in Listed(req[v])
    BY <1>1 DEF Listed, Sig
  <2>3. ASSUME req[v].all, NEW s \in Listed(req[v]) PROVE FenceSatisfies(s, req[v])
    <3>1. PICK i \in 1..Len(req[v].sigs) : s = Sig(v, i)
      BY <1>1 DEF Listed, Sig
    <3>2. Stable(req[v]) \/ Len(req[v].sigs) <= 1
      BY <1>1, <2>3 DEF StableRequests
    <3>3. i = idx[v] \/ (i < idx[v] /\ Stable(req[v]))
      BY <1>1, <2>1, <2>3, <3>2
    <3> QED BY <1>0, <1>1, <2>1, <2>3, <3>1, <3>3 DEF Scanned
  <2>4. CASE req[v].all
    BY <2>3, <2>4 DEF Met
  <2>5. CASE ~req[v].all
    BY <2>1, <2>2, <2>5 DEF Met
  <2> QED BY <2>4, <2>5
<1>3. ASSUME NEW w \in Waiters, Proceeds(w) PROVE WaitReturns(v)
  BY <1>0, <1>3 DEF OneWaiter, Proceeds, ReadFence, PollAgain, StopPolling, Sleep, Wake,
     TimeOut, WaitFails, SleepExpires, Return, Goto
<1>4. ASSUME NEW w \in Waiters, EndReset(w) PROVE FALSE
  BY <1>0, <1>4 DEF OneWaiter, EndReset, Waiting
<1>5. ASSUME NEW w \in Waiters, NEW r \in Requests[w], CallWait(w, r) PROVE FALSE
  BY <1>0, <1>5 DEF OneWaiter, CallWait, Waiting
<1>6. ASSUME NEW w \in Waiters, NEW s \in Signals, BeginReset(w, s) PROVE FALSE
  BY <1>0, <1>6 DEF OneWaiter, BeginReset, Waiting
<1>7. ASSUME NEW s \in Signals, Notifies(s) PROVE FALSE
  <2>1. pc' = pc
    BY <1>7, Notified
  <2> QED BY <2>1 DEF Waiting
<1>8. UNCHANGED vars => FALSE
  BY DEF vars, Waiting
<1> QED BY <1>2, <1>3, <1>4, <1>5, <1>6, <1>7, <1>8, NextCases

(* A wait that returns success tells the truth at the moment it returns:   *)
(* the fences it read first have only gone down since.                     *)
THEOREM SuccessMeansMet == ASSUME OneWaiter, StableRequests PROVE Spec => OkMeansMet
<1>1. Init => WaitInv
  BY WaitInit
<1>2. WaitInv /\ [Next]_vars => WaitInv'
  BY WaitNext
<1>3. WaitInv /\ [Next]_vars => [OkStep]_vars
  BY OkStepHolds
<1>4. [][OkStep]_vars <=> OkMeansMet
  BY PTL DEF OkMeansMet, OkStep
<1> QED BY <1>1, <1>2, <1>3, <1>4, PTL DEF Spec
=============================================================================
