---------------------------- MODULE QueueSignals -----------------------------
(***************************************************************************)
(* Work, signals and waits on the queues of a device                       *)
(* (include/libkfd/queue.h: ComputeQueue and SDMAQueue dispatch(), copy,   *)
(* signal() and wait()), from the calls of several threads to the engines  *)
(* that execute the packets.  A signal is used once: its fence starts at   *)
(* 1, and a wait is for the value 0.                                       *)
(*                                                                         *)
(* submit() appends a call's packets to the ring as one (module RingQueue),*)
(* but a compute queue's signal() takes its end-of-pipe sequence number    *)
(* before it submits, so that packets may reach the ring out of the order  *)
(* of their numbers.                                                       *)
(*                                                                         *)
(* External, modelled from the packets the code writes: engines execute    *)
(* packets in order; a compute engine does not wait for the kernels it     *)
(* launches, a RELEASE_MEM writes or interrupts when those before it have  *)
(* finished, in order, while the engine goes on; an SDMA engine finishes   *)
(* each packet before the next.                                            *)
(***************************************************************************)
EXTENDS Naturals, Sequences

CONSTANTS Threads,        \* the threads that call signal()
          Compute, Sdma,  \* the queues of each type
          Signals,
          SeqMod,         \* 2^32, the width of next_eop_seq
          MaxWork,        \* bound: kernels and copies
          MaxWaits        \* bound: waits

ASSUME SignalsAssumption ==
  /\ Compute \cap Sdma = {} /\ SeqMod \in Nat \ {0}
  /\ MaxWork \in Nat /\ MaxWaits \in Nat

Queues == Compute \cup Sdma
Work == 1..MaxWork

VARIABLES
  call,      \* per thread: the signal() in progress
  called,    \* the signals that were used
  nextSeq,   \* per compute queue: next_eop_seq
  ring,      \* per queue: packets the engine has not executed
  eopSeq,    \* per compute queue: the word eop_seq points to
  eop,       \* per queue: RELEASE_MEM packets that have not taken effect
  running, finished,  \* kernels and copies
  fence,     \* per signal: its fence value
  fired,     \* the signals whose event was fired
  works,     \* kernels and copies submitted so far
  waits,     \* waits submitted so far
  onQueue,   \* history: the work submitted to each queue
  covers,    \* history: the work submitted before each call of signal()
  accepted,  \* history: the signals whose submission succeeded
  waited     \* history: per work, the signals its queue waits for before it

hostVars == <<call, called, nextSeq, works, waits, onQueue, covers, accepted, waited>>
engineVars == <<eopSeq, eop, running, finished, fence, fired>>
vars == <<call, nextSeq, ring, eopSeq, eop, running, finished, fence, fired,
          called, works, waits, onQueue, covers, accepted, waited>>

Packet(op, arg) == [op |-> op, arg |-> arg]
NoCall == [queue |-> "none"]
Ops == {"zero", "work", "seq", "await", "decrement", "fire", "wait"}

TypeOK ==
  /\ \A t \in Threads : call[t] = NoCall \/ call[t].queue \in Queues
  /\ nextSeq \in [Compute -> 0..(SeqMod - 1)]
  /\ eopSeq \in [Compute -> 0..(SeqMod - 1)]
  /\ \A q \in Queues : \A i \in DOMAIN ring[q] : ring[q][i].op \in Ops
  /\ \A q \in Sdma : eop[q] = <<>>
  /\ running \subseteq Work /\ finished \subseteq Work
  /\ running \cap finished = {}
  /\ fence \in [Signals -> {0, 1}]
  /\ fired \subseteq Signals /\ works \in 0..MaxWork
  /\ waits \in 0..MaxWaits

(* create() clears the word with the first packet of the ring: the memory  *)
(* itself may hold anything.                                               *)
Init ==
  /\ call = [t \in Threads |-> NoCall] /\ called = {}
  /\ nextSeq = [q \in Compute |-> 0]
  /\ ring = [q \in Queues |-> IF q \in Compute THEN <<Packet("zero", 0)>> ELSE <<>>]
  /\ eopSeq \in [Compute -> {0, SeqMod - 1}]
  /\ eop = [q \in Queues |-> <<>>]
  /\ running = {} /\ finished = {}
  /\ fence = [s \in Signals |-> 1] /\ fired = {}
  /\ works = 0 /\ waits = 0
  /\ onQueue = [q \in Queues |-> {}]
  /\ covers = [s \in Signals |-> {}] /\ accepted = {}
  /\ waited = [k \in Work |-> {}]

-----------------------------------------------------------------------------
Submit(q, packets) == ring' = [ring EXCEPT ![q] = @ \o packets]

(* dispatch(), copy_linear() and the like.                                 *)
SubmitWork(q) ==
  LET k == works + 1
  IN  /\ works < MaxWork
      /\ works' = k
      /\ onQueue' = [onQueue EXCEPT ![q] = @ \cup {k}]
      /\ waited' = [waited EXCEPT ![k] =
                      {s \in Signals : \E i \in DOMAIN ring[q] :
                                         ring[q][i] = Packet("wait", s)}]
      /\ Submit(q, <<Packet("work", k)>>)
      /\ UNCHANGED <<call, called, nextSeq, waits, covers, accepted, engineVars>>

(* wait(): the queue stalls until the fence is 0.                          *)
SubmitWait(q, s) ==
  /\ waits < MaxWaits
  /\ waits' = waits + 1
  /\ Submit(q, <<Packet("wait", s)>>)
  /\ UNCHANGED <<call, called, nextSeq, works, onQueue, covers, accepted, waited,
                 engineVars>>

(* signal() begins: a compute queue's takes its sequence number.           *)
CallSignal(t, q, s) ==
  LET seq == IF q \in Compute THEN (nextSeq[q] + 1) % SeqMod ELSE 0
  IN  /\ call[t] = NoCall /\ s \notin called
      /\ called' = called \cup {s}
      /\ call' = [call EXCEPT ![t] =
                    [queue |-> q, signal |-> s, seq |-> seq, covers |-> onQueue[q]]]
      /\ nextSeq' = [p \in Compute |-> IF p = q THEN seq ELSE nextSeq[p]]
      /\ UNCHANGED <<ring, works, waits, onQueue, covers, accepted, waited,
                     engineVars>>

\* Mutant of ComputeSignalPackets: nothing waits for the kernels.
SignalWithoutAwait(c) ==
  <<Packet("seq", c.seq), Packet("decrement", c.signal), Packet("fire", c.signal)>>

(* RELEASE_MEM and WAIT_REG_MEM of the sequence number, ATOMIC_MEM, and a  *)
(* RELEASE_MEM that interrupts.                                            *)
ComputeSignalPackets(c) ==
  <<Packet("seq", c.seq), Packet("await", c.seq),
    Packet("decrement", c.signal), Packet("fire", c.signal)>>

(* ATOMIC, then FENCE and TRAP.                                            *)
SdmaSignalPackets(c) == <<Packet("decrement", c.signal), Packet("fire", c.signal)>>

SignalPackets(c) == IF c.queue \in Compute THEN ComputeSignalPackets(c)
                                           ELSE SdmaSignalPackets(c)

SubmitSignal(t) ==
  /\ call[t] # NoCall
  /\ Submit(call[t].queue, SignalPackets(call[t]))
  /\ accepted' = accepted \cup {call[t].signal}
  /\ covers' = [covers EXCEPT ![call[t].signal] = call[t].covers]
  /\ call' = [call EXCEPT ![t] = NoCall]
  /\ UNCHANGED <<called, nextSeq, works, waits, onQueue, waited, engineVars>>

(* submit() failed: the sequence number is used up all the same.           *)
SignalFails(t) ==
  /\ call[t] # NoCall
  /\ call' = [call EXCEPT ![t] = NoCall]
  /\ UNCHANGED <<called, nextSeq, ring, works, waits, onQueue, covers, accepted,
                 waited, engineVars>>

-----------------------------------------------------------------------------
Current(q) == Head(ring[q])
Has(q, op) == ring[q] # <<>> /\ Current(q).op = op
Pop(q) == ring' = [ring EXCEPT ![q] = Tail(@)]
Executed(q, op) == Has(q, op) /\ Pop(q) /\ UNCHANGED hostVars

(* A RELEASE_MEM takes effect after the kernels launched before it.        *)
Release(q, op, arg) ==
  eop' = [eop EXCEPT ![q] = Append(@, [op |-> op, arg |-> arg,
                                       after |-> running \cap onQueue[q]])]

ClearSeq(q) ==
  /\ Executed(q, "zero")
  /\ eopSeq' = [eopSeq EXCEPT ![q] = 0]
  /\ UNCHANGED <<eop, running, finished, fence, fired>>

StartWork(q) ==
  LET k == Current(q).arg
  IN  /\ Has(q, "work") /\ k \notin running \cup finished
      /\ running' = running \cup {k}
      /\ IF q \in Compute THEN Pop(q) ELSE UNCHANGED ring
      /\ UNCHANGED <<eopSeq, eop, finished, fence, fired, hostVars>>

FinishCopy(q) ==
  /\ Executed(q, "work") /\ Current(q).arg \in finished
  /\ UNCHANGED engineVars

ReleaseSeq(q) ==
  /\ Executed(q, "seq")
  /\ Release(q, "seq", Current(q).arg)
  /\ UNCHANGED <<eopSeq, running, finished, fence, fired>>

\* Mutant of SeqPasses: WAIT_REG_MEM is given GT instead of GTE.
SeqPassesGT(value, seq) == value > seq
SeqPasses(value, seq) == value >= seq

AwaitSeq(q) ==
  /\ Executed(q, "await") /\ SeqPasses(eopSeq[q], Current(q).arg)
  /\ UNCHANGED engineVars

DecrementFence(q) ==
  /\ Executed(q, "decrement")
  /\ fence' = [fence EXCEPT ![Current(q).arg] = @ - 1]
  /\ UNCHANGED <<eopSeq, eop, running, finished, fired>>

FireEvent(q) ==
  /\ Executed(q, "fire")
  /\ IF q \in Compute
     THEN Release(q, "fire", Current(q).arg) /\ UNCHANGED fired
     ELSE fired' = fired \cup {Current(q).arg} /\ UNCHANGED eop
  /\ UNCHANGED <<eopSeq, running, finished, fence>>

\* Mutant of FencePasses: the condition is LTE 1.
FencePassesEarly(s) == fence[s] <= 1
FencePasses(s) == fence[s] = 0

AwaitFence(q) ==
  /\ Executed(q, "wait") /\ FencePasses(Current(q).arg)
  /\ UNCHANGED engineVars

Finish(k) ==
  /\ k \in running
  /\ running' = running \ {k} /\ finished' = finished \cup {k}
  /\ UNCHANGED <<ring, eopSeq, eop, fence, fired, hostVars>>

EndOfPipe(q) ==
  /\ eop[q] # <<>> /\ Head(eop[q]).after \cap running = {}
  /\ eop' = [eop EXCEPT ![q] = Tail(@)]
  /\ \/ /\ Head(eop[q]).op = "seq"
        /\ eopSeq' = [eopSeq EXCEPT ![q] = Head(eop[q]).arg]
        /\ UNCHANGED fired
     \/ /\ Head(eop[q]).op = "fire"
        /\ fired' = fired \cup {Head(eop[q]).arg}
        /\ UNCHANGED eopSeq
  /\ UNCHANGED <<ring, running, finished, fence, hostVars>>

Engine(q) ==
  \/ ClearSeq(q) \/ StartWork(q) \/ FinishCopy(q) \/ ReleaseSeq(q)
  \/ AwaitSeq(q) \/ DecrementFence(q) \/ FireEvent(q) \/ AwaitFence(q)

Next ==
  \/ \E q \in Queues : SubmitWork(q) \/ Engine(q) \/ EndOfPipe(q)
  \/ \E q \in Queues, s \in Signals : SubmitWait(q, s)
  \/ \E t \in Threads, q \in Queues, s \in Signals : CallSignal(t, q, s)
  \/ \E t \in Threads : SubmitSignal(t) \/ SignalFails(t)
  \/ \E k \in Work : Finish(k)

Spec == Init /\ [][Next]_vars

(* Engines work, and every kernel comes to an end.                         *)
FairSpec ==
  /\ Spec
  /\ \A q \in Queues : WF_vars(Engine(q)) /\ WF_vars(EndOfPipe(q))
  /\ \A k \in Work : WF_vars(Finish(k))

-----------------------------------------------------------------------------
(* queue.h:183 "Decrements the signal's value and fires an event once the  *)
(* preceding work has finished": when the fence reaches 0, everything that *)
(* had been submitted to the queue before signal() was called is finished, *)
(* although numbers and packets of concurrent calls may be out of order.   *)
SignalCoversWork ==
  \A s \in Signals : fence[s] = 0 => covers[s] \subseteq finished

(* A fired event finds the fence decremented: module SignalWait relies on  *)
(* it.                                                                     *)
EventAfterFence == \A s \in fired : fence[s] = 0

(* What signal() promises of the fence and of the event, of both kinds of  *)
(* queues.                                                                 *)
Inv == TypeOK /\ SignalCoversWork /\ EventAfterFence

(* Work submitted after a wait starts only when everything the signal      *)
(* covers, on whatever queue, is finished.                                 *)
WaitOrdersWork ==
  \A k \in running \cup finished : \A s \in waited[k] :
    s \in accepted /\ covers[s] \subseteq finished

(* An accepted signal fires, unless the packets of a wait() come to stand  *)
(* at the head of a ring first: sequence numbers never stall a queue,      *)
(* those of failed or overtaken calls included.                            *)
SignalsArrive ==
  \A s \in Signals :
    s \in accepted ~> s \in fired \/ \E q \in Queues : Has(q, "wait")
=============================================================================
