-------------------------- MODULE QueueSignalsProofs --------------------------
(***************************************************************************)
(* Proofs about module QueueSignals, for any threads, queues and signals   *)
(* and any amount of work, as long as the signals are fewer than the       *)
(* values of an end-of-pipe sequence number (NoWrap): a queue that has     *)
(* signalled 2^32 times starts again with 0, and GTE does not know.        *)
(*                                                                         *)
(* The argument.  Sequence numbers of a compute queue are taken in the     *)
(* order of the calls, so that the call with a greater number covers what  *)
(* a call with a smaller number covers, even if its packets come first.    *)
(* Reached(q, v, done) says so of a number v: whatever a signal() with a   *)
(* number up to v covers is in done.  It holds of the numbers in calls,    *)
(* rings, the end of the pipe and eop_seq, with smaller and smaller sets;  *)
(* the last is the finished work.                                          *)
(***************************************************************************)
EXTENDS QueueSignals, FiniteSetTheorems, TLAPS

NoWrap == IsFiniteSet(Signals) /\ Cardinality(Signals) < SeqMod

AnyPacket == [op : {"zero", "seq", "await"}, arg : Nat]
             \cup [op : {"work"}, arg : Work]
             \cup [op : {"decrement", "fire", "wait"}, arg : Signals]
Report == [op : {"seq"}, arg : Nat, after : SUBSET Work]
          \cup [op : {"fire"}, arg : Signals, after : SUBSET Work]
Call == [queue : Queues, signal : Signals, seq : Nat, covers : SUBSET Work]

Types ==
  /\ call \in [Threads -> Call \cup {NoCall}] /\ called \subseteq Signals
  /\ nextSeq \in [Compute -> Nat] /\ eopSeq \in [Compute -> Nat]
  /\ ring \in [Queues -> Seq(AnyPacket)] /\ eop \in [Queues -> Seq(Report)]
  /\ running \subseteq Work /\ finished \subseteq Work
  /\ fence \in [Signals -> {0, 1}] /\ fired \subseteq Signals
  /\ works \in 0..MaxWork /\ waits \in 0..MaxWaits
  /\ onQueue \in [Queues -> SUBSET Work] /\ covers \in [Signals -> SUBSET Work]
  /\ accepted \subseteq Signals /\ waited \in [Work -> SUBSET Signals]

-----------------------------------------------------------------------------
(* Packet i of queue q.                                                    *)
At(q, i, op) == i \in DOMAIN ring[q] /\ ring[q][i].op = op
Arg(q, i) == ring[q][i].arg
Calls(t, q) == call[t] # NoCall /\ call[t].queue = q

WorkBefore(q, i) == {k \in Work : \E j \in DOMAIN ring[q] :
                                    j < i /\ At(q, j, "work") /\ Arg(q, j) = k}

(* Each signal is called once, submitted once and decremented once, and    *)
(* its event is fired after that.                                          *)
CalledOnce ==
  /\ accepted \subseteq called
  /\ \A s \in Signals : fence[s] = 0 => s \in accepted
  /\ \A t \in Threads : call[t] # NoCall =>
       /\ call[t].signal \in called /\ call[t].signal \notin accepted
       /\ \A u \in Threads : call[u] # NoCall /\ call[u].signal = call[t].signal => u = t

DecrementedOnce ==
  \A q \in Queues : \A i \in DOMAIN ring[q] : At(q, i, "decrement") =>
    /\ Arg(q, i) \in accepted /\ fence[Arg(q, i)] = 1
    /\ \A p \in Queues : \A j \in DOMAIN ring[p] :
         At(p, j, "decrement") /\ Arg(p, j) = Arg(q, i) => p = q /\ j = i

FiredLast ==
  /\ \A q \in Queues : \A i \in DOMAIN ring[q] : At(q, i, "fire") =>
       \/ fence[Arg(q, i)] = 0
       \/ \E j \in DOMAIN ring[q] : /\ j < i /\ At(q, j, "decrement")
                                    /\ Arg(q, j) = Arg(q, i)
  /\ \A q \in Queues : \A i \in DOMAIN eop[q] :
       eop[q][i].op = "fire" => fence[eop[q][i].arg] = 0
  /\ \A s \in fired : fence[s] = 0

(* Work is in the ring of its queue, or started.                           *)
WorkKnown ==
  /\ \A q \in Queues : \A k \in onQueue[q] :
       /\ k <= works
       /\ \/ k \in finished \/ (k \in running /\ q \in Compute)
          \/ \E i \in DOMAIN ring[q] : At(q, i, "work") /\ Arg(q, i) = k
  /\ \A q \in Queues : \A i \in DOMAIN ring[q] :
       At(q, i, "work") => Arg(q, i) \in onQueue[q]
  /\ \A k \in running \cup finished : k <= works

(* Work waits for the signals before it.                                   *)
WaitsFirst ==
  /\ \A q \in Queues : \A i \in DOMAIN ring[q] : At(q, i, "work") =>
       \A s \in waited[Arg(q, i)] :
         \/ fence[s] = 0
         \/ \E j \in DOMAIN ring[q] : j < i /\ At(q, j, "wait") /\ Arg(q, j) = s
  /\ \A k \in running \cup finished : \A s \in waited[k] : fence[s] = 0

(* The packets of a compute queue's signal().                              *)
Paired ==
  \A q \in Queues : \A i \in DOMAIN ring[q] :
    /\ At(q, i, "zero") => i = 1
    /\ At(q, i, "seq") \/ At(q, i, "await") => q \in Compute /\ Arg(q, i) <= nextSeq[q]
    /\ At(q, i, "await") => At(q, i + 1, "decrement")
    /\ At(q, i, "decrement") /\ q \in Compute =>
         \/ At(q, i - 1, "await")
         \/ i = 1 /\ covers[Arg(q, i)] \subseteq finished

Numbered ==
  /\ \A q \in Compute : nextSeq[q] <= Cardinality(called) /\ eopSeq[q] < SeqMod
  /\ \A q \in Compute : ~At(q, 1, "zero") => eopSeq[q] <= nextSeq[q]
  /\ \A q \in Compute, t \in Threads : Calls(t, q) =>
       call[t].seq \in 1..nextSeq[q]
  /\ \A q \in Compute : \A i \in DOMAIN ring[q] : At(q, i, "await") =>
       Arg(q, i) > 0 /\ covers[Arg(q, i + 1)] \subseteq onQueue[q]
  /\ \A q \in Queues : \A i \in DOMAIN eop[q] :
       /\ q \in Compute /\ eop[q][i].after \subseteq running \cup finished
       /\ eop[q][i].op = "seq" => eop[q][i].arg <= nextSeq[q]
  /\ \A t \in Threads, q \in Queues : Calls(t, q) => call[t].covers \subseteq onQueue[q]

(* What signal() calls with numbers up to v cover is in done.              *)
Reached(q, v, done) ==
  /\ \A t \in Threads : Calls(t, q) /\ call[t].seq <= v => call[t].covers \subseteq done
  /\ \A i \in DOMAIN ring[q] :
       At(q, i, "await") /\ Arg(q, i) <= v => covers[Arg(q, i + 1)] \subseteq done

InOrder ==
  /\ \A q \in Compute, t \in Threads :
       Calls(t, q) => Reached(q, call[t].seq, call[t].covers)
  /\ \A q \in Compute : \A i \in DOMAIN ring[q] : At(q, i, "seq") =>
       Reached(q, Arg(q, i), finished \cup (running \cap onQueue[q]) \cup WorkBefore(q, i))
  /\ \A q \in Compute : \A i \in DOMAIN eop[q] : eop[q][i].op = "seq" =>
       Reached(q, eop[q][i].arg, finished \cup eop[q][i].after)
  /\ \A q \in Compute : ~At(q, 1, "zero") => Reached(q, eopSeq[q], finished)

SdmaInOrder ==
  \A q \in Sdma : \A i \in DOMAIN ring[q] :
    At(q, i, "decrement") => covers[Arg(q, i)] \subseteq finished \cup WorkBefore(q, i)

SignalsInv == /\ Types /\ running \cap finished = {}
              /\ CalledOnce /\ DecrementedOnce /\ FiredLast /\ WorkKnown /\ WaitsFirst
              /\ Paired /\ Numbered /\ InOrder /\ SdmaInOrder /\ SignalCoversWork

-----------------------------------------------------------------------------
(* What the engines and the calls do to the rings.                         *)
LEMMA Facts ==
  ASSUME Types
  PROVE  /\ \A q \in Queues : /\ ring[q] \in Seq(AnyPacket) /\ Len(ring[q]) \in Nat
                              /\ DOMAIN ring[q] = 1..Len(ring[q])
         /\ \A q \in Queues : /\ eop[q] \in Seq(Report) /\ Len(eop[q]) \in Nat
                              /\ DOMAIN eop[q] = 1..Len(eop[q])
         /\ \A q \in Queues, i \in Nat :
              /\ At(q, i, "seq") \/ At(q, i, "await") => Arg(q, i) \in Nat
              /\ At(q, i, "work") => Arg(q, i) \in Work
              /\ At(q, i, "decrement") \/ At(q, i, "fire") \/ At(q, i, "wait")
                   => Arg(q, i) \in Signals
         /\ MaxWork \in Nat /\ SeqMod \in Nat
         /\ Work \subseteq Nat
<1>1. ASSUME NEW q \in Queues
      PROVE  /\ ring[q] \in Seq(AnyPacket) /\ Len(ring[q]) \in Nat
             /\ DOMAIN ring[q] = 1..Len(ring[q])
             /\ eop[q] \in Seq(Report) /\ Len(eop[q]) \in Nat
             /\ DOMAIN eop[q] = 1..Len(eop[q])
  BY DEF Types
<1>2. ASSUME NEW q \in Queues, NEW i \in Nat, i \in DOMAIN ring[q]
      PROVE  /\ ring[q][i].op \in {"seq", "await"} => ring[q][i].arg \in Nat
             /\ ring[q][i].op = "work" => ring[q][i].arg \in Work
             /\ ring[q][i].op \in {"decrement", "fire", "wait"} => ring[q][i].arg \in Signals
  <2>1. ring[q][i] \in AnyPacket
    BY <1>1, <1>2
  <2> QED BY <2>1 DEF AnyPacket
<1>3. MaxWork \in Nat /\ SeqMod \in Nat /\ Work \subseteq Nat
  BY SignalsAssumption DEF SignalsAssumption, Work
<1> QED BY <1>1, <1>2, <1>3 DEF At, Arg

LEMMA Appends ==
  ASSUME Types, NEW q \in Queues, NEW ps \in Seq(AnyPacket), Submit(q, ps)
  PROVE  /\ ring' \in [Queues -> Seq(AnyPacket)]
         /\ Len(ring'[q]) = Len(ring[q]) + Len(ps)
         /\ \A p \in Queues : \A i \in DOMAIN ring[p] :
              i \in DOMAIN ring'[p] /\ ring'[p][i] = ring[p][i]
         /\ \A p \in Queues : \A i \in DOMAIN ring'[p] :
              \/ i \in DOMAIN ring[p]
              \/ p = q /\ \E j \in 1..Len(ps) : /\ i = Len(ring[q]) + j
                                                /\ ring'[q][i] = ps[j]
         /\ \A j \in 1..Len(ps) : /\ Len(ring[q]) + j \in DOMAIN ring'[q]
                                  /\ ring'[q][Len(ring[q]) + j] = ps[j]
<1>1. ring \in [Queues -> Seq(AnyPacket)] /\ ring' = [ring EXCEPT ![q] = ring[q] \o ps]
  BY DEF Types, Submit
<1>2. ring'[q] = ring[q] \o ps /\ (\A p \in Queues : p # q => ring'[p] = ring[p])
  BY <1>1
<1>3. ring[q] \in Seq(AnyPacket)
  BY <1>1
<1>4. ring' \in [Queues -> Seq(AnyPacket)]
  <2>1. ring[q] \o ps \in Seq(AnyPacket)
    BY <1>3
  <2> QED BY <1>1, <2>1
<1>5. /\ Len(ring'[q]) = Len(ring[q]) + Len(ps)
      /\ \A i \in DOMAIN ring[q] : i \in DOMAIN ring'[q] /\ ring'[q][i] = ring[q][i]
  BY <1>2, <1>3
<1>6. ASSUME NEW j \in 1..Len(ps)
      PROVE  /\ Len(ring[q]) + j \in DOMAIN ring'[q]
             /\ ring'[q][Len(ring[q]) + j] = ps[j]
  BY <1>2, <1>3
<1>7. ASSUME NEW i \in DOMAIN ring'[q], i \notin DOMAIN ring[q]
      PROVE  \E j \in 1..Len(ps) : i = Len(ring[q]) + j /\ ring'[q][i] = ps[j]
  <2>1. i \in (Len(ring[q]) + 1) .. (Len(ring[q]) + Len(ps))
    BY <1>2, <1>3, <1>7
  <2> DEFINE j == i - Len(ring[q])
  <2>2. j \in 1..Len(ps) /\ i = Len(ring[q]) + j
    BY <1>3, <2>1
  <2> QED BY <1>6, <2>2
<1> QED BY <1>2, <1>4, <1>5, <1>6, <1>7

LEMMA Pops ==
  ASSUME Types, NEW q \in Queues, Pop(q), ring[q] # <<>>
  PROVE  /\ ring' \in [Queues -> Seq(AnyPacket)]
         /\ 1 \in DOMAIN ring[q] /\ Current(q) = ring[q][1]
         /\ \A p \in Queues : p # q => ring'[p] = ring[p]
         /\ \A i \in DOMAIN ring'[q] :
              i + 1 \in DOMAIN ring[q] /\ ring'[q][i] = ring[q][i + 1] /\ i \in Nat /\ i # 0
         /\ \A i \in DOMAIN ring[q] :
              i # 1 => i - 1 \in DOMAIN ring'[q] /\ ring'[q][i - 1] = ring[q][i] /\ i \in Nat
<1>1. ring \in [Queues -> Seq(AnyPacket)] /\ ring' = [ring EXCEPT ![q] = Tail(ring[q])]
  BY DEF Types, Pop
<1>2. ring'[q] = Tail(ring[q]) /\ (\A p \in Queues : p # q => ring'[p] = ring[p])
  BY <1>1
<1>3. ring[q] \in Seq(AnyPacket)
  BY <1>1
<1>4. ring' \in [Queues -> Seq(AnyPacket)]
  <2>1. Tail(ring[q]) \in Seq(AnyPacket)
    BY <1>3
  <2> QED BY <1>1, <2>1
<1>5. 1 \in DOMAIN ring[q] /\ Current(q) = ring[q][1]
  BY <1>3 DEF Current
<1>6. /\ Len(ring'[q]) = Len(ring[q]) - 1 /\ DOMAIN ring'[q] = 1..(Len(ring[q]) - 1)
      /\ DOMAIN ring[q] = 1..Len(ring[q]) /\ Len(ring[q]) \in Nat
      /\ \A i \in 1..(Len(ring[q]) - 1) : ring'[q][i] = ring[q][i + 1]
  BY <1>2, <1>3
<1>7. \A i \in DOMAIN ring'[q] :
        i + 1 \in DOMAIN ring[q] /\ ring'[q][i] = ring[q][i + 1] /\ i \in Nat /\ i # 0
  BY <1>6
<1>8. ASSUME NEW i \in DOMAIN ring[q], i # 1
      PROVE  i - 1 \in DOMAIN ring'[q] /\ ring'[q][i - 1] = ring[q][i] /\ i \in Nat
  <2>1. i - 1 \in 1..(Len(ring[q]) - 1) /\ i \in Nat /\ (i - 1) + 1 = i
    BY <1>6, <1>8
  <2> QED BY <1>6, <2>1
<1> QED BY <1>2, <1>4, <1>5, <1>7, <1>8

LEMMA AppendsAt ==
  ASSUME Types, NEW q \in Queues, NEW ps \in Seq(AnyPacket), Submit(q, ps)
  PROVE  /\ \A p \in Queues, i \in Nat, op \in Ops :
              At(p, i, op) => At(p, i, op)' /\ Arg(p, i)' = Arg(p, i)
         /\ \A p \in Queues, i \in Nat, op \in Ops : At(p, i, op)' =>
              \/ At(p, i, op) /\ Arg(p, i)' = Arg(p, i)
              \/ p = q /\ \E j \in 1..Len(ps) : /\ i = Len(ring[q]) + j /\ ps[j].op = op
                                                /\ Arg(p, i)' = ps[j].arg
         /\ \A j \in 1..Len(ps), i \in Nat :
              i = Len(ring[q]) + j => At(q, i, ps[j].op)' /\ Arg(q, i)' = ps[j].arg
<1>1. ASSUME NEW p \in Queues, NEW i \in Nat, NEW op \in Ops, At(p, i, op)
      PROVE  At(p, i, op)' /\ Arg(p, i)' = Arg(p, i)
  <2>1. i \in DOMAIN ring'[p] /\ ring'[p][i] = ring[p][i]
    BY <1>1, Appends DEF At
  <2> QED BY <1>1, <2>1 DEF At, Arg
<1>2. ASSUME NEW p \in Queues, NEW i \in Nat, NEW op \in Ops, At(p, i, op)'
      PROVE  \/ At(p, i, op) /\ Arg(p, i)' = Arg(p, i)
             \/ p = q /\ \E j \in 1..Len(ps) : /\ i = Len(ring[q]) + j /\ ps[j].op = op
                                               /\ Arg(p, i)' = ps[j].arg
  <2>1. i \in DOMAIN ring'[p] /\ ring'[p][i].op = op
    BY <1>2 DEF At
  <2>2. CASE i \in DOMAIN ring[p]
    <3>1. ring'[p][i] = ring[p][i]
      BY <2>2, Appends
    <3> QED BY <2>1, <2>2, <3>1 DEF At, Arg
  <2>3. CASE i \notin DOMAIN ring[p]
    <3>1. p = q /\ \E j \in 1..Len(ps) : i = Len(ring[q]) + j /\ ring'[q][i] = ps[j]
      BY <2>1, <2>3, Appends
    <3> QED BY <2>1, <3>1 DEF Arg
  <2> QED BY <2>2, <2>3
<1>3. ASSUME NEW j \in 1..Len(ps), NEW i \in Nat, i = Len(ring[q]) + j
      PROVE  At(q, i, ps[j].op)' /\ Arg(q, i)' = ps[j].arg
  <2>1. i \in DOMAIN ring'[q] /\ ring'[q][i] = ps[j]
    BY <1>3, Appends
  <2> QED BY <2>1 DEF At, Arg
<1> QED BY <1>1, <1>2, <1>3

LEMMA PopsAt ==
  ASSUME Types, NEW q \in Queues, Pop(q), ring[q] # <<>>
  PROVE  /\ \A p \in Queues, i \in Nat, op \in Ops : At(p, i, op)' =>
              \/ p # q /\ At(p, i, op) /\ Arg(p, i)' = Arg(p, i)
              \/ p = q /\ At(q, i + 1, op) /\ Arg(q, i)' = Arg(q, i + 1)
         /\ \A p \in Queues, i \in Nat, op \in Ops : At(p, i, op) =>
              \/ p # q /\ At(p, i, op)' /\ Arg(p, i)' = Arg(p, i)
              \/ p = q /\ i = 1
              \/ p = q /\ i - 1 \in Nat /\ At(q, i - 1, op)' /\ Arg(q, i - 1)' = Arg(q, i)
<1>1. ASSUME NEW p \in Queues, NEW i \in Nat, NEW op \in Ops, At(p, i, op)'
      PROVE  \/ p # q /\ At(p, i, op) /\ Arg(p, i)' = Arg(p, i)
             \/ p = q /\ At(q, i + 1, op) /\ Arg(q, i)' = Arg(q, i + 1)
  BY <1>1, Pops DEF At, Arg
<1>2. ASSUME NEW p \in Queues, NEW i \in Nat, NEW op \in Ops, At(p, i, op)
      PROVE  \/ p # q /\ At(p, i, op)' /\ Arg(p, i)' = Arg(p, i)
             \/ p = q /\ i = 1
             \/ p = q /\ i - 1 \in Nat /\ At(q, i - 1, op)' /\ Arg(q, i - 1)' = Arg(q, i)
  <2>1. CASE p # q
    BY <1>2, <2>1, Pops DEF At, Arg
  <2>2. CASE p = q /\ i # 1
    <3>1. i \in DOMAIN ring[q] /\ ring[q][i].op = op
      BY <1>2, <2>2 DEF At
    <3>2. i - 1 \in DOMAIN ring'[q] /\ ring'[q][i - 1] = ring[q][i]
      BY <2>2, <3>1, Pops
    <3>3. i > 0
      BY <3>1, Facts
    <3>4. i - 1 \in Nat
      BY <3>3
    <3> QED BY <2>2, <3>1, <3>2, <3>4 DEF At, Arg
  <2> QED BY <2>1, <2>2
<1> QED BY <1>1, <1>2

(* What the head of a ring is when the engine executes it.                 *)
LEMMA AtHead ==
  ASSUME Types, NEW q \in Queues, NEW op \in Ops, Has(q, op)
  PROVE  At(q, 1, op) /\ Current(q).arg = Arg(q, 1) /\ ring[q] # <<>>
<1>1. ring[q] \in Seq(AnyPacket) /\ ring[q] # <<>>
  BY DEF Types, Has
<1>2. 1 \in DOMAIN ring[q] /\ Head(ring[q]) = ring[q][1]
  BY <1>1
<1> QED BY <1>1, <1>2 DEF Has, Current, At, Arg

(* The packets of signal().                                                *)
LEMMA CallTyped ==
  ASSUME Types, NEW t \in Threads, call[t] # NoCall
  PROVE  /\ call[t] \in Call /\ call[t].queue \in Queues /\ call[t].signal \in Signals
         /\ call[t].seq \in Nat /\ call[t].covers \in SUBSET Work
<1>1. call[t] \in Call
  BY DEF Types
<1> QED BY <1>1 DEF Call

LEMMA SignalPacketsTyped ==
  ASSUME Types, NEW t \in Threads, call[t] # NoCall
  PROVE  LET c == call[t]
             ps == SignalPackets(c)
         IN  /\ ps \in Seq(AnyPacket)
             /\ c.queue \in Compute =>
                  /\ Len(ps) = 4
                  /\ ps[1].op = "seq" /\ ps[1].arg = c.seq
                  /\ ps[2].op = "await" /\ ps[2].arg = c.seq
                  /\ ps[3].op = "decrement" /\ ps[3].arg = c.signal
                  /\ ps[4].op = "fire" /\ ps[4].arg = c.signal
             /\ c.queue \notin Compute =>
                  /\ Len(ps) = 2
                  /\ ps[1].op = "decrement" /\ ps[1].arg = c.signal
                  /\ ps[2].op = "fire" /\ ps[2].arg = c.signal
<1> DEFINE c == call[t]
<1>1. c.signal \in Signals /\ c.seq \in Nat
  BY CallTyped
<1> HIDE DEF c
<1>2. /\ Packet("seq", c.seq) \in AnyPacket /\ Packet("await", c.seq) \in AnyPacket
      /\ Packet("decrement", c.signal) \in AnyPacket /\ Packet("fire", c.signal) \in AnyPacket
  BY <1>1 DEF Packet, AnyPacket
<1>3. SignalPackets(c) \in Seq(AnyPacket)
  BY <1>2 DEF SignalPackets, ComputeSignalPackets, SdmaSignalPackets
<1>4. c.queue \in Compute => SignalPackets(c) = ComputeSignalPackets(c)
  BY DEF SignalPackets
<1>5. c.queue \notin Compute => SignalPackets(c) = SdmaSignalPackets(c)
  BY DEF SignalPackets
<1>6. /\ Len(ComputeSignalPackets(c)) = 4
      /\ ComputeSignalPackets(c)[1] = Packet("seq", c.seq)
      /\ ComputeSignalPackets(c)[2] = Packet("await", c.seq)
      /\ ComputeSignalPackets(c)[3] = Packet("decrement", c.signal)
      /\ ComputeSignalPackets(c)[4] = Packet("fire", c.signal)
  BY DEF ComputeSignalPackets
<1>7. /\ Len(SdmaSignalPackets(c)) = 2
      /\ SdmaSignalPackets(c)[1] = Packet("decrement", c.signal)
      /\ SdmaSignalPackets(c)[2] = Packet("fire", c.signal)
  BY DEF SdmaSignalPackets
<1>8. \A op, a : Packet(op, a).op = op /\ Packet(op, a).arg = a
  BY DEF Packet
<1> HIDE DEF Packet
<1> QED BY <1>3, <1>4, <1>5, <1>6, <1>7, <1>8 DEF c

(* What never goes back.                                                   *)
Decremented(s) == /\ fence' = [fence EXCEPT ![s] = @ - 1] /\ fence[s] = 1
                  /\ s \in accepted
                  /\ fence'[s] = 0 /\ \A r \in Signals : r # s => fence'[r] = fence[r]

LEMMA DecrementsOne ==
  ASSUME SignalsInv, NEW q \in Queues, DecrementFence(q)
  PROVE  /\ Arg(q, 1) \in Signals /\ Decremented(Arg(q, 1)) /\ At(q, 1, "decrement")
<1>1. Types /\ Has(q, "decrement")
  BY DEF DecrementFence, Executed, SignalsInv
<1>2. At(q, 1, "decrement") /\ Current(q).arg = Arg(q, 1) /\ 1 \in DOMAIN ring[q]
  BY <1>1, AtHead DEF Ops, At
<1>3. Arg(q, 1) \in Signals
  BY <1>1, <1>2, Facts
<1>4. Arg(q, 1) \in accepted /\ fence[Arg(q, 1)] = 1
  BY <1>2 DEF SignalsInv, DecrementedOnce
<1>5. fence' = [fence EXCEPT ![Arg(q, 1)] = @ - 1]
  BY <1>2 DEF DecrementFence
<1>6. fence \in [Signals -> {0, 1}]
  BY <1>1 DEF Types
<1> QED BY <1>2, <1>3, <1>4, <1>5, <1>6 DEF Decremented

(* The rings, whoever writes them.                                         *)
LEMMA RingTyped == Types /\ [Next]_vars => ring' \in [Queues -> Seq(AnyPacket)]
<1> SUFFICES ASSUME Types, [Next]_vars PROVE ring' \in [Queues -> Seq(AnyPacket)]
  OBVIOUS
<1>1. CASE ring' = ring
  BY <1>1 DEF Types
<1>2. ASSUME NEW q \in Queues, SubmitWork(q) PROVE ring' \in [Queues -> Seq(AnyPacket)]
  <2>1. works + 1 \in Work
    BY <1>2, Facts DEF SubmitWork, Types, Work
  <2>2. Packet("work", works + 1) \in AnyPacket
    BY <2>1 DEF Packet, AnyPacket
  <2>3. <<Packet("work", works + 1)>> \in Seq(AnyPacket)
    BY <2>2
  <2> QED BY <1>2, <2>3, Appends DEF SubmitWork
<1>3. ASSUME NEW q \in Queues, NEW s \in Signals, SubmitWait(q, s)
      PROVE  ring' \in [Queues -> Seq(AnyPacket)]
  <2>1. Packet("wait", s) \in AnyPacket
    BY DEF Packet, AnyPacket
  <2>2. <<Packet("wait", s)>> \in Seq(AnyPacket)
    BY <2>1
  <2> QED BY <1>3, <2>2, Appends DEF SubmitWait
<1>4. ASSUME NEW t \in Threads, SubmitSignal(t) PROVE ring' \in [Queues -> Seq(AnyPacket)]
  BY <1>4, CallTyped, SignalPacketsTyped, Appends DEF SubmitSignal
<1>5. ASSUME NEW q \in Queues, Engine(q) PROVE ring' \in [Queues -> Seq(AnyPacket)]
  <2>1. ring' = ring \/ (Pop(q) /\ ring[q] # <<>>)
    BY <1>5 DEF Engine, ClearSeq, StartWork, FinishCopy, ReleaseSeq, AwaitSeq,
       DecrementFence, FireEvent, AwaitFence, Executed, Has
  <2> QED BY <1>1, <2>1, Pops
<1>6. ASSUME NEW q \in Queues, EndOfPipe(q) PROVE ring' = ring
  BY <1>6 DEF EndOfPipe
<1>7. ASSUME NEW t \in Threads, NEW q \in Queues, NEW s \in Signals, CallSignal(t, q, s)
      PROVE  ring' = ring
  BY <1>7 DEF CallSignal
<1>8. ASSUME NEW t \in Threads, SignalFails(t) PROVE ring' = ring
  BY <1>8 DEF SignalFails
<1>9. ASSUME NEW k \in Work, Finish(k) PROVE ring' = ring
  BY <1>9 DEF Finish
<1> QED BY <1>1, <1>2, <1>3, <1>4, <1>5, <1>6, <1>7, <1>8, <1>9 DEF Next, vars

LEMMA ReleaseTyped ==
  ASSUME Types, NEW q \in Queues, NEW op, NEW arg, Release(q, op, arg),
         [op |-> op, arg |-> arg, after |-> running \cap onQueue[q]] \in Report
  PROVE  /\ eop' \in [Queues -> Seq(Report)]
         /\ \A p \in Queues : p # q => eop'[p] = eop[p]
         /\ \A i \in DOMAIN eop'[q] :
              \/ i \in DOMAIN eop[q] /\ eop'[q][i] = eop[q][i]
              \/ /\ eop'[q][i].op = op /\ eop'[q][i].arg = arg
                 /\ eop'[q][i].after = running \cap onQueue[q]
<1> DEFINE r == [op |-> op, arg |-> arg, after |-> running \cap onQueue[q]]
<1>1. r \in Report
  OBVIOUS
<1>2. eop \in [Queues -> Seq(Report)] /\ eop' = [eop EXCEPT ![q] = Append(eop[q], r)]
  BY DEF Release, Types
<1>3. r.op = op /\ r.arg = arg /\ r.after = running \cap onQueue[q]
  OBVIOUS
<1> HIDE DEF r
<1>4. eop[q] \in Seq(Report) /\ eop'[q] = Append(eop[q], r)
      /\ \A p \in Queues : p # q => eop'[p] = eop[p]
  BY <1>2
<1>5. Append(eop[q], r) \in Seq(Report)
  BY <1>1, <1>4
<1>6. eop' \in [Queues -> Seq(Report)]
  BY <1>2, <1>5
<1>7. \A i \in DOMAIN eop'[q] : \/ i \in DOMAIN eop[q] /\ eop'[q][i] = eop[q][i]
                                \/ eop'[q][i] = r
  BY <1>1, <1>4
<1> QED BY <1>3, <1>4, <1>6, <1>7

LEMMA ReportTaken ==
  ASSUME Types, NEW q \in Queues, EndOfPipe(q)
  PROVE  /\ eop' \in [Queues -> Seq(Report)]
         /\ \A p \in Queues : p # q => eop'[p] = eop[p]
         /\ \A i \in DOMAIN eop'[q] : i + 1 \in DOMAIN eop[q] /\ eop'[q][i] = eop[q][i + 1]
         /\ 1 \in DOMAIN eop[q] /\ Head(eop[q]) = eop[q][1] /\ eop[q][1] \in Report
<1>1. eop \in [Queues -> Seq(Report)] /\ eop' = [eop EXCEPT ![q] = Tail(eop[q])]
      /\ eop[q] # <<>>
  BY DEF EndOfPipe, Types
<1>2. eop[q] \in Seq(Report) /\ eop'[q] = Tail(eop[q])
      /\ \A p \in Queues : p # q => eop'[p] = eop[p]
  BY <1>1
<1>3. Tail(eop[q]) \in Seq(Report)
  BY <1>1, <1>2
<1>4. eop' \in [Queues -> Seq(Report)]
  BY <1>1, <1>3
<1>5. \A i \in DOMAIN eop'[q] : i + 1 \in DOMAIN eop[q] /\ eop'[q][i] = eop[q][i + 1]
  BY <1>1, <1>2
<1>6. 1 \in DOMAIN eop[q] /\ Head(eop[q]) = eop[q][1] /\ eop[q][1] \in Report
  BY <1>1, <1>2
<1> QED BY <1>2, <1>4, <1>5, <1>6

(* A new call has a greater number than all before it on its queue.        *)
LEMMA Counted ==
  ASSUME NoWrap, SignalsInv
  PROVE  IsFiniteSet(called) /\ Cardinality(called) \in Nat /\ Cardinality(called) < SeqMod
<1>1. called \subseteq Signals /\ SeqMod \in Nat
  BY Facts DEF SignalsInv, Types
<1>2. IsFiniteSet(called) /\ Cardinality(called) <= Cardinality(Signals)
  BY <1>1, FS_Subset DEF NoWrap
<1>3. Cardinality(called) \in Nat /\ Cardinality(Signals) \in Nat
  BY <1>2, FS_CardinalityType DEF NoWrap
<1> QED BY <1>1, <1>2, <1>3 DEF NoWrap

LEMMA NewCall ==
  ASSUME NoWrap, SignalsInv,
         NEW t \in Threads, NEW q \in Queues, NEW s \in Signals, CallSignal(t, q, s)
  PROVE  /\ call[t] = NoCall /\ s \notin called /\ called' = called \cup {s}
         /\ \A u \in Threads : u # t => call'[u] = call[u]
         /\ call'[t].queue = q /\ call'[t].signal = s /\ call'[t].covers = onQueue[q]
         /\ call' \in [Threads -> Call \cup {NoCall}]
         /\ nextSeq' \in [Compute -> Nat]
         /\ \A p \in Compute : p # q => nextSeq'[p] = nextSeq[p]
         /\ q \in Compute => nextSeq'[q] = nextSeq[q] + 1 /\ call'[t].seq = nextSeq[q] + 1
         /\ Cardinality(called') = Cardinality(called) + 1
<1> DEFINE seq == IF q \in Compute THEN (nextSeq[q] + 1) % SeqMod ELSE 0
           c == [queue |-> q, signal |-> s, seq |-> seq, covers |-> onQueue[q]]
<1>0. Types /\ Numbered
  BY DEF SignalsInv
<1>1. /\ call[t] = NoCall /\ s \notin called /\ called' = called \cup {s}
      /\ call' = [call EXCEPT ![t] = c]
      /\ nextSeq' = [p \in Compute |-> IF p = q THEN seq ELSE nextSeq[p]]
  BY DEF CallSignal
<1>2. IsFiniteSet(called) /\ Cardinality(called') = Cardinality(called) + 1
  BY <1>1, Counted, FS_AddElement
<1>3. Cardinality(called') <= Cardinality(Signals) /\ Cardinality(called') \in Nat
  <2>1. called' \subseteq Signals
    BY <1>0, <1>1 DEF Types
  <2> QED BY <2>1, FS_Subset, FS_CardinalityType DEF NoWrap
<1>4. q \in Compute => seq = nextSeq[q] + 1
  <2> SUFFICES ASSUME q \in Compute PROVE (nextSeq[q] + 1) % SeqMod = nextSeq[q] + 1
    OBVIOUS
  <2>1. nextSeq[q] \in Nat /\ nextSeq[q] <= Cardinality(called) /\ Cardinality(called) \in Nat
        /\ Cardinality(Signals) \in Nat /\ SeqMod \in Nat
    BY <1>0, Counted, Facts, FS_CardinalityType DEF Types, Numbered, NoWrap
  <2>2. nextSeq[q] + 1 \in Nat /\ nextSeq[q] + 1 < SeqMod
    BY <1>2, <1>3, <2>1 DEF NoWrap
  <2> QED BY <2>1, <2>2
<1>5. seq \in Nat
  BY <1>0, <1>4 DEF Types
<1>6. c \in Call
  BY <1>0, <1>5 DEF Call, Types
<1>7. c.queue = q /\ c.signal = s /\ c.covers = onQueue[q] /\ c.seq = seq
  OBVIOUS
<1> HIDE DEF c, seq
<1>8. call' \in [Threads -> Call \cup {NoCall}] /\ call'[t] = c
      /\ \A u \in Threads : u # t => call'[u] = call[u]
  BY <1>0, <1>1, <1>6 DEF Types
<1>9. nextSeq' \in [Compute -> Nat]
      /\ (q \in Compute => nextSeq'[q] = seq)
      /\ \A p \in Compute : p # q => nextSeq'[p] = nextSeq[p]
  BY <1>0, <1>1, <1>5 DEF Types
<1> QED BY <1>1, <1>2, <1>4, <1>7, <1>8, <1>9

LEMMA CallEnds ==
  ASSUME Types, NEW t \in Threads, SubmitSignal(t) \/ SignalFails(t)
  PROVE  /\ call' \in [Threads -> Call \cup {NoCall}] /\ call'[t] = NoCall /\ call[t] # NoCall
         /\ \A u \in Threads : u # t => call'[u] = call[u]
BY DEF SubmitSignal, SignalFails, Types

LEMMA HostTyped ==
  ASSUME NoWrap, SignalsInv, [Next]_vars
  PROVE  /\ call' \in [Threads -> Call \cup {NoCall}] /\ called' \subseteq Signals
         /\ nextSeq' \in [Compute -> Nat]
         /\ works' \in 0..MaxWork /\ waits' \in 0..MaxWaits
         /\ onQueue' \in [Queues -> SUBSET Work] /\ covers' \in [Signals -> SUBSET Work]
         /\ accepted' \subseteq Signals /\ waited' \in [Work -> SUBSET Signals]
<1>0. /\ call \in [Threads -> Call \cup {NoCall}] /\ called \subseteq Signals
      /\ nextSeq \in [Compute -> Nat]
      /\ works \in 0..MaxWork /\ waits \in 0..MaxWaits
      /\ onQueue \in [Queues -> SUBSET Work] /\ covers \in [Signals -> SUBSET Work]
      /\ accepted \subseteq Signals /\ waited \in [Work -> SUBSET Signals]
      /\ Types
  BY DEF SignalsInv, Types
<1>1. ASSUME NEW q \in Queues, SubmitWork(q)
      PROVE  /\ works' \in 0..MaxWork /\ onQueue' \in [Queues -> SUBSET Work]
             /\ waited' \in [Work -> SUBSET Signals]
             /\ UNCHANGED <<call, called, nextSeq, waits, covers, accepted>>
  <2>1. works + 1 \in Work /\ works' = works + 1 /\ works + 1 \in 0..MaxWork
    BY <1>0, <1>1, Facts DEF SubmitWork, Work
  <2>2. onQueue' \in [Queues -> SUBSET Work]
    BY <1>0, <1>1, <2>1 DEF SubmitWork
  <2>3. waited' \in [Work -> SUBSET Signals]
    <3> DEFINE w == {s \in Signals : \E i \in DOMAIN ring[q] : ring[q][i] = Packet("wait", s)}
    <3>1. w \in SUBSET Signals /\ waited' = [waited EXCEPT ![works + 1] = w]
      BY <1>1 DEF SubmitWork
    <3> HIDE DEF w
    <3> QED BY <1>0, <3>1
  <2> QED BY <1>1, <2>1, <2>2, <2>3 DEF SubmitWork
<1>2. ASSUME NEW q \in Queues, NEW s \in Signals, SubmitWait(q, s)
      PROVE  /\ waits' \in 0..MaxWaits
             /\ UNCHANGED <<call, called, nextSeq, works, onQueue, covers, accepted, waited>>
  BY <1>0, <1>2, SignalsAssumption DEF SubmitWait, SignalsAssumption
<1>3. ASSUME NEW t \in Threads, NEW q \in Queues, NEW s \in Signals, CallSignal(t, q, s)
      PROVE  /\ call' \in [Threads -> Call \cup {NoCall}] /\ called' \subseteq Signals
             /\ nextSeq' \in [Compute -> Nat]
             /\ UNCHANGED <<works, waits, onQueue, covers, accepted, waited>>
  <2>1. UNCHANGED <<works, waits, onQueue, covers, accepted, waited>>
    BY <1>3 DEF CallSignal
  <2> QED BY <1>0, <1>3, <2>1, NewCall
<1>4. ASSUME NEW t \in Threads, SubmitSignal(t)
      PROVE  /\ call' \in [Threads -> Call \cup {NoCall}]
             /\ accepted' \subseteq Signals /\ covers' \in [Signals -> SUBSET Work]
             /\ UNCHANGED <<called, nextSeq, works, waits, onQueue, waited>>
  <2>1. call[t].signal \in Signals /\ call[t].covers \in SUBSET Work
    BY <1>0, <1>4, CallTyped DEF SubmitSignal
  <2>2. UNCHANGED <<called, nextSeq, works, waits, onQueue, waited>>
        /\ accepted' = accepted \cup {call[t].signal}
        /\ covers' = [covers EXCEPT ![call[t].signal] = call[t].covers]
    BY <1>4 DEF SubmitSignal
  <2> QED BY <1>0, <1>4, <2>1, <2>2, CallEnds
<1>5. ASSUME NEW t \in Threads, SignalFails(t)
      PROVE  /\ call' \in [Threads -> Call \cup {NoCall}]
             /\ UNCHANGED <<called, nextSeq, works, waits, onQueue, covers, accepted, waited>>
  BY <1>0, <1>5, CallEnds DEF SignalFails
<1>6. ASSUME NEW q \in Queues, Engine(q) PROVE UNCHANGED hostVars
  BY <1>6 DEF Engine, ClearSeq, StartWork, FinishCopy, ReleaseSeq, AwaitSeq,
       DecrementFence, FireEvent, AwaitFence, Executed
<1>7. ASSUME NEW q \in Queues, EndOfPipe(q) PROVE UNCHANGED hostVars
  BY <1>7 DEF EndOfPipe
<1>8. ASSUME NEW k \in Work, Finish(k) PROVE UNCHANGED hostVars
  BY <1>8 DEF Finish
<1>9. CASE UNCHANGED hostVars
  BY <1>0, <1>9 DEF hostVars
<1>10. CASE UNCHANGED vars
  BY <1>0, <1>10 DEF vars
<1> QED BY <1>0, <1>1, <1>2, <1>3, <1>4, <1>5, <1>6, <1>7, <1>8, <1>9, <1>10 DEF Next

LEMMA EngineTyped ==
  ASSUME NoWrap, SignalsInv, [Next]_vars
  PROVE  /\ eopSeq' \in [Compute -> Nat] /\ eop' \in [Queues -> Seq(Report)]
         /\ running' \subseteq Work /\ finished' \subseteq Work
         /\ fence' \in [Signals -> {0, 1}] /\ fired' \subseteq Signals
         /\ running' \cap finished' = {}
<1>0. /\ eopSeq \in [Compute -> Nat] /\ eop \in [Queues -> Seq(Report)]
      /\ running \subseteq Work /\ finished \subseteq Work
      /\ fence \in [Signals -> {0, 1}] /\ fired \subseteq Signals
      /\ running \cap finished = {} /\ Types
  BY DEF SignalsInv, Types
<1>1. CASE UNCHANGED engineVars
  BY <1>0, <1>1 DEF engineVars
<1>2. ASSUME NEW q \in Queues, ClearSeq(q)
      PROVE  /\ eopSeq' \in [Compute -> Nat]
             /\ UNCHANGED <<eop, running, finished, fence, fired>>
  BY <1>0, <1>2 DEF ClearSeq
<1>3. ASSUME NEW q \in Queues, StartWork(q)
      PROVE  /\ running' \subseteq Work /\ running' \cap finished = {}
             /\ UNCHANGED <<eopSeq, eop, finished, fence, fired>>
  <2>1. At(q, 1, "work") /\ Current(q).arg = Arg(q, 1)
    BY <1>0, <1>3, AtHead DEF StartWork, Ops
  <2>2. Arg(q, 1) \in Work
    BY <1>0, <2>1, Facts
  <2> QED BY <1>0, <1>3, <2>1, <2>2 DEF StartWork
<1>4. ASSUME NEW q \in Queues, ReleaseSeq(q)
      PROVE  /\ eop' \in [Queues -> Seq(Report)]
             /\ UNCHANGED <<eopSeq, running, finished, fence, fired>>
  <2>1. At(q, 1, "seq") /\ Current(q).arg = Arg(q, 1)
    BY <1>0, <1>4, AtHead DEF ReleaseSeq, Executed, Ops
  <2>2. Arg(q, 1) \in Nat
    BY <1>0, <2>1, Facts
  <2>3. Release(q, "seq", Arg(q, 1))
        /\ UNCHANGED <<eopSeq, running, finished, fence, fired>>
    BY <1>4, <2>1 DEF ReleaseSeq
  <2>4. [op |-> "seq", arg |-> Arg(q, 1), after |-> running \cap onQueue[q]] \in Report
    BY <1>0, <2>2 DEF Report
  <2>5. eop' \in [Queues -> Seq(Report)]
    BY <1>0, <2>3, <2>4, ReleaseTyped
  <2> QED BY <2>3, <2>5
<1>5. ASSUME NEW q \in Queues, DecrementFence(q)
      PROVE  /\ fence' \in [Signals -> {0, 1}]
             /\ UNCHANGED <<eopSeq, eop, running, finished, fired>>
  <2>1. Arg(q, 1) \in Signals /\ Decremented(Arg(q, 1))
    BY <1>5, DecrementsOne
  <2>2. \A s \in Signals : fence'[s] \in {0, 1}
    BY <1>0, <2>1 DEF Decremented
  <2>3. fence' = [s \in Signals |-> fence'[s]]
    BY <1>0, <2>1 DEF Decremented
  <2> QED BY <1>5, <2>2, <2>3 DEF DecrementFence
<1>6. ASSUME NEW q \in Queues, FireEvent(q)
      PROVE  /\ eop' \in [Queues -> Seq(Report)] /\ fired' \subseteq Signals
             /\ UNCHANGED <<eopSeq, running, finished, fence>>
  <2>1. At(q, 1, "fire") /\ Current(q).arg = Arg(q, 1)
    BY <1>0, <1>6, AtHead DEF FireEvent, Executed, Ops
  <2>2. Arg(q, 1) \in Signals
    BY <1>0, <2>1, Facts
  <2>3. CASE q \in Compute
    <3>1. Release(q, "fire", Arg(q, 1))
          /\ UNCHANGED <<eopSeq, running, finished, fence, fired>>
      BY <1>6, <2>1, <2>3 DEF FireEvent
    <3>2. [op |-> "fire", arg |-> Arg(q, 1), after |-> running \cap onQueue[q]] \in Report
      BY <1>0, <2>2 DEF Report
    <3> QED BY <1>0, <3>1, <3>2, ReleaseTyped
  <2>4. CASE q \notin Compute
    BY <1>0, <1>6, <2>1, <2>2, <2>4 DEF FireEvent
  <2> QED BY <2>3, <2>4
<1>7. ASSUME NEW q \in Queues, FinishCopy(q) \/ AwaitSeq(q) \/ AwaitFence(q)
      PROVE  UNCHANGED engineVars
  BY <1>7 DEF FinishCopy, AwaitSeq, AwaitFence
<1>8. ASSUME NEW q \in Queues, EndOfPipe(q)
      PROVE  /\ eopSeq' \in [Compute -> Nat] /\ eop' \in [Queues -> Seq(Report)]
             /\ fired' \subseteq Signals
             /\ UNCHANGED <<running, finished, fence>>
  <2>1. Head(eop[q]) \in Report /\ eop' \in [Queues -> Seq(Report)]
    BY <1>0, <1>8, ReportTaken
  <2>2. /\ Head(eop[q]).op = "seq" => Head(eop[q]).arg \in Nat
        /\ Head(eop[q]).op = "fire" => Head(eop[q]).arg \in Signals
    BY <2>1 DEF Report
  <2>3. UNCHANGED <<running, finished, fence>>
    BY <1>8 DEF EndOfPipe, hostVars
  <2>4. CASE /\ Head(eop[q]).op = "seq" /\ UNCHANGED fired
             /\ eopSeq' = [eopSeq EXCEPT ![q] = Head(eop[q]).arg]
    BY <1>0, <2>1, <2>2, <2>3, <2>4
  <2>5. CASE /\ Head(eop[q]).op = "fire" /\ UNCHANGED eopSeq
             /\ fired' = fired \cup {Head(eop[q]).arg}
    BY <1>0, <2>1, <2>2, <2>3, <2>5
  <2> QED BY <1>8, <2>4, <2>5 DEF EndOfPipe
<1>9. ASSUME NEW k \in Work, Finish(k)
      PROVE  /\ running' \subseteq Work /\ finished' \subseteq Work
             /\ running' \cap finished' = {}
             /\ UNCHANGED <<eopSeq, eop, fence, fired>>
  BY <1>0, <1>9 DEF Finish
<1>10. ASSUME NEW q \in Queues, SubmitWork(q) PROVE UNCHANGED engineVars
  BY <1>10 DEF SubmitWork
<1>11. ASSUME NEW q \in Queues, NEW s \in Signals, SubmitWait(q, s) PROVE UNCHANGED engineVars
  BY <1>11 DEF SubmitWait
<1>12. ASSUME NEW t \in Threads, NEW q \in Queues, NEW s \in Signals, CallSignal(t, q, s)
       PROVE  UNCHANGED engineVars
  BY <1>12 DEF CallSignal
<1>13. ASSUME NEW t \in Threads, SubmitSignal(t) \/ SignalFails(t) PROVE UNCHANGED engineVars
  BY <1>13 DEF SubmitSignal, SignalFails
<1>14. CASE UNCHANGED vars
  BY <1>1, <1>14 DEF vars, engineVars
<1>15. ASSUME NEW q \in Queues, Engine(q)
       PROVE  /\ eopSeq' \in [Compute -> Nat] /\ eop' \in [Queues -> Seq(Report)]
              /\ running' \subseteq Work /\ finished' \subseteq Work
              /\ fence' \in [Signals -> {0, 1}] /\ fired' \subseteq Signals
              /\ running' \cap finished' = {}
  BY <1>0, <1>1, <1>15, <1>2, <1>3, <1>4, <1>5, <1>6, <1>7 DEF Engine
<1> QED BY <1>0, <1>1, <1>8, <1>9, <1>10, <1>11, <1>12, <1>13, <1>14, <1>15 DEF Next

LEMMA TypesNext == NoWrap /\ SignalsInv /\ [Next]_vars => Types' /\ (running \cap finished = {})'
BY HostTyped, EngineTyped, RingTyped DEF Types, SignalsInv

(* What the engines do to the history, and what only grows.                *)
LEMMA EnginesKeep ==
  ASSUME (\E q \in Queues : Engine(q) \/ EndOfPipe(q)) \/ (\E k \in Work : Finish(k))
  PROVE  UNCHANGED hostVars
BY DEF Engine, ClearSeq, StartWork, FinishCopy, ReleaseSeq, AwaitSeq,
   DecrementFence, FireEvent, AwaitFence, Executed, EndOfPipe, Finish

LEMMA HostKeeps ==
  ASSUME \/ \E q \in Queues : SubmitWork(q) \/ \E s \in Signals : SubmitWait(q, s)
         \/ \E t \in Threads, q \in Queues, s \in Signals : CallSignal(t, q, s)
         \/ \E t \in Threads : SubmitSignal(t) \/ SignalFails(t)
  PROVE  UNCHANGED engineVars
BY DEF SubmitWork, SubmitWait, CallSignal, SubmitSignal, SignalFails

LEMMA Grows ==
  ASSUME NoWrap, SignalsInv, [Next]_vars
  PROVE  /\ finished \subseteq finished' /\ running \subseteq running' \cup finished'
         /\ \A s \in Signals : fence[s] = 0 => fence'[s] = 0
         /\ \A s \in accepted : covers'[s] = covers[s]
         /\ \A k \in Work : k <= works => waited'[k] = waited[k]
         /\ \A q \in Compute : nextSeq[q] <= nextSeq'[q]
         /\ \A q \in Queues : onQueue[q] \subseteq onQueue'[q]
         /\ works <= works'
         /\ accepted \subseteq accepted' /\ called \subseteq called'
<1>0. Types /\ CalledOnce
  BY DEF SignalsInv
<1>a. works \in Nat /\ nextSeq \in [Compute -> Nat] /\ fence \in [Signals -> {0, 1}]
      /\ onQueue \in [Queues -> SUBSET Work] /\ covers \in [Signals -> SUBSET Work]
      /\ waited \in [Work -> SUBSET Signals] /\ accepted \subseteq Signals
  BY <1>0, Facts DEF Types
<1>1. /\ finished \subseteq finished' /\ running \subseteq running' \cup finished'
      /\ \A s \in Signals : fence[s] = 0 => fence'[s] = 0
  <2>1. CASE UNCHANGED engineVars
    BY <2>1 DEF engineVars
  <2>2. ASSUME NEW q \in Queues, Engine(q) \/ EndOfPipe(q)
        PROVE  finished' = finished /\ running \subseteq running'
               /\ \A s \in Signals : fence[s] = 0 => fence'[s] = 0
    <3>1. finished' = finished /\ running \subseteq running'
      BY <2>2 DEF Engine, ClearSeq, StartWork, FinishCopy, ReleaseSeq, AwaitSeq,
         DecrementFence, FireEvent, AwaitFence, EndOfPipe, engineVars
    <3>2. CASE DecrementFence(q)
      <4>1. Arg(q, 1) \in Signals /\ Decremented(Arg(q, 1))
        BY <3>2, DecrementsOne
      <4> QED BY <3>1, <4>1 DEF Decremented
    <3>3. CASE ~DecrementFence(q)
      <4>1. fence' = fence
        BY <2>2, <3>3 DEF Engine, ClearSeq, StartWork, FinishCopy, ReleaseSeq, AwaitSeq,
           FireEvent, AwaitFence, EndOfPipe, engineVars
      <4> QED BY <3>1, <4>1
    <3> QED BY <3>2, <3>3
  <2>3. ASSUME NEW k \in Work, Finish(k)
        PROVE  finished \subseteq finished' /\ running \subseteq running' \cup finished'
               /\ fence' = fence
    BY <2>3 DEF Finish
  <2>4. CASE UNCHANGED vars
    BY <2>1, <2>4 DEF vars, engineVars
  <2> QED BY <2>1, <2>2, <2>3, <2>4, HostKeeps DEF Next
<1>2. /\ \A s \in accepted : covers'[s] = covers[s]
      /\ \A k \in Work : k <= works => waited'[k] = waited[k]
      /\ \A q \in Compute : nextSeq[q] <= nextSeq'[q]
      /\ \A q \in Queues : onQueue[q] \subseteq onQueue'[q]
      /\ works <= works'
      /\ accepted \subseteq accepted' /\ called \subseteq called'
  <2>1. CASE UNCHANGED hostVars
    BY <1>a, <2>1 DEF hostVars
  <2>2. ASSUME NEW q \in Queues, SubmitWork(q)
        PROVE  /\ \A k \in Work : k <= works => waited'[k] = waited[k]
               /\ \A p \in Queues : onQueue[p] \subseteq onQueue'[p]
               /\ works <= works' /\ UNCHANGED <<covers, nextSeq, accepted, called>>
    <3> DEFINE w == {s \in Signals : \E i \in DOMAIN ring[q] : ring[q][i] = Packet("wait", s)}
    <3>1. waited' = [waited EXCEPT ![works + 1] = w]
      BY <2>2 DEF SubmitWork
    <3> HIDE DEF w
    <3>2. \A k \in Work : k <= works => k # works + 1
      BY <1>a, Facts DEF Work
    <3>3. \A k \in Work : k <= works => waited'[k] = waited[k]
      BY <1>a, <3>1, <3>2
    <3> QED BY <1>a, <2>2, <3>3 DEF SubmitWork
  <2>3. ASSUME NEW q \in Queues, NEW s \in Signals, SubmitWait(q, s)
        PROVE  UNCHANGED <<covers, nextSeq, accepted, called, works, waited, onQueue>>
    BY <2>3 DEF SubmitWait
  <2>4. ASSUME NEW t \in Threads, NEW q \in Queues, NEW s \in Signals, CallSignal(t, q, s)
        PROVE  UNCHANGED <<covers, accepted, works, waited, onQueue>>
               /\ called \subseteq called'
               /\ \A p \in Compute : nextSeq[p] <= nextSeq'[p]
    <3>1. UNCHANGED <<covers, accepted, works, waited, onQueue>>
      BY <2>4 DEF CallSignal
    <3> QED BY <1>a, <2>4, <3>1, NewCall
  <2>5. ASSUME NEW t \in Threads, SubmitSignal(t)
        PROVE  UNCHANGED <<called, nextSeq, works, waited, onQueue>>
               /\ accepted \subseteq accepted'
               /\ \A s \in accepted : covers'[s] = covers[s]
    <3>1. call[t] # NoCall /\ accepted' = accepted \cup {call[t].signal}
          /\ covers' = [covers EXCEPT ![call[t].signal] = call[t].covers]
          /\ UNCHANGED <<called, nextSeq, works, waited, onQueue>>
      BY <2>5 DEF SubmitSignal
    <3>2. call[t].signal \notin accepted
      BY <1>0, <3>1 DEF CalledOnce
    <3> QED BY <1>a, <3>1, <3>2
  <2>6. ASSUME NEW t \in Threads, SignalFails(t)
        PROVE  UNCHANGED <<covers, nextSeq, accepted, called, works, waited, onQueue>>
    BY <2>6 DEF SignalFails
  <2>7. CASE UNCHANGED vars
    BY <1>a, <2>7 DEF vars
  <2> QED BY <1>a, <2>1, <2>2, <2>3, <2>4, <2>5, <2>6, <2>7, EnginesKeep DEF Next
<1> QED BY <1>1, <1>2

-----------------------------------------------------------------------------
(* Where the packets of a step are.                                        *)
Stay == \A p \in Queues, i \in Nat, op \in Ops :
          At(p, i, op) => At(p, i, op)' /\ Arg(p, i)' = Arg(p, i)

WorkAppended(q, k, n) ==
  /\ Stay
  /\ \A i \in Nat : i = n + 1 => At(q, i, "work")' /\ Arg(q, i)' = k
  /\ \A p \in Queues, i \in Nat, op \in Ops : At(p, i, op)' =>
       \/ At(p, i, op) /\ Arg(p, i)' = Arg(p, i)
       \/ p = q /\ i = n + 1 /\ op = "work"

WaitAppended ==
  /\ Stay
  /\ \A p \in Queues, i \in Nat, op \in Ops : At(p, i, op)' =>
       \/ At(p, i, op) /\ Arg(p, i)' = Arg(p, i)
       \/ op = "wait"

SignalAppended(q, s, v, n) ==
  /\ Stay
  /\ q \in Compute =>
       /\ \A i \in Nat : /\ i = n + 1 => At(q, i, "seq")' /\ Arg(q, i)' = v
                         /\ i = n + 2 => At(q, i, "await")' /\ Arg(q, i)' = v
                         /\ i = n + 3 => At(q, i, "decrement")' /\ Arg(q, i)' = s
                         /\ i = n + 4 => At(q, i, "fire")' /\ Arg(q, i)' = s
       /\ \A p \in Queues, i \in Nat, op \in Ops : At(p, i, op)' =>
            \/ At(p, i, op) /\ Arg(p, i)' = Arg(p, i)
            \/ p = q /\ i = n + 1 /\ op = "seq"
            \/ p = q /\ i = n + 2 /\ op = "await"
            \/ p = q /\ i = n + 3 /\ op = "decrement"
            \/ p = q /\ i = n + 4 /\ op = "fire"
  /\ q \notin Compute =>
       /\ \A i \in Nat : /\ i = n + 1 => At(q, i, "decrement")' /\ Arg(q, i)' = s
                         /\ i = n + 2 => At(q, i, "fire")' /\ Arg(q, i)' = s
       /\ \A p \in Queues, i \in Nat, op \in Ops : At(p, i, op)' =>
            \/ At(p, i, op) /\ Arg(p, i)' = Arg(p, i)
            \/ p = q /\ i = n + 1 /\ op = "decrement"
            \/ p = q /\ i = n + 2 /\ op = "fire"

LEMMA WorkAt ==
  ASSUME Types, NEW q \in Queues, SubmitWork(q)
  PROVE  \E k \in Work, n \in Nat :
           k = works + 1 /\ n = Len(ring[q]) /\ WorkAppended(q, k, n)
<1>1. PICK k \in Work : k = works + 1
  BY Facts DEF SubmitWork, Types, Work
<1>2. PICK n \in Nat : n = Len(ring[q])
  BY Facts
<1> DEFINE work == <<Packet("work", k)>>
<1>3. work \in Seq(AnyPacket)
  <2>1. Packet("work", k) \in AnyPacket
    BY DEF Packet, AnyPacket
  <2> QED BY <2>1
<1>4. PICK ps \in Seq(AnyPacket) : ps = work
  <2> HIDE DEF work
  <2> QED BY <1>3
<1>5. Len(ps) = 1 /\ ps[1].op = "work" /\ ps[1].arg = k
  BY <1>4 DEF Packet
<1>6. Submit(q, ps)
  BY <1>1, <1>4 DEF SubmitWork
<1>7. /\ \A p \in Queues, i \in Nat, op \in Ops :
           At(p, i, op) => At(p, i, op)' /\ Arg(p, i)' = Arg(p, i)
      /\ \A p \in Queues, i \in Nat, op \in Ops : At(p, i, op)' =>
           \/ At(p, i, op) /\ Arg(p, i)' = Arg(p, i)
           \/ p = q /\ \E j \in 1..Len(ps) : i = n + j /\ ps[j].op = op
      /\ \A j \in 1..Len(ps), i \in Nat :
           i = n + j => At(q, i, ps[j].op)' /\ Arg(q, i)' = ps[j].arg
  BY <1>2, <1>6, AppendsAt
<1>8. \A j \in 1..Len(ps) : j = 1
  BY <1>5
<1>9. 1 \in 1..Len(ps)
  BY <1>5
<1>10. \A i \in Nat : i = n + 1 => At(q, i, "work")' /\ Arg(q, i)' = k
  BY <1>5, <1>7, <1>9
<1>11. \A p \in Queues, i \in Nat, op \in Ops : At(p, i, op)' =>
         \/ At(p, i, op) /\ Arg(p, i)' = Arg(p, i)
         \/ p = q /\ i = n + 1 /\ op = "work"
  BY <1>5, <1>7, <1>8
<1> QED BY <1>1, <1>2, <1>7, <1>10, <1>11 DEF WorkAppended, Stay

LEMMA WaitAt ==
  ASSUME Types, NEW q \in Queues, NEW s \in Signals, SubmitWait(q, s)
  PROVE  WaitAppended
<1> DEFINE wait == <<Packet("wait", s)>>
<1>1. wait \in Seq(AnyPacket)
  <2>1. Packet("wait", s) \in AnyPacket
    BY DEF Packet, AnyPacket
  <2> QED BY <2>1
<1>2. PICK ps \in Seq(AnyPacket) : ps = wait
  <2> HIDE DEF wait
  <2> QED BY <1>1
<1>3. Len(ps) = 1 /\ ps[1].op = "wait"
  BY <1>2 DEF Packet
<1>4. Submit(q, ps)
  BY <1>2 DEF SubmitWait
<1>5. \A j \in 1..Len(ps) : ps[j].op = "wait"
  BY <1>3
<1>6. /\ \A p \in Queues, i \in Nat, op \in Ops :
           At(p, i, op) => At(p, i, op)' /\ Arg(p, i)' = Arg(p, i)
      /\ \A p \in Queues, i \in Nat, op \in Ops : At(p, i, op)' =>
           \/ At(p, i, op) /\ Arg(p, i)' = Arg(p, i)
           \/ \E j \in 1..Len(ps) : ps[j].op = op
  BY <1>4, AppendsAt
<1> QED BY <1>5, <1>6 DEF WaitAppended, Stay

LEMMA SignalAt ==
  ASSUME Types, NEW t \in Threads, SubmitSignal(t)
  PROVE  \E q \in Queues, s \in Signals, v \in Nat, n \in Nat, d \in SUBSET Work :
           /\ q = call[t].queue /\ s = call[t].signal /\ v = call[t].seq
           /\ d = call[t].covers /\ n = Len(ring[q]) /\ SignalAppended(q, s, v, n)
<1>0. call[t] # NoCall /\ Submit(call[t].queue, SignalPackets(call[t]))
  BY DEF SubmitSignal
<1>1. PICK q \in Queues, s \in Signals, v \in Nat, n \in Nat, d \in SUBSET Work :
         /\ q = call[t].queue /\ s = call[t].signal /\ v = call[t].seq
         /\ d = call[t].covers /\ n = Len(ring[call[t].queue])
  BY <1>0, CallTyped, Facts
<1>2. PICK ps \in Seq(AnyPacket) : ps = SignalPackets(call[t])
  BY <1>0, SignalPacketsTyped
<1>3. Submit(q, ps) /\ n = Len(ring[q])
  BY <1>0, <1>1, <1>2
<1>4. /\ q \in Compute =>
           /\ Len(ps) = 4
           /\ ps[1].op = "seq" /\ ps[1].arg = v /\ ps[2].op = "await" /\ ps[2].arg = v
           /\ ps[3].op = "decrement" /\ ps[3].arg = s /\ ps[4].op = "fire" /\ ps[4].arg = s
      /\ q \notin Compute =>
           /\ Len(ps) = 2
           /\ ps[1].op = "decrement" /\ ps[1].arg = s /\ ps[2].op = "fire" /\ ps[2].arg = s
  BY <1>0, <1>1, <1>2, SignalPacketsTyped
<1>5. Stay
  BY <1>3, AppendsAt DEF Stay
<1>6. \A p \in Queues, i \in Nat, op \in Ops : At(p, i, op)' =>
        \/ At(p, i, op) /\ Arg(p, i)' = Arg(p, i)
        \/ p = q /\ \E j \in 1..Len(ps) : i = n + j /\ ps[j].op = op
  BY <1>3, AppendsAt
<1>7. \A j \in 1..Len(ps), i \in Nat :
        i = n + j => At(q, i, ps[j].op)' /\ Arg(q, i)' = ps[j].arg
  BY <1>3, AppendsAt
<1>8. ASSUME q \in Compute PROVE SignalAppended(q, s, v, n)
  <2>0. Len(ps) = 4
    BY <1>4, <1>8
  <2>1. \A j \in 1..Len(ps) : j = 1 \/ j = 2 \/ j = 3 \/ j = 4
    BY <2>0
  <2>2. 1 \in 1..Len(ps) /\ 2 \in 1..Len(ps) /\ 3 \in 1..Len(ps) /\ 4 \in 1..Len(ps)
    BY <2>0
  <2>3. \A p \in Queues, i \in Nat, op \in Ops : At(p, i, op)' =>
          \/ At(p, i, op) /\ Arg(p, i)' = Arg(p, i)
          \/ p = q /\ i = n + 1 /\ op = "seq"
          \/ p = q /\ i = n + 2 /\ op = "await"
          \/ p = q /\ i = n + 3 /\ op = "decrement"
          \/ p = q /\ i = n + 4 /\ op = "fire"
    <3>1. ASSUME NEW p \in Queues, NEW i \in Nat, NEW op \in Ops, At(p, i, op)',
                 ~(At(p, i, op) /\ Arg(p, i)' = Arg(p, i))
          PROVE  p = q /\ \/ i = n + 1 /\ op = "seq"
                          \/ i = n + 2 /\ op = "await"
                          \/ i = n + 3 /\ op = "decrement"
                          \/ i = n + 4 /\ op = "fire"
      <4>1. p = q /\ \E j \in 1..Len(ps) : i = n + j /\ ps[j].op = op
        BY <1>6, <3>1
      <4> QED BY <1>4, <1>8, <2>1, <4>1
    <3> QED BY <3>1
  <2>4. \A i \in Nat : /\ i = n + 1 => At(q, i, "seq")' /\ Arg(q, i)' = v
                       /\ i = n + 2 => At(q, i, "await")' /\ Arg(q, i)' = v
                       /\ i = n + 3 => At(q, i, "decrement")' /\ Arg(q, i)' = s
                       /\ i = n + 4 => At(q, i, "fire")' /\ Arg(q, i)' = s
    BY <1>4, <1>7, <1>8, <2>2
  <2> QED BY <1>5, <1>8, <2>3, <2>4 DEF SignalAppended
<1>9. ASSUME q \notin Compute PROVE SignalAppended(q, s, v, n)
  <2>0. Len(ps) = 2
    BY <1>4, <1>9
  <2>1. \A j \in 1..Len(ps) : j = 1 \/ j = 2
    BY <2>0
  <2>2. 1 \in 1..Len(ps) /\ 2 \in 1..Len(ps)
    BY <2>0
  <2>3. \A p \in Queues, i \in Nat, op \in Ops : At(p, i, op)' =>
          \/ At(p, i, op) /\ Arg(p, i)' = Arg(p, i)
          \/ p = q /\ i = n + 1 /\ op = "decrement"
          \/ p = q /\ i = n + 2 /\ op = "fire"
    <3>1. ASSUME NEW p \in Queues, NEW i \in Nat, NEW op \in Ops, At(p, i, op)',
                 ~(At(p, i, op) /\ Arg(p, i)' = Arg(p, i))
          PROVE  p = q /\ \/ i = n + 1 /\ op = "decrement"
                          \/ i = n + 2 /\ op = "fire"
      <4>1. p = q /\ \E j \in 1..Len(ps) : i = n + j /\ ps[j].op = op
        BY <1>6, <3>1
      <4> QED BY <1>4, <1>9, <2>1, <4>1
    <3> QED BY <3>1
  <2>4. \A i \in Nat : /\ i = n + 1 => At(q, i, "decrement")' /\ Arg(q, i)' = s
                       /\ i = n + 2 => At(q, i, "fire")' /\ Arg(q, i)' = s
    BY <1>4, <1>7, <1>9, <2>2
  <2> QED BY <1>5, <1>9, <2>3, <2>4 DEF SignalAppended
<1> QED BY <1>1, <1>3, <1>8, <1>9

(* Any other step takes the head of one ring or none: d says of which.     *)
Taken(q) ==
  \/ At(q, 1, "zero") /\ ClearSeq(q)
  \/ At(q, 1, "work") /\ FinishCopy(q)
  \/ At(q, 1, "work") /\ StartWork(q) /\ q \in Compute
  \/ At(q, 1, "seq") /\ ReleaseSeq(q)
  \/ At(q, 1, "await") /\ AwaitSeq(q)
  \/ At(q, 1, "decrement") /\ DecrementFence(q)
  \/ At(q, 1, "fire") /\ FireEvent(q)
  \/ At(q, 1, "wait") /\ AwaitFence(q)

Moved(d) ==
  /\ d \in [Queues -> {0, 1}]
  /\ \A p \in Queues, i \in Nat, op \in Ops : At(p, i, op) =>
       \/ i = 1 /\ d[p] = 1
       \/ /\ i - d[p] \in Nat /\ At(p, i - d[p], op)'
          /\ Arg(p, i - d[p])' = Arg(p, i)
  /\ \A p \in Queues, i \in Nat, op \in Ops : At(p, i, op)' /\ op \notin {"work", "wait"} =>
       At(p, i + d[p], op) /\ Arg(p, i)' = Arg(p, i + d[p])
  /\ \A p \in Queues, i \in Nat : At(p, i, "work")' =>
       \/ At(p, i + d[p], "work") /\ Arg(p, i)' = Arg(p, i + d[p])
       \/ /\ SubmitWork(p) /\ Arg(p, i)' = works + 1
          /\ \A j \in DOMAIN ring[p] : j < i /\ j - d[p] = j
  /\ \A q \in Queues : d[q] = 1 => Taken(q)

LEMMA HeadTaken ==
  ASSUME Types, NEW q \in Queues, Engine(q), ring' # ring
  PROVE  Taken(q) /\ Pop(q) /\ ring[q] # <<>>
<1>1. "zero" \in Ops /\ "work" \in Ops /\ "seq" \in Ops /\ "await" \in Ops
      /\ "decrement" \in Ops /\ "fire" \in Ops /\ "wait" \in Ops
  BY DEF Ops
<1>2. CASE ClearSeq(q)
  BY <1>1, <1>2, AtHead DEF Taken, ClearSeq, Executed
<1>3. CASE StartWork(q)
  BY <1>1, <1>3, AtHead DEF Taken, StartWork
<1>4. CASE FinishCopy(q)
  BY <1>1, <1>4, AtHead DEF Taken, FinishCopy, Executed
<1>5. CASE ReleaseSeq(q)
  BY <1>1, <1>5, AtHead DEF Taken, ReleaseSeq, Executed
<1>6. CASE AwaitSeq(q)
  BY <1>1, <1>6, AtHead DEF Taken, AwaitSeq, Executed
<1>7. CASE DecrementFence(q)
  BY <1>1, <1>7, AtHead DEF Taken, DecrementFence, Executed
<1>8. CASE FireEvent(q)
  BY <1>1, <1>8, AtHead DEF Taken, FireEvent, Executed
<1>9. CASE AwaitFence(q)
  BY <1>1, <1>9, AtHead DEF Taken, AwaitFence, Executed
<1> QED BY <1>2, <1>3, <1>4, <1>5, <1>6, <1>7, <1>8, <1>9 DEF Engine

LEMMA RingSteps ==
  ASSUME Types, [Next]_vars
  PROVE  \/ \E t \in Threads : SubmitSignal(t)
         \/ \E q \in Queues : SubmitWork(q)
         \/ \E q \in Queues, s \in Signals : SubmitWait(q, s)
         \/ \E q \in Queues : Taken(q) /\ Pop(q) /\ ring[q] # <<>>
         \/ ring' = ring
<1>1. ASSUME NEW q \in Queues, EndOfPipe(q) PROVE ring' = ring
  BY <1>1 DEF EndOfPipe
<1>2. ASSUME NEW t \in Threads, NEW q \in Queues, NEW s \in Signals, CallSignal(t, q, s)
      PROVE  ring' = ring
  BY <1>2 DEF CallSignal
<1>3. ASSUME NEW t \in Threads, SignalFails(t) PROVE ring' = ring
  BY <1>3 DEF SignalFails
<1>4. ASSUME NEW k \in Work, Finish(k) PROVE ring' = ring
  BY <1>4 DEF Finish
<1>5. CASE UNCHANGED vars
  BY <1>5 DEF vars
<1> QED BY <1>1, <1>2, <1>3, <1>4, <1>5, HeadTaken DEF Next

LEMMA PopMoves ==
  ASSUME Types, NEW q \in Queues, Taken(q), Pop(q), ring[q] # <<>>
  PROVE  \E d : Moved(d) /\ d[q] = 1
<1> DEFINE d == [p \in Queues |-> IF p = q THEN 1 ELSE 0]
<1>1. d \in [Queues -> {0, 1}] /\ d[q] = 1 /\ \A p \in Queues : p # q => d[p] = 0
  OBVIOUS
<1> HIDE DEF d
<1>2. \A p \in Queues : p = q \/ d[p] = 0
  BY <1>1
<1>3. \A i \in Nat : i - 0 = i /\ i + 0 = i
  OBVIOUS
<1>4. ASSUME NEW p \in Queues, NEW i \in Nat, NEW op \in Ops, At(p, i, op)
      PROVE  \/ i = 1 /\ d[p] = 1
             \/ /\ i - d[p] \in Nat /\ At(p, i - d[p], op)'
                /\ Arg(p, i - d[p])' = Arg(p, i)
  <2>1. \/ p # q /\ At(p, i, op)' /\ Arg(p, i)' = Arg(p, i)
        \/ p = q /\ i = 1
        \/ p = q /\ i - 1 \in Nat /\ At(q, i - 1, op)' /\ Arg(q, i - 1)' = Arg(q, i)
    BY <1>4, PopsAt
  <2> QED BY <1>1, <1>3, <2>1
<1>5. ASSUME NEW p \in Queues, NEW i \in Nat, NEW op \in Ops, At(p, i, op)'
      PROVE  At(p, i + d[p], op) /\ Arg(p, i)' = Arg(p, i + d[p])
  <2>1. \/ p # q /\ At(p, i, op) /\ Arg(p, i)' = Arg(p, i)
        \/ p = q /\ At(q, i + 1, op) /\ Arg(q, i)' = Arg(q, i + 1)
    BY <1>5, PopsAt
  <2> QED BY <1>1, <1>3, <2>1
<1>6. "work" \in Ops
  BY DEF Ops
<1>7. \A p \in Queues : d[p] = 1 => Taken(p)
  BY <1>2
<1>8. Moved(d)
  BY <1>1, <1>4, <1>5, <1>6, <1>7 DEF Moved
<1> QED BY <1>1, <1>8

LEMMA RingMoves ==
  ASSUME Types, [Next]_vars, \A t \in Threads : ~SubmitSignal(t)
  PROVE  \E d : Moved(d)
<1>1. CASE ring' = ring
  <2> DEFINE d == [p \in Queues |-> 0]
  <2>1. \A p \in Queues : d[p] = 0
    OBVIOUS
  <2>2. d \in [Queues -> {0, 1}]
    OBVIOUS
  <2> HIDE DEF d
  <2>3. \A p, i, op : (At(p, i, op)' <=> At(p, i, op)) /\ Arg(p, i)' = Arg(p, i)
    BY <1>1 DEF At, Arg
  <2>4. \A i \in Nat : i - 0 = i /\ i + 0 = i
    OBVIOUS
  <2> QED BY <2>1, <2>2, <2>3, <2>4 DEF Moved
<1>2. ASSUME NEW q \in Queues, Taken(q), Pop(q), ring[q] # <<>> PROVE \E d : Moved(d)
  BY <1>2, PopMoves
<1>3. ASSUME Stay,
             \A p \in Queues, i \in Nat, op \in Ops :
               At(p, i, op)' /\ op \notin {"work", "wait"} =>
                 At(p, i, op) /\ Arg(p, i)' = Arg(p, i),
             \A p \in Queues, i \in Nat : At(p, i, "work")' =>
               \/ At(p, i, "work") /\ Arg(p, i)' = Arg(p, i)
               \/ /\ SubmitWork(p) /\ Arg(p, i)' = works + 1
                  /\ \A j \in DOMAIN ring[p] : j < i
      PROVE  \E d : Moved(d)
  <2> DEFINE d == [p \in Queues |-> 0]
  <2>1. \A p \in Queues : d[p] = 0
    OBVIOUS
  <2>2. d \in [Queues -> {0, 1}]
    OBVIOUS
  <2> HIDE DEF d
  <2>3. \A i \in Nat : i - 0 = i /\ i + 0 = i
    OBVIOUS
  <2>4. \A p \in Queues : \A j \in DOMAIN ring[p] : j - d[p] = j
    BY <2>1, <2>3, Facts
  <2>5. \A p \in Queues, i \in Nat, op \in Ops : At(p, i, op) =>
          i - d[p] \in Nat /\ At(p, i - d[p], op)' /\ Arg(p, i - d[p])' = Arg(p, i)
    BY <1>3, <2>1, <2>3 DEF Stay
  <2>6. \A p \in Queues, i \in Nat, op \in Ops : At(p, i, op)' /\ op \notin {"work", "wait"} =>
          At(p, i + d[p], op) /\ Arg(p, i)' = Arg(p, i + d[p])
    BY <1>3, <2>1, <2>3
  <2>7. \A p \in Queues, i \in Nat : At(p, i, "work")' =>
          \/ At(p, i + d[p], "work") /\ Arg(p, i)' = Arg(p, i + d[p])
          \/ /\ SubmitWork(p) /\ Arg(p, i)' = works + 1
             /\ \A j \in DOMAIN ring[p] : j < i /\ j - d[p] = j
    BY <1>3, <2>1, <2>3, <2>4
  <2>8. Moved(d)
    BY <2>1, <2>2, <2>5, <2>6, <2>7 DEF Moved
  <2> QED BY <2>8
<1>4. ASSUME NEW q \in Queues, SubmitWork(q) PROVE \E d : Moved(d)
  <2>1. PICK k \in Work, n \in Nat :
          k = works + 1 /\ n = Len(ring[q]) /\ WorkAppended(q, k, n)
    BY <1>4, WorkAt
  <2>2. \A j \in DOMAIN ring[q] : j < n + 1
    BY <2>1, Facts
  <2>3. Stay
    BY <2>1 DEF WorkAppended
  <2>4. \A p \in Queues, i \in Nat, op \in Ops :
          At(p, i, op)' /\ op \notin {"work", "wait"} =>
            At(p, i, op) /\ Arg(p, i)' = Arg(p, i)
    BY <2>1 DEF WorkAppended
  <2>5. "work" \in Ops
    BY DEF Ops
  <2>6. \A p \in Queues, i \in Nat : At(p, i, "work")' =>
               \/ At(p, i, "work") /\ Arg(p, i)' = Arg(p, i)
               \/ /\ SubmitWork(p) /\ Arg(p, i)' = works + 1
                  /\ \A j \in DOMAIN ring[p] : j < i
    BY <1>4, <2>1, <2>2, <2>5 DEF WorkAppended
  <2> QED BY <1>3, <2>3, <2>4, <2>6
<1>5. ASSUME NEW q \in Queues, NEW s \in Signals, SubmitWait(q, s) PROVE \E d : Moved(d)
  <2>1. WaitAppended
    BY <1>5, WaitAt
  <2>2. "work" \in Ops
    BY DEF Ops
  <2> QED BY <1>3, <2>1, <2>2 DEF WaitAppended
<1> QED BY <1>1, <1>2, <1>4, <1>5, RingSteps

(* The place of a packet; the one before and the one after it.             *)
LEMMA Places ==
  ASSUME Types, Types'
  PROVE  /\ \A p \in Queues : \A i, op : At(p, i, op) => i \in Nat /\ i >= 1 /\ i \in DOMAIN ring[p]
         /\ \A p \in Queues : \A i, op : At(p, i, op)' => i \in Nat /\ i >= 1 /\ i \in DOMAIN ring'[p]
         /\ \A p \in Queues : \A i, a, b : At(p, i, a) /\ At(p, i, b) => a = b
         /\ \A p \in Queues : \A i : i \in DOMAIN ring[p] <=> \E op \in Ops : At(p, i, op)
         /\ \A p \in Queues : \A i : i \in DOMAIN ring'[p] <=> \E op \in Ops : At(p, i, op)'
<1>1. \A r \in Seq(AnyPacket) : \A i \in DOMAIN r :
        i \in Nat /\ i >= 1 /\ r[i].op \in Ops
  <2> SUFFICES ASSUME NEW r \in Seq(AnyPacket), NEW i \in DOMAIN r
               PROVE  i \in Nat /\ i >= 1 /\ r[i].op \in Ops
    OBVIOUS
  <2>1. i \in 1..Len(r) /\ r[i] \in AnyPacket
    OBVIOUS
  <2> QED BY <2>1 DEF AnyPacket, Ops
<1>2. \A p \in Queues : ring[p] \in Seq(AnyPacket) /\ ring'[p] \in Seq(AnyPacket)
  BY DEF Types
<1> QED BY <1>1, <1>2 DEF At

LEMMA CallSteps ==
  ASSUME [Next]_vars
  PROVE  \/ \E t \in Threads, q \in Queues, s \in Signals : CallSignal(t, q, s)
         \/ \E t \in Threads : SubmitSignal(t)
         \/ \E t \in Threads : SignalFails(t)
         \/ UNCHANGED <<call, called, nextSeq, covers, accepted>>
<1>1. ASSUME UNCHANGED hostVars PROVE UNCHANGED <<call, called, nextSeq, covers, accepted>>
  BY <1>1 DEF hostVars
<1>2. ASSUME NEW q \in Queues, SubmitWork(q)
      PROVE  UNCHANGED <<call, called, nextSeq, covers, accepted>>
  BY <1>2 DEF SubmitWork
<1>3. ASSUME NEW q \in Queues, NEW s \in Signals, SubmitWait(q, s)
      PROVE  UNCHANGED <<call, called, nextSeq, covers, accepted>>
  BY <1>3 DEF SubmitWait
<1>4. CASE UNCHANGED vars
  BY <1>4 DEF vars
<1> QED BY <1>1, <1>2, <1>3, <1>4, EnginesKeep DEF Next

LEMMA FenceSteps ==
  ASSUME [Next]_vars PROVE fence' = fence \/ \E q \in Queues : DecrementFence(q)
<1>1. ASSUME NEW q \in Queues, Engine(q) PROVE fence' = fence \/ DecrementFence(q)
  BY <1>1 DEF Engine, ClearSeq, StartWork, FinishCopy, ReleaseSeq, AwaitSeq, FireEvent,
     AwaitFence, engineVars
<1>2. ASSUME NEW q \in Queues, EndOfPipe(q) PROVE fence' = fence
  BY <1>2 DEF EndOfPipe
<1>3. ASSUME NEW k \in Work, Finish(k) PROVE fence' = fence
  BY <1>3 DEF Finish
<1>4. CASE UNCHANGED engineVars
  BY <1>4 DEF engineVars
<1>5. CASE UNCHANGED vars
  BY <1>5 DEF vars
<1> QED BY <1>1, <1>2, <1>3, <1>4, <1>5, HostKeeps DEF Next

LEMMA FenceGoesDown ==
  ASSUME SignalsInv, [Next]_vars
  PROVE  /\ \A s \in Signals : fence'[s] = 0 => fence[s] = 0 \/ s \in accepted
         /\ \A s \in Signals : fence'[s] = 0 \/ fence'[s] = fence[s]
BY FenceSteps, DecrementsOne DEF Decremented

LEMMA NextTypes ==
  ASSUME NoWrap, SignalsInv, [Next]_vars PROVE Types /\ Types'
BY TypesNext DEF SignalsInv

LEMMA SignalSubmitted ==
  ASSUME Types, NEW t \in Threads, SubmitSignal(t)
  PROVE  \E q \in Queues, s \in Signals, v \in Nat, n \in Nat, d \in SUBSET Work :
           /\ q = call[t].queue /\ s = call[t].signal /\ v = call[t].seq
           /\ d = call[t].covers /\ n = Len(ring[q]) /\ SignalAppended(q, s, v, n)
           /\ call[t] # NoCall /\ accepted' = accepted \cup {s}
           /\ covers' \in [Signals -> SUBSET Work] /\ covers'[s] = d
           /\ UNCHANGED <<called, nextSeq, onQueue, works, waited, fence, running, finished,
                          eop, eopSeq, fired>>
           /\ call'[t] = NoCall /\ \A u \in Threads : u # t => call'[u] = call[u]
<1>1. PICK q \in Queues, s \in Signals, v \in Nat, n \in Nat, d \in SUBSET Work :
           /\ q = call[t].queue /\ s = call[t].signal /\ v = call[t].seq
           /\ d = call[t].covers /\ n = Len(ring[q]) /\ SignalAppended(q, s, v, n)
  BY SignalAt
<1>2. /\ call[t] # NoCall /\ accepted' = accepted \cup {s}
      /\ UNCHANGED <<called, nextSeq, onQueue, works, waited, fence, running, finished,
                     eop, eopSeq, fired>>
  BY <1>1 DEF SubmitSignal, engineVars
<1>3. covers' = [covers EXCEPT ![s] = d] /\ covers \in [Signals -> SUBSET Work]
  BY <1>1 DEF SubmitSignal, Types
<1>4. covers' \in [Signals -> SUBSET Work] /\ covers'[s] = d
  BY <1>3
<1> QED BY <1>1, <1>2, <1>4, CallEnds

LEMMA CalledOnceNext == NoWrap /\ SignalsInv /\ [Next]_vars => CalledOnce'
<1> SUFFICES ASSUME NoWrap, SignalsInv, [Next]_vars PROVE CalledOnce'
  OBVIOUS
<1>0. CalledOnce /\ Types
  BY DEF SignalsInv
<1>1. \A s \in Signals : fence'[s] = 0 => s \in accepted'
  BY <1>0, Grows, FenceGoesDown DEF CalledOnce
<1>2. ASSUME NEW t \in Threads, NEW q \in Queues, NEW s \in Signals, CallSignal(t, q, s)
      PROVE  CalledOnce'
  <2>1. accepted' = accepted
    BY <1>2 DEF CallSignal
  <2>2. /\ s \notin called /\ called' = called \cup {s}
        /\ \A u \in Threads : u # t => call'[u] = call[u]
        /\ call'[t].signal = s
    BY <1>2, NewCall
  <2> QED BY <1>0, <1>1, <2>1, <2>2 DEF CalledOnce
<1>3. ASSUME NEW t \in Threads, SubmitSignal(t) PROVE CalledOnce'
  <2>1. PICK s \in Signals :
          /\ s = call[t].signal /\ call[t] # NoCall /\ accepted' = accepted \cup {s}
          /\ called' = called /\ call'[t] = NoCall
          /\ \A u \in Threads : u # t => call'[u] = call[u]
    BY <1>0, <1>3, SignalSubmitted
  <2> QED BY <1>0, <1>1, <2>1 DEF CalledOnce
<1>4. ASSUME NEW t \in Threads, SignalFails(t) PROVE CalledOnce'
  <2>1. called' = called /\ accepted' = accepted
    BY <1>4 DEF SignalFails
  <2>2. call'[t] = NoCall /\ \A u \in Threads : u # t => call'[u] = call[u]
    BY <1>0, <1>4, CallEnds
  <2> QED BY <1>0, <1>1, <2>1, <2>2 DEF CalledOnce
<1>5. CASE UNCHANGED <<call, called, nextSeq, covers, accepted>>
  BY <1>0, <1>1, <1>5 DEF CalledOnce
<1> QED BY <1>2, <1>3, <1>4, <1>5, CallSteps

LEMMA DecrementedOnceNext == NoWrap /\ SignalsInv /\ [Next]_vars => DecrementedOnce'
<1> SUFFICES ASSUME NoWrap, SignalsInv, [Next]_vars PROVE DecrementedOnce'
  OBVIOUS
<1>0. CalledOnce /\ DecrementedOnce /\ Types /\ Types' /\ "decrement" \in Ops
  BY NextTypes DEF SignalsInv, Ops
<1>a. \A q \in Queues, i \in Nat : At(q, i, "decrement") =>
        /\ Arg(q, i) \in accepted /\ fence[Arg(q, i)] = 1 /\ Arg(q, i) \in Signals
        /\ \A p \in Queues, j \in Nat : At(p, j, "decrement") /\ Arg(p, j) = Arg(q, i)
             => p = q /\ j = i
  BY <1>0, Facts, Places DEF DecrementedOnce
<1>b. SUFFICES ASSUME NEW q \in Queues, NEW i \in Nat, At(q, i, "decrement")'
               PROVE  /\ Arg(q, i)' \in accepted' /\ fence'[Arg(q, i)'] = 1
                      /\ \A p \in Queues, j \in Nat :
                           At(p, j, "decrement")' /\ Arg(p, j)' = Arg(q, i)' => p = q /\ j = i
  BY <1>0, Places DEF DecrementedOnce
<1>1. ASSUME NEW t \in Threads, SubmitSignal(t)
      PROVE  /\ Arg(q, i)' \in accepted' /\ fence'[Arg(q, i)'] = 1
             /\ \A p \in Queues, j \in Nat :
                  At(p, j, "decrement")' /\ Arg(p, j)' = Arg(q, i)' => p = q /\ j = i
  <2>1. PICK r \in Queues, s \in Signals, v \in Nat, n \in Nat :
           /\ s = call[t].signal /\ n = Len(ring[r]) /\ SignalAppended(r, s, v, n)
           /\ call[t] # NoCall /\ accepted' = accepted \cup {s} /\ fence' = fence
    BY <1>0, <1>1, SignalSubmitted
  <2>2. s \notin accepted /\ fence[s] = 1
    BY <1>0, <2>1 DEF CalledOnce, Types
  <2>3. PICK m \in Nat : \A p \in Queues, j \in Nat : At(p, j, "decrement")' =>
          \/ At(p, j, "decrement") /\ Arg(p, j)' = Arg(p, j)
          \/ p = r /\ j = m /\ Arg(p, j)' = s
    <3>1. CASE r \in Compute
      <4>1. n + 3 \in Nat
        OBVIOUS
      <4>2. \A p \in Queues, j \in Nat : At(p, j, "decrement")' =>
              \/ At(p, j, "decrement") /\ Arg(p, j)' = Arg(p, j)
              \/ p = r /\ j = n + 3 /\ Arg(p, j)' = s
        BY <1>0, <2>1, <3>1 DEF SignalAppended
      <4> QED BY <4>1, <4>2
    <3>2. CASE r \notin Compute
      <4>1. n + 1 \in Nat
        OBVIOUS
      <4>2. \A p \in Queues, j \in Nat : At(p, j, "decrement")' =>
              \/ At(p, j, "decrement") /\ Arg(p, j)' = Arg(p, j)
              \/ p = r /\ j = n + 1 /\ Arg(p, j)' = s
        BY <1>0, <2>1, <3>2 DEF SignalAppended
      <4> QED BY <4>1, <4>2
    <3> QED BY <3>1, <3>2
  <2> QED BY <1>a, <1>b, <2>1, <2>2, <2>3
<1>2. ASSUME \A t \in Threads : ~SubmitSignal(t)
      PROVE  /\ Arg(q, i)' \in accepted' /\ fence'[Arg(q, i)'] = 1
             /\ \A p \in Queues, j \in Nat :
                  At(p, j, "decrement")' /\ Arg(p, j)' = Arg(q, i)' => p = q /\ j = i
  <2>1. ASSUME NEW d, Moved(d)
        PROVE  /\ i + d[q] \in Nat /\ At(q, i + d[q], "decrement") /\ Arg(q, i)' = Arg(q, i + d[q])
               /\ \A p \in Queues, j \in Nat :
                    At(p, j, "decrement")' /\ Arg(p, j)' = Arg(q, i)' => p = q /\ j = i
    <3>2. \A p \in Queues, j \in Nat : At(p, j, "decrement")' =>
            j + d[p] \in Nat /\ At(p, j + d[p], "decrement") /\ Arg(p, j)' = Arg(p, j + d[p])
      BY <1>0, <2>1 DEF Moved
    <3>3. \A p \in Queues, j \in Nat : At(p, j, "decrement")' /\ Arg(p, j)' = Arg(q, i)' =>
            p = q /\ j + d[p] = i + d[q]
      BY <1>a, <1>b, <3>2
    <3>4. d[q] \in Nat
      BY <2>1 DEF Moved
    <3> QED BY <1>b, <3>2, <3>3, <3>4
  <2>2. \E d : Moved(d)
    BY <1>0, <1>2, RingMoves
  <2>3. Arg(q, i)' \in accepted /\ fence[Arg(q, i)'] = 1
    BY <1>a, <2>1, <2>2
  <2>4. ASSUME NEW r \in Queues, DecrementFence(r) PROVE fence'[Arg(q, i)'] = 1
    <3>1. Decremented(Arg(r, 1)) /\ At(r, 1, "decrement") /\ Arg(r, 1) \in Signals
      BY <2>4, DecrementsOne
    <3>2. Taken(r) /\ Pop(r) /\ ring[r] # <<>>
      BY <2>4, <3>1 DEF DecrementFence, Executed, Has, Taken
    <3>3. PICK d : Moved(d) /\ d[r] = 1
      BY <1>0, <3>2, PopMoves
    <3>4. i >= 1
      BY <1>0, <1>b, Places
    <3>5. ~(r = q /\ i + d[q] = 1)
      BY <3>3, <3>4
    <3> QED BY <1>a, <2>1, <3>1, <3>3, <3>5 DEF Decremented
  <2>5. fence'[Arg(q, i)'] = 1
    BY <2>3, <2>4, FenceSteps
  <2> QED BY <2>1, <2>2, <2>3, <2>5, Grows
<1> QED BY <1>1, <1>2

LEMMA TakenOf ==
  ASSUME Types, Types', NEW q \in Queues, Taken(q)
  PROVE  /\ At(q, 1, "zero") => ClearSeq(q)
         /\ At(q, 1, "work") => FinishCopy(q) \/ (StartWork(q) /\ q \in Compute)
         /\ At(q, 1, "seq") => ReleaseSeq(q)
         /\ At(q, 1, "await") => AwaitSeq(q)
         /\ At(q, 1, "decrement") => DecrementFence(q)
         /\ At(q, 1, "fire") => FireEvent(q)
         /\ At(q, 1, "wait") => AwaitFence(q)
BY Places DEF Taken

(* What a step adds to the end of the pipe, to eop_seq, to the fired       *)
(* events and to the work started.                                         *)
LEMMA EopSteps ==
  ASSUME NoWrap, SignalsInv, [Next]_vars, NEW q \in Queues, NEW i \in DOMAIN eop'[q]
  PROVE  \/ \E j \in DOMAIN eop[q] : eop'[q][i] = eop[q][j]
         \/ /\ At(q, 1, "seq") /\ ReleaseSeq(q) /\ eop'[q][i].op = "seq"
            /\ eop'[q][i].arg = Arg(q, 1) /\ eop'[q][i].after = running \cap onQueue[q]
         \/ /\ At(q, 1, "fire") /\ q \in Compute /\ eop'[q][i].op = "fire"
            /\ eop'[q][i].arg = Arg(q, 1) /\ eop'[q][i].after = running \cap onQueue[q]
<1>0. Types /\ "seq" \in Ops /\ "fire" \in Ops
  BY DEF SignalsInv, Ops
<1>1. CASE eop' = eop
  BY <1>1
<1>2. ASSUME NEW p \in Queues, EndOfPipe(p) PROVE \E j \in DOMAIN eop[q] : eop'[q][i] = eop[q][j]
  BY <1>0, <1>2, ReportTaken
<1>3. ASSUME NEW p \in Queues, ReleaseSeq(p)
      PROVE  \/ \E j \in DOMAIN eop[q] : eop'[q][i] = eop[q][j]
             \/ /\ At(q, 1, "seq") /\ ReleaseSeq(q) /\ eop'[q][i].op = "seq"
                /\ eop'[q][i].arg = Arg(q, 1) /\ eop'[q][i].after = running \cap onQueue[q]
  <2>1. At(p, 1, "seq") /\ Release(p, "seq", Arg(p, 1))
    BY <1>0, <1>3, AtHead DEF ReleaseSeq, Executed
  <2>2. Arg(p, 1) \in Nat /\ running \cap onQueue[p] \in SUBSET Work
    BY <1>0, <2>1, Facts DEF Types
  <2>3. [op |-> "seq", arg |-> Arg(p, 1), after |-> running \cap onQueue[p]] \in Report
    BY <2>2 DEF Report
  <2>4. /\ \A r \in Queues : r # p => eop'[r] = eop[r]
        /\ \A j \in DOMAIN eop'[p] :
              \/ j \in DOMAIN eop[p] /\ eop'[p][j] = eop[p][j]
              \/ /\ eop'[p][j].op = "seq" /\ eop'[p][j].arg = Arg(p, 1)
                 /\ eop'[p][j].after = running \cap onQueue[p]
    BY <1>0, <2>1, <2>3, ReleaseTyped
  <2> QED BY <1>3, <2>1, <2>4
<1>4. ASSUME NEW p \in Queues, FireEvent(p), p \in Compute
      PROVE  \/ \E j \in DOMAIN eop[q] : eop'[q][i] = eop[q][j]
             \/ /\ At(q, 1, "fire") /\ q \in Compute /\ eop'[q][i].op = "fire"
                /\ eop'[q][i].arg = Arg(q, 1) /\ eop'[q][i].after = running \cap onQueue[q]
  <2>1. At(p, 1, "fire") /\ Release(p, "fire", Arg(p, 1))
    BY <1>0, <1>4, AtHead DEF FireEvent, Executed
  <2>2. Arg(p, 1) \in Signals /\ running \cap onQueue[p] \in SUBSET Work
    BY <1>0, <2>1, Facts DEF Types
  <2>3. [op |-> "fire", arg |-> Arg(p, 1), after |-> running \cap onQueue[p]] \in Report
    BY <2>2 DEF Report
  <2>4. /\ \A r \in Queues : r # p => eop'[r] = eop[r]
        /\ \A j \in DOMAIN eop'[p] :
              \/ j \in DOMAIN eop[p] /\ eop'[p][j] = eop[p][j]
              \/ /\ eop'[p][j].op = "fire" /\ eop'[p][j].arg = Arg(p, 1)
                 /\ eop'[p][j].after = running \cap onQueue[p]
    BY <1>0, <2>1, <2>3, ReleaseTyped
  <2> QED BY <1>4, <2>1, <2>4
<1>5. ASSUME NEW p \in Queues, Engine(p) PROVE eop' = eop \/ ReleaseSeq(p) \/ (FireEvent(p) /\ p \in Compute)
  BY <1>5 DEF Engine, ClearSeq, StartWork, FinishCopy, AwaitSeq, DecrementFence, FireEvent,
     AwaitFence, engineVars
<1>6. ASSUME NEW k \in Work, Finish(k) PROVE eop' = eop
  BY <1>6 DEF Finish
<1>7. CASE UNCHANGED engineVars
  BY <1>1, <1>7 DEF engineVars
<1>8. CASE UNCHANGED vars
  BY <1>1, <1>8 DEF vars
<1> QED BY <1>1, <1>2, <1>3, <1>4, <1>5, <1>6, <1>7, <1>8, HostKeeps DEF Next

LEMMA EopSeqSteps ==
  ASSUME NoWrap, SignalsInv, [Next]_vars, NEW q \in Compute
  PROVE  \/ eopSeq'[q] = eopSeq[q] /\ (At(q, 1, "zero") => ~Taken(q))
         \/ eopSeq'[q] = 0 /\ At(q, 1, "zero") /\ Taken(q)
         \/ /\ 1 \in DOMAIN eop[q] /\ eop[q][1].op = "seq" /\ eopSeq'[q] = eop[q][1].arg
            /\ eop[q][1].after \cap running = {} /\ EndOfPipe(q)
<1>0. Types /\ eopSeq \in [Compute -> Nat] /\ q \in Queues /\ "zero" \in Ops /\ Types'
  BY NextTypes DEF SignalsInv, Types, Ops, Queues
<1>1. ASSUME NEW p \in Queues, ClearSeq(p), p = q
      PROVE  eopSeq'[q] = 0 /\ At(q, 1, "zero") /\ Taken(q)
  BY <1>0, <1>1, AtHead DEF ClearSeq, Executed, Taken
<1>2. ASSUME NEW p \in Queues, ClearSeq(p), p # q
      PROVE  eopSeq'[q] = eopSeq[q]
  BY <1>0, <1>2 DEF ClearSeq
<1>3. ASSUME NEW p \in Queues, EndOfPipe(p)
      PROVE  \/ eopSeq'[q] = eopSeq[q]
             \/ /\ 1 \in DOMAIN eop[q] /\ eop[q][1].op = "seq" /\ eopSeq'[q] = eop[q][1].arg
                /\ eop[q][1].after \cap running = {} /\ EndOfPipe(q)
  <2>1. 1 \in DOMAIN eop[p] /\ Head(eop[p]) = eop[p][1]
    BY <1>0, <1>3, ReportTaken
  <2>2. CASE eop[p][1].op = "seq" /\ eopSeq' = [eopSeq EXCEPT ![p] = eop[p][1].arg]
    <3>1. CASE p = q
      BY <1>0, <1>3, <2>1, <2>2, <3>1 DEF EndOfPipe
    <3>2. CASE p # q
      BY <1>0, <2>2, <3>2
    <3> QED BY <3>1, <3>2
  <2>3. CASE eopSeq' = eopSeq
    BY <2>3
  <2> QED BY <1>3, <2>1, <2>2, <2>3 DEF EndOfPipe
<1>4. ASSUME NEW p \in Queues, Engine(p) PROVE eopSeq' = eopSeq \/ ClearSeq(p)
  BY <1>4 DEF Engine, StartWork, FinishCopy, ReleaseSeq, AwaitSeq, DecrementFence, FireEvent,
     AwaitFence, engineVars
<1>5. ASSUME NEW k \in Work, Finish(k) PROVE eopSeq' = eopSeq
  BY <1>5 DEF Finish
<1>8. ASSUME At(q, 1, "zero"), Taken(q) PROVE eopSeq'[q] = 0
  BY <1>0, <1>1, <1>8, TakenOf
<1>9. \/ eopSeq'[q] = eopSeq[q]
      \/ \E p \in Queues : ClearSeq(p) /\ p = q
      \/ /\ 1 \in DOMAIN eop[q] /\ eop[q][1].op = "seq" /\ eopSeq'[q] = eop[q][1].arg
         /\ eop[q][1].after \cap running = {} /\ EndOfPipe(q)
  <2>1. CASE eopSeq' = eopSeq
    BY <2>1
  <2>2. CASE UNCHANGED engineVars
    BY <2>1, <2>2 DEF engineVars
  <2>3. CASE UNCHANGED vars
    BY <2>1, <2>3 DEF vars
  <2> QED BY <1>2, <1>3, <1>4, <1>5, <2>1, <2>2, <2>3, HostKeeps DEF Next
<1> QED BY <1>1, <1>8, <1>9

LEMMA FiredSteps ==
  ASSUME NoWrap, SignalsInv, [Next]_vars, NEW s \in fired'
  PROVE  \/ s \in fired
         \/ \E q \in Queues : At(q, 1, "fire") /\ s = Arg(q, 1)
         \/ \E q \in Queues : 1 \in DOMAIN eop[q] /\ eop[q][1].op = "fire" /\ s = eop[q][1].arg
<1>0. Types /\ "fire" \in Ops
  BY DEF SignalsInv, Ops
<1>1. ASSUME NEW q \in Queues, FireEvent(q)
      PROVE  s \in fired \/ (At(q, 1, "fire") /\ s = Arg(q, 1))
  <2>1. At(q, 1, "fire") /\ Current(q).arg = Arg(q, 1)
    BY <1>0, <1>1, AtHead DEF FireEvent, Executed
  <2>2. CASE q \in Compute
    BY <1>1, <2>2 DEF FireEvent
  <2>3. CASE q \notin Compute
    BY <1>1, <2>1, <2>3 DEF FireEvent
  <2> QED BY <2>2, <2>3
<1>2. ASSUME NEW q \in Queues, EndOfPipe(q)
      PROVE  \/ s \in fired
             \/ 1 \in DOMAIN eop[q] /\ eop[q][1].op = "fire" /\ s = eop[q][1].arg
  <2>1. 1 \in DOMAIN eop[q] /\ Head(eop[q]) = eop[q][1]
    BY <1>0, <1>2, ReportTaken
  <2> QED BY <1>2, <2>1 DEF EndOfPipe
<1>3. ASSUME NEW q \in Queues, Engine(q) PROVE fired' = fired \/ FireEvent(q)
  BY <1>3 DEF Engine, ClearSeq, StartWork, FinishCopy, ReleaseSeq, AwaitSeq, DecrementFence,
     AwaitFence, engineVars
<1>4. ASSUME NEW k \in Work, Finish(k) PROVE fired' = fired
  BY <1>4 DEF Finish
<1>5. CASE UNCHANGED engineVars
  BY <1>5 DEF engineVars
<1>6. CASE UNCHANGED vars
  BY <1>6 DEF vars
<1> QED BY <1>1, <1>2, <1>3, <1>4, <1>5, <1>6, HostKeeps DEF Next

LEMMA WorkSteps ==
  ASSUME NoWrap, SignalsInv, [Next]_vars, NEW k \in running' \cup finished'
  PROVE  \/ k \in running \cup finished
         \/ \E q \in Queues : At(q, 1, "work") /\ Arg(q, 1) = k
<1>0. Types /\ "work" \in Ops
  BY DEF SignalsInv, Ops
<1>1. ASSUME NEW q \in Queues, StartWork(q)
      PROVE  \/ k \in running \cup finished
             \/ At(q, 1, "work") /\ Arg(q, 1) = k
  BY <1>0, <1>1, AtHead DEF StartWork
<1>2. ASSUME NEW j \in Work, Finish(j) PROVE k \in running \cup finished
  BY <1>2 DEF Finish
<1>3. ASSUME NEW q \in Queues, Engine(q)
      PROVE  (running' = running /\ finished' = finished) \/ StartWork(q)
  BY <1>3 DEF Engine, ClearSeq, FinishCopy, ReleaseSeq, AwaitSeq, DecrementFence, FireEvent,
     AwaitFence, engineVars
<1>4. ASSUME NEW q \in Queues, EndOfPipe(q) PROVE running' = running /\ finished' = finished
  BY <1>4 DEF EndOfPipe
<1>5. CASE UNCHANGED engineVars
  BY <1>5 DEF engineVars
<1>6. CASE UNCHANGED vars
  BY <1>6 DEF vars
<1> QED BY <1>1, <1>2, <1>3, <1>4, <1>5, <1>6, HostKeeps DEF Next

LEMMA FiredLastNext == NoWrap /\ SignalsInv /\ [Next]_vars => FiredLast'
<1> SUFFICES ASSUME NoWrap, SignalsInv, [Next]_vars PROVE FiredLast'
  OBVIOUS
<1>0. FiredLast /\ Types /\ Types' /\ "decrement" \in Ops /\ "fire" \in Ops
  BY NextTypes DEF SignalsInv, Ops
<1>a. \A q \in Queues, i \in Nat : At(q, i, "fire") =>
       /\ Arg(q, i) \in Signals
       /\ \/ fence[Arg(q, i)] = 0
          \/ \E j \in Nat : j < i /\ At(q, j, "decrement") /\ Arg(q, j) = Arg(q, i)
  BY <1>0, Places, Facts DEF FiredLast
<1>1. \A q \in Queues, i \in Nat : At(q, i, "fire")' =>
       \/ fence'[Arg(q, i)'] = 0
       \/ \E j \in Nat : j < i /\ At(q, j, "decrement")' /\ Arg(q, j)' = Arg(q, i)'
  <2> SUFFICES ASSUME NEW q \in Queues, NEW i \in Nat, At(q, i, "fire")'
               PROVE  \/ fence'[Arg(q, i)'] = 0
                      \/ \E j \in Nat : j < i /\ At(q, j, "decrement")' /\ Arg(q, j)' = Arg(q, i)'
    OBVIOUS
  <2>1. ASSUME NEW t \in Threads, SubmitSignal(t)
        PROVE  \/ fence'[Arg(q, i)'] = 0
               \/ \E j \in Nat : j < i /\ At(q, j, "decrement")' /\ Arg(q, j)' = Arg(q, i)'
    <3>1. PICK r \in Queues, s \in Signals, v \in Nat, n \in Nat :
             SignalAppended(r, s, v, n) /\ fence' = fence
      BY <1>0, <2>1, SignalSubmitted
    <3>2. CASE At(q, i, "fire")
      <4>1. Arg(q, i)' = Arg(q, i)
        BY <1>0, <3>1, <3>2 DEF SignalAppended, Stay
      <4> QED BY <1>0, <1>a, <3>1, <3>2, <4>1 DEF SignalAppended, Stay
    <3>3. CASE ~At(q, i, "fire") /\ r \in Compute
      <4>1. q = r /\ i = n + 4
        BY <1>0, <2>1, <3>1, <3>3 DEF SignalAppended
      <4>2. n + 3 \in Nat /\ n + 3 < i
        BY <4>1
      <4> QED BY <3>1, <3>3, <4>1, <4>2 DEF SignalAppended
    <3>4. CASE ~At(q, i, "fire") /\ r \notin Compute
      <4>1. q = r /\ i = n + 2
        BY <1>0, <2>1, <3>1, <3>4 DEF SignalAppended
      <4>2. n + 1 \in Nat /\ n + 1 < i
        BY <4>1
      <4> QED BY <3>1, <3>4, <4>1, <4>2 DEF SignalAppended
    <3> QED BY <3>2, <3>3, <3>4
  <2>2. ASSUME \A t \in Threads : ~SubmitSignal(t)
        PROVE  \/ fence'[Arg(q, i)'] = 0
               \/ \E j \in Nat : j < i /\ At(q, j, "decrement")' /\ Arg(q, j)' = Arg(q, i)'
    <3>1. PICK d : Moved(d)
      BY <1>0, <2>2, RingMoves
    <3>2. At(q, i + d[q], "fire") /\ Arg(q, i)' = Arg(q, i + d[q]) /\ d[q] \in Nat
      BY <1>0, <3>1 DEF Moved
    <3>3. CASE fence[Arg(q, i + d[q])] = 0
      BY <1>a, <3>2, <3>3, Grows
    <3>4. CASE fence[Arg(q, i + d[q])] # 0
      <4>1. PICK j \in Nat : j < i + d[q] /\ At(q, j, "decrement") /\ Arg(q, j) = Arg(q, i)'
        BY <1>a, <3>2, <3>4
      <4>2. CASE j = 1 /\ d[q] = 1
        <5>1. DecrementFence(q)
          BY <1>0, <3>1, <4>1, <4>2, TakenOf DEF Moved
        <5> QED BY <4>1, <4>2, <5>1, DecrementsOne DEF Decremented
      <4>3. CASE ~(j = 1 /\ d[q] = 1)
        <5>1. /\ j - d[q] \in Nat /\ At(q, j - d[q], "decrement")'
              /\ Arg(q, j - d[q])' = Arg(q, j)
          BY <1>0, <3>1, <4>1, <4>3 DEF Moved
        <5>2. j - d[q] < i
          BY <3>2, <4>1
        <5> QED BY <4>1, <5>1, <5>2
      <4> QED BY <4>2, <4>3
    <3> QED BY <3>3, <3>4
  <2> QED BY <2>1, <2>2
<1>2. ASSUME NEW q \in Queues, At(q, 1, "fire") PROVE fence[Arg(q, 1)] = 0
  <2>1. \A j \in Nat : j < 1 => ~At(q, j, "decrement")
    BY <1>0, Places
  <2> QED BY <1>2, <1>a, <2>1
<1>3. ASSUME NEW q \in Queues, NEW i \in DOMAIN eop'[q], eop'[q][i].op = "fire"
      PROVE  fence'[eop'[q][i].arg] = 0
  <2>1. fence[eop'[q][i].arg] = 0
    BY <1>0, <1>2, <1>3, EopSteps DEF FiredLast
  <2>2. eop'[q][i].arg \in Signals
    <3>1. eop'[q][i] \in Report
      BY <1>0, <1>3 DEF Types
    <3> QED BY <1>3, <3>1 DEF Report
  <2> QED BY <2>1, <2>2, Grows
<1>4. ASSUME NEW s \in fired' PROVE fence'[s] = 0
  <2>1. fence[s] = 0
    BY <1>0, <1>2, <1>4, FiredSteps DEF FiredLast
  <2>2. s \in Signals
    BY <1>0, <1>4 DEF Types
  <2> QED BY <2>1, <2>2, Grows
<1>5. \A q \in Queues : \A i \in DOMAIN ring'[q] : At(q, i, "fire")' =>
       \/ fence'[Arg(q, i)'] = 0
       \/ \E j \in DOMAIN ring'[q] : j < i /\ At(q, j, "decrement")' /\ Arg(q, j)' = Arg(q, i)'
  BY <1>0, <1>1, Places
<1> QED BY <1>3, <1>4, <1>5 DEF FiredLast

(* What becomes of the packet at the head when it is taken.                *)
LEMMA WorkTaken ==
  ASSUME NoWrap, SignalsInv, [Next]_vars, NEW q \in Queues, Taken(q), At(q, 1, "work")
  PROVE  Arg(q, 1) \in finished' \/ (Arg(q, 1) \in running' /\ q \in Compute)
<1>0. Types /\ Types' /\ "work" \in Ops
  BY NextTypes DEF SignalsInv, Ops
<1>1. CASE FinishCopy(q)
  BY <1>0, <1>1, AtHead, Grows DEF FinishCopy, Executed
<1>2. CASE StartWork(q) /\ q \in Compute
  BY <1>0, <1>2, AtHead DEF StartWork
<1> QED BY <1>0, <1>1, <1>2, TakenOf

LEMMA WorkIsSubmitted ==
  ASSUME [Next]_vars, onQueue' # onQueue PROVE \E q \in Queues : SubmitWork(q)
<1>1. ASSUME UNCHANGED hostVars PROVE onQueue' = onQueue
  BY <1>1 DEF hostVars
<1>2. ASSUME NEW q \in Queues, NEW s \in Signals, SubmitWait(q, s) PROVE onQueue' = onQueue
  BY <1>2 DEF SubmitWait
<1>3. ASSUME NEW t \in Threads, NEW q \in Queues, NEW s \in Signals, CallSignal(t, q, s)
      PROVE  onQueue' = onQueue
  BY <1>3 DEF CallSignal
<1>4. ASSUME NEW t \in Threads, SubmitSignal(t) \/ SignalFails(t) PROVE onQueue' = onQueue
  BY <1>4 DEF SubmitSignal, SignalFails
<1>5. CASE UNCHANGED vars
  BY <1>5 DEF vars
<1> QED BY <1>1, <1>2, <1>3, <1>4, <1>5, EnginesKeep DEF Next

LEMMA WorkSubmitted ==
  ASSUME NoWrap, SignalsInv, [Next]_vars, NEW q \in Queues, SubmitWork(q)
  PROVE  /\ onQueue' = [onQueue EXCEPT ![q] = @ \cup {works + 1}] /\ works' = works + 1
         /\ works + 1 \in Work
         /\ waited'[works + 1] = {s \in Signals : \E i \in Nat : At(q, i, "wait") /\ Arg(q, i) = s}
         /\ \E i \in Nat : At(q, i, "work")' /\ Arg(q, i)' = works + 1
         /\ running' = running /\ finished' = finished /\ fence' = fence
<1>0. Types /\ Types' /\ waited \in [Work -> SUBSET Signals]
  BY NextTypes DEF Types
<1>1. PICK k \in Work, n \in Nat :
        k = works + 1 /\ n = Len(ring[q]) /\ WorkAppended(q, k, n)
  BY <1>0, WorkAt
<1>2. n + 1 \in Nat
  OBVIOUS
<1>3. At(q, n + 1, "work")' /\ Arg(q, n + 1)' = k
  BY <1>1, <1>2 DEF WorkAppended
<1> DEFINE w == {s \in Signals : \E i \in DOMAIN ring[q] : ring[q][i] = Packet("wait", s)}
<1>4. waited' = [waited EXCEPT ![k] = w]
  BY <1>1 DEF SubmitWork
<1>5. w = {s \in Signals : \E i \in Nat : At(q, i, "wait") /\ Arg(q, i) = s}
  <2>1. ASSUME NEW s \in Signals, NEW i \in DOMAIN ring[q], ring[q][i] = Packet("wait", s)
        PROVE  i \in Nat /\ At(q, i, "wait") /\ Arg(q, i) = s
    <3>1. ring[q][i].op = "wait" /\ ring[q][i].arg = s
      BY <2>1 DEF Packet
    <3> QED BY <1>0, <3>1, Places DEF At, Arg
  <2>2. ASSUME NEW s \in Signals, NEW i \in Nat, At(q, i, "wait"), Arg(q, i) = s
        PROVE  i \in DOMAIN ring[q] /\ ring[q][i] = Packet("wait", s)
    <3>1. i \in DOMAIN ring[q] /\ ring[q][i].op = "wait" /\ ring[q][i].arg = s
      BY <2>2 DEF At, Arg
    <3>2. ring[q][i] \in AnyPacket
      BY <1>0, <3>1 DEF Types
    <3> QED BY <3>1, <3>2 DEF AnyPacket, Packet
  <2> QED BY <2>1, <2>2
<1> HIDE DEF w
<1>6. waited'[works + 1] = w
  BY <1>0, <1>1, <1>4
<1>7. running' = running /\ finished' = finished /\ fence' = fence
  BY DEF SubmitWork, engineVars
<1>8. onQueue' = [onQueue EXCEPT ![q] = @ \cup {works + 1}] /\ works' = works + 1
  BY DEF SubmitWork
<1>9. \E i \in Nat : At(q, i, "work")' /\ Arg(q, i)' = works + 1
  BY <1>1, <1>2, <1>3
<1>10. works + 1 \in Work
  BY <1>1
<1> QED BY <1>5, <1>6, <1>7, <1>8, <1>9, <1>10

LEMMA WorkKnownNext == NoWrap /\ SignalsInv /\ [Next]_vars => WorkKnown'
<1> SUFFICES ASSUME NoWrap, SignalsInv, [Next]_vars PROVE WorkKnown'
  OBVIOUS
<1>0. WorkKnown /\ Types /\ Types' /\ "work" \in Ops /\ works \in Nat /\ works' \in Nat
      /\ onQueue \in [Queues -> SUBSET Work]
  BY NextTypes, Facts DEF SignalsInv, Ops, Types
<1>a. \A q \in Queues : \A k \in onQueue[q] :
        /\ k <= works /\ k \in Nat
        /\ \/ k \in finished \/ (k \in running /\ q \in Compute)
           \/ \E i \in Nat : At(q, i, "work") /\ Arg(q, i) = k
  BY <1>0, Places, Facts DEF WorkKnown
<1>b. \A q \in Queues, i \in Nat : At(q, i, "work") => Arg(q, i) \in onQueue[q]
  BY <1>0, Places DEF WorkKnown
<1>1. ASSUME NEW q \in Queues, NEW k \in onQueue[q]
      PROVE  /\ k <= works'
             /\ \/ k \in finished' \/ (k \in running' /\ q \in Compute)
                \/ \E i \in Nat : At(q, i, "work")' /\ Arg(q, i)' = k
  <2>1. k <= works'
    BY <1>0, <1>a, <1>1, Grows
  <2>2. CASE k \in finished \/ (k \in running /\ q \in Compute)
    BY <2>1, <2>2, Grows
  <2>3. ASSUME NEW i \in Nat, At(q, i, "work"), Arg(q, i) = k
        PROVE  \/ k \in finished' \/ (k \in running' /\ q \in Compute)
               \/ \E j \in Nat : At(q, j, "work")' /\ Arg(q, j)' = k
    <3>1. ASSUME NEW t \in Threads, SubmitSignal(t)
          PROVE  At(q, i, "work")' /\ Arg(q, i)' = k
      BY <1>0, <2>3, <3>1, SignalSubmitted DEF SignalAppended, Stay
    <3>2. ASSUME \A t \in Threads : ~SubmitSignal(t)
          PROVE  \/ k \in finished' \/ (k \in running' /\ q \in Compute)
                 \/ \E j \in Nat : At(q, j, "work")' /\ Arg(q, j)' = k
      <4>1. PICK d : Moved(d)
        BY <1>0, <3>2, RingMoves
      <4>2. CASE i = 1 /\ d[q] = 1
        BY <2>3, <4>1, <4>2, WorkTaken DEF Moved
      <4>3. CASE ~(i = 1 /\ d[q] = 1)
        BY <1>0, <2>3, <4>1, <4>3 DEF Moved
      <4> QED BY <4>2, <4>3
    <3> QED BY <2>3, <3>1, <3>2
  <2> QED BY <1>a, <1>1, <2>1, <2>2, <2>3
<1>2. ASSUME NEW q \in Queues, NEW k \in onQueue'[q]
      PROVE  /\ k <= works'
             /\ \/ k \in finished' \/ (k \in running' /\ q \in Compute)
                \/ \E i \in Nat : At(q, i, "work")' /\ Arg(q, i)' = k
  <2>1. CASE k \in onQueue[q]
    BY <1>1, <2>1
  <2>2. CASE k \notin onQueue[q]
    <3>1. SubmitWork(q) /\ k = works + 1
      <4>1. PICK r \in Queues : SubmitWork(r)
        BY <1>2, <2>2, WorkIsSubmitted
      <4>2. onQueue' = [onQueue EXCEPT ![r] = @ \cup {works + 1}]
        BY <4>1, WorkSubmitted
      <4> QED BY <1>0, <1>2, <2>2, <4>1, <4>2
    <3> QED BY <1>0, <3>1, WorkSubmitted
  <2> QED BY <2>1, <2>2
<1>3. ASSUME NEW q \in Queues, NEW i \in Nat, At(q, i, "work")'
      PROVE  Arg(q, i)' \in onQueue'[q]
  <2>1. ASSUME NEW t \in Threads, SubmitSignal(t)
        PROVE  Arg(q, i)' \in onQueue'[q]
    <3>1. PICK r \in Queues, s \in Signals, v \in Nat, n \in Nat :
             SignalAppended(r, s, v, n) /\ onQueue' = onQueue
      BY <1>0, <2>1, SignalSubmitted
    <3>2. At(q, i, "work") /\ Arg(q, i)' = Arg(q, i)
      BY <1>0, <1>3, <3>1 DEF SignalAppended
    <3> QED BY <1>b, <3>1, <3>2
  <2>2. ASSUME \A t \in Threads : ~SubmitSignal(t)
        PROVE  Arg(q, i)' \in onQueue'[q]
    <3>1. PICK d : Moved(d)
      BY <1>0, <2>2, RingMoves
    <3>2. CASE At(q, i + d[q], "work") /\ Arg(q, i)' = Arg(q, i + d[q])
      <4>1. i + d[q] \in Nat
        BY <3>1 DEF Moved
      <4> QED BY <1>b, <3>2, <4>1, Grows
    <3>3. CASE SubmitWork(q) /\ Arg(q, i)' = works + 1
      BY <1>0, <3>3, WorkSubmitted
    <3> QED BY <1>3, <3>1, <3>2, <3>3 DEF Moved
  <2> QED BY <2>1, <2>2
<1>4. ASSUME NEW k \in running' \cup finished' PROVE k <= works'
  <2>1. k <= works
    <3>1. CASE k \in running \cup finished
      BY <1>0, <3>1 DEF WorkKnown
    <3>2. ASSUME NEW q \in Queues, At(q, 1, "work"), Arg(q, 1) = k PROVE k <= works
      BY <1>a, <1>b, <3>2
    <3> QED BY <1>4, <3>1, <3>2, WorkSteps
  <2>2. k \in Nat
    BY <1>0, <1>4, Facts DEF Types
  <2> QED BY <1>0, <2>1, <2>2, Grows
<1>5. /\ \A q \in Queues : \A k \in onQueue'[q] :
           \/ k \in finished' \/ (k \in running' /\ q \in Compute)
           \/ \E i \in DOMAIN ring'[q] : At(q, i, "work")' /\ Arg(q, i)' = k
      /\ \A q \in Queues : \A i \in DOMAIN ring'[q] :
           At(q, i, "work")' => Arg(q, i)' \in onQueue'[q]
  BY <1>0, <1>2, <1>3, Places
<1> QED BY <1>2, <1>4, <1>5 DEF WorkKnown

LEMMA WaitsFirstNext == NoWrap /\ SignalsInv /\ [Next]_vars => WaitsFirst'
<1> SUFFICES ASSUME NoWrap, SignalsInv, [Next]_vars PROVE WaitsFirst'
  OBVIOUS
<1>0. WaitsFirst /\ WorkKnown /\ Types /\ Types' /\ "work" \in Ops /\ "wait" \in Ops
      /\ works \in Nat
  BY NextTypes, Facts DEF SignalsInv, Ops, Types
<1>a. \A q \in Queues, i \in Nat : At(q, i, "work") =>
        /\ Arg(q, i) \in Work /\ Arg(q, i) <= works /\ waited[Arg(q, i)] \subseteq Signals
        /\ \A s \in waited[Arg(q, i)] :
             \/ fence[s] = 0
             \/ \E j \in Nat : j < i /\ At(q, j, "wait") /\ Arg(q, j) = s
  <2> SUFFICES ASSUME NEW q \in Queues, NEW i \in Nat, At(q, i, "work")
               PROVE  /\ Arg(q, i) \in Work /\ Arg(q, i) <= works
                      /\ waited[Arg(q, i)] \subseteq Signals
                      /\ \A s \in waited[Arg(q, i)] :
                           \/ fence[s] = 0
                           \/ \E j \in Nat : j < i /\ At(q, j, "wait") /\ Arg(q, j) = s
    OBVIOUS
  <2>1. Arg(q, i) \in Work /\ i \in DOMAIN ring[q]
    BY <1>0, Facts, Places
  <2>2. Arg(q, i) <= works
    BY <1>0, <2>1 DEF WorkKnown
  <2>3. waited[Arg(q, i)] \subseteq Signals
    BY <1>0, <2>1 DEF Types
  <2>4. \A s \in waited[Arg(q, i)] :
           \/ fence[s] = 0
           \/ \E j \in Nat : j < i /\ At(q, j, "wait") /\ Arg(q, j) = s
    BY <1>0, <2>1, Places DEF WaitsFirst
  <2> QED BY <2>1, <2>2, <2>3, <2>4
<1>1. ASSUME NEW q \in Queues, NEW i \in Nat, At(q, i, "work"), NEW s \in waited[Arg(q, i)],
             NEW d, Moved(d), NEW m \in Nat, i = m + d[q]
      PROVE  \/ fence'[s] = 0
             \/ \E j \in Nat : j < m /\ At(q, j, "wait")' /\ Arg(q, j)' = s
  <2>1. CASE fence[s] = 0
    BY <1>a, <1>1, <2>1, Grows
  <2>2. ASSUME NEW j \in Nat, j < i, At(q, j, "wait"), Arg(q, j) = s
        PROVE  \/ fence'[s] = 0
               \/ \E k \in Nat : k < m /\ At(q, k, "wait")' /\ Arg(q, k)' = s
    <3>1. CASE j = 1 /\ d[q] = 1
      <4>1. AwaitFence(q)
        BY <1>0, <1>1, <2>2, <3>1, TakenOf DEF Moved
      <4>2. fence[s] = 0
        BY <1>0, <2>2, <3>1, <4>1, AtHead DEF AwaitFence, Executed, FencePasses
      <4> QED BY <1>a, <1>1, <4>2, Grows
    <3>2. CASE ~(j = 1 /\ d[q] = 1)
      <4>1. j - d[q] \in Nat /\ At(q, j - d[q], "wait")' /\ Arg(q, j - d[q])' = Arg(q, j)
        BY <1>0, <1>1, <2>2, <3>2 DEF Moved
      <4>2. d[q] \in Nat
        BY <1>1 DEF Moved
      <4>3. j - d[q] < m
        BY <1>1, <2>2, <4>2
      <4> QED BY <2>2, <4>1, <4>3
    <3> QED BY <3>1, <3>2
  <2> QED BY <1>a, <1>1, <2>1, <2>2
<1>2. ASSUME NEW q \in Queues, NEW i \in Nat, At(q, i, "work")', NEW s \in waited'[Arg(q, i)']
      PROVE  \/ fence'[s] = 0
             \/ \E j \in Nat : j < i /\ At(q, j, "wait")' /\ Arg(q, j)' = s
  <2>1. ASSUME NEW t \in Threads, SubmitSignal(t)
        PROVE  \/ fence'[s] = 0
               \/ \E j \in Nat : j < i /\ At(q, j, "wait")' /\ Arg(q, j)' = s
    <3>1. PICK r \in Queues, v \in Nat, n \in Nat, x \in Signals :
             SignalAppended(r, x, v, n) /\ waited' = waited /\ fence' = fence
      BY <1>0, <2>1, SignalSubmitted
    <3>2. At(q, i, "work") /\ Arg(q, i)' = Arg(q, i)
      BY <1>0, <1>2, <3>1 DEF SignalAppended
    <3>3. \/ fence[s] = 0
          \/ \E j \in Nat : j < i /\ At(q, j, "wait") /\ Arg(q, j) = s
      BY <1>a, <1>2, <3>1, <3>2
    <3> QED BY <1>0, <3>1, <3>3 DEF SignalAppended, Stay
  <2>2. ASSUME \A t \in Threads : ~SubmitSignal(t)
        PROVE  \/ fence'[s] = 0
               \/ \E j \in Nat : j < i /\ At(q, j, "wait")' /\ Arg(q, j)' = s
    <3>1. PICK d : Moved(d)
      BY <1>0, <2>2, RingMoves
    <3>2. CASE At(q, i + d[q], "work") /\ Arg(q, i)' = Arg(q, i + d[q])
      <4>1. i + d[q] \in Nat
        BY <3>1 DEF Moved
      <4>2. waited'[Arg(q, i)'] = waited[Arg(q, i + d[q])]
        BY <1>a, <3>2, <4>1, Grows
      <4> QED BY <1>1, <1>2, <3>1, <3>2, <4>1, <4>2
    <3>3. CASE /\ SubmitWork(q) /\ Arg(q, i)' = works + 1
               /\ \A j \in DOMAIN ring[q] : j < i /\ j - d[q] = j
      <4>1. PICK j \in Nat : At(q, j, "wait") /\ Arg(q, j) = s
        BY <1>2, <3>3, WorkSubmitted
      <4>2. j < i /\ j - d[q] = j /\ j >= 1 /\ d[q] # 1
        BY <1>0, <3>1, <3>3, <4>1, Places DEF Moved
      <4>3. At(q, j, "wait")' /\ Arg(q, j)' = Arg(q, j)
        BY <1>0, <3>1, <4>1, <4>2 DEF Moved
      <4> QED BY <4>1, <4>2, <4>3
    <3> QED BY <1>2, <3>1, <3>2, <3>3 DEF Moved
  <2> QED BY <2>1, <2>2
<1>3. ASSUME NEW k \in running' \cup finished', NEW s \in waited'[k] PROVE fence'[s] = 0
  <2>1. ASSUME NEW q \in Queues, At(q, 1, "work"), Arg(q, 1) = k PROVE fence'[s] = 0
    <3>1. s \in waited[k] /\ s \in Signals
      BY <1>a, <1>3, <2>1, Grows
    <3>2. \A j \in Nat : j < 1 => ~At(q, j, "wait")
      BY <1>0, Places
    <3>3. fence[s] = 0
      BY <1>a, <2>1, <3>1, <3>2
    <3> QED BY <3>1, <3>3, Grows
  <2>2. CASE k \in running \cup finished
    <3>1. k \in Work /\ k <= works
      BY <1>0, <2>2 DEF WorkKnown, Types
    <3>2. s \in waited[k] /\ waited[k] \subseteq Signals
      BY <1>0, <1>3, <3>1, Grows DEF Types
    <3>3. fence[s] = 0
      BY <1>0, <2>2, <3>2 DEF WaitsFirst
    <3> QED BY <3>2, <3>3, Grows
  <2> QED BY <1>3, <2>1, <2>2, WorkSteps
<1>4. \A q \in Queues : \A i \in DOMAIN ring'[q] : At(q, i, "work")' =>
       \A s \in waited'[Arg(q, i)'] :
         \/ fence'[s] = 0
         \/ \E j \in DOMAIN ring'[q] : j < i /\ At(q, j, "wait")' /\ Arg(q, j)' = s
  BY <1>0, <1>2, Places
<1> QED BY <1>3, <1>4 DEF WaitsFirst

LEMMA PairedNext == NoWrap /\ SignalsInv /\ [Next]_vars => Paired'
<1> SUFFICES ASSUME NoWrap, SignalsInv, [Next]_vars PROVE Paired'
  OBVIOUS
<1>0. Paired /\ Numbered /\ InOrder /\ Types /\ Types' /\ DecrementedOnce /\ "zero" \in Ops
      /\ "seq" \in Ops /\ "await" \in Ops /\ "decrement" \in Ops
      /\ nextSeq \in [Compute -> Nat] /\ nextSeq' \in [Compute -> Nat]
  BY NextTypes DEF SignalsInv, Ops, Types
<1>a. \A q \in Queues, i \in Nat :
        /\ At(q, i, "zero") => i = 1
        /\ At(q, i, "seq") \/ At(q, i, "await") =>
             q \in Compute /\ Arg(q, i) <= nextSeq[q] /\ Arg(q, i) \in Nat
        /\ At(q, i, "await") => At(q, i + 1, "decrement")
        /\ At(q, i, "decrement") /\ q \in Compute =>
             \/ At(q, i - 1, "await")
             \/ i = 1 /\ covers[Arg(q, i)] \subseteq finished
  BY <1>0, Places, Facts DEF Paired
<1>b. \A q \in Queues, i \in Nat : At(q, i, "decrement") => Arg(q, i) \in accepted
  BY <1>0, Places DEF DecrementedOnce
<1>1. ASSUME NEW t \in Threads, SubmitSignal(t), NEW q \in Queues, NEW i \in Nat
      PROVE  /\ At(q, i, "zero")' => i = 1
             /\ At(q, i, "seq")' \/ At(q, i, "await")' =>
                  q \in Compute /\ Arg(q, i)' <= nextSeq'[q]
             /\ At(q, i, "await")' => At(q, i + 1, "decrement")'
             /\ At(q, i, "decrement")' /\ q \in Compute =>
                  \/ At(q, i - 1, "await")'
                  \/ i = 1 /\ covers'[Arg(q, i)'] \subseteq finished'
  <2>1. PICK r \in Queues, s \in Signals, v \in Nat, n \in Nat :
           /\ SignalAppended(r, s, v, n) /\ nextSeq' = nextSeq /\ finished' = finished
           /\ r = call[t].queue /\ v = call[t].seq /\ call[t] # NoCall
    BY <1>0, <1>1, SignalSubmitted
  <2>2. r \in Compute => v <= nextSeq[r]
    BY <1>0, <2>1 DEF Numbered, Calls
  <2>3. \A j \in Nat : j + 1 \in Nat /\ (j + 1) - 1 = j
    OBVIOUS
  <2>4. At(q, i, "zero")' => i = 1
    BY <1>0, <1>a, <2>1 DEF SignalAppended
  <2>5. At(q, i, "seq")' \/ At(q, i, "await")' => q \in Compute /\ Arg(q, i)' <= nextSeq'[q]
    <3>1. CASE r \in Compute
      BY <1>0, <1>a, <2>1, <2>2, <3>1 DEF SignalAppended
    <3>2. CASE r \notin Compute
      BY <1>0, <1>a, <2>1, <3>2 DEF SignalAppended
    <3> QED BY <3>1, <3>2
  <2>6. At(q, i, "await")' => At(q, i + 1, "decrement")'
    <3>1. CASE At(q, i, "await")
      BY <1>0, <1>a, <2>1, <2>3, <3>1 DEF SignalAppended, Stay
    <3>2. CASE At(q, i, "await")' /\ ~At(q, i, "await")
      <4>1. q = r /\ r \in Compute /\ i = n + 2
        BY <1>0, <2>1, <3>2 DEF SignalAppended
      <4>2. i + 1 = n + 3 /\ i + 1 \in Nat
        BY <4>1
      <4> QED BY <2>1, <4>1, <4>2 DEF SignalAppended
    <3> QED BY <3>1, <3>2
  <2>7. At(q, i, "decrement")' /\ q \in Compute =>
                  \/ At(q, i - 1, "await")'
                  \/ i = 1 /\ covers'[Arg(q, i)'] \subseteq finished'
    <3>1. CASE At(q, i, "decrement") /\ At(q, i - 1, "await")
      <4>1. i - 1 \in Nat
        BY <1>0, <3>1, Places
      <4> QED BY <1>0, <2>1, <3>1, <4>1 DEF SignalAppended, Stay
    <3>2. CASE At(q, i, "decrement") /\ i = 1 /\ covers[Arg(q, i)] \subseteq finished
      <4>1. Arg(q, i)' = Arg(q, i)
        BY <1>0, <2>1, <3>2 DEF SignalAppended, Stay
      <4> QED BY <1>b, <2>1, <3>2, <4>1, Grows
    <3>3. CASE At(q, i, "decrement")' /\ ~At(q, i, "decrement") /\ q \in Compute
      <4>1. q = r /\ r \in Compute /\ i = n + 3
        BY <1>0, <2>1, <3>3 DEF SignalAppended
      <4>2. i - 1 = n + 2 /\ i - 1 \in Nat
        BY <4>1
      <4> QED BY <2>1, <4>1, <4>2 DEF SignalAppended
    <3> QED BY <1>a, <3>1, <3>2, <3>3
  <2> QED BY <2>4, <2>5, <2>6, <2>7
<1>2. ASSUME \A t \in Threads : ~SubmitSignal(t), NEW q \in Queues, NEW i \in Nat
      PROVE  /\ At(q, i, "zero")' => i = 1
             /\ At(q, i, "seq")' \/ At(q, i, "await")' =>
                  q \in Compute /\ Arg(q, i)' <= nextSeq'[q]
             /\ At(q, i, "await")' => At(q, i + 1, "decrement")'
             /\ At(q, i, "decrement")' /\ q \in Compute =>
                  \/ At(q, i - 1, "await")'
                  \/ i = 1 /\ covers'[Arg(q, i)'] \subseteq finished'
  <2>1. PICK d : Moved(d)
    BY <1>0, <1>2, RingMoves
  <2>2. d[q] = 0 \/ d[q] = 1
    BY <2>1 DEF Moved
  <2>3. i + d[q] \in Nat
    BY <2>2
  <2>4. At(q, i, "zero")' => i = 1
    <3> SUFFICES ASSUME At(q, i, "zero")' PROVE i = 1
      OBVIOUS
    <3>1. At(q, i + d[q], "zero") /\ i >= 1
      BY <1>0, <2>1, Places DEF Moved
    <3>2. i + d[q] = 1
      BY <1>a, <2>3, <3>1
    <3> QED BY <2>2, <3>1, <3>2
  <2>5. At(q, i, "seq")' \/ At(q, i, "await")' => q \in Compute /\ Arg(q, i)' <= nextSeq'[q]
    <3> SUFFICES ASSUME At(q, i, "seq")' \/ At(q, i, "await")'
                 PROVE  q \in Compute /\ Arg(q, i)' <= nextSeq'[q]
      OBVIOUS
    <3>1. /\ At(q, i + d[q], "seq") \/ At(q, i + d[q], "await")
          /\ Arg(q, i)' = Arg(q, i + d[q])
      BY <1>0, <2>1 DEF Moved
    <3>2. q \in Compute /\ Arg(q, i)' <= nextSeq[q] /\ Arg(q, i)' \in Nat
      BY <1>a, <2>3, <3>1
    <3>3. nextSeq[q] <= nextSeq'[q] /\ nextSeq[q] \in Nat /\ nextSeq'[q] \in Nat
      BY <1>0, <3>2, Grows
    <3> QED BY <3>2, <3>3
  <2>6. At(q, i, "await")' => At(q, i + 1, "decrement")'
    <3> SUFFICES ASSUME At(q, i, "await")' PROVE At(q, i + 1, "decrement")'
      OBVIOUS
    <3>1. At(q, i + d[q], "await") /\ i >= 1
      BY <1>0, <2>1, Places DEF Moved
    <3>2. PICK m \in Nat : m = (i + d[q]) + 1
      BY <2>3
    <3>3. At(q, m, "decrement")
      BY <1>a, <2>3, <3>1, <3>2
    <3>4. m # 1 /\ m - d[q] = i + 1
      BY <2>2, <3>1, <3>2
    <3>5. At(q, m - d[q], "decrement")'
      BY <1>0, <2>1, <3>3, <3>4 DEF Moved
    <3> QED BY <3>4, <3>5
  <2>7. ASSUME At(q, i, "decrement")', q \in Compute
        PROVE  \/ At(q, i - 1, "await")'
               \/ i = 1 /\ covers'[Arg(q, i)'] \subseteq finished'
    <3>1. At(q, i + d[q], "decrement") /\ Arg(q, i)' = Arg(q, i + d[q]) /\ i >= 1
      BY <1>0, <2>1, <2>7, Places DEF Moved
    <3>2. PICK m \in Nat : m + 1 = i + d[q]
      <4>1. (i + d[q]) - 1 \in Nat /\ ((i + d[q]) - 1) + 1 = i + d[q]
        BY <2>3, <3>1, <2>2
      <4> QED BY <4>1
    <3>3. (i + d[q]) - 1 = m
      BY <2>2, <3>2
    <3>4. CASE At(q, m, "await") /\ ~(m = 1 /\ d[q] = 1)
      <4>1. At(q, m - d[q], "await")'
        BY <1>0, <2>1, <3>4 DEF Moved
      <4>2. m - d[q] = i - 1
        BY <2>2, <3>2
      <4> QED BY <4>1, <4>2
    <3>5. CASE At(q, m, "await") /\ m = 1 /\ d[q] = 1
      <4>1. AwaitSeq(q) /\ i = 1 /\ i + d[q] = 1 + 1
        BY <1>0, <2>1, <3>2, <3>5, TakenOf DEF Moved
      <4>2. Arg(q, 1) <= eopSeq[q] /\ Arg(q, 1) \in Nat /\ 1 \in DOMAIN ring[q]
        BY <1>0, <1>a, <3>5, <4>1, AtHead, Places DEF AwaitSeq, Executed, SeqPasses, Types
      <4>3. ~At(q, 1, "zero")
        BY <1>0, <3>5, Places
      <4>4. covers[Arg(q, 1 + 1)] \subseteq finished
        BY <1>0, <2>7, <3>5, <4>2, <4>3 DEF InOrder, Reached
      <4>5. covers'[Arg(q, i)'] \subseteq finished'
        BY <1>b, <2>3, <3>1, <4>1, <4>4, Grows
      <4> QED BY <4>1, <4>5
    <3>6. CASE i + d[q] = 1 /\ covers[Arg(q, i + d[q])] \subseteq finished
      <4>1. i = 1
        BY <2>2, <3>1, <3>6
      <4>2. covers'[Arg(q, i)'] \subseteq finished'
        BY <1>b, <2>3, <3>1, <3>6, Grows
      <4> QED BY <4>1, <4>2
    <3> QED BY <1>a, <2>3, <2>7, <3>1, <3>3, <3>4, <3>5, <3>6
  <2> QED BY <2>4, <2>5, <2>6, <2>7
<1> QED BY <1>0, <1>1, <1>2, Places DEF Paired

(* Which calls there are after a step.                                     *)
LEMMA CallsNext ==
  ASSUME NoWrap, SignalsInv, [Next]_vars, NEW t \in Threads, call'[t] # NoCall
  PROVE  \/ call[t] # NoCall /\ call'[t] = call[t]
         \/ \E q \in Queues : /\ call'[t].queue = q /\ call'[t].covers = onQueue[q]
                              /\ onQueue'[q] = onQueue[q]
                              /\ q \in Compute => /\ call'[t].seq = nextSeq[q] + 1
                                                  /\ nextSeq'[q] = nextSeq[q] + 1
<1>1. Types
  BY DEF SignalsInv
<1>2. ASSUME NEW u \in Threads, NEW q \in Queues, NEW s \in Signals, CallSignal(u, q, s)
      PROVE  \/ call[t] # NoCall /\ call'[t] = call[t]
             \/ /\ call'[t].queue = q /\ call'[t].covers = onQueue[q]
                /\ onQueue'[q] = onQueue[q]
                /\ q \in Compute => /\ call'[t].seq = nextSeq[q] + 1
                                    /\ nextSeq'[q] = nextSeq[q] + 1
  <2>1. onQueue' = onQueue
    BY <1>2 DEF CallSignal
  <2> QED BY <1>2, <2>1, NewCall
<1>3. ASSUME NEW u \in Threads, SubmitSignal(u) \/ SignalFails(u)
      PROVE  call[t] # NoCall /\ call'[t] = call[t]
  BY <1>1, <1>3, CallEnds
<1> QED BY <1>2, <1>3, CallSteps

LEMMA NotTaken ==
  ASSUME Types, [Next]_vars, NEW q \in Queues, NEW op \in Ops, At(q, 1, op), ~Taken(q)
  PROVE  At(q, 1, op)' /\ Arg(q, 1)' = Arg(q, 1)
<1>1. ASSUME NEW t \in Threads, SubmitSignal(t)
      PROVE  At(q, 1, op)' /\ Arg(q, 1)' = Arg(q, 1)
  BY <1>1, SignalSubmitted DEF SignalAppended, Stay
<1>2. ASSUME \A t \in Threads : ~SubmitSignal(t)
      PROVE  At(q, 1, op)' /\ Arg(q, 1)' = Arg(q, 1)
  <2>1. PICK d : Moved(d)
    BY <1>2, RingMoves
  <2>2. d[q] = 0
    BY <2>1 DEF Moved
  <2>3. 1 - 0 = 1
    OBVIOUS
  <2> QED BY <2>1, <2>2, <2>3 DEF Moved
<1> QED BY <1>1, <1>2

(* A WAIT_REG_MEM and the ATOMIC_MEM after it.                             *)
LEMMA AwaitMoves ==
  ASSUME NoWrap, SignalsInv, [Next]_vars, \A t \in Threads : ~SubmitSignal(t),
         NEW q \in Queues, NEW i \in Nat, At(q, i, "await")'
  PROVE  \E m \in Nat : /\ At(q, m, "await") /\ Arg(q, i)' = Arg(q, m)
                        /\ At(q, m + 1, "decrement") /\ Arg(q, i + 1)' = Arg(q, m + 1)
<1>0. Types /\ Types' /\ Paired /\ "await" \in Ops /\ "decrement" \in Ops
  BY NextTypes DEF SignalsInv, Ops
<1>1. PICK d : Moved(d)
  BY <1>0, RingMoves
<1>2. d[q] \in Nat
  BY <1>1 DEF Moved
<1>3. PICK m \in Nat : m = i + d[q]
  BY <1>2
<1>4. At(q, m, "await") /\ Arg(q, i)' = Arg(q, m) /\ i >= 1
  BY <1>0, <1>1, <1>3, Places DEF Moved
<1>5. At(q, m + 1, "decrement")
  BY <1>0, <1>4, Places DEF Paired
<1>6. At(q, i + 1, "decrement")' /\ i + 1 \in Nat
  BY <1>0, <1>4, PairedNext, Places DEF Paired
<1>7. (i + 1) + d[q] = m + 1
  BY <1>2, <1>3
<1>8. Arg(q, i + 1)' = Arg(q, m + 1)
  BY <1>0, <1>1, <1>6, <1>7 DEF Moved
<1> QED BY <1>4, <1>5, <1>8

LEMMA AwaitStays ==
  ASSUME NoWrap, SignalsInv, [Next]_vars, NEW t \in Threads, SubmitSignal(t),
         NEW q \in Queues, NEW i \in Nat, At(q, i, "await")
  PROVE  /\ Arg(q, i)' = Arg(q, i) /\ Arg(q, i + 1)' = Arg(q, i + 1)
         /\ covers'[Arg(q, i + 1)'] = covers[Arg(q, i + 1)]
         /\ Arg(q, i) > 0 /\ covers[Arg(q, i + 1)] \subseteq onQueue[q]
<1>0. Types /\ Types' /\ Paired /\ Numbered /\ DecrementedOnce /\ "await" \in Ops
      /\ "decrement" \in Ops
  BY NextTypes DEF SignalsInv, Ops
<1>1. At(q, i + 1, "decrement") /\ i + 1 \in Nat /\ q \in Compute
  BY <1>0, Places DEF Paired
<1>2. Stay
  BY <1>0, SignalSubmitted DEF SignalAppended
<1>3. Arg(q, i + 1) \in accepted
  BY <1>0, <1>1, Places DEF DecrementedOnce
<1>4. Arg(q, i)' = Arg(q, i) /\ Arg(q, i + 1)' = Arg(q, i + 1)
  BY <1>0, <1>1, <1>2 DEF Stay
<1>5. Arg(q, i) > 0 /\ covers[Arg(q, i + 1)] \subseteq onQueue[q]
  BY <1>0, <1>1, Places DEF Numbered
<1> QED BY <1>3, <1>4, <1>5, Grows

LEMMA NumberedNext == NoWrap /\ SignalsInv /\ [Next]_vars => Numbered'
<1> SUFFICES ASSUME NoWrap, SignalsInv, [Next]_vars PROVE Numbered'
  OBVIOUS
<1>0. Numbered /\ Paired /\ Types /\ Types' /\ "zero" \in Ops /\ "await" \in Ops /\ "seq" \in Ops
      /\ nextSeq \in [Compute -> Nat] /\ nextSeq' \in [Compute -> Nat]
      /\ eopSeq \in [Compute -> Nat] /\ SeqMod \in Nat /\ DecrementedOnce
      /\ "decrement" \in Ops /\ Compute \subseteq Queues
  BY NextTypes, Facts DEF SignalsInv, Types, Ops, Queues
<1>1. ASSUME NEW q \in Compute
      PROVE  nextSeq'[q] <= Cardinality(called') /\ nextSeq[q] < SeqMod
  <2>1. /\ nextSeq[q] <= Cardinality(called) /\ nextSeq[q] \in Nat
        /\ Cardinality(called) \in Nat /\ Cardinality(called) < SeqMod
    BY <1>0, Counted DEF Numbered
  <2>2. ASSUME NEW t \in Threads, NEW p \in Queues, NEW s \in Signals, CallSignal(t, p, s)
        PROVE  nextSeq'[q] <= Cardinality(called')
    <3>1. /\ Cardinality(called') = Cardinality(called) + 1
          /\ p # q => nextSeq'[q] = nextSeq[q]
          /\ p = q => nextSeq'[q] = nextSeq[q] + 1
      BY <2>2, NewCall
    <3> QED BY <2>1, <3>1
  <2>3. ASSUME NEW t \in Threads, SubmitSignal(t) \/ SignalFails(t)
        PROVE  nextSeq' = nextSeq /\ called' = called
    BY <2>3 DEF SubmitSignal, SignalFails
  <2> QED BY <1>0, <2>1, <2>2, <2>3, CallSteps
<1>2. ASSUME NEW q \in Compute
      PROVE  /\ eopSeq'[q] < SeqMod
             /\ ~At(q, 1, "zero")' => eopSeq'[q] <= nextSeq'[q]
  <2>1. nextSeq[q] <= nextSeq'[q] /\ nextSeq[q] \in Nat /\ nextSeq'[q] \in Nat
        /\ eopSeq[q] \in Nat
    BY <1>0, Grows
  <2>2. CASE eopSeq'[q] = 0
    BY <1>0, <1>1, <2>1, <2>2
  <2>3. CASE eopSeq'[q] = eopSeq[q] /\ (At(q, 1, "zero") => ~Taken(q))
    <3>1. At(q, 1, "zero") => At(q, 1, "zero")'
      BY <1>0, <2>3, NotTaken
    <3> QED BY <1>0, <2>1, <2>3, <3>1 DEF Numbered
  <2>4. CASE 1 \in DOMAIN eop[q] /\ eop[q][1].op = "seq" /\ eopSeq'[q] = eop[q][1].arg
    <3>1. eopSeq'[q] <= nextSeq[q] /\ eopSeq'[q] \in Nat
      BY <1>0, <2>4 DEF Numbered, Types
    <3> QED BY <1>0, <1>1, <2>1, <3>1
  <2> QED BY <2>2, <2>3, <2>4, EopSeqSteps
<1>3. ASSUME NEW q \in Queues, NEW t \in Threads, Calls(t, q)'
      PROVE  /\ call'[t].covers \subseteq onQueue'[q]
             /\ q \in Compute => call'[t].seq \in 1..nextSeq'[q]
  <2>1. call'[t] # NoCall /\ call'[t].queue = q
    BY <1>3 DEF Calls
  <2>2. CASE call[t] # NoCall /\ call'[t] = call[t]
    <3>1. Calls(t, q)
      BY <2>1, <2>2 DEF Calls
    <3>2. /\ call[t].covers \subseteq onQueue[q]
          /\ q \in Compute => call[t].seq \in 1..nextSeq[q]
      BY <1>0, <3>1 DEF Numbered
    <3>3. q \in Compute => nextSeq[q] <= nextSeq'[q] /\ nextSeq[q] \in Nat /\ nextSeq'[q] \in Nat
      BY <1>0, Grows
    <3>4. onQueue[q] \subseteq onQueue'[q]
      BY Grows
    <3> QED BY <2>2, <3>2, <3>3, <3>4
  <2>3. CASE /\ call'[t].covers = onQueue[q] /\ onQueue'[q] = onQueue[q]
             /\ q \in Compute => /\ call'[t].seq = nextSeq[q] + 1
                                 /\ nextSeq'[q] = nextSeq[q] + 1
    BY <1>0, <2>3
  <2> QED BY <2>1, <2>2, <2>3, CallsNext
<1>4. ASSUME NEW q \in Compute, NEW i \in Nat, At(q, i, "await")'
      PROVE  Arg(q, i)' > 0 /\ covers'[Arg(q, i + 1)'] \subseteq onQueue'[q]
  <2>1. ASSUME NEW t \in Threads, SubmitSignal(t)
        PROVE  Arg(q, i)' > 0 /\ covers'[Arg(q, i + 1)'] \subseteq onQueue'[q]
    <3>1. PICK r \in Queues, s \in Signals, v \in Nat, n \in Nat, d \in SUBSET Work :
             /\ r = call[t].queue /\ v = call[t].seq /\ d = call[t].covers
             /\ call[t] # NoCall /\ SignalAppended(r, s, v, n)
             /\ covers'[s] = d /\ onQueue' = onQueue
      BY <1>0, <2>1, SignalSubmitted
    <3>2. CASE At(q, i, "await")
      BY <1>0, <1>4, <2>1, <3>1, <3>2, AwaitStays
    <3>3. CASE ~At(q, i, "await")
      <4>1. q = r /\ i = n + 2
        BY <1>0, <1>4, <3>1, <3>3 DEF SignalAppended
      <4>2. i + 1 = n + 3 /\ i + 1 \in Nat
        BY <4>1
      <4>3. Arg(q, i)' = v /\ Arg(q, i + 1)' = s
        BY <1>4, <3>1, <4>1, <4>2 DEF SignalAppended
      <4>4. v > 0 /\ d \subseteq onQueue[q]
        BY <1>0, <3>1, <4>1 DEF Numbered, Calls
      <4> QED BY <3>1, <4>3, <4>4
    <3> QED BY <3>2, <3>3
  <2>2. ASSUME \A t \in Threads : ~SubmitSignal(t)
        PROVE  Arg(q, i)' > 0 /\ covers'[Arg(q, i + 1)'] \subseteq onQueue'[q]
    <3>1. PICK m \in Nat : /\ At(q, m, "await") /\ Arg(q, i)' = Arg(q, m)
                           /\ At(q, m + 1, "decrement") /\ Arg(q, i + 1)' = Arg(q, m + 1)
      BY <1>0, <1>4, <2>2, AwaitMoves
    <3>2. Arg(q, m) > 0 /\ covers[Arg(q, m + 1)] \subseteq onQueue[q]
      BY <1>0, <3>1, Places DEF Numbered
    <3>3. Arg(q, m + 1) \in accepted
      BY <1>0, <3>1, Places DEF DecrementedOnce
    <3> QED BY <1>0, <3>1, <3>2, <3>3, Grows
  <2> QED BY <2>1, <2>2
<1>5. ASSUME NEW q \in Queues, NEW i \in DOMAIN eop'[q]
      PROVE  /\ q \in Compute /\ eop'[q][i].after \subseteq running' \cup finished'
             /\ eop'[q][i].op = "seq" => eop'[q][i].arg <= nextSeq'[q]
  <2>1. /\ q \in Compute /\ eop'[q][i].after \subseteq running \cup finished
        /\ eop'[q][i].op = "seq" => eop'[q][i].arg <= nextSeq[q] /\ eop'[q][i].arg \in Nat
    <3>1. ASSUME NEW j \in DOMAIN eop[q], eop'[q][i] = eop[q][j]
          PROVE  /\ q \in Compute /\ eop'[q][i].after \subseteq running \cup finished
                 /\ eop'[q][i].op = "seq" => eop'[q][i].arg <= nextSeq[q] /\ eop'[q][i].arg \in Nat
      <4>1. eop[q][j] \in Report
        BY <1>0 DEF Types
      <4>2. eop[q][j].op = "seq" => eop[q][j].arg \in Nat
        BY <4>1 DEF Report
      <4> QED BY <1>0, <3>1, <4>2 DEF Numbered
    <3>2. ASSUME /\ At(q, 1, "seq") /\ eop'[q][i].op = "seq"
                 /\ eop'[q][i].arg = Arg(q, 1) /\ eop'[q][i].after = running \cap onQueue[q]
          PROVE  /\ q \in Compute /\ eop'[q][i].after \subseteq running \cup finished
                 /\ eop'[q][i].arg <= nextSeq[q] /\ eop'[q][i].arg \in Nat
      <4>1. q \in Compute /\ Arg(q, 1) <= nextSeq[q] /\ Arg(q, 1) \in Nat
        BY <1>0, <3>2, Places, Facts DEF Paired
      <4> QED BY <3>2, <4>1
    <3> QED BY <3>1, <3>2, EopSteps
  <2>2. running \cup finished \subseteq running' \cup finished'
    BY Grows
  <2>3. nextSeq[q] <= nextSeq'[q] /\ nextSeq[q] \in Nat /\ nextSeq'[q] \in Nat
    BY <1>0, <2>1, Grows
  <2> QED BY <2>1, <2>2, <2>3
<1>6. \A q \in Compute : \A i \in DOMAIN ring'[q] : At(q, i, "await")' =>
        Arg(q, i)' > 0 /\ covers'[Arg(q, i + 1)'] \subseteq onQueue'[q]
  BY <1>0, <1>4, Places
<1>7. \A q \in Compute : nextSeq'[q] <= Cardinality(called') /\ eopSeq'[q] < SeqMod
  BY <1>1, <1>2
<1>8. \A q \in Compute : ~At(q, 1, "zero")' => eopSeq'[q] <= nextSeq'[q]
  BY <1>2
<1>9. /\ \A q \in Compute, t \in Threads : Calls(t, q)' => call'[t].seq \in 1..nextSeq'[q]
      /\ \A t \in Threads, q \in Queues : Calls(t, q)' => call'[t].covers \subseteq onQueue'[q]
  BY <1>0, <1>3
<1> QED BY <1>5, <1>6, <1>7, <1>8, <1>9 DEF Numbered

(* Later calls have greater numbers, so that what a number stands for only *)
(* loses calls; and done only grows.                                       *)
LEMMA ReachedStays ==
  ASSUME NoWrap, SignalsInv, [Next]_vars, NEW q \in Compute, NEW v \in Nat, v <= nextSeq[q],
         NEW D, NEW D2, D \subseteq D2, Reached(q, v, D)
  PROVE  Reached(q, v, D2)'
<1>0. Types /\ Types' /\ Paired /\ DecrementedOnce /\ q \in Queues /\ "await" \in Ops
      /\ "decrement" \in Ops /\ nextSeq[q] \in Nat
  BY NextTypes DEF SignalsInv, Types, Ops, Queues
<1>1. ASSUME NEW t \in Threads, Calls(t, q)', call'[t].seq <= v
      PROVE  call'[t].covers \subseteq D2
  <2>1. call'[t] # NoCall /\ call'[t].queue = q
    BY <1>1 DEF Calls
  <2>2. CASE call[t] # NoCall /\ call'[t] = call[t]
    BY <1>1, <2>1, <2>2 DEF Reached, Calls
  <2>3. CASE call'[t].seq = nextSeq[q] + 1
    BY <1>0, <1>1, <2>3
  <2> QED BY <2>1, <2>2, <2>3, CallsNext
<1>2. ASSUME NEW i \in Nat, At(q, i, "await")', Arg(q, i)' <= v
      PROVE  covers'[Arg(q, i + 1)'] \subseteq D2
  <2>1. ASSUME NEW t \in Threads, SubmitSignal(t)
        PROVE  covers'[Arg(q, i + 1)'] \subseteq D2
    <3>1. CASE At(q, i, "await")
      BY <1>0, <1>2, <2>1, <3>1, AwaitStays, Places DEF Reached
    <3>2. CASE ~At(q, i, "await")
      <4>1. PICK r \in Queues, s \in Signals, w \in Nat, n \in Nat, d \in SUBSET Work :
              /\ r = call[t].queue /\ w = call[t].seq /\ d = call[t].covers
              /\ call[t] # NoCall /\ SignalAppended(r, s, w, n) /\ covers'[s] = d
        BY <1>0, <2>1, SignalSubmitted
      <4>2. q = r /\ i = n + 2
        BY <1>0, <1>2, <3>2, <4>1 DEF SignalAppended
      <4>3. i + 1 = n + 3 /\ i + 1 \in Nat
        BY <4>2
      <4>4. Arg(q, i)' = w /\ Arg(q, i + 1)' = s
        BY <4>1, <4>2, <4>3 DEF SignalAppended
      <4>5. d \subseteq D
        BY <1>2, <4>1, <4>2, <4>4 DEF Reached, Calls
      <4> QED BY <4>1, <4>4, <4>5
    <3> QED BY <3>1, <3>2
  <2>2. ASSUME \A t \in Threads : ~SubmitSignal(t)
        PROVE  covers'[Arg(q, i + 1)'] \subseteq D2
    <3>1. PICK m \in Nat : /\ At(q, m, "await") /\ Arg(q, i)' = Arg(q, m)
                           /\ At(q, m + 1, "decrement") /\ Arg(q, i + 1)' = Arg(q, m + 1)
      BY <1>0, <1>2, <2>2, AwaitMoves
    <3>2. Arg(q, m + 1) \in accepted
      BY <1>0, <3>1, Places DEF DecrementedOnce
    <3>3. covers[Arg(q, m + 1)] \subseteq D
      BY <1>0, <1>2, <3>1, Places DEF Reached
    <3> QED BY <3>1, <3>2, <3>3, Grows
  <2> QED BY <2>1, <2>2
<1>3. \A i \in DOMAIN ring'[q] : At(q, i, "await")' /\ Arg(q, i)' <= v =>
        covers'[Arg(q, i + 1)'] \subseteq D2
  BY <1>0, <1>2, Places
<1> QED BY <1>1, <1>3 DEF Reached

(* The work before a packet is there, or started, or finished.             *)
LEMMA WorkBeforeMoves ==
  ASSUME NoWrap, SignalsInv, [Next]_vars, NEW d, Moved(d), NEW q \in Queues,
         NEW i \in Nat, NEW m \in Nat, m = i + d[q], NEW k \in WorkBefore(q, m)
  PROVE  \/ k \in finished' \/ (k \in running' /\ k \in onQueue'[q] /\ q \in Compute)
         \/ k \in WorkBefore(q, i)'
<1>0. Types /\ Types' /\ WorkKnown /\ "work" \in Ops
  BY NextTypes DEF SignalsInv, Ops
<1>1. PICK j \in Nat : j < m /\ At(q, j, "work") /\ Arg(q, j) = k
  BY <1>0, Places DEF WorkBefore
<1>2. k \in onQueue[q] /\ k \in Work
  BY <1>0, <1>1, Places DEF WorkKnown, WorkBefore
<1>3. CASE j = 1 /\ d[q] = 1
  BY <1>1, <1>2, <1>3, WorkTaken, Grows DEF Moved
<1>4. CASE ~(j = 1 /\ d[q] = 1)
  <2>1. j - d[q] \in Nat /\ At(q, j - d[q], "work")' /\ Arg(q, j - d[q])' = Arg(q, j)
    BY <1>0, <1>1, <1>4 DEF Moved
  <2>2. d[q] \in Nat
    BY DEF Moved
  <2>3. j - d[q] < i
    BY <1>1, <2>2
  <2>4. j - d[q] \in DOMAIN ring'[q]
    BY <1>0, <2>1, Places
  <2> QED BY <1>1, <1>2, <2>1, <2>3, <2>4 DEF WorkBefore
<1> QED BY <1>3, <1>4

LEMMA WorkBeforeStays ==
  ASSUME Types, Types', Stay, NEW q \in Queues, NEW i \in Nat
  PROVE  WorkBefore(q, i) \subseteq WorkBefore(q, i)'
<1>1. "work" \in Ops
  BY DEF Ops
<1>2. ASSUME NEW k \in WorkBefore(q, i) PROVE k \in WorkBefore(q, i)'
  <2>1. PICK j \in Nat : j < i /\ At(q, j, "work") /\ Arg(q, j) = k
    BY <1>2, Places DEF WorkBefore
  <2>2. At(q, j, "work")' /\ Arg(q, j)' = k
    BY <1>1, <2>1 DEF Stay
  <2>3. j \in DOMAIN ring'[q] /\ k \in Work
    BY <1>2, <2>2, Places DEF WorkBefore
  <2> QED BY <2>1, <2>2, <2>3 DEF WorkBefore
<1> QED BY <1>2

LEMMA NothingBefore ==
  ASSUME Types, Types', NEW q \in Queues PROVE WorkBefore(q, 1) = {}
<1>1. \A j \in DOMAIN ring[q] : j < 1 => ~At(q, j, "work")
  BY Places
<1> QED BY <1>1 DEF WorkBefore

(* What the calls on a queue cover is in the ring before their packets.    *)
LEMMA CoveredBefore ==
  ASSUME SignalsInv, Types', NEW t \in Threads, SubmitSignal(t),
         NEW q \in Queues, q = call[t].queue, call[t] # NoCall,
         NEW n \in Nat, n = Len(ring[q]), NEW i \in Nat, i = n + 1, Stay
  PROVE  call[t].covers \subseteq
           finished \cup (IF q \in Compute THEN running \cap onQueue[q] ELSE {})
                    \cup WorkBefore(q, i)'
<1>0. Types /\ WorkKnown /\ Numbered /\ "work" \in Ops
  BY DEF SignalsInv, Ops
<1>1. call[t].covers \subseteq onQueue[q] /\ onQueue[q] \subseteq Work
  BY <1>0 DEF Numbered, Calls, Types
<1>2. ASSUME NEW k \in call[t].covers
      PROVE  \/ k \in finished \/ (k \in running /\ k \in onQueue[q] /\ q \in Compute)
             \/ k \in WorkBefore(q, i)'
  <2>1. CASE k \in finished \/ (k \in running /\ q \in Compute)
    BY <1>1, <1>2, <2>1
  <2>2. ASSUME NEW j \in DOMAIN ring[q], At(q, j, "work"), Arg(q, j) = k
        PROVE  k \in WorkBefore(q, i)'
    <3>1. j \in Nat /\ j < i
      BY <1>0, <2>2, Facts, Places
    <3>2. At(q, j, "work")' /\ Arg(q, j)' = k
      BY <1>0, <2>2, <3>1 DEF Stay
    <3>3. j \in DOMAIN ring'[q] /\ k \in Work
      BY <1>0, <1>1, <1>2, <3>2, Places
    <3> QED BY <3>1, <3>2, <3>3 DEF WorkBefore
  <2> QED BY <1>0, <1>1, <1>2, <2>1, <2>2 DEF WorkKnown
<1> QED BY <1>2

LEMMA CallsInOrder ==
  ASSUME NoWrap, SignalsInv, [Next]_vars, NEW q \in Compute, NEW t \in Threads, Calls(t, q)'
  PROVE  Reached(q, call[t].seq, call[t].covers)'
<1>0. InOrder /\ Numbered /\ Numbered' /\ Types /\ Types' /\ q \in Queues
  BY NextTypes, NumberedNext DEF SignalsInv, Queues
<1>1. call'[t] # NoCall /\ call'[t].queue = q
  BY DEF Calls
<1>2. CASE call[t] # NoCall /\ call'[t] = call[t]
  <2>1. Calls(t, q)
    BY <1>1, <1>2 DEF Calls
  <2>2. PICK v \in Nat, D \in SUBSET Work : v = call[t].seq /\ D = call[t].covers
    BY <1>0, <1>2, CallTyped
  <2>3. Reached(q, v, D) /\ v <= nextSeq[q]
    BY <1>0, <2>1, <2>2 DEF InOrder, Numbered
  <2>4. Reached(q, v, D)'
    BY <2>3, ReachedStays
  <2>5. v = call'[t].seq /\ D = call'[t].covers
    BY <1>2, <2>2
  <2> QED BY <2>4, <2>5 DEF Reached
<1>3. ASSUME call'[t].covers = onQueue[q], onQueue'[q] = onQueue[q]
      PROVE  Reached(q, call[t].seq, call[t].covers)'
  <2>1. \A u \in Threads : Calls(u, q)' => call'[u].covers \subseteq onQueue'[q]
    BY <1>0 DEF Numbered
  <2>2. \A i \in DOMAIN ring'[q] : At(q, i, "await")' =>
          covers'[Arg(q, i + 1)'] \subseteq onQueue'[q]
    BY <1>0 DEF Numbered
  <2> QED BY <1>3, <2>1, <2>2 DEF Reached
<1> QED BY <1>1, <1>2, <1>3, CallsNext

LEMMA RingInOrder ==
  ASSUME NoWrap, SignalsInv, [Next]_vars, NEW q \in Compute, NEW i \in Nat, At(q, i, "seq")'
  PROVE  Reached(q, Arg(q, i), finished \cup (running \cap onQueue[q]) \cup WorkBefore(q, i))'
<1>0. /\ InOrder /\ Numbered /\ Paired /\ Types /\ Types' /\ q \in Queues /\ "seq" \in Ops
      /\ onQueue[q] \subseteq Work /\ finished \subseteq Work
  BY NextTypes DEF SignalsInv, Queues, Ops, Types
<1>1. SUFFICES ASSUME NEW v \in Nat, NEW D2, v = Arg(q, i)',
                      D2 = finished' \cup (running' \cap onQueue'[q]) \cup WorkBefore(q, i)'
               PROVE  Reached(q, v, D2)'
  <2>1. Arg(q, i)' \in Nat
    <3>1. i \in DOMAIN ring'[q] /\ ring'[q][i].op = "seq"
      BY DEF At
    <3>2. ring'[q][i] \in AnyPacket
      BY <1>0, <3>1 DEF Types
    <3>3. ring'[q][i].arg \in Nat
      BY <3>1, <3>2 DEF AnyPacket
    <3> QED BY <3>3 DEF Arg
  <2>2. PICK v \in Nat : v = Arg(q, i)'
    BY <2>1
  <2>3. PICK D2 : D2 = finished' \cup (running' \cap onQueue'[q]) \cup WorkBefore(q, i)'
    OBVIOUS
  <2>4. Reached(q, v, D2)'
    BY <1>1, <2>2, <2>3
  <2> QED BY <2>2, <2>3, <2>4 DEF Reached
<1>2. ASSUME NEW m \in Nat, At(q, m, "seq"), Arg(q, m) = v,
             WorkBefore(q, m) \subseteq D2
      PROVE  Reached(q, v, D2)'
  <2>1. PICK D : D = finished \cup (running \cap onQueue[q]) \cup WorkBefore(q, m)
    OBVIOUS
  <2>2. Reached(q, v, D)
    BY <1>0, <1>2, <2>1, Places DEF InOrder
  <2>3. v <= nextSeq[q]
    BY <1>0, <1>2, Places DEF Paired
  <2>4. finished \subseteq finished' /\ running \subseteq running' \cup finished'
        /\ onQueue[q] \subseteq onQueue'[q]
    BY <1>0, Grows
  <2>5. D \subseteq D2
    BY <1>1, <1>2, <2>1, <2>4
  <2> QED BY <2>2, <2>3, <2>5, ReachedStays
<1>3. ASSUME NEW t \in Threads, SubmitSignal(t) PROVE Reached(q, v, D2)'
  <2>1. PICK r \in Queues, s \in Signals, w \in Nat, n \in Nat, d \in SUBSET Work :
          /\ r = call[t].queue /\ w = call[t].seq /\ d = call[t].covers /\ n = Len(ring[r])
          /\ call[t] # NoCall /\ SignalAppended(r, s, w, n)
          /\ UNCHANGED <<finished, running, onQueue>>
    BY <1>0, <1>3, SignalSubmitted
  <2>2. Stay
    BY <2>1 DEF SignalAppended
  <2>3. CASE At(q, i, "seq")
    <3>1. Arg(q, i) = v
      BY <1>0, <1>1, <2>2, <2>3 DEF Stay
    <3>2. WorkBefore(q, i) \subseteq D2
      BY <1>0, <1>1, <2>2, WorkBeforeStays
    <3> QED BY <1>2, <2>3, <3>1, <3>2
  <2>4. CASE ~At(q, i, "seq")
    <3>1. q = r /\ i = n + 1
      BY <1>0, <2>1, <2>4 DEF SignalAppended
    <3>2. w = v
      BY <1>1, <2>1, <3>1 DEF SignalAppended
    <3>3. d \subseteq D2
      BY <1>0, <1>1, <1>3, <2>1, <2>2, <3>1, CoveredBefore
    <3>4. Calls(t, q)
      BY <2>1, <3>1 DEF Calls
    <3>5. Reached(q, w, d) /\ w <= nextSeq[q]
      BY <1>0, <2>1, <3>4 DEF InOrder, Numbered
    <3> QED BY <3>2, <3>3, <3>5, ReachedStays
  <2> QED BY <2>3, <2>4
<1>4. ASSUME \A t \in Threads : ~SubmitSignal(t) PROVE Reached(q, v, D2)'
  <2>1. PICK d : Moved(d)
    BY <1>0, <1>4, RingMoves
  <2>2. d[q] \in Nat
    BY <1>0, <2>1 DEF Moved
  <2>3. PICK m \in Nat : m = i + d[q]
    BY <2>2
  <2>4. At(q, m, "seq") /\ Arg(q, m) = v
    BY <1>0, <1>1, <2>1, <2>3 DEF Moved
  <2>5. WorkBefore(q, m) \subseteq D2
    BY <1>0, <1>1, <2>1, <2>3, WorkBeforeMoves
  <2> QED BY <1>2, <2>4, <2>5
<1> QED BY <1>3, <1>4

LEMMA PipeInOrder ==
  ASSUME NoWrap, SignalsInv, [Next]_vars, NEW q \in Compute, NEW i \in DOMAIN eop'[q],
         eop'[q][i].op = "seq"
  PROVE  Reached(q, eop[q][i].arg, finished \cup eop[q][i].after)'
<1>0. /\ InOrder /\ Numbered /\ Paired /\ Types /\ Types' /\ q \in Queues /\ "seq" \in Ops
  BY NextTypes DEF SignalsInv, Queues, Ops
<1>1. PICK v \in Nat, A \in SUBSET Work : v = eop'[q][i].arg /\ A = eop'[q][i].after
  <2>1. eop'[q][i] \in Report
    BY <1>0 DEF Types
  <2> QED BY <2>1 DEF Report
<1>2. PICK D, D2 : D = finished \cup A /\ D2 = finished' \cup A
  OBVIOUS
<1>3. D \subseteq D2
  BY <1>2, Grows
<1>4. ASSUME NEW j \in DOMAIN eop[q], eop'[q][i] = eop[q][j]
      PROVE  Reached(q, v, D) /\ v <= nextSeq[q]
  BY <1>0, <1>1, <1>2, <1>4 DEF InOrder, Numbered
<1>5. ASSUME At(q, 1, "seq"), eop'[q][i].arg = Arg(q, 1),
             eop'[q][i].after = running \cap onQueue[q]
      PROVE  Reached(q, v, D) /\ v <= nextSeq[q]
  <2>1. D = finished \cup (running \cap onQueue[q]) \cup WorkBefore(q, 1)
    BY <1>0, <1>1, <1>2, <1>5, NothingBefore
  <2> QED BY <1>0, <1>1, <1>5, <2>1, Places DEF InOrder, Paired
<1>6. Reached(q, v, D) /\ v <= nextSeq[q]
  BY <1>0, <1>4, <1>5, EopSteps
<1>7. Reached(q, v, D2)'
  BY <1>3, <1>6, ReachedStays
<1> QED BY <1>1, <1>2, <1>7 DEF Reached

LEMMA SeqInOrder ==
  ASSUME NoWrap, SignalsInv, [Next]_vars, NEW q \in Compute, ~At(q, 1, "zero")'
  PROVE  Reached(q, eopSeq[q], finished)'
<1>0. /\ InOrder /\ Numbered /\ Types /\ Types' /\ q \in Queues /\ "zero" \in Ops
      /\ Numbered' /\ running \cap finished = {}
  BY NextTypes, NumberedNext DEF SignalsInv, Queues, Ops
<1>1. PICK v \in Nat, D2 \in SUBSET Work : v = eopSeq'[q] /\ D2 = finished'
  BY <1>0 DEF Types
<1>2. CASE v = 0
  <2>1. \A t \in Threads : Calls(t, q)' => ~(call'[t].seq <= v)
    <3>1. ASSUME NEW t \in Threads, Calls(t, q)' PROVE ~(call'[t].seq <= v)
      <4>1. call'[t].seq \in 1..nextSeq'[q] /\ nextSeq'[q] \in Nat
        BY <1>0, <3>1 DEF Numbered, Types
      <4> QED BY <1>2, <4>1
    <3> QED BY <3>1
  <2>2. \A i \in DOMAIN ring'[q] : At(q, i, "await")' => ~(Arg(q, i)' <= v)
    <3>1. ASSUME NEW i \in DOMAIN ring'[q], At(q, i, "await")' PROVE ~(Arg(q, i)' <= v)
      <4>1. Arg(q, i)' > 0
        BY <1>0, <3>1 DEF Numbered
      <4>2. ring'[q][i] \in AnyPacket /\ ring'[q][i].op = "await"
        BY <1>0, <3>1 DEF Types, At
      <4>3. Arg(q, i)' \in Nat
        BY <4>2 DEF AnyPacket, Arg
      <4> QED BY <1>2, <4>1, <4>3
    <3> QED BY <3>1
  <2> QED BY <1>1, <2>1, <2>2 DEF Reached
<1>3. ASSUME NEW D, Reached(q, v, D), v <= nextSeq[q], D \subseteq D2
      PROVE  Reached(q, eopSeq[q], finished)'
  <2>1. Reached(q, v, D2)'
    BY <1>3, ReachedStays
  <2> QED BY <1>1, <2>1 DEF Reached
<1>4. CASE eopSeq'[q] = eopSeq[q] /\ (At(q, 1, "zero") => ~Taken(q))
  <2>1. ~At(q, 1, "zero")
    BY <1>0, <1>4, NotTaken
  <2>2. PICK D : D = finished
    OBVIOUS
  <2>3. Reached(q, v, D) /\ v <= nextSeq[q] /\ D \subseteq D2
    BY <1>0, <1>1, <1>4, <2>1, <2>2, Grows DEF InOrder, Numbered
  <2> QED BY <1>3, <2>3
<1>5. CASE /\ 1 \in DOMAIN eop[q] /\ eop[q][1].op = "seq" /\ eopSeq'[q] = eop[q][1].arg
           /\ eop[q][1].after \cap running = {}
  <2>1. PICK D : D = finished \cup eop[q][1].after
    OBVIOUS
  <2>2. eop[q][1].after \subseteq finished
    BY <1>0, <1>5 DEF Numbered
  <2>3. Reached(q, v, D) /\ v <= nextSeq[q] /\ D \subseteq D2
    BY <1>0, <1>1, <1>5, <2>1, <2>2, Grows DEF InOrder, Numbered
  <2> QED BY <1>3, <2>3
<1> QED BY <1>1, <1>2, <1>4, <1>5, EopSeqSteps

LEMMA InOrderNext == NoWrap /\ SignalsInv /\ [Next]_vars => InOrder'
<1> SUFFICES ASSUME NoWrap, SignalsInv, [Next]_vars PROVE InOrder'
  OBVIOUS
<1>1. Types'
  BY NextTypes
<1>2. Compute \subseteq Queues
  BY DEF Queues
<1>3. \A q \in Compute : \A i \in DOMAIN ring'[q] : At(q, i, "seq")' =>
        Reached(q, Arg(q, i), finished \cup (running \cap onQueue[q]) \cup WorkBefore(q, i))'
  BY <1>1, <1>2, NextTypes, Places, RingInOrder
<1> QED BY <1>3, CallsInOrder, PipeInOrder, SeqInOrder DEF InOrder

LEMMA SdmaInOrderNext == NoWrap /\ SignalsInv /\ [Next]_vars => SdmaInOrder'
<1> SUFFICES ASSUME NoWrap, SignalsInv, [Next]_vars PROVE SdmaInOrder'
  OBVIOUS
<1>0. /\ SdmaInOrder /\ DecrementedOnce /\ Types /\ Types' /\ "decrement" \in Ops
  BY NextTypes DEF SignalsInv, Ops
<1>1. ASSUME NEW q \in Sdma, NEW i \in Nat, At(q, i, "decrement")'
      PROVE  covers'[Arg(q, i)'] \subseteq finished' \cup WorkBefore(q, i)'
  <2>0. q \in Queues /\ q \notin Compute
    BY SignalsAssumption DEF SignalsAssumption, Queues
  <2>1. ASSUME NEW m \in Nat, At(q, m, "decrement"), Arg(q, i)' = Arg(q, m),
               WorkBefore(q, m) \subseteq finished' \cup WorkBefore(q, i)'
        PROVE  covers'[Arg(q, i)'] \subseteq finished' \cup WorkBefore(q, i)'
    <3>1. covers[Arg(q, m)] \subseteq finished \cup WorkBefore(q, m)
      BY <1>0, <2>0, <2>1, Places DEF SdmaInOrder
    <3>2. Arg(q, m) \in accepted
      BY <1>0, <2>0, <2>1, Places DEF DecrementedOnce
    <3> QED BY <2>1, <3>1, <3>2, Grows
  <2>2. ASSUME NEW t \in Threads, SubmitSignal(t)
        PROVE  covers'[Arg(q, i)'] \subseteq finished' \cup WorkBefore(q, i)'
    <3>1. PICK r \in Queues, s \in Signals, w \in Nat, n \in Nat, d \in SUBSET Work :
            /\ r = call[t].queue /\ s = call[t].signal /\ w = call[t].seq
            /\ d = call[t].covers /\ n = Len(ring[r]) /\ SignalAppended(r, s, w, n)
            /\ call[t] # NoCall /\ covers'[s] = d
      BY <1>0, <2>2, SignalSubmitted
    <3>2. Stay /\ finished \subseteq finished'
      BY <3>1, Grows DEF SignalAppended
    <3>3. CASE At(q, i, "decrement")
      <4>1. Arg(q, i)' = Arg(q, i)
        BY <1>0, <2>0, <3>2, <3>3 DEF Stay
      <4>2. WorkBefore(q, i) \subseteq WorkBefore(q, i)'
        BY <1>0, <2>0, <3>2, WorkBeforeStays
      <4> QED BY <2>1, <3>3, <4>1, <4>2
    <3>4. CASE ~At(q, i, "decrement")
      <4>1. q = r
        BY <1>0, <1>1, <2>0, <3>1, <3>4 DEF SignalAppended
      <4>2. i = n + 1
        BY <1>0, <1>1, <2>0, <3>1, <3>4, <4>1 DEF SignalAppended
      <4>3. Arg(q, i)' = s
        BY <2>0, <3>1, <4>1, <4>2 DEF SignalAppended
      <4>4. d \subseteq finished \cup WorkBefore(q, i)'
        BY <1>0, <2>0, <2>2, <3>1, <3>2, <4>1, <4>2, CoveredBefore
      <4> QED BY <3>1, <3>2, <4>3, <4>4
    <3> QED BY <3>3, <3>4
  <2>3. ASSUME \A t \in Threads : ~SubmitSignal(t)
        PROVE  covers'[Arg(q, i)'] \subseteq finished' \cup WorkBefore(q, i)'
    <3>1. PICK d : Moved(d)
      BY <1>0, <2>3, RingMoves
    <3>2. d[q] \in Nat
      BY <2>0, <3>1 DEF Moved
    <3>3. PICK m \in Nat : m = i + d[q]
      BY <3>2
    <3>4. At(q, m, "decrement") /\ Arg(q, i)' = Arg(q, m)
      BY <1>0, <1>1, <2>0, <3>1, <3>3 DEF Moved
    <3>5. WorkBefore(q, m) \subseteq finished' \cup WorkBefore(q, i)'
      BY <2>0, <3>1, <3>3, WorkBeforeMoves
    <3> QED BY <2>1, <3>4, <3>5
  <2> QED BY <2>2, <2>3
<1>2. Sdma \subseteq Queues
  BY DEF Queues
<1> QED BY <1>0, <1>1, <1>2, Places DEF SdmaInOrder

LEMMA SignalCoversNext == NoWrap /\ SignalsInv /\ [Next]_vars => SignalCoversWork'
<1> SUFFICES ASSUME NoWrap, SignalsInv, [Next]_vars, NEW s \in Signals, fence'[s] = 0
             PROVE  covers'[s] \subseteq finished'
  BY DEF SignalCoversWork
<1>0. /\ CalledOnce /\ SignalCoversWork /\ Paired /\ SdmaInOrder /\ Types /\ Types'
  BY NextTypes DEF SignalsInv
<1>1. s \in accepted
  BY <1>0, FenceGoesDown DEF CalledOnce
<1>2. CASE fence[s] = 0
  BY <1>0, <1>1, <1>2, Grows DEF SignalCoversWork
<1>3. ASSUME NEW q \in Queues, DecrementFence(q), fence[s] # 0
      PROVE  covers[s] \subseteq finished
  <2>1. Arg(q, 1) \in Signals /\ Decremented(Arg(q, 1)) /\ At(q, 1, "decrement")
    BY <1>3, DecrementsOne
  <2>2. s = Arg(q, 1)
    BY <1>3, <2>1 DEF Decremented
  <2>3. CASE q \in Compute
    <3>1. ~At(q, 1 - 1, "await")
      BY <1>0, Places
    <3> QED BY <1>0, <2>1, <2>2, <2>3, <3>1, Places DEF Paired
  <2>4. CASE q \in Sdma
    BY <1>0, <2>1, <2>2, <2>4, Places, NothingBefore DEF SdmaInOrder
  <2> QED BY <2>3, <2>4 DEF Queues
<1> QED BY <1>1, <1>2, <1>3, FenceSteps, Grows

LEMMA SignalsInit == Init /\ NoWrap => SignalsInv
<1> SUFFICES ASSUME Init, NoWrap PROVE SignalsInv
  OBVIOUS
<1>0. SeqMod \in Nat /\ SeqMod > 0 /\ MaxWork \in Nat /\ MaxWaits \in Nat
      /\ Compute \subseteq Queues /\ Compute \cap Sdma = {}
  BY SignalsAssumption DEF SignalsAssumption, Queues
<1>1. /\ \A t \in Threads : call[t] = NoCall
      /\ \A q \in Compute : nextSeq[q] = 0 /\ eopSeq[q] \in {0, SeqMod - 1}
      /\ \A q \in Queues : eop[q] = <<>> /\ onQueue[q] = {}
      /\ \A s \in Signals : fence[s] = 1 /\ covers[s] = {}
      /\ \A k \in Work : waited[k] = {}
      /\ called = {} /\ running = {} /\ finished = {} /\ fired = {} /\ accepted = {}
      /\ works = 0 /\ waits = 0
  BY <1>0 DEF Init
<1>2. \A q \in Queues :
        /\ q \in Compute => ring[q] = <<Packet("zero", 0)>>
        /\ q \notin Compute => ring[q] = <<>>
  BY DEF Init
<1>3. \A q \in Queues : \A i \in DOMAIN ring[q] :
        q \in Compute /\ i = 1 /\ ring[q][i].op = "zero"
  BY <1>2 DEF Packet
<1>4. Types
  <2>1. ring \in [Queues -> Seq(AnyPacket)]
    <3>1. Packet("zero", 0) \in AnyPacket
      BY DEF Packet, AnyPacket
    <3>2. <<Packet("zero", 0)>> \in Seq(AnyPacket) /\ <<>> \in Seq(AnyPacket)
      BY <3>1
    <3>3. \A q \in Queues : (IF q \in Compute THEN <<Packet("zero", 0)>> ELSE <<>>)
                              \in Seq(AnyPacket)
      BY <3>2
    <3> HIDE DEF Packet, AnyPacket
    <3> QED BY <3>3 DEF Init
  <2>2. eopSeq \in [Compute -> Nat] /\ nextSeq \in [Compute -> Nat]
    BY <1>0 DEF Init
  <2>3. call \in [Threads -> Call \cup {NoCall}]
    BY DEF Init
  <2>4. /\ eop \in [Queues -> Seq(Report)] /\ onQueue \in [Queues -> SUBSET Work]
        /\ fence \in [Signals -> {0, 1}] /\ covers \in [Signals -> SUBSET Work]
        /\ waited \in [Work -> SUBSET Signals]
    BY DEF Init
  <2>5. works \in 0..MaxWork /\ waits \in 0..MaxWaits
    BY <1>0, <1>1
  <2> QED BY <1>1, <2>1, <2>2, <2>3, <2>4, <2>5 DEF Types
<1>5. /\ \A q \in Queues : \A i \in DOMAIN ring[q] : \A op : At(q, i, op) => op = "zero"
      /\ \A q \in Compute : At(q, 1, "zero")
      /\ \A t \in Threads, q \in Queues : ~Calls(t, q)
  <2>1. \A q \in Compute : 1 \in DOMAIN ring[q] /\ ring[q][1].op = "zero"
    <3>1. \A q \in Compute : ring[q] = <<Packet("zero", 0)>>
      BY <1>0, <1>2
    <3> QED BY <3>1 DEF Packet
  <2> QED BY <1>1, <1>3, <2>1 DEF At, Calls
<1>6. CalledOnce /\ FiredLast /\ SignalCoversWork
  BY <1>1, <1>5 DEF CalledOnce, FiredLast, SignalCoversWork
<1>7. DecrementedOnce /\ WaitsFirst /\ SdmaInOrder
  BY <1>1, <1>5 DEF DecrementedOnce, WaitsFirst, SdmaInOrder, Queues
<1>8. WorkKnown /\ Paired
  BY <1>0, <1>1, <1>3, <1>5 DEF WorkKnown, Paired
<1>9. Numbered
  <2>1. Cardinality(called) = 0
    BY <1>1, FS_EmptySet
  <2> QED BY <1>0, <1>1, <1>5, <2>1 DEF Numbered
<1>10. InOrder
  BY <1>0, <1>1, <1>5 DEF InOrder
<1> QED BY <1>1, <1>4, <1>6, <1>7, <1>8, <1>9, <1>10 DEF SignalsInv

LEMMA SignalsNext == NoWrap /\ SignalsInv /\ [Next]_vars => SignalsInv'
BY TypesNext, CalledOnceNext, DecrementedOnceNext, FiredLastNext, WorkKnownNext,
   WaitsFirstNext, PairedNext, NumberedNext, InOrderNext, SdmaInOrderNext, SignalCoversNext
   DEF SignalsInv

-----------------------------------------------------------------------------
(* What the invariant is for.                                              *)
LEMMA SignalsKept == NoWrap /\ SignalsInv => Inv
<1> SUFFICES ASSUME NoWrap, SignalsInv PROVE Inv
  OBVIOUS
<1>0. Types /\ FiredLast /\ SignalCoversWork /\ Numbered /\ running \cap finished = {}
  BY DEF SignalsInv
<1>1. TypeOK
  <2>1. nextSeq \in [Compute -> 0..(SeqMod - 1)]
    <3>1. \A q \in Compute : nextSeq[q] \in 0..(SeqMod - 1)
      BY <1>0, Counted, Facts DEF Numbered, Types
    <3> QED BY <1>0, <3>1 DEF Types
  <2>2. eopSeq \in [Compute -> 0..(SeqMod - 1)]
    <3>1. \A q \in Compute : eopSeq[q] \in 0..(SeqMod - 1)
      BY <1>0, Facts DEF Numbered, Types
    <3> QED BY <1>0, <3>1 DEF Types
  <2>3. \A q \in Queues : \A i \in DOMAIN ring[q] : ring[q][i].op \in Ops
    <3>1. \A q \in Queues : \A i \in DOMAIN ring[q] : ring[q][i] \in AnyPacket
      BY <1>0, Facts
    <3> QED BY <3>1 DEF AnyPacket, Ops
  <2>4. \A q \in Sdma : eop[q] = <<>>
    <3>1. ASSUME NEW q \in Sdma PROVE eop[q] = <<>>
      <4>1. q \in Queues /\ q \notin Compute
        BY SignalsAssumption DEF SignalsAssumption, Queues
      <4>2. DOMAIN eop[q] = {}
        BY <1>0, <4>1 DEF Numbered
      <4>3. eop[q] \in Seq(Report) /\ 1 \notin DOMAIN eop[q]
        BY <1>0, <4>1, <4>2, Facts
      <4> QED BY <4>3
    <3> QED BY <3>1
  <2>5. \A t \in Threads : call[t] = NoCall \/ call[t].queue \in Queues
    BY <1>0, CallTyped
  <2> QED BY <1>0, <2>1, <2>2, <2>3, <2>4, <2>5 DEF TypeOK, Types
<1>2. EventAfterFence
  BY <1>0 DEF EventAfterFence, FiredLast
<1> QED BY <1>0, <1>1, <1>2 DEF Inv

LEMMA WorkWaits == SignalsInv => WaitOrdersWork
<1> SUFFICES ASSUME SignalsInv, NEW k \in running \cup finished, NEW s \in waited[k]
             PROVE  s \in accepted /\ covers[s] \subseteq finished
  BY DEF WaitOrdersWork
<1>1. fence[s] = 0 /\ s \in Signals
  BY DEF SignalsInv, WaitsFirst, Types
<1> QED BY <1>1 DEF SignalsInv, CalledOnce, SignalCoversWork

(* signal() keeps its promise (queue.h:183): when the fence of a signal is *)
(* 0 everything that was submitted to its queue before is finished, and    *)
(* its event is fired only then, whatever calls are in between or fail.    *)
THEOREM SignalsKeepPromise == ASSUME NoWrap PROVE Spec => []Inv
<1>1. Init => SignalsInv
  BY SignalsInit
<1>2. SignalsInv /\ [Next]_vars => SignalsInv'
  BY SignalsNext
<1>3. SignalsInv => Inv
  BY SignalsKept
<1> QED BY <1>1, <1>2, <1>3, PTL DEF Spec

(* wait() keeps its own: work submitted after a wait starts when what the  *)
(* signal covers, on whatever queue, is finished.                          *)
THEOREM WaitsKeepOrder == ASSUME NoWrap PROVE Spec => []WaitOrdersWork
<1>1. Init => SignalsInv
  BY SignalsInit
<1>2. SignalsInv /\ [Next]_vars => SignalsInv'
  BY SignalsNext
<1>3. SignalsInv => WaitOrdersWork
  BY WorkWaits
<1> QED BY <1>1, <1>2, <1>3, PTL DEF Spec
=============================================================================
