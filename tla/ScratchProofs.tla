---------------------------- MODULE ScratchProofs ----------------------------
(***************************************************************************)
(* Proofs about module Scratch, whatever the kernels, the bounds, the      *)
(* failures and the interleaving: the list of scratch requests and the two *)
(* counters agree; every kernel runs in the region the queue owns, which   *)
(* is large enough for it; and it finds the scratch base in its user SGPR, *)
(* unless it waited behind the request of a kernel with another layout.    *)
(*                                                                         *)
(* The argument.  A request travels from dispatch() through the ring and   *)
(* the end of the pipe to the handler, and its number with it.  The CP     *)
(* stops at the dispatch that carries the number, so that the handler has  *)
(* numbers to answer only while nothing runs and the CP waits              *)
(* (QuietForHandler); whoever has taken words without waiting has numbers  *)
(* that are answered already (Captured), so that the words they took are   *)
(* those of the region; and what a request was promised is never taken     *)
(* back while allocations succeed (Promised, Enough).                      *)
(*                                                                         *)
(* The last section is about ScratchSizing: the sizes of those regions.    *)
(***************************************************************************)
EXTENDS Scratch, ScratchSizing, WellFoundedInduction, TLAPS

AnyKernel == [need : Nat, pos : Nat]

(* What the list holds, in terms the provers can count with.               *)
ListInv ==
  /\ kernel \in AnyKernel /\ req \in AnyKernel
  /\ perThread \in Nat /\ seq \in Nat /\ done \in Nat
  /\ requests \in Seq(AnyKernel)
  /\ RequestsCounted

LEMMA KernelsAreAny == \A k \in Kernels : k \in AnyKernel
<1> SUFFICES ASSUME NEW k \in Kernels PROVE k \in AnyKernel
  OBVIOUS
<1>1. Positions \cup {0} \subseteq Nat
  BY ScratchAssumption DEF ScratchAssumption
<1>2. k \in [need : Nat, pos : Positions \cup {0}]
  BY ScratchAssumption DEF ScratchAssumption
<1> QED BY <1>1, <1>2 DEF AnyKernel

(* A request that was popped is served by one of three paths, none of      *)
(* which is outside the handler.                                           *)
LEMMA AfterPopInside ==
  ASSUME NEW r \in AnyKernel, perThread \in Nat
  PROVE  AfterPop(r) \in {"build", "free", "alloc"}
BY DEF AfterPop, AnyKernel

LEMMA ListInvInit == Init => ListInv
BY DEF Init, ListInv, AnyKernel, Idle, RequestsCounted

(* Each step keeps the balance: a push adds to both sides, a pop moves one *)
(* from the list into the handler, and StoreDone one from there to done.   *)
LEMMA ListInvNext == ListInv /\ [Next]_vars => ListInv'
<1> SUFFICES ASSUME ListInv, [Next]_vars PROVE ListInv'
  OBVIOUS
<1> USE DEF ListInv, RequestsCounted
<1>1. ASSUME NEW k \in Kernels, Dispatch(k) PROVE ListInv'
  <2>1. k \in AnyKernel
    BY KernelsAreAny
  <2> QED BY <1>1, <2>1 DEF Dispatch, context, handler
<1>2. CASE DispatchStep
  <2>1. CASE PushRequest
    BY <2>1 DEF PushRequest, context, handler
  <2>2. CASE ReadPerThread \/ PushFails \/ ReadDone \/ ReadVa \/ ReadTmpring
    BY <2>2 DEF ReadPerThread, PushFails, ReadDone, ReadVa, ReadTmpring, context,
                handler
  <2>3. CASE Submit \/ SubmitFails
    BY <2>3 DEF Submit, SubmitFails, context, handler
  <2> QED BY <1>2, <2>1, <2>2, <2>3 DEF DispatchStep
<1>3. CASE HandlerStep
  <2>1. CASE Wake \/ HandlerBegin
    BY <2>1 DEF Wake, HandlerBegin, context, locals
  <2>2. CASE PopRequest
    <3>1. CASE requests = <<>> /\ wpc' = "idle" /\ UNCHANGED <<requests, req>>
      BY <2>2, <3>1 DEF PopRequest, context, locals
    <3>2. CASE /\ requests # <<>> /\ wpc' = AfterPop(Head(requests))
               /\ req' = Head(requests) /\ requests' = Tail(requests)
      <4>1. Head(requests) \in AnyKernel
        BY <3>2
      <4>2. wpc' \in {"build", "free", "alloc"}
        BY <3>2, <4>1, AfterPopInside
      <4>3. Tail(requests) \in Seq(AnyKernel) /\ Len(Tail(requests)) = Len(requests) - 1
        BY <3>2
      <4>4. UNCHANGED <<kernel, perThread, seq, done>> /\ wpc = "pop"
        BY <2>2 DEF PopRequest, context, locals
      <4>5. seq = done + Len(requests)
        BY <4>4
      <4>6. seq' = done' + Len(requests') + 1
        BY <3>2, <4>3, <4>4, <4>5
      <4> QED BY <3>2, <4>1, <4>2, <4>3, <4>4, <4>6
    <3> QED BY <2>2, <3>1, <3>2 DEF PopRequest
  <2>3. CASE FreeOld \/ ClearTmpring \/ ClearPerThread
    BY <2>3 DEF FreeOld, ClearTmpring, ClearPerThread, locals
  <2>4. CASE Allocate \/ AllocateFails \/ SetTmpring \/ SetError
    BY <2>4 DEF Allocate, AllocateFails, SetTmpring, SetError, context, locals
  <2>5. CASE SetPerThread
    BY <2>5 DEF SetPerThread, locals, AnyKernel
  <2>6. CASE BuildIndirect
    BY <2>6 DEF BuildIndirect, context, locals
  <2>7. CASE StoreDone
    BY <2>7 DEF StoreDone, context, locals
  <2> QED BY <1>3, <2>1, <2>2, <2>3, <2>4, <2>5, <2>6, <2>7 DEF HandlerStep
<1>4. CASE WakeForOther
  BY <1>4 DEF WakeForOther, context, locals
<1>5. CASE CommandProcessor
  BY <1>5 DEF CommandProcessor, CpSetup, CpRelease, CpWait, CpIndirect, CpLaunch,
              context, handler, locals
<1>6. CASE FinishSome \/ EndOfPipe
  BY <1>6 DEF FinishSome, Finish, EndOfPipe, context, handler, locals
<1>7. CASE UNCHANGED vars
  BY <1>7 DEF vars
<1> QED BY <1>1, <1>2, <1>3, <1>4, <1>5, <1>6, <1>7 DEF Next

-----------------------------------------------------------------------------
(* Types of what TypeOK leaves open.                                       *)
Packet == [id : 1..MaxDispatches, kernel : Kernels, base : Nat, tmp : Nat,
           stall : BOOLEAN, resize : BOOLEAN, seq : Nat]
Entry  == [op : {"ready", "event"}, seq : Nat, after : SUBSET Nat]
Regs   == [base : Int, tmp : Nat, user : [Positions -> Int], laid : Nat]
Wave   == [id : 1..MaxDispatches, kernel : Kernels, regs : Regs, behind : BOOLEAN]

Types ==
  /\ TypeOK
  /\ resize \in BOOLEAN /\ stall \in BOOLEAN /\ va \in Nat /\ tmp \in Nat
  /\ dispatches \in 0..MaxDispatches
  /\ requests \in Seq(Kernels) /\ perThread \in Nat /\ tmpring \in Nat
  /\ allocated \in [id : Nat, size : Nat] /\ regions \in Nat /\ scratchVa \in Nat
  /\ ib \in [base : Int, tmp : Nat, pos : Positions \cup {0}]
  /\ ring \in Seq(Packet) /\ eop \in Seq(Entry)
  /\ regs \in Regs /\ running \subseteq Wave

-----------------------------------------------------------------------------
(* The handler holds a request, is replacing the region, has failed.       *)
Hand == IF wpc \in {"idle", "begin", "pop"} THEN 0 ELSE 1
Changing == wpc \in {"free", "zerotmp", "zeroper", "alloc", "settmp", "setper"}
Doomed == error \/ wpc = "fail"

(* The scratch per thread the queue has, or will have when the handler is  *)
(* done: it never shrinks unless an allocation fails.                      *)
Promised == IF Changing THEN req.need ELSE perThread

(* Request number n, for kernel k, is answered, in hand or in the list.    *)
Served(n, k) ==
  \/ n <= done /\ (Doomed \/ k.need <= Promised)
  \/ n = done + 1 /\ Hand = 1 /\ req = k
  \/ n - done - Hand \in DOMAIN requests /\ requests[n - done - Hand] = k

(* A dispatch that made no request found enough.                           *)
Wanted(made, n, k) == IF made THEN Served(n, k) ELSE Doomed \/ k.need <= Promised

-----------------------------------------------------------------------------
(* The numbers of the requests, on their way from dispatch() through the   *)
(* ring and the end of the pipe to the handler.                            *)
Local ==
  /\ seq <= dispatches /\ (pc \in {"per", "push"} => seq < dispatches /\ ~resize)
  /\ pc # "idle" => kernel \in Kernels /\ mySeq = seq /\ dispatches > 0
  /\ pc # "idle" /\ resize => /\ kernel.need > 0 /\ ready < mySeq
                              /\ \A i \in DOMAIN ring : ring[i].seq < mySeq
  /\ pc = "push" => kernel.need > 0

HandlerOrder ==
  /\ done <= ready /\ ready <= seq
  /\ wpc \notin {"idle", "begin"} => done < ready
  /\ Hand = 1 => req \in Kernels /\ req.need > 0
  /\ RequestsCounted
  /\ \A i \in DOMAIN requests : requests[i].need > 0

RingOrder ==
  /\ \A i \in DOMAIN ring :
       /\ ready <= ring[i].seq /\ ring[i].seq <= seq
       /\ ring[i].resize => ring[i].stall
       /\ ring[i].stall => ring[i].seq > 0
       /\ ring[i].resize /\ (i > 1 \/ stage \in {"setup", "release"}) => ready < ring[i].seq
  /\ \A i, j \in DOMAIN ring :
       i < j => /\ ring[i].seq <= ring[j].seq
                /\ ring[j].resize => ring[i].seq < ring[j].seq
  /\ stage # "setup" => ring # <<>>
  /\ stage \in {"release", "wait", "indirect"} => ring[1].stall
  /\ stage = "release" => ring[1].resize

(* A report that is under way was put after all that runs now.             *)
ReportUnderWay ==
  \A i \in DOMAIN eop : eop[i].op = "ready" =>
    /\ stage = "wait" /\ eop[i].seq = ring[1].seq /\ ready < eop[i].seq
    /\ \A w \in running : w.id \in eop[i].after
    /\ \A j \in DOMAIN eop : eop[j].op = "ready" => i = j

(* While the handler may work nothing runs and the CP waits for it.        *)
QuietForHandler ==
  done < ready => running = {} /\ stage = "wait" /\ ring[1].seq = ready

(* The words that describe the region, when the handler is not replacing   *)
(* it.                                                                     *)
Words ==
  /\ perThread <= Promised
  /\ wpc \in {"build", "done"} /\ ~Doomed => req.need <= perThread
  /\ ~Changing /\ ~Doomed =>
       /\ tmpring = perThread /\ perThread = allocated.size
       /\ scratchVa = allocated.id /\ (perThread > 0 => allocated.id # 0)
  /\ wpc \in {"settmp", "setper"} =>
       allocated.size = req.need /\ scratchVa = allocated.id /\ allocated.id # 0
  /\ wpc = "setper" => tmpring = req.need
  /\ ~Doomed /\ (wpc = "done" \/ (Hand = 0 /\ done > 0)) =>
       ib.base = scratchVa /\ ib.tmp = tmpring

Enough ==
  /\ pc \in {"done", "va", "tmpring", "submit"} => Wanted(resize, mySeq, kernel)
  /\ \A i \in DOMAIN ring : Wanted(ring[i].resize, ring[i].seq, ring[i].kernel)

(* Registers taken from the words without waiting, or from the indirect    *)
(* buffer, are those of the region.                                        *)
Captured ==
  /\ pc \in {"va", "tmpring", "submit"} =>
       /\ resize => stall
       /\ stall => mySeq > 0
       /\ ~stall /\ kernel.need > 0 =>
            /\ mySeq <= done
            /\ ~Doomed /\ pc # "va" => va = scratchVa
            /\ ~Doomed /\ pc = "submit" => tmp = tmpring
  /\ \A i \in DOMAIN ring : ~ring[i].stall /\ ring[i].kernel.need > 0 =>
       /\ ring[i].seq <= done
       /\ ~Doomed => ring[i].base = allocated.id /\ ring[i].tmp = allocated.size
  /\ stage = "indirect" => ring[1].seq <= done
  /\ stage = "launch" /\ ring[1].kernel.need > 0 =>
       /\ ring[1].seq <= done
       /\ ~Doomed => regs.base = allocated.id /\ regs.tmp = allocated.size

RunsInRegion ==
  \A w \in running : w.kernel.need > 0 /\ ~error =>
    /\ w.regs.base = allocated.id /\ allocated.id # 0
    /\ w.regs.tmp = allocated.size /\ w.kernel.need <= allocated.size

ScratchInv == /\ Types /\ Local /\ HandlerOrder /\ RingOrder /\ ReportUnderWay
              /\ QuietForHandler /\ Words /\ Enough /\ Captured /\ RunsInRegion

-----------------------------------------------------------------------------
(* What each step of the handler and of the device leaves alone.           *)
Caller == <<pc, kernel, mySeq, resize, stall, va, tmp, dispatches, seq>>

LEMMA HandlerLeaves ==
  ASSUME HandlerStep \/ WakeForOther
  PROVE  /\ UNCHANGED Caller /\ UNCHANGED device
         /\ ready' = ready
BY DEF HandlerStep, WakeForOther, Wake, HandlerBegin, PopRequest, FreeOld,
       ClearTmpring, ClearPerThread, Allocate, AllocateFails, SetTmpring,
       SetPerThread, SetError, BuildIndirect, StoreDone, Caller, locals, device

LEMMA DeviceLeaves ==
  ASSUME CommandProcessor \/ FinishSome \/ EndOfPipe
  PROVE  /\ UNCHANGED Caller /\ UNCHANGED context /\ UNCHANGED handler
         /\ UNCHANGED <<requests, done, ib>>
BY DEF CommandProcessor, FinishSome, CpSetup, CpRelease, CpWait, CpIndirect,
       CpLaunch, Finish, EndOfPipe, Caller, locals, context, handler

LEMMA CallerLeaves ==
  ASSUME DispatchStep \/ \E k \in Kernels : Dispatch(k)
  PROVE  /\ UNCHANGED context /\ UNCHANGED handler
         /\ UNCHANGED <<done, ready, ib, event, stage, regs, eop, running, launched>>
BY DEF DispatchStep, Dispatch, ReadPerThread, PushRequest, PushFails, ReadDone,
       ReadVa, ReadTmpring, Submit, SubmitFails, context, handler, device

(* What a working handler may rely on: nothing runs, and whoever holds the *)
(* words without waiting has no use for them.                              *)
LEMMA WhileWorking ==
  ASSUME ScratchInv, done < ready
  PROVE  /\ running = {} /\ stage = "wait" /\ ring # <<>> /\ ring[1].seq = ready
         /\ \A i \in DOMAIN ring : ring[i].stall \/ ring[i].kernel.need = 0
         /\ pc \in {"va", "tmpring", "submit"} => stall \/ kernel.need = 0
<1> USE DEF ScratchInv
<1>0. done \in Nat /\ ready \in Nat /\ seq \in Nat
  BY ScratchAssumption DEF Types, TypeOK, ScratchAssumption
<1>0a. ring \in Seq(Packet) /\ MaxDispatches \in Nat
  BY ScratchAssumption DEF Types, ScratchAssumption
<1>1. running = {} /\ stage = "wait" /\ ring # <<>> /\ ring[1].seq = ready
  BY DEF QuietForHandler, RingOrder
<1>2. ASSUME NEW i \in DOMAIN ring PROVE ring[i].stall \/ ring[i].kernel.need = 0
  <2>1. ring[i] \in Packet
    BY <1>0a
  <2>2. ring[i].seq \in Nat /\ ring[i].kernel \in Kernels
    BY <2>1 DEF Packet
  <2>3. ring[i].kernel.need \in Nat
    BY <2>2, KernelsAreAny DEF AnyKernel
  <2>4. ready <= ring[i].seq
    BY DEF RingOrder
  <2>5. ~ring[i].stall /\ ring[i].kernel.need > 0 => ring[i].seq <= done
    BY DEF Captured
  <2> QED BY <1>0, <2>2, <2>3, <2>4, <2>5
<1>3. ASSUME pc \in {"va", "tmpring", "submit"} PROVE stall \/ kernel.need = 0
  <2>1. kernel \in Kernels /\ mySeq = seq
    BY <1>3 DEF Local
  <2>2. kernel.need \in Nat
    BY <2>1, KernelsAreAny DEF AnyKernel
  <2>3. ready <= seq
    BY DEF HandlerOrder
  <2>4. ~stall /\ kernel.need > 0 => mySeq <= done
    BY <1>3 DEF Captured
  <2> QED BY <1>0, <2>1, <2>2, <2>3, <2>4
<1> QED BY <1>1, <1>2, <1>3

LEMMA Numbers ==
  ASSUME Types
  PROVE  /\ done \in Nat /\ ready \in Nat /\ seq \in Nat /\ mySeq \in Nat
         /\ dispatches \in Nat /\ MaxDispatches \in Nat /\ perThread \in Nat
         /\ Kernels \subseteq AnyKernel /\ kernel \in AnyKernel /\ req \in AnyKernel
         /\ \A i \in DOMAIN ring : ring[i].seq \in Nat /\ ring[i].kernel \in Kernels
<1>1. MaxDispatches \in Nat
  BY ScratchAssumption DEF ScratchAssumption
<1>2. Kernels \subseteq AnyKernel
  BY KernelsAreAny
<1>3. Idle \in AnyKernel
  BY DEF Idle, AnyKernel
<1>4. ASSUME NEW i \in DOMAIN ring PROVE ring[i].seq \in Nat /\ ring[i].kernel \in Kernels
  <2>1. ring[i] \in Packet
    BY DEF Types
  <2> QED BY <2>1 DEF Packet
<1> QED BY <1>1, <1>2, <1>3, <1>4 DEF Types, TypeOK

(* The packets of a dispatch join the ring at its end, and leave it at its *)
(* head.                                                                   *)
LEMMA SubmitAppends ==
  ASSUME Types, Local, Submit
  PROVE  /\ ring' \in Seq(Packet) /\ Len(ring') = Len(ring) + 1
         /\ DOMAIN ring' = 1 .. (Len(ring) + 1)
         /\ \A i \in DOMAIN ring : i \in DOMAIN ring' /\ ring'[i] = ring[i]
         /\ LET p == ring'[Len(ring) + 1]
            IN  /\ p.seq = mySeq /\ p.kernel = kernel /\ p.base = va /\ p.tmp = tmp
                /\ p.stall = stall /\ p.resize = resize
         /\ ring # <<>> => Head(ring') = Head(ring) /\ ring'[1] = ring[1]
<1> DEFINE p == [id |-> dispatches, kernel |-> kernel, base |-> va, tmp |-> tmp,
                 stall |-> stall, resize |-> resize, seq |-> mySeq]
<1>1. ring \in Seq(Packet) /\ ring' = Append(ring, p)
  BY DEF Submit, Types
<1>2. p \in Packet
  <2>1. dispatches \in 1..MaxDispatches
    BY Numbers DEF Submit, Local, Types
  <2> QED BY <2>1, Numbers DEF Submit, Local, Types, Packet
<1> HIDE DEF p
<1>3. /\ ring' \in Seq(Packet) /\ Len(ring') = Len(ring) + 1
      /\ DOMAIN ring' = 1 .. (Len(ring) + 1)
      /\ \A i \in DOMAIN ring : i \in DOMAIN ring' /\ ring'[i] = ring[i]
      /\ ring'[Len(ring) + 1] = p
  BY <1>1, <1>2
<1>4. ring # <<>> => Head(ring') = Head(ring) /\ ring'[1] = ring[1]
  BY <1>1, <1>2, <1>3
<1> QED BY <1>3, <1>4 DEF p

LEMMA LaunchTakes ==
  ASSUME Types, CpLaunch
  PROVE  /\ ring' \in Seq(Packet) /\ Len(ring') = Len(ring) - 1
         /\ DOMAIN ring' = 1 .. (Len(ring) - 1)
         /\ \A i \in DOMAIN ring' : i + 1 \in DOMAIN ring /\ ring'[i] = ring[i + 1]
         /\ 1 \in DOMAIN ring /\ Packets = ring[1] /\ ring[1] \in Packet
BY DEF Types, CpLaunch, At, Packets

LEMMA AtHead ==
  ASSUME Types, ring # <<>>
  PROVE  1 \in DOMAIN ring /\ Packets = ring[1] /\ ring[1] \in Packet
BY DEF Types, Packets

LEMMA DeviceRing ==
  ASSUME CpSetup \/ CpRelease \/ CpWait \/ CpIndirect \/ FinishSome \/ EndOfPipe
  PROVE  ring' = ring
BY DEF CpSetup, CpRelease, CpWait, CpIndirect, FinishSome, Finish, EndOfPipe

LEMMA DeviceReady ==
  ASSUME CommandProcessor \/ FinishSome
  PROVE  ready' = ready
BY DEF CommandProcessor, CpSetup, CpRelease, CpWait, CpIndirect, CpLaunch, FinishSome,
       Finish

(* The report that takes effect is the one the CP waits for.               *)
LEMMA ReportArrives ==
  ASSUME ScratchInv, EndOfPipe
  PROVE  \/ UNCHANGED ready /\ Head(eop).op = "event"
         \/ /\ Head(eop).op = "ready" /\ ready' = Head(eop).seq
            /\ stage = "wait" /\ ring # <<>> /\ ready' = ring[1].seq /\ ready < ready'
            /\ ready' <= seq /\ running = {}
<1>1. eop # <<>> /\ eop \in Seq(Entry) /\ running \subseteq Wave
  BY DEF EndOfPipe, ScratchInv, Types
<1>2. 1 \in DOMAIN eop /\ Head(eop) = eop[1]
  BY <1>1
<1>3. CASE Head(eop).op = "ready" /\ ready' = Head(eop).seq /\ UNCHANGED event
  <2>1. /\ stage = "wait" /\ eop[1].seq = ring[1].seq /\ ready < eop[1].seq
        /\ \A w \in running : w.id \in eop[1].after
    BY <1>2, <1>3 DEF ScratchInv, ReportUnderWay
  <2>2. ring # <<>>
    BY <2>1 DEF ScratchInv, RingOrder
  <2>3. 1 \in DOMAIN ring
    BY <2>2, AtHead DEF ScratchInv
  <2>4. ring[1].seq <= seq
    BY <2>3 DEF ScratchInv, RingOrder
  <2>5. running = {}
    <3> SUFFICES ASSUME NEW w \in running PROVE FALSE
      OBVIOUS
    <3>1. w.id \in eop[1].after /\ w.id \in {v.id : v \in running}
      BY <2>1
    <3> QED BY <3>1, <1>2 DEF EndOfPipe
  <2> QED BY <1>2, <1>3, <2>1, <2>2, <2>4, <2>5
<1>4. CASE Head(eop).op = "event" /\ UNCHANGED ready
  BY <1>4
<1> QED BY <1>3, <1>4 DEF EndOfPipe

LEMMA LocalNext == ScratchInv /\ [Next]_vars => Local'
<1> SUFFICES ASSUME ScratchInv, [Next]_vars PROVE Local'
  OBVIOUS
<1> USE DEF ScratchInv
<1>0. Types /\ Local
  OBVIOUS
<1>a. /\ done \in Nat /\ ready \in Nat /\ seq \in Nat /\ mySeq \in Nat /\ dispatches \in Nat
      /\ MaxDispatches \in Nat /\ perThread \in Nat /\ Kernels \subseteq AnyKernel
      /\ \A i \in DOMAIN ring : ring[i].seq \in Nat /\ ring[i].kernel \in Kernels
  BY <1>0, Numbers
<1>b. ready <= seq /\ \A i \in DOMAIN ring : ring[i].seq <= seq
  BY DEF HandlerOrder, RingOrder
<1>1. ASSUME NEW k \in Kernels, Dispatch(k) PROVE Local'
  BY <1>0, <1>1, <1>a, <1>b DEF Dispatch, Local, device
<1>2. CASE ReadPerThread
  BY <1>0, <1>2, <1>a, <1>b DEF ReadPerThread, Local, device, AnyKernel
<1>3. CASE PushRequest
  BY <1>0, <1>3, <1>a, <1>b DEF PushRequest, Local, device, AnyKernel
<1>4. CASE PushFails \/ ReadDone \/ ReadVa \/ ReadTmpring \/ SubmitFails
  BY <1>0, <1>4, <1>a, <1>b DEF PushFails, ReadDone, ReadVa, ReadTmpring, SubmitFails,
     Local, device
<1>5. CASE Submit
  BY <1>0, <1>5, <1>a, <1>b DEF Submit, Local
<1>6. CASE HandlerStep \/ WakeForOther
  BY <1>0, <1>6, HandlerLeaves DEF Local, Caller, device
<1>7. CASE CpSetup \/ CpRelease \/ CpWait \/ CpIndirect \/ FinishSome
  BY <1>0, <1>7, DeviceLeaves, DeviceRing, DeviceReady DEF Local, Caller, CommandProcessor
<1>8. CASE CpLaunch
  <2>1. \A i \in DOMAIN ring' : i + 1 \in DOMAIN ring /\ ring'[i] = ring[i + 1]
    BY <1>0, <1>8, LaunchTakes
  <2>2. UNCHANGED Caller /\ ready' = ready
    BY <1>8, DeviceLeaves, DeviceReady DEF CommandProcessor
  <2> QED BY <1>0, <2>1, <2>2 DEF Local, Caller
<1>9. CASE EndOfPipe
  <2>1. ring' = ring /\ UNCHANGED Caller
    BY <1>9, DeviceRing, DeviceLeaves
  <2>2. ready' = ready \/ (ready' = ring[1].seq /\ 1 \in DOMAIN ring)
    BY <1>0, <1>9, ReportArrives, AtHead
  <2> QED BY <1>0, <2>1, <2>2, <1>a DEF Local, Caller
<1>10. CASE UNCHANGED vars
  BY <1>0, <1>10 DEF Local, vars
<1> QED BY <1>1, <1>2, <1>3, <1>4, <1>5, <1>6, <1>7, <1>8, <1>9, <1>10
        DEF Next, DispatchStep, CommandProcessor

LEMMA ListInvHolds == ScratchInv => ListInv
<1> SUFFICES ASSUME ScratchInv PROVE ListInv
  OBVIOUS
<1>1. Types /\ RequestsCounted
  BY DEF ScratchInv, HandlerOrder
<1>2. requests \in Seq(AnyKernel)
  BY <1>1, Numbers DEF Types
<1> QED BY <1>1, <1>2, Numbers DEF ListInv

(* The request in hand, after each step that can change it.                *)
LEMMA PopTakes ==
  ASSUME Types, PopRequest, requests # <<>>
  PROVE  /\ 1 \in DOMAIN requests /\ req' = requests[1] /\ req' \in Kernels
         /\ wpc' \in {"build", "free", "alloc"}
         /\ requests' \in Seq(Kernels) /\ Len(requests') = Len(requests) - 1
         /\ DOMAIN requests' = 1 .. (Len(requests) - 1)
         /\ \A i \in DOMAIN requests' : /\ i + 1 \in DOMAIN requests
                                        /\ requests'[i] = requests[i + 1]
<1>1. requests \in Seq(Kernels) /\ perThread \in Nat
  BY DEF Types
<1>2. req' = Head(requests) /\ requests' = Tail(requests) /\ wpc' = AfterPop(Head(requests))
  BY DEF PopRequest
<1>3. 1 \in DOMAIN requests /\ Head(requests) = requests[1] /\ Head(requests) \in Kernels
  BY <1>1
<1>4. wpc' \in {"build", "free", "alloc"}
  BY <1>1, <1>2, <1>3, KernelsAreAny, AfterPopInside
<1> QED BY <1>1, <1>2, <1>3, <1>4

LEMMA HandlerOrderNext == ScratchInv /\ [Next]_vars => HandlerOrder'
<1> SUFFICES ASSUME ScratchInv, [Next]_vars PROVE HandlerOrder'
  OBVIOUS
<1>0. Types /\ Local /\ HandlerOrder
  BY DEF ScratchInv
<1>a. /\ done \in Nat /\ ready \in Nat /\ seq \in Nat /\ kernel \in AnyKernel
      /\ requests \in Seq(Kernels)
  BY <1>0, Numbers DEF Types
<1>b. RequestsCounted'
  BY ListInvHolds, ListInvNext DEF ListInv
<1>c. wpc \in {"idle", "begin", "pop", "free", "zerotmp", "zeroper", "alloc",
              "settmp", "setper", "fail", "build", "done"}
  BY <1>0 DEF Types, TypeOK
<1>1. CASE DispatchStep \/ \E k \in Kernels : Dispatch(k)
  <2>1. UNCHANGED <<done, ready, wpc, req>>
    BY <1>1, CallerLeaves DEF handler
  <2>2. CASE PushRequest
    <3>1. seq' = seq + 1 /\ requests' = Append(requests, kernel) /\ kernel \in Kernels
          /\ kernel.need > 0
      BY <1>0, <2>2 DEF PushRequest, Local
    <3>2. \A i \in DOMAIN requests' : requests'[i].need > 0
      BY <1>0, <1>a, <3>1 DEF HandlerOrder
    <3> QED BY <1>0, <1>a, <1>b, <2>1, <3>1, <3>2 DEF HandlerOrder, Hand
  <2>3. CASE ~PushRequest
    <3>1. UNCHANGED <<seq, requests>>
      BY <1>1, <2>3 DEF DispatchStep, Dispatch, ReadPerThread, PushFails, ReadDone,
         ReadVa, ReadTmpring, Submit, SubmitFails
    <3> QED BY <1>0, <1>b, <2>1, <3>1 DEF HandlerOrder, Hand
  <2> QED BY <2>2, <2>3
<1>2. CASE HandlerStep \/ WakeForOther
  <2>1. seq' = seq /\ ready' = ready
    BY <1>2, HandlerLeaves DEF Caller
  <2>2. CASE Wake \/ WakeForOther
    BY <1>0, <1>b, <2>1, <2>2 DEF Wake, WakeForOther, HandlerOrder, Hand
  <2>3. CASE HandlerBegin
    BY <1>0, <1>a, <1>b, <2>1, <2>3 DEF HandlerBegin, HandlerOrder, Hand
  <2>4. CASE PopRequest /\ requests = <<>>
    BY <1>0, <1>a, <1>b, <2>1, <2>4 DEF PopRequest, HandlerOrder, Hand
  <2>5. CASE PopRequest /\ requests # <<>>
    <3>1. /\ 1 \in DOMAIN requests /\ req' = requests[1] /\ req' \in Kernels
          /\ \A i \in DOMAIN requests' : /\ i + 1 \in DOMAIN requests
                                         /\ requests'[i] = requests[i + 1]
      BY <1>0, <2>5, PopTakes
    <3>2. done' = done /\ wpc = "pop" /\ wpc' \notin {"idle", "begin"}
      BY <1>0, <2>5, PopTakes DEF PopRequest
    <3> QED BY <1>0, <1>a, <1>b, <2>1, <3>1, <3>2 DEF HandlerOrder
  <2>6. CASE StoreDone
    BY <1>0, <1>a, <1>b, <2>1, <2>6 DEF StoreDone, HandlerOrder, Hand
  <2>7. CASE \/ FreeOld \/ ClearTmpring \/ ClearPerThread \/ Allocate \/ AllocateFails
             \/ SetTmpring \/ SetPerThread \/ SetError \/ BuildIndirect
    <3>1. /\ done' = done /\ req' = req /\ requests' = requests
          /\ wpc \notin {"idle", "begin", "pop"}
      BY <2>7 DEF FreeOld, ClearTmpring, ClearPerThread, Allocate, AllocateFails,
         SetTmpring, SetPerThread, SetError, BuildIndirect
    <3> QED BY <1>0, <1>b, <2>1, <3>1 DEF HandlerOrder, Hand
  <2> QED BY <1>2, <2>2, <2>3, <2>4, <2>5, <2>6, <2>7 DEF HandlerStep
<1>3. CASE CommandProcessor \/ FinishSome \/ EndOfPipe
  <2>1. UNCHANGED <<seq, done, wpc, req, requests>>
    BY <1>3, DeviceLeaves DEF Caller, handler
  <2>2. ready' = ready \/ (ready < ready' /\ ready' <= seq /\ ready' \in Nat)
    <3>1. CASE EndOfPipe
      <4>1. 1 \in DOMAIN ring => ring[1].seq \in Nat
        BY <1>0, Numbers
      <4> QED BY <1>0, <3>1, <4>1, ReportArrives, AtHead
    <3> QED BY <1>3, <3>1, DeviceReady
  <2> QED BY <1>0, <1>a, <1>b, <2>1, <2>2 DEF HandlerOrder, Hand
<1>4. CASE UNCHANGED vars
  BY <1>0, <1>4 DEF HandlerOrder, RequestsCounted, Hand, vars
<1> QED BY <1>1, <1>2, <1>3, <1>4 DEF Next

(* The ring after a submission, a launch and the other steps of the device. *)
LEMMA RingOrderNext == ScratchInv /\ [Next]_vars => RingOrder'
<1> SUFFICES ASSUME ScratchInv, [Next]_vars PROVE RingOrder'
  OBVIOUS
<1>0. Types /\ Local /\ HandlerOrder /\ RingOrder /\ Captured
  BY DEF ScratchInv
<1>a. /\ done \in Nat /\ ready \in Nat /\ seq \in Nat /\ mySeq \in Nat /\ ring \in Seq(Packet)
      /\ \A i \in DOMAIN ring : ring[i].seq \in Nat /\ ring[i].kernel \in Kernels
  BY <1>0, Numbers DEF Types
<1>b. stage \in {"setup", "release", "wait", "indirect", "launch"}
  BY <1>0 DEF Types, TypeOK
<1>1. CASE Submit
  <2>1. UNCHANGED <<seq, stage, ready>> /\ pc = "submit" /\ mySeq = seq /\ ready <= seq
    BY <1>0, <1>1 DEF Submit, Local, HandlerOrder
  <2>2. /\ Len(ring') = Len(ring) + 1 /\ Len(ring) \in Nat
        /\ DOMAIN ring' = 1 .. (Len(ring) + 1) /\ DOMAIN ring = 1 .. Len(ring)
        /\ \A i \in DOMAIN ring : i \in DOMAIN ring' /\ ring'[i] = ring[i]
        /\ ring'[Len(ring) + 1].seq = seq /\ ring'[Len(ring) + 1].stall = stall
        /\ ring'[Len(ring) + 1].resize = resize
        /\ ring # <<>> => ring'[1] = ring[1]
    BY <1>0, <1>1, <1>a, <2>1, SubmitAppends
  <2>3. /\ resize => stall /\ (\A i \in DOMAIN ring : ring[i].seq < seq) /\ ready < seq
        /\ stall => seq > 0
    BY <1>0, <2>1 DEF Captured, Local
  <2>4. \A i \in DOMAIN ring' : i \in DOMAIN ring \/ i = Len(ring) + 1
    BY <2>2
  <2>5. \A i \in DOMAIN ring' :
          /\ ready <= ring'[i].seq /\ ring'[i].seq <= seq
          /\ ring'[i].resize => ring'[i].stall
          /\ ring'[i].stall => ring'[i].seq > 0
          /\ ring'[i].resize /\ (i > 1 \/ stage \in {"setup", "release"})
               => ready < ring'[i].seq
    BY <1>0, <1>a, <2>1, <2>2, <2>3, <2>4 DEF RingOrder
  <2>6. ASSUME NEW i \in DOMAIN ring', NEW j \in DOMAIN ring', i < j
        PROVE  /\ ring'[i].seq <= ring'[j].seq
               /\ ring'[j].resize => ring'[i].seq < ring'[j].seq
    <3>1. i \in DOMAIN ring
      BY <2>2, <2>6
    <3> QED BY <1>0, <1>a, <2>2, <2>3, <2>4, <2>6, <3>1 DEF RingOrder
  <2>7. ring # <<>> => ring' # <<>>
    BY <1>a, <2>2
  <2> QED BY <1>0, <2>1, <2>2, <2>5, <2>6, <2>7 DEF RingOrder
<1>2. CASE (DispatchStep \/ \E k \in Kernels : Dispatch(k)) /\ ~Submit
  <2>1. UNCHANGED <<stage, ready, ring>> /\ (seq' = seq \/ seq' = seq + 1)
    BY <1>2, CallerLeaves DEF DispatchStep, Dispatch, ReadPerThread, PushRequest, PushFails,
       ReadDone, ReadVa, ReadTmpring, SubmitFails, device
  <2> QED BY <1>0, <1>a, <2>1 DEF RingOrder
<1>3. CASE HandlerStep \/ WakeForOther
  BY <1>0, <1>3, HandlerLeaves DEF RingOrder, Caller, device
<1>4. CASE CpLaunch
  <2>1. UNCHANGED seq /\ ready' = ready /\ stage' = "setup" /\ stage = "launch"
    BY <1>4, DeviceLeaves, DeviceReady DEF Caller, CommandProcessor, CpLaunch, At
  <2>2. \A i \in DOMAIN ring' : i + 1 \in DOMAIN ring /\ ring'[i] = ring[i + 1] /\ i \in Nat
    BY <1>0, <1>4, <1>a, LaunchTakes
  <2>3. \A i \in DOMAIN ring' :
          /\ ready <= ring'[i].seq /\ ring'[i].seq <= seq
          /\ ring'[i].resize => ring'[i].stall
          /\ ring'[i].stall => ring'[i].seq > 0
          /\ ring'[i].resize => ready < ring'[i].seq
    <3> SUFFICES ASSUME NEW i \in DOMAIN ring'
                 PROVE  /\ ready <= ring'[i].seq /\ ring'[i].seq <= seq
                        /\ ring'[i].resize => ring'[i].stall
                        /\ ring'[i].stall => ring'[i].seq > 0
                        /\ ring'[i].resize => ready < ring'[i].seq
      OBVIOUS
    <3>1. i + 1 > 1 \/ i = 0
      BY <2>2
    <3>2. i # 0
      BY <1>0, <1>4, <1>a, LaunchTakes
    <3> QED BY <1>0, <2>2, <3>1, <3>2 DEF RingOrder
  <2>4. \A i, j \in DOMAIN ring' :
          i < j => /\ ring'[i].seq <= ring'[j].seq
                   /\ ring'[j].resize => ring'[i].seq < ring'[j].seq
    <3> SUFFICES ASSUME NEW i \in DOMAIN ring', NEW j \in DOMAIN ring', i < j
                 PROVE  /\ ring'[i].seq <= ring'[j].seq
                        /\ ring'[j].resize => ring'[i].seq < ring'[j].seq
      OBVIOUS
    <3>1. i + 1 < j + 1 /\ i + 1 \in DOMAIN ring /\ j + 1 \in DOMAIN ring
      BY <2>2
    <3>2. ring'[i] = ring[i + 1] /\ ring'[j] = ring[j + 1]
      BY <2>2
    <3> QED BY <1>0, <3>1, <3>2 DEF RingOrder
  <2> QED BY <2>1, <2>3, <2>4 DEF RingOrder
<1>5. CASE CpSetup \/ CpRelease \/ CpWait \/ CpIndirect \/ FinishSome
  <2>1. UNCHANGED <<seq, ring, ready>>
    BY <1>5, DeviceLeaves, DeviceReady, DeviceRing DEF Caller, CommandProcessor
  <2>2. CASE CpSetup
    <3>1. ring # <<>> /\ Packets = ring[1] /\ stage = "setup" /\ 1 \in DOMAIN ring
      BY <1>0, <2>2, AtHead DEF CpSetup, At
    <3> QED BY <1>0, <2>1, <2>2, <3>1 DEF RingOrder, CpSetup
  <2>3. CASE CpRelease
    BY <1>0, <2>1, <2>3 DEF RingOrder, CpRelease, At
  <2>4. CASE CpWait \/ CpIndirect
    BY <1>0, <2>1, <2>4 DEF RingOrder, CpWait, CpIndirect, At
  <2>5. CASE FinishSome
    BY <1>0, <2>1, <2>5 DEF RingOrder, FinishSome, Finish
  <2> QED BY <1>5, <2>2, <2>3, <2>4, <2>5
<1>6. CASE EndOfPipe
  <2>1. UNCHANGED <<seq, ring, stage>>
    BY <1>6, DeviceLeaves DEF Caller, EndOfPipe
  <2>2. CASE ready' = ready
    BY <1>0, <2>1, <2>2 DEF RingOrder
  <2>3. CASE stage = "wait" /\ ring # <<>> /\ ready' = ring[1].seq
    <3>1. 1 \in DOMAIN ring /\ \A i \in DOMAIN ring : i = 1 \/ 1 < i
      BY <1>a, <2>3
    <3>2. \A i \in DOMAIN ring : ring[1].seq <= ring[i].seq
      BY <1>0, <1>a, <3>1 DEF RingOrder
    <3>3. \A i \in DOMAIN ring : i > 1 /\ ring[i].resize => ring[1].seq < ring[i].seq
      BY <1>0, <3>1 DEF RingOrder
    <3> QED BY <1>0, <2>1, <2>3, <3>2, <3>3 DEF RingOrder
  <2> QED BY <1>6, <2>2, <2>3, ReportArrives
<1>7. CASE UNCHANGED vars
  BY <1>0, <1>7 DEF RingOrder, vars
<1> QED BY <1>1, <1>2, <1>3, <1>4, <1>5, <1>6, <1>7 DEF Next, CommandProcessor

(* While a report is under way the CP cannot go on.                        *)
LEMMA ReportHoldsCp ==
  ASSUME ScratchInv, NEW i \in DOMAIN eop, eop[i].op = "ready"
  PROVE  ~CommandProcessor
<1>1. /\ stage = "wait" /\ eop[i].seq = ring[1].seq /\ ready < eop[i].seq /\ done <= ready
      /\ ring # <<>>
  BY DEF ScratchInv, ReportUnderWay, HandlerOrder, RingOrder
<1>2. ring[1].seq \in Nat /\ done \in Nat /\ ready \in Nat /\ Packets = ring[1]
  BY <1>1, Numbers, AtHead DEF ScratchInv
<1>3. ~CpWait
  BY <1>1, <1>2 DEF CpWait
<1> QED BY <1>1, <1>3 DEF CommandProcessor, CpSetup, CpRelease, CpIndirect, CpLaunch, At

LEMMA ReportUnderWayNext == ScratchInv /\ [Next]_vars => ReportUnderWay'
<1> SUFFICES ASSUME ScratchInv, [Next]_vars PROVE ReportUnderWay'
  OBVIOUS
<1>0. Types /\ Local /\ HandlerOrder /\ RingOrder /\ ReportUnderWay
  BY DEF ScratchInv
<1>a. eop \in Seq(Entry) /\ running \subseteq Wave /\ ready \in Nat
  BY <1>0, Numbers DEF Types
<1>1. CASE DispatchStep \/ \E k \in Kernels : Dispatch(k)
  <2>1. UNCHANGED <<stage, ready, eop, running>>
    BY <1>1, CallerLeaves
  <2>2. ring # <<>> => ring'[1] = ring[1]
    <3>1. CASE Submit
      BY <1>0, <3>1, SubmitAppends
    <3>2. CASE ~Submit
      BY <1>1, <3>2 DEF DispatchStep, Dispatch, ReadPerThread, PushRequest, PushFails,
       ReadDone, ReadVa, ReadTmpring, SubmitFails, device
    <3> QED BY <3>1, <3>2
  <2> QED BY <1>0, <2>1, <2>2 DEF ReportUnderWay, RingOrder
<1>2. CASE HandlerStep \/ WakeForOther
  BY <1>0, <1>2, HandlerLeaves DEF ReportUnderWay, device
<1>3. CASE CpRelease
  <2>1. /\ stage = "release" /\ ring # <<>> /\ stage' = "wait" /\ ring' = ring
        /\ ready' = ready /\ running' = running /\ Packets = ring[1]
    BY <1>0, <1>3, AtHead DEF CpRelease, At
  <2>2. ready < ring[1].seq
    BY <1>0, <2>1, AtHead DEF RingOrder
  <2> DEFINE e1 == [op |-> "ready", seq |-> Packets.seq, after |-> Earlier]
             e2 == [op |-> "event", seq |-> Packets.seq, after |-> Earlier]
  <2>3. eop' = eop \o <<e1, e2>>
    BY <1>3 DEF CpRelease
  <2>4. \A i \in DOMAIN eop : eop[i].op # "ready"
    BY <1>3, ReportHoldsCp DEF CommandProcessor
  <2>5. \A w \in running : w.id \in Earlier
    BY DEF Earlier
  <2> HIDE DEF e1, e2
  <2>6. \A i \in DOMAIN eop' : \/ i \in DOMAIN eop /\ eop'[i] = eop[i]
                               \/ i = Len(eop) + 1 /\ eop'[i] = e1
                               \/ i = Len(eop) + 2 /\ eop'[i] = e2
    BY <1>a, <2>3
  <2>7. \A i \in DOMAIN eop' : eop'[i].op = "ready" => i = Len(eop) + 1 /\ eop'[i] = e1
    BY <2>4, <2>6 DEF e2
  <2> QED BY <2>1, <2>2, <2>5, <2>7 DEF ReportUnderWay, e1
<1>4. CASE CommandProcessor /\ ~CpRelease
  <2>1. eop' = eop
    BY <1>4 DEF CommandProcessor, CpSetup, CpWait, CpIndirect, CpLaunch
  <2> QED BY <1>4, <2>1, ReportHoldsCp DEF ReportUnderWay
<1>5. CASE FinishSome
  <2>1. UNCHANGED <<stage, ring, ready, eop>> /\ running' \subseteq running
    BY <1>5 DEF FinishSome, Finish
  <2> QED BY <1>0, <2>1 DEF ReportUnderWay
<1>6. CASE EndOfPipe
  <2>1. /\ UNCHANGED <<stage, ring, running>> /\ eop' = Tail(eop) /\ eop # <<>>
    BY <1>6 DEF EndOfPipe
  <2>2. /\ 1 \in DOMAIN eop /\ Head(eop) = eop[1]
        /\ \A i \in DOMAIN eop' : i + 1 \in DOMAIN eop /\ eop'[i] = eop[i + 1] /\ i \in Nat /\ i # 0
    BY <1>a, <2>1
  <2>3. CASE Head(eop).op = "ready"
    <3>1. \A i \in DOMAIN eop : i = 1 \/ eop[i].op # "ready"
      BY <1>0, <2>2, <2>3 DEF ReportUnderWay
    <3>2. \A i \in DOMAIN eop' : eop'[i].op # "ready"
      <4> SUFFICES ASSUME NEW i \in DOMAIN eop' PROVE eop'[i].op # "ready"
        OBVIOUS
      <4>1. i + 1 # 1
        BY <2>2
      <4> QED BY <2>2, <3>1, <4>1
    <3> QED BY <3>2 DEF ReportUnderWay
  <2>4. CASE UNCHANGED ready
    <3> SUFFICES ASSUME NEW i \in DOMAIN eop', eop'[i].op = "ready"
                 PROVE  /\ stage = "wait" /\ eop'[i].seq = ring[1].seq /\ ready < eop'[i].seq
                        /\ \A w \in running : w.id \in eop'[i].after
                        /\ \A j \in DOMAIN eop' : eop'[j].op = "ready" => i = j
      BY <2>1, <2>4 DEF ReportUnderWay
    <3>1. i + 1 \in DOMAIN eop /\ eop'[i] = eop[i + 1]
      BY <2>2
    <3>2. \A j \in DOMAIN eop' : eop'[j].op = "ready" => i = j
      <4> SUFFICES ASSUME NEW j \in DOMAIN eop', eop'[j].op = "ready" PROVE i = j
        OBVIOUS
      <4>1. j + 1 \in DOMAIN eop /\ eop'[j] = eop[j + 1]
        BY <2>2
      <4>2. i + 1 = j + 1
        BY <1>0, <3>1, <4>1 DEF ReportUnderWay
      <4> QED BY <2>2, <4>2
    <3> QED BY <1>0, <3>1, <3>2 DEF ReportUnderWay
  <2> QED BY <1>6, <2>3, <2>4, ReportArrives
<1>7. CASE UNCHANGED vars
  BY <1>0, <1>7 DEF ReportUnderWay, vars
<1> QED BY <1>1, <1>2, <1>3, <1>4, <1>5, <1>6, <1>7 DEF Next, CommandProcessor

LEMMA QuietForHandlerNext == ScratchInv /\ [Next]_vars => QuietForHandler'
<1> SUFFICES ASSUME ScratchInv, [Next]_vars PROVE QuietForHandler'
  OBVIOUS
<1>0. Types /\ Local /\ HandlerOrder /\ RingOrder /\ QuietForHandler
  BY DEF ScratchInv
<1>a. done \in Nat /\ ready \in Nat
  BY <1>0, Numbers
<1>1. CASE DispatchStep \/ \E k \in Kernels : Dispatch(k)
  <2>1. UNCHANGED <<stage, ready, done, running>>
    BY <1>1, CallerLeaves
  <2>2. ring # <<>> => ring'[1] = ring[1]
    <3>1. CASE Submit
      BY <1>0, <3>1, SubmitAppends
    <3>2. CASE ~Submit
      BY <1>1, <3>2 DEF DispatchStep, Dispatch, ReadPerThread, PushRequest, PushFails,
       ReadDone, ReadVa, ReadTmpring, SubmitFails, device
    <3> QED BY <3>1, <3>2
  <2> QED BY <1>0, <2>1, <2>2 DEF QuietForHandler, RingOrder
<1>2. CASE HandlerStep \/ WakeForOther
  <2>1. UNCHANGED <<stage, ready, ring, running>>
    BY <1>2, HandlerLeaves DEF device
  <2>2. done' = done \/ done' = done + 1
    BY <1>2 DEF HandlerStep, WakeForOther, Wake, HandlerBegin, PopRequest, FreeOld,
       ClearTmpring, ClearPerThread, Allocate, AllocateFails, SetTmpring,
       SetPerThread, SetError, BuildIndirect, StoreDone
  <2> QED BY <1>0, <1>a, <2>1, <2>2 DEF QuietForHandler
<1>3. CASE CommandProcessor
  <2>1. done' = done /\ ready' = ready
    BY <1>3, DeviceLeaves, DeviceReady
  <2>2. ~(done < ready)
    <3> SUFFICES ASSUME done < ready PROVE FALSE
      OBVIOUS
    <3>1. stage = "wait" /\ ring[1].seq = ready /\ ring # <<>>
      BY WhileWorking
    <3>2. Packets = ring[1]
      BY <1>0, <3>1, AtHead
    <3> QED BY <1>3, <1>a, <3>1, <3>2
            DEF CommandProcessor, CpSetup, CpRelease, CpWait, CpIndirect, CpLaunch, At
  <2> QED BY <2>1, <2>2 DEF QuietForHandler
<1>4. CASE FinishSome
  <2>1. UNCHANGED <<stage, ring, ready, done>> /\ running' \subseteq running
    BY <1>4 DEF FinishSome, Finish
  <2> QED BY <1>0, <2>1 DEF QuietForHandler
<1>5. CASE EndOfPipe
  <2>1. UNCHANGED <<stage, ring, done, running>>
    BY <1>5 DEF EndOfPipe
  <2> QED BY <1>0, <1>5, <2>1, ReportArrives DEF QuietForHandler
<1>6. CASE UNCHANGED vars
  BY <1>0, <1>6 DEF QuietForHandler, vars
<1> QED BY <1>1, <1>2, <1>3, <1>4, <1>5, <1>6 DEF Next

-----------------------------------------------------------------------------
(* The words: only the handler writes them.                                *)
LEMMA WordsNext == ScratchInv /\ [Next]_vars => Words'
<1> SUFFICES ASSUME ScratchInv, [Next]_vars PROVE Words'
  OBVIOUS
<1>0. Types /\ HandlerOrder /\ Words
  BY DEF ScratchInv
<1>a. /\ done \in Nat /\ perThread \in Nat /\ req \in AnyKernel /\ req.need \in Nat
      /\ tmpring \in Nat /\ allocated.size \in Nat /\ allocated.id \in Nat /\ scratchVa \in Nat
      /\ regions \in Nat
      /\ (Hand = 1 => req.need > 0)
  BY <1>0, Numbers DEF Types, AnyKernel, HandlerOrder
<1>1. CASE UNCHANGED <<context, handler, done, ib>>
  BY <1>0, <1>1 DEF Words, Changing, Doomed, Promised, Hand, context, handler
<1>2. CASE HandlerStep \/ WakeForOther
  <2>1. CASE Wake \/ WakeForOther \/ HandlerBegin \/ (PopRequest /\ requests = <<>>)
    BY <1>0, <1>a, <2>1 DEF Wake, WakeForOther, HandlerBegin, PopRequest, context,
       Words, Changing, Doomed, Promised, Hand
  <2>2. CASE PopRequest /\ requests # <<>>
    <3>1. req' \in Kernels /\ wpc' = AfterPop(req') /\ UNCHANGED <<context, done, ib>>
          /\ wpc = "pop"
      BY <1>0, <2>2, PopTakes DEF PopRequest
    <3>2. req'.need \in Nat
      BY <3>1, KernelsAreAny DEF AnyKernel
    <3>3. \/ wpc' = "build" /\ req'.need <= perThread
          \/ wpc' = "free" /\ req'.need > perThread
          \/ wpc' = "alloc" /\ req'.need > perThread
      BY <1>a, <3>1, <3>2 DEF AfterPop
    <3> QED BY <1>0, <1>a, <3>1, <3>2, <3>3
               DEF Words, Changing, Doomed, Promised, Hand, context
  <2>3. CASE FreeOld \/ ClearTmpring
    BY <1>0, <1>a, <2>3 DEF FreeOld, ClearTmpring, Words, Changing, Doomed, Promised, Hand
  <2>4. CASE ClearPerThread
    BY <1>0, <1>a, <2>4 DEF ClearPerThread, Words, Changing, Doomed, Promised, Hand
  <2>5. CASE Allocate
    BY <1>0, <1>a, <2>5 DEF Allocate, Words, Changing, Doomed, Promised, Hand
  <2>6. CASE AllocateFails
    BY <1>0, <1>a, <2>6 DEF AllocateFails, Words, Changing, Doomed, Promised, Hand, context
  <2>7. CASE SetTmpring
    BY <1>0, <1>a, <2>7 DEF SetTmpring, Words, Changing, Doomed, Promised, Hand
  <2>8. CASE SetPerThread
    BY <1>0, <1>a, <2>8 DEF SetPerThread, Words, Changing, Doomed, Promised, Hand
  <2>9. CASE SetError
    BY <1>0, <1>a, <2>9 DEF SetError, Words, Changing, Doomed, Promised, Hand
  <2>10. CASE BuildIndirect
    BY <1>0, <1>a, <2>10 DEF BuildIndirect, Indirect, Words, Changing, Doomed, Promised,
       Hand, context
  <2>11. CASE StoreDone
    BY <1>0, <1>a, <2>11 DEF StoreDone, Words, Changing, Doomed, Promised, Hand, context
  <2> QED BY <1>2, <2>1, <2>2, <2>3, <2>4, <2>5, <2>6, <2>7, <2>8, <2>9, <2>10, <2>11
          DEF HandlerStep
<1>3. CASE UNCHANGED vars
  BY <1>1, <1>3 DEF vars, context, handler
<1> QED BY <1>1, <1>2, <1>3, CallerLeaves, DeviceLeaves DEF Next

(* A request in hand is kept to the end, and what was promised is not      *)
(* taken back while allocations succeed.                                   *)
LEMMA PromiseKept ==
  ASSUME ScratchInv, HandlerStep \/ WakeForOther
  PROVE  /\ Doomed => Doomed'
         /\ ~Doomed' => Promised <= Promised'
         /\ done' = done \/ done' = done + 1
<1>0. Types /\ HandlerOrder /\ Words
  BY DEF ScratchInv
<1>a. /\ done \in Nat /\ perThread \in Nat /\ req \in AnyKernel /\ req.need \in Nat
  BY <1>0, Numbers DEF Types, AnyKernel
<1>1. CASE PopRequest /\ requests # <<>>
  <2>1. req' \in Kernels /\ wpc' = AfterPop(req') /\ UNCHANGED <<perThread, error, done>>
        /\ wpc = "pop"
    BY <1>0, <1>1, PopTakes DEF PopRequest, context
  <2>2. req'.need \in Nat
    BY <2>1, KernelsAreAny DEF AnyKernel
  <2>3. \/ wpc' = "build" /\ req'.need <= perThread
        \/ wpc' = "free" /\ req'.need > perThread
        \/ wpc' = "alloc" /\ req'.need > perThread
    BY <1>a, <2>1, <2>2 DEF AfterPop
  <2> QED BY <1>a, <2>1, <2>2, <2>3 DEF Changing, Doomed, Promised
<1>2. CASE Wake \/ WakeForOther \/ HandlerBegin \/ (PopRequest /\ requests = <<>>)
  BY <1>a, <1>2 DEF Wake, WakeForOther, HandlerBegin, PopRequest, context,
     Changing, Doomed, Promised
<1>3. CASE FreeOld \/ ClearTmpring \/ ClearPerThread \/ Allocate
  BY <1>a, <1>3 DEF FreeOld, ClearTmpring, ClearPerThread, Allocate,
     Changing, Doomed, Promised
<1>4. CASE AllocateFails
  BY <1>a, <1>4 DEF AllocateFails, context, Changing, Doomed, Promised
<1>5. CASE SetTmpring \/ SetPerThread \/ SetError
  BY <1>a, <1>5 DEF SetTmpring, SetPerThread, SetError, Changing, Doomed, Promised
<1>6. CASE BuildIndirect \/ StoreDone
  BY <1>a, <1>6 DEF BuildIndirect, StoreDone, context, Changing, Doomed, Promised
<1> QED BY <1>1, <1>2, <1>3, <1>4, <1>5, <1>6 DEF HandlerStep

(* The handler answers the requests in the order of their numbers.         *)
LEMMA ServedStays ==
  ASSUME ScratchInv, HandlerStep \/ WakeForOther,
         NEW n \in Nat, NEW k \in AnyKernel, Served(n, k)
  PROVE  Served(n, k)'
<1>0. Types /\ HandlerOrder /\ Words
  BY DEF ScratchInv
<1>a. /\ done \in Nat /\ perThread \in Nat /\ req \in AnyKernel /\ req.need \in Nat
      /\ k.need \in Nat /\ Promised \in Nat /\ perThread' \in Nat
      /\ requests \in Seq(Kernels)
  <2>1. /\ done \in Nat /\ perThread \in Nat /\ req \in AnyKernel /\ req.need \in Nat
        /\ k.need \in Nat /\ requests \in Seq(Kernels)
    BY <1>0, Numbers DEF Types, AnyKernel
  <2>2. perThread' \in Nat
    BY <2>1, ListInvHolds, ListInvNext DEF Next, ListInv
  <2> QED BY <2>1, <2>2 DEF Promised
<1>b. Promised' \in Nat
  <2>1. req' \in AnyKernel
    BY ListInvHolds, ListInvNext DEF Next, ListInv
  <2> QED BY <1>a, <2>1 DEF Promised, AnyKernel
<1>c. n <= done /\ (Doomed \/ k.need <= Promised) =>
        n <= done' /\ (Doomed' \/ k.need <= Promised')
  <2>1. Doomed' \in BOOLEAN /\ Doomed \in BOOLEAN
    BY DEF Doomed
  <2> HIDE DEF Promised, Doomed
  <2> QED BY <1>a, <1>b, <2>1, PromiseKept
<1>1. CASE PopRequest /\ requests # <<>>
  <2>1. /\ 1 \in DOMAIN requests /\ req' = requests[1] /\ wpc = "pop" /\ done' = done
        /\ wpc' \in {"build", "free", "alloc"}
        /\ Len(requests') = Len(requests) - 1 /\ Len(requests) \in Nat
        /\ DOMAIN requests' = 1 .. (Len(requests) - 1) /\ DOMAIN requests = 1 .. Len(requests)
        /\ \A i \in DOMAIN requests' : requests'[i] = requests[i + 1]
    BY <1>0, <1>1, <1>a, PopTakes DEF PopRequest
  <2>2. Hand = 0 /\ Hand' = 1
    BY <2>1 DEF Hand
  <2>3. CASE n <= done /\ (Doomed \/ k.need <= Promised)
    BY <1>c, <2>3 DEF Served
  <2>4. CASE n - done - 0 \in DOMAIN requests /\ requests[n - done - 0] = k
    <3>1. CASE n - done = 1
      BY <1>a, <2>1, <2>2, <2>4, <3>1 DEF Served
    <3>2. CASE n - done # 1
      <4> DEFINE j == (n - done) - 1
      <4>1. j \in 1 .. (Len(requests) - 1) /\ j + 1 = n - done /\ (n - done) - 0 = n - done
        BY <1>a, <2>1, <2>4, <3>2
      <4>2. requests'[j] = k
        BY <2>1, <2>4, <4>1
      <4>3. n - done' - Hand' = j
        BY <2>1, <2>2
      <4> QED BY <2>1, <4>1, <4>2, <4>3 DEF Served
    <3> QED BY <3>1, <3>2
  <2> QED BY <2>2, <2>3, <2>4 DEF Served
<1>2. CASE StoreDone
  <2>1. /\ wpc = "done" /\ wpc' = "idle" /\ done' = done + 1
        /\ UNCHANGED <<perThread, error, req, requests>>
    BY <1>2 DEF StoreDone, context
  <2>2. Hand = 1 /\ Hand' = 0 /\ (Doomed' <=> Doomed) /\ Promised' = perThread
    BY <2>1 DEF Hand, Doomed, Promised, Changing
  <2>3. ~Doomed => req.need <= perThread
    BY <1>0, <2>1 DEF Words
  <2>4. CASE n <= done /\ (Doomed \/ k.need <= Promised)
    BY <1>c, <2>4 DEF Served
  <2>5. CASE n = done + 1 /\ Hand = 1 /\ req = k
    BY <1>a, <2>1, <2>2, <2>3, <2>5 DEF Served
  <2>6. CASE n - done - Hand \in DOMAIN requests /\ requests[n - done - Hand] = k
    <3>1. n - done - Hand = n - done' - Hand'
      BY <1>a, <2>1, <2>2
    <3> QED BY <2>1, <2>6, <3>1 DEF Served
  <2> QED BY <2>4, <2>5, <2>6 DEF Served
<1>3. CASE UNCHANGED <<done, req, requests>> /\ Hand' = Hand
  BY <1>3, <1>c DEF Served
<1>4. ASSUME ~(PopRequest /\ requests # <<>>), ~StoreDone
      PROVE  UNCHANGED <<done, req, requests>> /\ Hand' = Hand
  <2>1. CASE Wake \/ WakeForOther \/ HandlerBegin \/ (PopRequest /\ requests = <<>>)
    BY <2>1 DEF Wake, WakeForOther, HandlerBegin, PopRequest, Hand
  <2>2. CASE \/ FreeOld \/ ClearTmpring \/ ClearPerThread \/ Allocate \/ AllocateFails
             \/ SetTmpring \/ SetPerThread \/ SetError \/ BuildIndirect
    BY <2>2 DEF FreeOld, ClearTmpring, ClearPerThread, Allocate, AllocateFails, SetTmpring,
       SetPerThread, SetError, BuildIndirect, Hand
  <2> QED BY <1>4, <2>1, <2>2 DEF HandlerStep
<1> QED BY <1>1, <1>2, <1>3, <1>4

(* What a dispatch relies on lasts as long as it is under way.             *)
LEMMA WantedStays ==
  ASSUME ScratchInv, [Next]_vars,
         NEW made \in BOOLEAN, NEW n \in Nat, NEW k \in AnyKernel, Wanted(made, n, k)
  PROVE  Wanted(made, n, k)'
<1>0. Types /\ HandlerOrder
  BY DEF ScratchInv
<1>a. done \in Nat /\ requests \in Seq(Kernels) /\ k.need \in Nat
  BY <1>0, Numbers DEF Types, AnyKernel
<1>1. CASE HandlerStep \/ WakeForOther
  <2>1. Served(n, k) => Served(n, k)'
    BY <1>1, ServedStays
  <2>2. Doomed \/ k.need <= Promised => Doomed' \/ k.need <= Promised'
    <3>1. Promised \in Nat /\ Promised' \in Nat
      <4>1. perThread \in Nat /\ req \in AnyKernel /\ perThread' \in Nat /\ req' \in AnyKernel
        BY ListInvHolds, ListInvNext DEF ListInv
      <4> QED BY <4>1 DEF Promised, AnyKernel
    <3> HIDE DEF Promised, Doomed
    <3>2. Doomed' \in BOOLEAN /\ Doomed \in BOOLEAN
      BY DEF Doomed
    <3> QED BY <1>1, <1>a, <3>1, <3>2, PromiseKept
  <2> QED BY <2>1, <2>2 DEF Wanted
<1>2. CASE UNCHANGED <<context, handler, done>>
  <2>1. Hand' = Hand /\ Promised' = Promised /\ (Doomed' <=> Doomed)
    BY <1>2 DEF context, handler, Hand, Promised, Changing, Doomed
  <2>2. \A i \in DOMAIN requests : i \in DOMAIN requests' /\ requests'[i] = requests[i]
    <3>1. requests' = requests \/ PushRequest \/ HandlerStep \/ WakeForOther
      BY DEF Next, vars, Dispatch, DispatchStep, ReadPerThread, PushFails, ReadDone, ReadVa,
         ReadTmpring, Submit, SubmitFails, CommandProcessor, CpSetup, CpRelease, CpWait,
         CpIndirect, CpLaunch, FinishSome, Finish, EndOfPipe
    <3>2. CASE PushRequest
      <4>1. requests' = Append(requests, kernel)
        BY <3>2 DEF PushRequest
      <4> QED BY <1>a, <4>1
    <3>3. CASE HandlerStep \/ WakeForOther
      <4>1. PopRequest /\ requests # <<>> => wpc = "pop" /\ wpc' \in {"build", "free", "alloc"}
        BY <1>0, PopTakes DEF PopRequest
      <4>2. wpc' # wpc
        BY <3>3, <4>1 DEF HandlerStep, WakeForOther, Wake, HandlerBegin, PopRequest,
           FreeOld, ClearTmpring, ClearPerThread, Allocate, AllocateFails, SetTmpring,
           SetPerThread, SetError, BuildIndirect, StoreDone
      <4> QED BY <1>2, <4>2 DEF handler
    <3> QED BY <3>1, <3>2, <3>3
  <2>3. done' = done /\ UNCHANGED <<wpc, req>>
    BY <1>2 DEF handler
  <2>4. Served(n, k) => Served(n, k)'
    BY <2>1, <2>2, <2>3 DEF Served
  <2> QED BY <2>1, <2>4 DEF Wanted
<1>3. CASE UNCHANGED vars
  BY <1>2, <1>3 DEF vars, context, handler
<1> QED BY <1>1, <1>2, <1>3, CallerLeaves, DeviceLeaves DEF Next

LEMMA EnoughNext == ScratchInv /\ [Next]_vars => Enough'
<1> SUFFICES ASSUME ScratchInv, [Next]_vars PROVE Enough'
  OBVIOUS
<1>0. Types /\ Local /\ HandlerOrder /\ Enough /\ Words
  BY DEF ScratchInv
<1>a. /\ done \in Nat /\ requests \in Seq(Kernels) /\ ring \in Seq(Packet) /\ seq \in Nat
      /\ perThread \in Nat /\ mySeq \in Nat /\ resize \in BOOLEAN
      /\ kernel \in AnyKernel /\ Kernels \subseteq AnyKernel
      /\ \A i \in DOMAIN ring : ring[i].resize \in BOOLEAN /\ ring[i].seq \in Nat
                                /\ ring[i].kernel \in AnyKernel
  <2>1. \A i \in DOMAIN ring : ring[i] \in Packet
    BY <1>0 DEF Types
  <2> QED BY <1>0, <2>1, Numbers DEF Types, Packet
<1>1. ASSUME NEW m \in BOOLEAN, NEW n \in Nat, NEW k \in AnyKernel, Wanted(m, n, k)
      PROVE  Wanted(m, n, k)'
  BY <1>1, WantedStays
<1>2. pc' \in {"done", "va", "tmpring", "submit"} => Wanted(resize, mySeq, kernel)'
  <2>1. CASE PushRequest
    <3>1. /\ requests' = Append(requests, kernel) /\ mySeq' = seq + 1 /\ resize' = TRUE
          /\ UNCHANGED <<kernel, done, wpc>>
      BY <2>1 DEF PushRequest, handler
    <3>2. kernel \in Kernels
      BY <1>0, <2>1 DEF PushRequest, Local
    <3>3. Len(requests) + 1 \in DOMAIN requests' /\ requests'[Len(requests) + 1] = kernel
      BY <1>a, <3>1, <3>2
    <3>4. Hand' = Hand /\ Hand \in {0, 1}
      BY <3>1 DEF Hand
    <3>5. seq = done + Len(requests) + Hand
      BY <1>0 DEF HandlerOrder, RequestsCounted, Hand
    <3>6. mySeq' - done' - Hand' = Len(requests) + 1
      BY <1>a, <3>1, <3>4, <3>5
    <3>7. Served(mySeq, kernel)'
      BY <3>1, <3>3, <3>6 DEF Served
    <3> QED BY <3>1, <3>7 DEF Wanted
  <2>2. CASE ReadPerThread
    <3>1. kernel' = kernel /\ mySeq' = mySeq /\ resize' = resize
      BY <2>2 DEF ReadPerThread
    <3>2. CASE kernel.need <= perThread
      <4>1. ~resize /\ perThread <= Promised
        BY <1>0, <2>2 DEF ReadPerThread, Local, Words
      <4>1a. Promised \in Nat
        BY <1>0, <1>a, Numbers DEF Promised, AnyKernel
      <4>2. Wanted(resize, mySeq, kernel)
        BY <1>a, <3>2, <4>1, <4>1a DEF Wanted, AnyKernel
      <4>3. PICK m \in BOOLEAN, n \in Nat, k \in AnyKernel :
               m = resize /\ n = mySeq /\ k = kernel
        BY <1>a
      <4>4. Wanted(m, n, k)'
        BY <1>1, <4>2, <4>3
      <4> QED BY <3>1, <4>3, <4>4 DEF Wanted, Served
    <3>3. CASE ~(kernel.need <= perThread)
      BY <2>2, <3>3 DEF ReadPerThread
    <3> QED BY <3>2, <3>3
  <2>3. ASSUME pc' \in {"done", "va", "tmpring", "submit"}, ~PushRequest, ~ReadPerThread
        PROVE  Wanted(resize, mySeq, kernel)'
    <3>1. /\ pc \in {"done", "va", "tmpring", "submit"}
          /\ UNCHANGED <<resize, mySeq, kernel>>
      BY <2>3, HandlerLeaves, DeviceLeaves
         DEF Next, vars, Dispatch, DispatchStep, PushFails, ReadDone, ReadVa,
             ReadTmpring, Submit, SubmitFails, Caller
    <3>2. Wanted(resize, mySeq, kernel)
      BY <1>0, <3>1 DEF Enough
    <3>3. PICK m \in BOOLEAN, n \in Nat, k \in AnyKernel :
             m = resize /\ n = mySeq /\ k = kernel
      BY <1>a
    <3>4. Wanted(m, n, k)'
      BY <1>1, <3>2, <3>3
    <3> QED BY <3>1, <3>3, <3>4 DEF Wanted, Served
  <2> QED BY <2>1, <2>2, <2>3
<1>3. ASSUME NEW i \in DOMAIN ring'
      PROVE  Wanted(ring[i].resize, ring[i].seq, ring[i].kernel)'
  <2>1. ASSUME NEW j \in DOMAIN ring, ring'[i] = ring[j]
        PROVE  Wanted(ring[i].resize, ring[i].seq, ring[i].kernel)'
    <3>1. PICK m \in BOOLEAN, n \in Nat, k \in AnyKernel :
             m = ring[j].resize /\ n = ring[j].seq /\ k = ring[j].kernel
      BY <1>a
    <3>2. Wanted(m, n, k)'
      BY <1>0, <1>1, <3>1 DEF Enough
    <3> QED BY <2>1, <3>1, <3>2 DEF Wanted, Served
  <2>2. CASE Submit
    <3>1. (i \in DOMAIN ring /\ ring'[i] = ring[i]) \/ i = Len(ring) + 1
      BY <1>0, <1>a, <2>2, SubmitAppends
    <3>2. CASE i = Len(ring) + 1
      <4>1. ring'[i].seq = mySeq /\ ring'[i].kernel = kernel /\ ring'[i].resize = resize
        BY <1>0, <2>2, <3>2, SubmitAppends
      <4>2. pc = "submit"
        BY <2>2 DEF Submit
      <4>3. Wanted(resize, mySeq, kernel)
        BY <1>0, <4>2 DEF Enough
      <4>4. PICK m \in BOOLEAN, n \in Nat, k \in AnyKernel :
               m = resize /\ n = mySeq /\ k = kernel
        BY <1>a
      <4>5. Wanted(m, n, k)'
        BY <1>1, <4>3, <4>4
      <4> QED BY <4>1, <4>4, <4>5 DEF Wanted, Served
    <3> QED BY <2>1, <3>1, <3>2
  <2>3. CASE CpLaunch
    BY <1>0, <2>1, <2>3, LaunchTakes
  <2>4. CASE ring' = ring
    BY <2>1, <2>4
  <2>5. Submit \/ CpLaunch \/ ring' = ring
    BY HandlerLeaves, DeviceRing DEF Next, vars, Dispatch, DispatchStep, ReadPerThread,
       PushRequest, PushFails, ReadDone, ReadVa, ReadTmpring, SubmitFails, CommandProcessor,
       device
  <2> QED BY <2>2, <2>3, <2>4, <2>5
<1> QED BY <1>2, <1>3 DEF Enough

-----------------------------------------------------------------------------
(* The handler either only looks, or works with nothing running.           *)
LEMMA LooksOrWorks ==
  ASSUME ScratchInv, HandlerStep \/ WakeForOther
  PROVE  \/ UNCHANGED <<context, done, ib>> /\ (Doomed' <=> Doomed)
         \/ done < ready
<1>1. CASE Wake \/ WakeForOther \/ HandlerBegin
  BY <1>1 DEF Wake, WakeForOther, HandlerBegin, context, Doomed
<1>2. CASE \/ PopRequest \/ FreeOld \/ ClearTmpring \/ ClearPerThread \/ Allocate
           \/ AllocateFails \/ SetTmpring \/ SetPerThread \/ SetError \/ BuildIndirect
           \/ StoreDone
  <2>1. wpc \notin {"idle", "begin"}
    BY <1>2 DEF PopRequest, FreeOld, ClearTmpring, ClearPerThread, Allocate, AllocateFails,
       SetTmpring, SetPerThread, SetError, BuildIndirect, StoreDone
  <2> QED BY <2>1 DEF ScratchInv, HandlerOrder
<1> QED BY <1>1, <1>2 DEF HandlerStep

(* When the handler has caught up the words are those of the region.       *)
LEMMA CaughtUp ==
  ASSUME ScratchInv, ~(done < ready)
  PROVE  /\ wpc \in {"idle", "begin"} /\ Hand = 0 /\ ~Changing /\ (Doomed <=> error)
         /\ Promised = perThread
         /\ ~Doomed => /\ scratchVa = allocated.id /\ tmpring = allocated.size
                       /\ perThread = allocated.size /\ (perThread > 0 => allocated.id # 0)
                       /\ done > 0 => ib.base = allocated.id /\ ib.tmp = allocated.size
<1>1. wpc \in {"idle", "begin"}
  BY DEF ScratchInv, HandlerOrder
<1>2. Words
  BY DEF ScratchInv
<1> QED BY <1>1, <1>2 DEF Words, Hand, Changing, Doomed, Promised

LEMMA CapturedNext == ScratchInv /\ [Next]_vars => Captured'
<1> SUFFICES ASSUME ScratchInv, [Next]_vars PROVE Captured'
  OBVIOUS
<1>0. Types /\ Local /\ HandlerOrder /\ RingOrder /\ Captured
  BY DEF ScratchInv
<1>a. /\ done \in Nat /\ ready \in Nat /\ seq \in Nat /\ mySeq \in Nat /\ ring \in Seq(Packet)
      /\ kernel \in AnyKernel /\ kernel.need \in Nat
      /\ \A i \in DOMAIN ring : ring[i].seq \in Nat /\ ring[i].kernel.need \in Nat
  BY <1>0, Numbers DEF Types, AnyKernel
<1>1. CASE Submit
  <2>1. UNCHANGED <<stage, done, regs, allocated>> /\ (Doomed' <=> Doomed) /\ pc' = "idle"
        /\ pc = "submit" /\ mySeq = seq /\ ready <= seq
    BY <1>0, <1>1 DEF Submit, context, handler, Doomed, Local, HandlerOrder
  <2>2. /\ DOMAIN ring' = 1 .. (Len(ring) + 1) /\ DOMAIN ring = 1 .. Len(ring)
        /\ Len(ring) \in Nat
        /\ \A i \in DOMAIN ring : i \in DOMAIN ring' /\ ring'[i] = ring[i]
        /\ ring'[Len(ring) + 1].seq = mySeq /\ ring'[Len(ring) + 1].stall = stall
        /\ ring'[Len(ring) + 1].kernel = kernel /\ ring'[Len(ring) + 1].base = va
        /\ ring'[Len(ring) + 1].tmp = tmp
        /\ ring # <<>> => ring'[1] = ring[1]
    BY <1>0, <1>1, <1>a, SubmitAppends
  <2>3. ASSUME ~stall, kernel.need > 0
        PROVE  mySeq <= done /\ (~Doomed => va = allocated.id /\ tmp = allocated.size)
    <3>1. mySeq <= done /\ (~Doomed => va = scratchVa /\ tmp = tmpring)
      BY <1>0, <2>1, <2>3 DEF Captured
    <3>2. ~(done < ready)
      BY <1>a, <2>1, <3>1
    <3> QED BY <3>1, <3>2, CaughtUp
  <2>4. \A i \in DOMAIN ring' : i \in DOMAIN ring \/ i = Len(ring) + 1
    BY <2>2
  <2>5. ASSUME NEW i \in DOMAIN ring', ~ring'[i].stall, ring'[i].kernel.need > 0
        PROVE  /\ ring'[i].seq <= done
               /\ ~Doomed => ring'[i].base = allocated.id /\ ring'[i].tmp = allocated.size
    <3>1. CASE i \in DOMAIN ring
      BY <1>0, <2>2, <2>5, <3>1 DEF Captured
    <3>2. CASE i = Len(ring) + 1
      BY <2>2, <2>3, <2>5, <3>2
    <3> QED BY <2>4, <3>1, <3>2
  <2>6. stage # "setup" => ring'[1] = ring[1]
    BY <1>0, <2>2 DEF RingOrder
  <2> QED BY <1>0, <2>1, <2>5, <2>6 DEF Captured
<1>2. CASE (DispatchStep \/ \E k \in Kernels : Dispatch(k)) /\ ~Submit
  <2>1. UNCHANGED <<stage, ready, done, regs, scratchVa, tmpring, allocated>>
        /\ (Doomed' <=> Doomed)
    BY <1>2, CallerLeaves DEF context, handler, Doomed
  <2>2. ring' = ring
    BY <1>2 DEF DispatchStep, Dispatch, ReadPerThread, PushRequest, PushFails,
       ReadDone, ReadVa, ReadTmpring, SubmitFails, device
  <2>3. pc' \in {"va", "tmpring", "submit"} =>
          /\ resize' => stall'
          /\ stall' => mySeq' > 0
          /\ ~stall' /\ kernel'.need > 0 =>
               /\ mySeq' <= done'
               /\ ~Doomed' /\ pc' # "va" => va' = scratchVa'
               /\ ~Doomed' /\ pc' = "submit" => tmp' = tmpring'
    <3>1. CASE ReadDone
      <4>1. resize => kernel.need > 0 /\ done < mySeq
        BY <1>0, <1>a, <3>1 DEF ReadDone, Local, HandlerOrder
      <4>2. UNCHANGED <<resize, mySeq, kernel>> /\ pc' = "va"
        BY <3>1 DEF ReadDone
      <4>3. stall' <=> kernel.need > 0 /\ mySeq > done
        BY <3>1 DEF ReadDone, NeedsStall
      <4> QED BY <1>a, <2>1, <4>1, <4>2, <4>3
    <3>2. CASE ReadVa
      BY <1>0, <2>1, <3>2 DEF ReadVa, Captured
    <3>3. CASE ReadTmpring
      BY <1>0, <2>1, <3>3 DEF ReadTmpring, Captured
    <3>4. CASE (\E k \in Kernels : Dispatch(k)) \/ ReadPerThread \/ PushRequest \/ PushFails
               \/ SubmitFails
      <4>1. CASE pc' \in {"va", "tmpring", "submit"}
        BY <3>4, <4>1 DEF Dispatch, ReadPerThread, PushRequest, PushFails, SubmitFails
      <4> QED BY <4>1
    <3> QED BY <1>2, <3>1, <3>2, <3>3, <3>4 DEF DispatchStep
  <2> QED BY <1>0, <2>1, <2>2, <2>3 DEF Captured
<1>3. CASE HandlerStep \/ WakeForOther
  <2>1. /\ UNCHANGED <<pc, resize, stall, mySeq, kernel, va, tmp, ring, stage, regs>>
    BY <1>3, HandlerLeaves DEF Caller, device
  <2>2. CASE UNCHANGED <<context, done, ib>> /\ (Doomed' <=> Doomed)
    BY <1>0, <2>1, <2>2 DEF Captured, context
  <2>3. CASE done < ready
    <3>1. /\ stage = "wait"
          /\ \A i \in DOMAIN ring : ring[i].stall \/ ring[i].kernel.need = 0
          /\ pc \in {"va", "tmpring", "submit"} => stall \/ kernel.need = 0
      BY <2>3, WhileWorking
    <3> QED BY <1>0, <2>1, <3>1 DEF Captured
  <2> QED BY <1>3, <2>2, <2>3, LooksOrWorks
<1>4. CASE CommandProcessor \/ FinishSome \/ EndOfPipe
  <2>1. UNCHANGED Caller /\ UNCHANGED <<scratchVa, tmpring, allocated, done>>
        /\ (Doomed' <=> Doomed)
    BY <1>4, DeviceLeaves DEF context, handler, Doomed
  <2>2. CASE CpLaunch
    <3>1. \A i \in DOMAIN ring' : i + 1 \in DOMAIN ring /\ ring'[i] = ring[i + 1]
      BY <1>0, <2>2, LaunchTakes
    <3>2. stage' = "setup"
      BY <2>2 DEF CpLaunch
    <3> QED BY <1>0, <2>1, <3>1, <3>2 DEF Captured, Caller
  <2>3. CASE CpSetup
    <3>1. ring' = ring /\ 1 \in DOMAIN ring /\ Packets = ring[1]
      BY <1>0, <2>3, AtHead DEF CpSetup, At
    <3>2. stage' = "launch" => ~ring[1].stall
      BY <2>3, <3>1 DEF CpSetup
    <3>3. stage' # "indirect" /\ regs'.base = ring[1].base /\ regs'.tmp = ring[1].tmp
      BY <2>3, <3>1 DEF CpSetup
    <3> QED BY <1>0, <2>1, <3>1, <3>2, <3>3 DEF Captured, Caller
  <2>4. CASE CpWait
    <3>1. ring' = ring /\ stage' = "indirect" /\ Packets = ring[1] /\ done >= Packets.seq
          /\ ring[1].seq \in Nat
      BY <1>0, <1>a, <2>4, AtHead DEF CpWait, At
    <3>2. ring[1].seq <= done
      BY <1>a, <3>1
    <3> QED BY <1>0, <2>1, <3>1, <3>2 DEF Captured, Caller
  <2>5. CASE CpIndirect
    <3>1. ring' = ring /\ stage = "indirect" /\ stage' = "launch" /\ Packets = ring[1]
          /\ 1 \in DOMAIN ring
      BY <1>0, <2>5, AtHead DEF CpIndirect, At
    <3>2. ring[1].seq <= done /\ ring[1].stall
      BY <1>0, <3>1 DEF Captured, RingOrder
    <3>3. done > 0
      BY <1>0, <1>a, <3>1, <3>2 DEF RingOrder
    <3>4. ~(done < ready)
      BY <3>1, WhileWorking
    <3>5. ~Doomed => regs'.base = allocated.id /\ regs'.tmp = allocated.size
      <4> SUFFICES ASSUME ~Doomed PROVE regs'.base = allocated.id /\ regs'.tmp = allocated.size
        OBVIOUS
      <4>1. ib.base = allocated.id /\ ib.tmp = allocated.size /\ allocated.id \in Nat
        BY <1>0, <3>3, <3>4, CaughtUp DEF Types
      <4>2. ib # NoIndirect
        BY <4>1 DEF NoIndirect
      <4> QED BY <2>5, <4>1, <4>2 DEF CpIndirect
    <3> QED BY <1>0, <2>1, <3>1, <3>2, <3>5 DEF Captured, Caller
  <2>6. CASE CpRelease \/ FinishSome \/ EndOfPipe
    <3>1. ring' = ring /\ regs' = regs /\ (stage' = stage \/ stage' = "wait")
      BY <2>6 DEF CpRelease, FinishSome, Finish, EndOfPipe
    <3> QED BY <1>0, <2>1, <3>1 DEF Captured, Caller
  <2> QED BY <1>4, <2>2, <2>3, <2>4, <2>5, <2>6 DEF CommandProcessor
<1>5. CASE UNCHANGED vars
  BY <1>0, <1>5 DEF Captured, Doomed, vars
<1> QED BY <1>1, <1>2, <1>3, <1>4, <1>5 DEF Next

LEMMA RunsInRegionNext == ScratchInv /\ [Next]_vars => RunsInRegion'
<1> SUFFICES ASSUME ScratchInv, [Next]_vars PROVE RunsInRegion'
  OBVIOUS
<1>0. Types /\ HandlerOrder /\ Enough /\ Captured /\ RunsInRegion
  BY DEF ScratchInv
<1>a. done \in Nat /\ allocated.size \in Nat
  BY <1>0, Numbers DEF Types
<1>1. CASE CpLaunch
  <2>1. UNCHANGED <<allocated, error>> /\ stage = "launch" /\ Packets = ring[1]
        /\ running' = running \cup
             {[id |-> Packets.id, kernel |-> Packets.kernel, regs |-> regs,
                behind |-> Packets.stall /\ ~Packets.resize]}
        /\ 1 \in DOMAIN ring
    BY <1>0, <1>1, LaunchTakes DEF CpLaunch, At, context
  <2>2. ASSUME ring[1].kernel.need > 0, ~error
        PROVE  /\ regs.base = allocated.id /\ allocated.id # 0
               /\ regs.tmp = allocated.size /\ ring[1].kernel.need <= allocated.size
    <3>1. ~(done < ready)
      BY <2>1, WhileWorking
    <3>2. ~Doomed /\ Hand = 0 /\ Promised = perThread /\ perThread = allocated.size
          /\ (perThread > 0 => allocated.id # 0)
      BY <2>2, <3>1, CaughtUp
    <3>3. ring[1].seq <= done /\ regs.base = allocated.id /\ regs.tmp = allocated.size
      BY <1>0, <2>1, <2>2, <3>2 DEF Captured
    <3>4. ring[1].kernel \in Kernels /\ ring[1].seq \in Nat /\ ring[1].kernel.need \in Nat
      BY <1>0, <2>1, Numbers DEF AnyKernel
    <3>5. ring[1].kernel.need <= Promised
      <4>1. Wanted(ring[1].resize, ring[1].seq, ring[1].kernel)
        BY <1>0, <2>1 DEF Enough
      <4>2. ring[1].seq - done - 0 \notin DOMAIN requests
        <5>1. \A i \in DOMAIN requests : i >= 1
          BY <1>0 DEF Types
        <5> QED BY <1>a, <3>3, <3>4, <5>1
      <4> HIDE DEF Promised
      <4> QED BY <3>2, <4>1, <4>2 DEF Wanted, Served
    <3> QED BY <1>a, <2>2, <3>2, <3>3, <3>4, <3>5
  <2> QED BY <1>0, <2>1, <2>2 DEF RunsInRegion
<1>2. CASE HandlerStep \/ WakeForOther
  <2>1. running' = running
    BY <1>2, HandlerLeaves DEF device
  <2>2. CASE UNCHANGED <<context, done, ib>>
    BY <1>0, <2>1, <2>2 DEF RunsInRegion, context
  <2>3. CASE done < ready
    <3>1. running = {}
      BY <2>3, WhileWorking
    <3> QED BY <2>1, <3>1 DEF RunsInRegion
  <2> QED BY <1>2, <2>2, <2>3, LooksOrWorks
<1>3. CASE UNCHANGED context /\ running' \subseteq running
  BY <1>0, <1>3 DEF RunsInRegion, context
<1>4. ASSUME ~CpLaunch, ~(HandlerStep \/ WakeForOther)
      PROVE  UNCHANGED context /\ running' \subseteq running
  <2>1. CASE CommandProcessor \/ FinishSome \/ EndOfPipe
    <3>1. running' \subseteq running
      BY <1>4, <2>1 DEF CommandProcessor, CpSetup, CpRelease, CpWait, CpIndirect,
         FinishSome, Finish, EndOfPipe
    <3> QED BY <2>1, <3>1, DeviceLeaves
  <2>2. CASE UNCHANGED vars
    BY <2>2 DEF vars, context
  <2>3. CASE DispatchStep \/ \E k \in Kernels : Dispatch(k)
    BY <2>3, CallerLeaves
  <2> QED BY <1>4, <2>1, <2>2, <2>3 DEF Next
<1> QED BY <1>1, <1>2, <1>3, <1>4

-----------------------------------------------------------------------------
LEMMA ScratchInvInit == Init => ScratchInv
<1> SUFFICES ASSUME Init PROVE ScratchInv
  OBVIOUS
<1>1. MaxDispatches \in Nat
  BY ScratchAssumption DEF ScratchAssumption
<1>2. regs \in Regs
  BY DEF Init, Regs, Arg
<1>a. /\ pc = "idle" /\ kernel = Idle /\ mySeq = 0 /\ resize = FALSE
      /\ stall = FALSE /\ va = 0 /\ tmp = 0 /\ dispatches = 0 /\ lost = FALSE
      /\ seq = 0 /\ perThread = 0 /\ scratchVa = 0 /\ tmpring = 0 /\ error = FALSE
      /\ regions = 0 /\ ready = 0 /\ done = 0 /\ wpc = "idle" /\ req = Idle
      /\ event = FALSE /\ stage = "setup" /\ running = {} /\ launched = {}
  BY DEF Init
<1>b. /\ resize \in BOOLEAN /\ stall \in BOOLEAN /\ error \in BOOLEAN /\ event \in BOOLEAN
      /\ lost \in BOOLEAN
  BY <1>a
<1>c. launched \subseteq 1..MaxDispatches /\ running \subseteq Wave
  BY <1>a
<1>d. /\ dispatches \in 0..MaxDispatches /\ mySeq \in 0..MaxDispatches
      /\ seq \in 0..MaxDispatches /\ done \in 0..seq /\ ready \in 0..seq
      /\ va \in 0..regions
  BY <1>1, <1>a
<1>3. Types
  <2>1. TypeOK
    <3>1. ib.pos = 0
      BY DEF Init, NoIndirect
    <3>2. Len(requests) = 0 /\ allocated.id = 0
      BY DEF Init
    <3> QED BY <1>1, <1>a, <1>b, <1>c, <1>d, <3>1, <3>2 DEF TypeOK
  <2>2. ring \in Seq(Packet) /\ eop \in Seq(Entry) /\ requests \in Seq(Kernels)
    BY DEF Init
  <2>3. ib \in [base : Int, tmp : Nat, pos : Positions \cup {0}]
        /\ allocated \in [id : Nat, size : Nat]
    BY DEF Init, NoIndirect
  <2>4. resize \in BOOLEAN /\ stall \in BOOLEAN /\ va \in Nat /\ tmp \in Nat
        /\ dispatches \in 0..MaxDispatches /\ perThread \in Nat /\ tmpring \in Nat
        /\ regions \in Nat /\ scratchVa \in Nat /\ running \subseteq Wave
    BY <1>a, <1>b, <1>c, <1>d
  <2> QED BY <1>2, <2>1, <2>2, <2>3, <2>4 DEF Types
<1>4. Local /\ HandlerOrder /\ RingOrder /\ ReportUnderWay /\ QuietForHandler
  BY <1>1 DEF Init, Local, HandlerOrder, RequestsCounted, Hand, RingOrder, ReportUnderWay,
     QuietForHandler
<1>5. Words /\ Enough /\ Captured /\ RunsInRegion
  BY DEF Init, Words, Enough, Captured, RunsInRegion, Changing, Doomed, Promised, Hand
<1> QED BY <1>3, <1>4, <1>5 DEF ScratchInv

(* The counters stay within the bound, and the list with them.             *)
LEMMA CountersNext ==
  ASSUME ScratchInv, [Next]_vars
  PROVE  /\ seq' \in 0..MaxDispatches /\ done' \in 0..seq' /\ ready' \in 0..seq'
         /\ Len(requests') <= MaxDispatches /\ dispatches' \in 0..MaxDispatches
<1>0. Types
  BY DEF ScratchInv
<1>a. dispatches \in 0..MaxDispatches /\ MaxDispatches \in Nat
  BY <1>0, Numbers DEF Types
<1>1. dispatches' \in 0..MaxDispatches
  <2>1. CASE \E k \in Kernels : Dispatch(k)
    BY <1>a, <2>1 DEF Dispatch
  <2>2. CASE ~\E k \in Kernels : Dispatch(k)
    <3>1. dispatches' = dispatches
      BY <2>2, HandlerLeaves, DeviceLeaves DEF Next, vars, DispatchStep, ReadPerThread,
         PushRequest, PushFails, ReadDone, ReadVa, ReadTmpring, Submit, SubmitFails, Caller
    <3> QED BY <1>a, <3>1
  <2> QED BY <2>1, <2>2
<1>2. seq' \in Nat /\ done' \in Nat /\ requests' \in Seq(AnyKernel) /\ RequestsCounted'
  BY ListInvHolds, ListInvNext DEF ListInv
<1>3. seq' <= dispatches' /\ done' <= ready' /\ ready' <= seq'
  BY LocalNext, HandlerOrderNext DEF Local, HandlerOrder
<1>4. ready' \in Nat
  <2>1. ready \in Nat /\ (1 \in DOMAIN ring => ring[1].seq \in Nat)
    BY <1>0, Numbers
  <2>2. CASE EndOfPipe
    BY <1>0, <2>1, <2>2, ReportArrives, AtHead
  <2>3. CASE ~EndOfPipe
    BY <2>1, <2>3, HandlerLeaves, DeviceReady, CallerLeaves DEF Next, vars
  <2> QED BY <2>2, <2>3
<1>5. Len(requests') <= seq'
  BY <1>2 DEF RequestsCounted
<1>6. Len(requests') \in Nat
  BY <1>2
<1> QED BY <1>a, <1>1, <1>2, <1>3, <1>4, <1>5, <1>6

LEMMA TypesNext == ScratchInv /\ [Next]_vars => Types'
<1> SUFFICES ASSUME ScratchInv, [Next]_vars PROVE Types'
  OBVIOUS
<1>0. Types /\ Local
  BY DEF ScratchInv
<1>a. Types /\ TypeOK /\ MaxDispatches \in Nat /\ Kernels \subseteq AnyKernel
      /\ \A k \in Kernels : k.need \in Nat /\ k.pos \in Positions \cup {0}
  BY <1>0, Numbers, ScratchAssumption DEF Types, AnyKernel, ScratchAssumption
<1>b. /\ seq' \in 0..MaxDispatches /\ done' \in 0..seq' /\ ready' \in 0..seq'
      /\ Len(requests') <= MaxDispatches /\ dispatches' \in 0..MaxDispatches
  BY CountersNext
<1>1. CASE DispatchStep \/ \E k \in Kernels : Dispatch(k)
  <2>1. /\ UNCHANGED context /\ UNCHANGED handler
        /\ UNCHANGED <<done, ready, ib, event, stage, regs, eop, running, launched>>
    BY <1>1, CallerLeaves
  <2>2. ring' \in Seq(Packet)
    <3>1. CASE Submit
      BY <1>0, <3>1, SubmitAppends
    <3>2. CASE ~Submit
      BY <1>1, <1>a, <3>2 DEF DispatchStep, Dispatch, ReadPerThread, PushRequest, PushFails,
         ReadDone, ReadVa, ReadTmpring, SubmitFails, device, Types
    <3> QED BY <3>1, <3>2
  <2>3. requests' \in Seq(Kernels)
    <3>1. CASE PushRequest
      BY <1>0, <3>1 DEF PushRequest, Local, Types
    <3>2. CASE ~PushRequest
      BY <1>1, <1>a, <3>2 DEF DispatchStep, Dispatch, ReadPerThread, PushFails, Submit,
         ReadDone, ReadVa, ReadTmpring, SubmitFails, device, Types
    <3> QED BY <3>1, <3>2
  <2>4. /\ pc' \in {"idle", "per", "push", "done", "va", "tmpring", "submit"}
        /\ kernel' \in Kernels \cup {Idle}
        /\ lost' \in BOOLEAN /\ resize' \in BOOLEAN
    BY <1>1, <1>a DEF DispatchStep, Dispatch, ReadPerThread, PushRequest, PushFails, Submit,
       ReadDone, ReadVa, ReadTmpring, SubmitFails, Types, TypeOK
  <2>5. mySeq' \in 0..MaxDispatches
    BY <1>1, <1>a, <1>b DEF DispatchStep, Dispatch, ReadPerThread, PushRequest, PushFails,
       Submit, ReadDone, ReadVa, ReadTmpring, SubmitFails, TypeOK
  <2>6. stall' \in BOOLEAN
    <3>1. NeedsStall \in BOOLEAN
      BY DEF NeedsStall
    <3> QED BY <1>1, <1>a, <3>1 DEF DispatchStep, Dispatch, ReadPerThread, PushRequest,
       PushFails, Submit, ReadDone, ReadVa, ReadTmpring, SubmitFails, Types
  <2>7. va' \in 0..regions /\ va' \in Nat /\ tmp' \in Nat
    <3>1. scratchVa \in 0..regions
      BY <1>a DEF Types, TypeOK
    <3> QED BY <1>1, <1>a, <3>1 DEF DispatchStep, Dispatch, ReadPerThread, PushRequest,
       PushFails, Submit, ReadDone, ReadVa, ReadTmpring, SubmitFails, Types, TypeOK
  <2>8. TypeOK'
    BY <1>a, <1>b, <2>1, <2>4, <2>5, <2>7 DEF TypeOK, context, handler
  <2> QED BY <1>a, <1>b, <2>1, <2>2, <2>3, <2>4, <2>6, <2>7, <2>8
             DEF Types, context, handler
<1>2. CASE HandlerStep \/ WakeForOther
  <2>1. UNCHANGED Caller /\ UNCHANGED device /\ UNCHANGED lost
    <3>1. UNCHANGED lost
      BY <1>2 DEF HandlerStep, WakeForOther, Wake, HandlerBegin, PopRequest, FreeOld,
       ClearTmpring, ClearPerThread, Allocate, AllocateFails, SetTmpring,
       SetPerThread, SetError, BuildIndirect, StoreDone, locals
    <3> QED BY <1>2, <3>1, HandlerLeaves
  <2>2. req' \in Kernels \cup {Idle} /\ requests' \in Seq(Kernels)
        /\ wpc' \in {"idle", "begin", "pop", "free", "zerotmp", "zeroper", "alloc",
                     "settmp", "setper", "fail", "build", "done"}
    <3>1. CASE PopRequest /\ requests # <<>>
      BY <1>0, <3>1, PopTakes
    <3>2. CASE PopRequest /\ requests = <<>>
      BY <1>a, <3>2 DEF PopRequest, Types, TypeOK
    <3>3. CASE ~PopRequest
      BY <1>2, <1>a, <3>3 DEF HandlerStep, WakeForOther, Wake, HandlerBegin, FreeOld,
       ClearTmpring, ClearPerThread, Allocate, AllocateFails, SetTmpring,
       SetPerThread, SetError, BuildIndirect, StoreDone, Types, TypeOK
    <3> QED BY <3>1, <3>2, <3>3
  <2>3. req \in AnyKernel /\ req.need \in Nat /\ req.pos \in Positions \cup {0}
    <3>1. req \in Kernels \cup {Idle}
      BY <1>a DEF TypeOK
    <3> QED BY <1>a, <3>1 DEF Idle, AnyKernel
  <2>4. event' \in BOOLEAN /\ error' \in BOOLEAN
    BY <1>2, <1>a DEF HandlerStep, WakeForOther, Wake, HandlerBegin, PopRequest, FreeOld,
       ClearTmpring, ClearPerThread, Allocate, AllocateFails, SetTmpring,
       SetPerThread, SetError, BuildIndirect, StoreDone, TypeOK, context
  <2>5. perThread' \in Nat /\ tmpring' \in Nat
    <3>1. perThread' \in Nat
      BY ListInvHolds, ListInvNext DEF ListInv
    <3>2. CASE ClearTmpring \/ SetTmpring
      BY <2>3, <3>1, <3>2 DEF ClearTmpring, SetTmpring
    <3>3. CASE ~ClearTmpring /\ ~SetTmpring
      <4>1. tmpring' = tmpring
        BY <1>2, <3>3 DEF HandlerStep, WakeForOther, Wake, HandlerBegin, PopRequest,
           FreeOld, ClearPerThread, Allocate, AllocateFails, SetPerThread, SetError,
           BuildIndirect, StoreDone, context
      <4> QED BY <1>a, <3>1, <4>1 DEF Types
    <3> QED BY <3>1, <3>2, <3>3
  <2>6. /\ allocated' \in [id : Nat, size : Nat] /\ regions' \in Nat /\ scratchVa' \in Nat
        /\ scratchVa' \in {0, allocated'.id} /\ allocated'.id \in {0, regions'}
        /\ regions <= regions'
    <3>1. CASE FreeOld
      BY <1>a, <3>1 DEF FreeOld, Types
    <3>2. CASE Allocate
      <4>1. allocated' = [id |-> regions + 1, size |-> req.need] /\ regions' = regions + 1
            /\ scratchVa' = regions + 1 /\ regions \in Nat
        BY <1>a, <3>2 DEF Allocate, Types
      <4> QED BY <2>3, <4>1
    <3>3. CASE ~FreeOld /\ ~Allocate
      <4>1. UNCHANGED <<allocated, regions, scratchVa>>
        BY <1>2, <3>3 DEF HandlerStep, WakeForOther, Wake, HandlerBegin, PopRequest,
           ClearTmpring, ClearPerThread, AllocateFails, SetTmpring, SetPerThread, SetError,
           BuildIndirect, StoreDone, context
      <4> QED BY <1>a, <4>1 DEF Types, TypeOK
    <3> QED BY <3>1, <3>2, <3>3
  <2>7. ib' \in [base : Int, tmp : Nat, pos : Positions \cup {0}]
    BY <1>2, <1>a, <2>3 DEF HandlerStep, WakeForOther, Wake, HandlerBegin, PopRequest,
       FreeOld, ClearTmpring, ClearPerThread, Allocate, AllocateFails, SetTmpring,
       SetPerThread, SetError, BuildIndirect, StoreDone, Types, Indirect, NoIndirect
  <2>8. TypeOK'
    BY <1>a, <1>b, <2>1, <2>2, <2>4, <2>6, <2>7 DEF TypeOK, Types, Caller, device
  <2> QED BY <1>a, <1>b, <2>1, <2>2, <2>4, <2>5, <2>6, <2>7, <2>8 DEF Types, Caller, device
<1>3. CASE CommandProcessor \/ FinishSome \/ EndOfPipe
  <2>1. UNCHANGED Caller /\ UNCHANGED context /\ UNCHANGED handler
        /\ UNCHANGED <<requests, done, ib, lost>>
    <3>1. UNCHANGED lost
      BY <1>3 DEF CommandProcessor, FinishSome, CpSetup, CpRelease, CpWait, CpIndirect,
         CpLaunch, Finish, EndOfPipe, locals
    <3> QED BY <1>3, <3>1, DeviceLeaves
  <2>2. ring' \in Seq(Packet)
    <3>1. CASE CpLaunch
      BY <1>0, <3>1, LaunchTakes
    <3>2. CASE ~CpLaunch
      BY <1>3, <1>a, <3>2, DeviceRing DEF CommandProcessor, Types
    <3> QED BY <3>1, <3>2
  <2>3. ring # <<>> => /\ Packets = ring[1] /\ Packets \in Packet
                       /\ Packets.seq \in Nat /\ Packets.base \in Nat /\ Packets.tmp \in Nat
                       /\ Packets.kernel \in Kernels /\ Packets.id \in 1..MaxDispatches
                       /\ Packets.kernel.pos \in Nat
                       /\ Packets.stall \in BOOLEAN /\ Packets.resize \in BOOLEAN
    <3>1. ring # <<>> => Packets = ring[1] /\ Packets \in Packet
      BY <1>0, AtHead
    <3> QED BY <1>a, <3>1 DEF Packet, AnyKernel
  <2>4. eop' \in Seq(Entry)
    <3>1. CASE CpRelease
      <4> DEFINE e1 == [op |-> "ready", seq |-> Packets.seq, after |-> Earlier]
                 e2 == [op |-> "event", seq |-> Packets.seq, after |-> Earlier]
      <4>1. Earlier \in SUBSET Nat
        BY <1>a DEF Earlier, Types, Wave
      <4>2. Packets.seq \in Nat
        BY <2>3, <3>1 DEF CpRelease, At
      <4>3. e1 \in Entry /\ e2 \in Entry
        BY <4>1, <4>2 DEF Entry
      <4>4. eop' = eop \o <<e1, e2>> /\ eop \in Seq(Entry)
        BY <1>a, <3>1 DEF CpRelease, Types
      <4> HIDE DEF e1, e2
      <4> QED BY <4>3, <4>4
    <3>2. CASE EndOfPipe
      BY <1>a, <3>2 DEF EndOfPipe, Types
    <3>3. CASE eop' = eop
      BY <1>a, <3>3 DEF Types
    <3> QED BY <1>3, <3>1, <3>2, <3>3 DEF CommandProcessor, CpSetup, CpWait, CpIndirect,
               CpLaunch, FinishSome, Finish
  <2>5. regs' \in Regs
    <3>1. regs \in Regs
      BY <1>a DEF Types
    <3>2. CASE CpSetup
      <4>1. Packets.base \in Nat /\ Packets.tmp \in Nat /\ Packets.kernel.pos \in Nat
        BY <2>3, <3>2 DEF CpSetup, At
      <4> DEFINE u == [i \in Positions |-> IF i = Packets.kernel.pos THEN Packets.base ELSE Arg]
      <4>2. u \in [Positions -> Int]
        BY <4>1 DEF Arg
      <4>3. regs' = [base |-> Packets.base, tmp |-> Packets.tmp, user |-> u,
                     laid |-> Packets.kernel.pos]
        BY <3>2 DEF CpSetup
      <4> HIDE DEF u
      <4> QED BY <4>1, <4>2, <4>3 DEF Regs
    <3>3. CASE CpIndirect
      <4>1. ib.base \in Int /\ ib.tmp \in Nat /\ regs.user \in [Positions -> Int]
            /\ ib.pos \in Nat
        <5>1. ib.pos \in Positions \cup {0} /\ Positions \cup {0} \subseteq Nat
          BY <1>a, ScratchAssumption DEF Types, ScratchAssumption
        <5>2. ib.pos \in Nat
          BY <5>1
        <5> QED BY <1>a, <3>1, <5>2 DEF Types, Regs
      <4> DEFINE u == [i \in Positions |-> IF i = ib.pos THEN ib.base ELSE regs.user[i]]
      <4>2. u \in [Positions -> Int]
        BY <4>1
      <4>3. regs' = regs \/ regs' = [base |-> ib.base, tmp |-> ib.tmp, user |-> u,
                                     laid |-> ib.pos]
        BY <3>3 DEF CpIndirect
      <4> HIDE DEF u
      <4> QED BY <3>1, <4>1, <4>2, <4>3 DEF Regs
    <3>4. CASE regs' = regs
      BY <3>1, <3>4
    <3> QED BY <1>3, <3>2, <3>3, <3>4 DEF CommandProcessor, CpRelease, CpWait, CpLaunch,
               FinishSome, Finish, EndOfPipe
  <2>6. running' \subseteq Wave /\ launched' \subseteq 1..MaxDispatches
    <3>1. CASE CpLaunch
      <4>1. Packets.kernel \in Kernels /\ Packets.id \in 1..MaxDispatches
        BY <2>3, <3>1 DEF CpLaunch, At
      <4>2. [id |-> Packets.id, kernel |-> Packets.kernel, regs |-> regs,
             behind |-> Packets.stall /\ ~Packets.resize] \in Wave
        BY <1>a, <4>1 DEF Wave, Types
      <4> QED BY <1>a, <3>1, <4>1, <4>2 DEF CpLaunch, Types, TypeOK
    <3>2. CASE ~CpLaunch
      <4>1. running' \subseteq running /\ launched' = launched
        BY <1>3, <3>2 DEF CommandProcessor, CpSetup, CpRelease, CpWait, CpIndirect,
           FinishSome, Finish, EndOfPipe
      <4> QED BY <1>a, <4>1 DEF Types, TypeOK
    <3> QED BY <3>1, <3>2
  <2>7. stage' \in {"setup", "release", "wait", "indirect", "launch"} /\ event' \in BOOLEAN
    BY <1>3, <1>a DEF CommandProcessor, FinishSome, CpSetup, CpRelease, CpWait, CpIndirect,
       CpLaunch, Finish, EndOfPipe, TypeOK
  <2>8. TypeOK'
    BY <1>a, <1>b, <2>1, <2>6, <2>7 DEF TypeOK, Caller, context, handler
  <2> QED BY <1>a, <2>1, <2>2, <2>4, <2>5, <2>6, <2>8 DEF Types, Caller, context
<1>4. CASE UNCHANGED vars
  BY <1>a, <1>4 DEF Types, TypeOK, vars
<1> QED BY <1>1, <1>2, <1>3, <1>4 DEF Next

LEMMA ScratchInvNext == ScratchInv /\ [Next]_vars => ScratchInv'
BY TypesNext, LocalNext, HandlerOrderNext, RingOrderNext, ReportUnderWayNext,
   QuietForHandlerNext, WordsNext, EnoughNext, CapturedNext, RunsInRegionNext
   DEF ScratchInv

LEMMA ScratchInvServes == ScratchInv => Inv
<1> SUFFICES ASSUME ScratchInv PROVE Inv
  OBVIOUS
<1>1. TypeOK /\ RunsInRegion /\ RequestsCounted
  BY DEF ScratchInv, Types, HandlerOrder
<1>2. allocated.size \in Nat
  BY DEF ScratchInv, Types
<1> QED BY <1>1, <1>2 DEF Inv, RunsInScratch, Fits, UsesScratch, RunsInRegion

(* dispatch() and scratch_handler() (queue.cpp:646 and :230) never take a  *)
(* region from under a kernel that runs in it, and never launch a kernel   *)
(* with words of two regions or with less scratch than it needs, however   *)
(* the dispatches, the watcher and the device interleave, until an         *)
(* allocation has failed; and the list holds exactly the requests that are *)
(* not answered, so that the one the handler pops for scratch_done + 1 is  *)
(* the one dispatch() numbered so.                                         *)
THEOREM ScratchServesRunning == Spec => []Inv
BY ScratchInvInit, ScratchInvNext, ScratchInvServes, PTL DEF Spec

-----------------------------------------------------------------------------
(* The user SGPRs.  A dispatch that made a request carries its number      *)
(* through the ring, and the CP executes the indirect buffer when that     *)
(* number, and no later one, is answered: the buffer then has the layout   *)
(* of that request (Answered).                                             *)
Built(pos) == ib = NoIndirect \/ ib.pos = pos

Answered ==
  /\ wpc = "fail" => ib = NoIndirect
  /\ wpc = "done" => Built(req.pos)
  /\ \A i \in DOMAIN ring :
       ring[i].resize /\ ring[i].seq = done => Built(ring[i].kernel.pos)

LayoutOf(r, k) ==
  /\ r.laid = k.pos
  /\ \A i \in Positions : r.user[i] = IF i = k.pos THEN r.base ELSE Arg

(* The registers suit the dispatch, or it waited behind another's request  *)
(* whose kernel has another layout.                                        *)
Suits(r, packet) ==
  \/ LayoutOf(r, packet.kernel)
  \/ packet.stall /\ ~packet.resize /\ r.laid # packet.kernel.pos

SgprInv ==
  /\ Answered
  /\ stage \in {"release", "wait", "indirect"} => LayoutOf(regs, ring[1].kernel)
  /\ stage = "launch" => Suits(regs, ring[1])
  /\ \A w \in running : LayoutOf(w.regs, w.kernel) \/ (w.behind /\ w.regs.laid # w.kernel.pos)

LEMMA AnsweredNext == ASSUME ScratchInv, Answered, [Next]_vars PROVE Answered'
<1> USE DEF Answered, Built
<1>0. Types /\ HandlerOrder /\ RingOrder /\ Enough
  BY DEF ScratchInv
<1>a. done \in Nat /\ ready \in Nat /\ \A i \in DOMAIN ring : ring[i].seq \in Nat
  BY <1>0, Numbers
<1>1. CASE BuildIndirect \/ AllocateFails
  <2>1. done < ready /\ \A i \in DOMAIN ring : ready <= ring[i].seq
    BY <1>0, <1>1 DEF BuildIndirect, AllocateFails, HandlerOrder, RingOrder
  <2>2. \A i \in DOMAIN ring : ring[i].seq # done
    BY <1>a, <2>1
  <2> QED BY <1>1, <2>2 DEF BuildIndirect, AllocateFails, Indirect, device, context
<1>2. CASE StoreDone
  <2>1. Hand = 1 /\ Built(req.pos) /\ UNCHANGED <<ib, ring>> /\ done' = done + 1
        /\ wpc' = "idle"
    BY <1>2 DEF StoreDone, Hand, device
  <2>2. ASSUME NEW i \in DOMAIN ring, ring[i].resize, ring[i].seq = done + 1
        PROVE  Built(ring[i].kernel.pos)
    <3>1. Served(done + 1, ring[i].kernel)
      BY <1>0, <2>2 DEF Enough, Wanted
    <3>2. (done + 1) - done - Hand = 0 /\ ~(done + 1 <= done)
      BY <1>a, <2>1
    <3>3. 0 \notin DOMAIN requests
      BY <1>0 DEF Types
    <3>4. req = ring[i].kernel
      BY <3>1, <3>2, <3>3 DEF Served
    <3> QED BY <2>1, <3>4
  <2> QED BY <2>1, <2>2
<1>3. CASE Submit
  <2>1. /\ DOMAIN ring' = 1 .. (Len(ring) + 1)
        /\ \A i \in DOMAIN ring : ring'[i] = ring[i]
        /\ ring'[Len(ring) + 1].seq = mySeq /\ ring'[Len(ring) + 1].resize = resize
    BY <1>0, <1>3, SubmitAppends DEF ScratchInv
  <2>2. resize => mySeq # done
    <3>1. resize => ready < mySeq
      BY <1>3 DEF ScratchInv, Local, Submit
    <3>2. mySeq \in Nat /\ done <= ready
      BY <1>0, Numbers DEF HandlerOrder
    <3> QED BY <1>a, <3>1, <3>2
  <2>3. DOMAIN ring = 1 .. Len(ring) /\ Len(ring) \in Nat
    BY <1>0 DEF Types
  <2>4. UNCHANGED <<wpc, req, ib, done>>
    BY <1>3 DEF Submit, handler
  <2>5. \A i \in DOMAIN ring' : i \in DOMAIN ring \/ i = Len(ring) + 1
    BY <2>1, <2>3
  <2> QED BY <2>1, <2>2, <2>4, <2>5
<1>4. CASE CpLaunch
  <2>1. \A i \in DOMAIN ring' : i + 1 \in DOMAIN ring /\ ring'[i] = ring[i + 1]
    BY <1>0, <1>4, LaunchTakes
  <2>2. UNCHANGED <<wpc, req, ib, done>>
    BY <1>4 DEF CpLaunch, handler
  <2> QED BY <2>1, <2>2
<1>5. CASE CpSetup \/ CpRelease \/ CpWait \/ CpIndirect \/ FinishSome \/ EndOfPipe
  BY <1>5, DeviceRing, DeviceLeaves DEF CommandProcessor, handler
<1>6. CASE HandlerStep /\ ~BuildIndirect /\ ~AllocateFails /\ ~StoreDone
  <2>1. UNCHANGED <<ib, done, ring>>
    BY <1>6, HandlerLeaves DEF HandlerStep, Wake, HandlerBegin, PopRequest, FreeOld,
       ClearTmpring, ClearPerThread, Allocate, SetTmpring, SetPerThread, SetError, device
  <2>2. wpc' # "fail" /\ (wpc' = "done" => wpc = "fail")
    <3>1. CASE PopRequest /\ requests # <<>>
      BY <1>0, <3>1, PopTakes
    <3>2. CASE PopRequest /\ requests = <<>>
      BY <3>2 DEF PopRequest
    <3>3. CASE ~PopRequest
      BY <1>6, <3>3 DEF HandlerStep, Wake, HandlerBegin, FreeOld, ClearTmpring,
         ClearPerThread, Allocate, SetTmpring, SetPerThread, SetError
    <3> QED BY <3>1, <3>2, <3>3
  <2> QED BY <2>1, <2>2
<1>7. CASE WakeForOther \/ UNCHANGED vars
  BY <1>7 DEF WakeForOther, vars, device
<1>8. CASE (DispatchStep /\ ~Submit) \/ \E k \in Kernels : Dispatch(k)
  BY <1>8 DEF DispatchStep, Dispatch, ReadPerThread, PushRequest, PushFails, ReadDone,
     ReadVa, ReadTmpring, SubmitFails, handler, device
<1> QED BY <1>1, <1>2, <1>3, <1>4, <1>5, <1>6, <1>7, <1>8 DEF Next, CommandProcessor

LEMMA SgprInvNext ==
  ASSUME ScratchInv, SgprInv, [Next]_vars
  PROVE  SgprInv'
<1>0. Types /\ RingOrder /\ Captured
  BY DEF ScratchInv
<1>a. /\ done \in Nat /\ ready \in Nat
      /\ \A i \in DOMAIN ring : ring[i].kernel \in Kernels /\ ring[i].seq \in Nat
  BY <1>0, Numbers
<1>1. Answered'
  BY AnsweredNext DEF SgprInv
<1>2. CASE CpSetup
  <2>1. ring' = ring /\ running' = running /\ ring # <<>> /\ Packets = ring[1]
    BY <1>0, <1>2, AtHead DEF CpSetup, At
  <2>2. LayoutOf(regs', ring[1].kernel)
    BY <1>2, <2>1 DEF CpSetup, LayoutOf
  <2> QED BY <1>1, <2>1, <2>2 DEF SgprInv, Suits
<1>3. CASE CpIndirect
  <2>1. /\ ring' = ring /\ running' = running /\ Packets = ring[1] /\ 1 \in DOMAIN ring
        /\ stage = "indirect" /\ stage' = "launch"
    BY <1>0, <1>3, AtHead DEF CpIndirect, At
  <2>2. LayoutOf(regs, ring[1].kernel)
    BY <2>1 DEF SgprInv
  <2>3. CASE ib = NoIndirect
    <3>1. regs' = regs
      BY <1>3, <2>3 DEF CpIndirect
    <3> QED BY <1>1, <2>1, <2>2, <3>1 DEF SgprInv, Suits
  <2>4. CASE ib # NoIndirect
    <3>1. regs' = [base |-> ib.base, tmp |-> ib.tmp,
                   user |-> [i \in Positions |->
                               IF i = ib.pos THEN ib.base ELSE regs.user[i]],
                   laid |-> ib.pos]
      BY <1>3, <2>4 DEF CpIndirect
    <3>2. CASE ib.pos = ring[1].kernel.pos
      <4>1. LayoutOf(regs', ring[1].kernel)
        BY <2>2, <3>1, <3>2 DEF LayoutOf
      <4> QED BY <1>1, <2>1, <4>1 DEF SgprInv, Suits
    <3>3. CASE ib.pos # ring[1].kernel.pos
      <4>1. ring[1].stall /\ ring[1].seq <= done
        BY <1>0, <2>1 DEF RingOrder, Captured
      <4>2. done <= ready /\ ready <= ring[1].seq
        BY <1>0, <2>1 DEF ScratchInv, HandlerOrder, RingOrder
      <4>3. ring[1].seq = done
        BY <1>a, <2>1, <4>1, <4>2
      <4>4. ~ring[1].resize
        BY <2>1, <2>4, <3>3, <4>3 DEF SgprInv, Answered, Built
      <4>5. regs'.laid # ring[1].kernel.pos
        BY <3>1, <3>3
      <4> QED BY <1>1, <2>1, <4>1, <4>4, <4>5 DEF SgprInv, Suits
    <3> QED BY <3>2, <3>3
  <2> QED BY <2>3, <2>4
<1>4. CASE CpLaunch
  <2>1. Packets = ring[1] /\ 1 \in DOMAIN ring /\ stage = "launch" /\ stage' = "setup"
    BY <1>0, <1>4, LaunchTakes DEF CpLaunch, At
  <2>2. Suits(regs, ring[1])
    BY <2>1 DEF SgprInv
  <2>3. ASSUME NEW w \in running'
        PROVE  LayoutOf(w.regs, w.kernel) \/ (w.behind /\ w.regs.laid # w.kernel.pos)
    <3>1. CASE w \in running
      BY <3>1 DEF SgprInv
    <3>2. CASE w \notin running
      <4>1. w = [id |-> Packets.id, kernel |-> Packets.kernel, regs |-> regs,
                 behind |-> Packets.stall /\ ~Packets.resize]
        BY <1>4, <2>3, <3>2 DEF CpLaunch
      <4>2. /\ w.regs = regs /\ w.kernel = ring[1].kernel
            /\ w.behind = (ring[1].stall /\ ~ring[1].resize)
        BY <2>1, <4>1
      <4> QED BY <2>2, <4>2 DEF Suits
    <3> QED BY <3>1, <3>2
  <2> QED BY <1>1, <2>1, <2>3 DEF SgprInv
<1>5. CASE Submit
  <2>1. UNCHANGED <<stage, regs, running>>
    BY <1>5 DEF Submit
  <2>2. stage # "setup" => ring'[1] = ring[1]
    BY <1>0, <1>5, SubmitAppends DEF ScratchInv, RingOrder
  <2>3. stage' \in {"release", "wait", "indirect"} => LayoutOf(regs', ring'[1].kernel)
    BY <2>1, <2>2 DEF SgprInv
  <2>4. stage' = "launch" => Suits(regs', ring'[1])
    BY <2>1, <2>2 DEF SgprInv
  <2> QED BY <1>1, <2>1, <2>3, <2>4 DEF SgprInv
<1>6. CASE ~CpSetup /\ ~CpIndirect /\ ~Submit /\ ~CpLaunch
  <2>1. UNCHANGED <<ring, regs>> /\ running' \subseteq running
    BY <1>6, HandlerLeaves, CallerLeaves DEF Next, vars, device, CommandProcessor,
       CpRelease, CpWait, FinishSome, Finish, EndOfPipe, DispatchStep, Dispatch,
       ReadPerThread, PushRequest, PushFails, ReadDone, ReadVa, ReadTmpring, SubmitFails
  <2>2. \/ stage' = stage
        \/ stage \in {"release", "wait"} /\ stage' \in {"wait", "indirect"}
    BY <1>6, HandlerLeaves, CallerLeaves DEF Next, vars, device, CommandProcessor,
       CpRelease, CpWait, At, FinishSome, Finish, EndOfPipe
  <2>3. stage' \in {"release", "wait", "indirect"} => LayoutOf(regs', ring'[1].kernel)
    BY <2>1, <2>2 DEF SgprInv
  <2>4. stage' = "launch" => Suits(regs', ring'[1])
    BY <2>1, <2>2 DEF SgprInv
  <2> QED BY <1>1, <2>1, <2>3, <2>4 DEF SgprInv
<1> QED BY <1>2, <1>3, <1>4, <1>5, <1>6

(* queue.cpp:105, :286: a kernel that did not wait, or waited for its own  *)
(* request, has the scratch base in the user SGPR it asks for and its own  *)
(* arguments in the others, whatever the layouts of the queue's kernels.   *)
THEOREM SgprsOfOwnRequest == Spec => []UserSgprsMatch
<1>1. Init => SgprInv
  BY DEF Init, SgprInv, Answered
<1>2. ScratchInv /\ SgprInv /\ [Next]_vars => SgprInv'
  BY SgprInvNext
<1>3. SgprInv => UserSgprsMatch
  BY DEF SgprInv, UserSgprsMatch, SgprsRight, LayoutOf
<1> QED BY <1>1, <1>2, <1>3, ScratchInvInit, ScratchInvNext, PTL DEF Spec

-----------------------------------------------------------------------------
(***************************************************************************)
(* The size of the region, in module ScratchSizing: the slots the hardware *)
(* may use lie inside the region, and none of the region is wasted, on any *)
(* device of one partition.                                                *)
(***************************************************************************)
LEMMA LeastExists ==
  ASSUME NEW T, T \subseteq Nat, T # {}
  PROVE  \E x \in T : \A y \in T : x <= y
<1>1. PICK x \in T : \A y \in T : ~(<<y, x>> \in OpToRel(<, Nat))
  <2>1. \E x \in T : \A y \in T : ~(<<y, x>> \in OpToRel(<, Nat))
    BY NatLessThanWellFounded, WFMin
  <2> QED BY <2>1
<1>2. ASSUME NEW y \in T PROVE x <= y
  <2> SUFFICES ASSUME ~(x <= y) PROVE FALSE
    OBVIOUS
  <2>1. y < x /\ x \in Nat /\ y \in Nat
    OBVIOUS
  <2>2. <<y, x>> \in OpToRel(<, Nat)
    BY <2>1 DEF OpToRel
  <2> QED BY <1>1, <2>2
<1> QED BY <1>2

LEMMA GreatestExists ==
  ASSUME NEW m \in Nat, NEW T, T \subseteq 0..m, T # {}
  PROVE  Max(T) \in T /\ \A y \in T : y <= Max(T)
<1> DEFINE below == {m - y : y \in T}
<1>1. below \subseteq Nat /\ below # {}
  <2>1. \A y \in T : y \in 0..m
    OBVIOUS
  <2>2. \A y \in T : m - y \in Nat
    BY <2>1
  <2>3. PICK y \in T : TRUE
    OBVIOUS
  <2>4. m - y \in below
    OBVIOUS
  <2> QED BY <2>2, <2>4
<1>2. PICK d \in below : \A y \in below : d <= y
  BY <1>1, LeastExists
<1>3. PICK x \in T : d = m - x
  OBVIOUS
<1>4. \A y \in T : x >= y
  <2>1. ASSUME NEW y \in T PROVE x >= y
    <3>1. m - y \in below
      OBVIOUS
    <3>2. m - x <= m - y
      BY <1>2, <1>3, <3>1
    <3> QED BY <3>2
  <2> QED BY <2>1
<1> QED BY <1>4 DEF Max

-----------------------------------------------------------------------------
(* Products and quotients.                                                 *)
LEMMA Times ==
  ASSUME NEW a \in Nat, NEW b \in Nat, a <= b, NEW c \in Nat
  PROVE  a * c <= b * c /\ a * c \in Nat
<1>1. PICK d \in Nat : b = a + d
  BY b - a \in Nat
<1>2. d * c \in Nat /\ b * c = a * c + d * c /\ a * c \in Nat
  BY <1>1
<1> QED BY <1>2

LEMMA Quotient ==
  ASSUME NEW a \in Nat, NEW c \in Nat \ {0}
  PROVE  a \div c \in Nat /\ (a \div c) * c <= a /\ a < (a \div c) * c + c
<1>1. /\ a % c \in 0..(c - 1) /\ a \div c \in Int
      /\ a = c * (a \div c) + (a % c)
  OBVIOUS
<1> DEFINE q == a \div c
<1>2. q \in Nat
  <2>1. SUFFICES ASSUME q <= -1 PROVE FALSE
    BY <1>1
  <2>2. c * q <= -c
    <3>1. -1 - q \in Nat
      BY <1>1, <2>1
    <3>2. c * (-1 - q) \in Nat
      BY <3>1
    <3>3. c * (-1 - q) = -c - c * q
      BY <1>1
    <3> QED BY <1>1, <3>2, <3>3
  <2> QED BY <1>1, <2>2
<1>3. q * c = c * q /\ q * c \in Nat
  BY <1>2
<1> QED BY <1>1, <1>2, <1>3

LEMMA Remainder ==
  ASSUME NEW a \in Nat, NEW c \in Nat \ {0}
  PROVE  a % c \in Nat /\ a % c <= a
<1>1. a % c \in 0..(c - 1) /\ a = c * (a \div c) + (a % c)
  OBVIOUS
<1>2. a \div c \in Nat
  BY Quotient
<1>3. c * (a \div c) \in Nat
  BY <1>2
<1> QED BY <1>1, <1>3

LEMMA QuotientAtLeast ==
  ASSUME NEW a \in Nat, NEW c \in Nat \ {0}, NEW q \in Nat, q * c <= a
  PROVE  q <= a \div c
<1> DEFINE r == a \div c
<1>1. r \in Nat /\ a < r * c + c
  BY Quotient
<1>2. SUFFICES ASSUME r + 1 <= q PROVE FALSE
  BY <1>1
<1>3. (r + 1) * c <= q * c
  BY <1>1, <1>2, Times
<1>4. (r + 1) * c = r * c + c /\ r * c \in Nat /\ q * c \in Nat
  BY <1>1
<1> QED BY <1>1, <1>3, <1>4

LEMMA QuotientMonotone ==
  ASSUME NEW a \in Nat, NEW b \in Nat, a <= b, NEW c \in Nat \ {0}
  PROVE  a \div c <= b \div c
<1>1. a \div c \in Nat /\ (a \div c) * c <= a
  BY Quotient
<1>2. (a \div c) * c \in Nat
  BY <1>1
<1>3. (a \div c) * c <= b
  BY <1>1, <1>2
<1> QED BY <1>1, <1>3, QuotientAtLeast

-----------------------------------------------------------------------------
(* align_up() returns at least its argument and adds less than the         *)
(* alignment; nothing to 0.                                                *)
LEMMA Masked ==
  ASSUME NEW x \in Nat, NEW m \in Nat
  PROVE  And(x, m) \in 0..m /\ And(m, m) = m
<1> DEFINE T(y) == {0} \cup {z \in 1..m : \A b \in Powers :
                               HasBit(z, b) => HasBit(y, b) /\ HasBit(m, b)}
<1>1. And(x, m) = Max(T(x)) /\ And(m, m) = Max(T(m))
  BY DEF And
<1>2. \A y : T(y) \subseteq 0..m /\ T(y) # {}
  OBVIOUS
<1>3. m \in T(m)
  OBVIOUS
<1>4. Max(T(x)) \in 0..m
  BY <1>2, GreatestExists
<1>5. Max(T(m)) \in 0..m /\ m <= Max(T(m))
  BY <1>2, <1>3, GreatestExists
<1> QED BY <1>1, <1>4, <1>5

LEMMA AlignedUp ==
  ASSUME NEW v \in Nat, NEW a \in Nat \ {0}
  PROVE  /\ AlignUp(v, a) \in v..(v + a - 1)
         /\ v = 0 => AlignUp(v, a) = 0
<1>1. v + a - 1 \in Nat /\ a - 1 \in Nat
  OBVIOUS
<1>2. And(v + a - 1, a - 1) \in 0..(a - 1) /\ And(a - 1, a - 1) = a - 1
  BY <1>1, Masked
<1>3. v = 0 => v + a - 1 = a - 1
  OBVIOUS
<1> QED BY <1>1, <1>2, <1>3 DEF AlignUp

LEMMA Constants ==
  /\ Lanes \in Nat \ {0} /\ Unit \in Nat \ {0} /\ PageAlign \in Nat \ {0}
  /\ Word \in Nat \ {0, 1} /\ MaxBytes \in Nat
  /\ \A n \in Needs : n \in Nat \ {0}
  /\ \A g \in Groups : g \in Nat \ {0}
  BY SizingAssumption DEF SizingAssumption

LEMMA Devices ==
  ASSUME NEW p \in Topologies
  PROVE  /\ NumSe(p) \in Nat \ {0} /\ NumCus(p) \in Nat
         /\ p.slotsPerCu \in Nat /\ p.xccs \in Nat /\ p.gfx11 \in BOOLEAN
         /\ NumCus(p) * p.slotsPerCu \in Nat
         /\ DeviceSlots(p) \in Counts
<1>1. /\ p.simds \in Nat /\ p.simdPerCu \in Nat /\ p.arrays \in Nat
      /\ p.arraysPerEngine \in Nat /\ p.slotsPerCu \in Nat /\ p.xccs \in Nat
      /\ p.gfx11 \in BOOLEAN
  BY SizingAssumption DEF SizingAssumption, Counts
<1>2. NumSe(p) \in Nat \ {0} /\ NumSe(p) < Word
  <2>1. ASSUME p.arraysPerEngine # 0
        PROVE  p.arrays \div p.arraysPerEngine \in 0..p.arrays
    <3> DEFINE q == p.arrays \div p.arraysPerEngine
    <3>1. q \in Nat /\ q * p.arraysPerEngine <= p.arrays
      BY <1>1, <2>1, Quotient
    <3>2. 1 * q <= p.arraysPerEngine * q /\ p.arraysPerEngine * q = q * p.arraysPerEngine
      BY <1>1, <2>1, <3>1, Times
    <3>3. 1 * q = q /\ q * p.arraysPerEngine \in Nat
      BY <1>1, <3>1
    <3> QED BY <1>1, <3>1, <3>2, <3>3
  <2>2. p.arrays < Word /\ Word \in Nat \ {0, 1}
    BY Constants, SizingAssumption DEF SizingAssumption, Counts
  <2> QED BY <1>1, <2>1, <2>2 DEF NumSe, OrOne
<1>3. NumCus(p) \in Nat
  <2>1. OrOne(p.simdPerCu) \in Nat \ {0}
    BY <1>1 DEF OrOne
  <2> QED BY <1>1, <2>1, Quotient DEF NumCus
<1>4. NumCus(p) * p.slotsPerCu \in Nat
  BY <1>1, <1>3
<1>5. AlignUp(NumCus(p), NumSe(p)) \in Nat
  BY <1>2, <1>3, AlignedUp
<1>6. AlignUp(NumCus(p), NumSe(p)) * p.slotsPerCu \in Nat
  BY <1>1, <1>5
<1>7. DeviceSlots(p) \in Counts
  <2> DEFINE n == (AlignUp(NumCus(p), NumSe(p)) * p.slotsPerCu) % Word
  <2>1. Word \in Nat \ {0, 1}
    BY Constants
  <2>2. n \in Counts
    BY <1>6, <2>1 DEF Counts
  <2>3. NumSe(p) \in Counts
    BY <1>2, <2>1 DEF Counts
  <2>4. DeviceSlots(p) = IF n = 0 THEN NumSe(p) ELSE n
    BY DEF DeviceSlots
  <2> QED BY <2>2, <2>3, <2>4
<1> QED BY <1>1, <1>2, <1>3, <1>4, <1>7

(* The aligned waves of a region lie in it, for each slot.                 *)
LEMMA Sizes ==
  ASSUME NEW n \in Needs, NEW s \in Nat
  PROVE  /\ PerWave(n) \in Nat \ {0}
         /\ AllocSize(n, s) \in Nat /\ s * PerWave(n) <= AllocSize(n, s)
<1>1. n \in Nat \ {0}
  BY Constants
<1>2. Lanes * n \in Nat \ {0}
  BY <1>1, Constants
<1>3. PerWave(n) \in Nat \ {0}
  <2>1. AlignUp(Lanes * n, Unit) \in (Lanes * n)..(Lanes * n + Unit - 1)
    BY <1>2, Constants, AlignedUp
  <2> QED BY <1>2, <2>1, Constants DEF PerWave
<1>4. PerWave(n) * s \in Nat /\ PerWave(n) * s = s * PerWave(n)
  BY <1>3
<1>5. AllocSize(n, s) \in Nat /\ PerWave(n) * s <= AllocSize(n, s)
  BY <1>4, Constants, AlignedUp DEF AllocSize
<1> QED BY <1>3, <1>4, <1>5

-----------------------------------------------------------------------------
(* Devices of one partition: the handler reckons with as many engines as   *)
(* compute_tmpring_size() does.                                            *)
OnePartition == \A p \in Topologies : p.xccs <= 1

(* What the register counts, per engine or in all.                         *)
Share(p) == IF p.gfx11 THEN NumSe(p) ELSE 1
Fit(n, size) == size \div PerWave(n)
Most(p) == NumCus(p) * p.slotsPerCu

LEMMA WavesInFit ==
  ASSUME NEW p \in Topologies, NEW n \in Needs, NEW size \in Nat,
         NumSe(p) <= Fit(n, size)
  PROVE  /\ Waves(p, n, size) \in Nat \ {0}
         /\ Waves(p, n, size) * Share(p) <= Fit(n, size)
         /\ Waves(p, n, size) <= Most(p) \/ Waves(p, n, size) <= NumSe(p)
<1> DEFINE se == NumSe(p)
           fit == Fit(n, size)
           most == Most(p)
           w == Waves(p, n, size)
<1>1. /\ se \in Nat \ {0} /\ most \in Nat /\ p.gfx11 \in BOOLEAN
  BY Devices DEF Most
<1>2. fit \in Nat
  BY Sizes, Quotient DEF Fit
<1>3. w = IF p.gfx11 THEN OrOne(Smaller(fit \div se, most))
          ELSE LET v == (Smaller(fit, most) \div se) * se
               IN  IF v = 0 THEN se ELSE v
  BY DEF Waves, Fit, Most
<1>4. se <= fit
  OBVIOUS
<1> HIDE DEF se, fit, most, w
<1>5. CASE p.gfx11
  <2>1. fit \div se \in Nat /\ (fit \div se) * se <= fit
    BY <1>1, <1>2, Quotient
  <2>2. CASE Smaller(fit \div se, most) = 0
    BY <1>1, <1>2, <1>3, <1>4, <1>5, <2>2 DEF OrOne, Share, se, w, fit
  <2>3. CASE Smaller(fit \div se, most) # 0
    <3>1. w \in Nat \ {0} /\ w <= fit \div se /\ w <= most
      BY <1>1, <1>3, <1>5, <2>1, <2>3 DEF OrOne, Smaller
    <3>2. w * se <= (fit \div se) * se
      BY <1>1, <2>1, <3>1, Times
    <3>3. w * se \in Nat /\ (fit \div se) * se \in Nat
      BY <1>1, <2>1, <3>1
    <3>4. w * se <= fit
      BY <1>2, <2>1, <3>2, <3>3
    <3> QED BY <1>5, <3>1, <3>4 DEF Share, se, w, fit, most
  <2> QED BY <2>2, <2>3
<1>6. CASE ~p.gfx11
  <2> DEFINE m == Smaller(fit, most)
             v == (m \div se) * se
  <2>1. m \in Nat /\ m <= fit /\ m <= most
    BY <1>1, <1>2 DEF Smaller
  <2>2. v \in Nat /\ v <= m
    <3>1. m \div se \in Nat /\ (m \div se) * se <= m
      BY <1>1, <2>1, Quotient
    <3> QED BY <1>1, <3>1
  <2>3. w = IF v = 0 THEN se ELSE v
    BY <1>3, <1>6
  <2> HIDE DEF v, m
  <2>4. w \in Nat \ {0} /\ w <= fit /\ (w <= most \/ w <= se)
    BY <1>1, <1>2, <1>4, <2>1, <2>2, <2>3
  <2>5. w * 1 = w
    BY <2>4
  <2> QED BY <1>6, <2>4, <2>5 DEF Share, se, w, fit, most
<1> QED BY <1>5, <1>6

(* An allocation holds the slots it is for.                                *)
LEMMA SlotsInFit ==
  ASSUME NEW n \in Needs, NEW s \in Nat
  PROVE  Fit(n, AllocSize(n, s)) \in Nat /\ s <= Fit(n, AllocSize(n, s))
  BY Sizes, Quotient, QuotientAtLeast DEF Fit

LEMMA RegionHolds ==
  ASSUME NEW p \in Topologies, NEW n \in Needs, NEW s \in Nat, 2 * NumSe(p) <= s
  PROVE  PerWave(n) * Waves(p, n, AllocSize(n, s)) * Share(p) <= AllocSize(n, s)
<1> DEFINE size == AllocSize(n, s)
           per == PerWave(n)
           fit == Fit(n, size)
           w == Waves(p, n, size)
           e == Share(p)
<1>1. size \in Nat /\ per \in Nat \ {0}
  BY Sizes
<1>2. fit \in Nat /\ s <= fit /\ fit * per <= size
  BY <1>1, SlotsInFit, Quotient DEF Fit
<1>3. NumSe(p) \in Nat \ {0} /\ NumSe(p) <= fit
  BY <1>2, Devices
<1>4. e \in Nat
  BY <1>3 DEF Share
<1>5. w \in Nat /\ w * e <= fit
  BY <1>1, <1>3, WavesInFit
<1> HIDE DEF size, per, fit, w, e
<1>6. w * e \in Nat
  BY <1>4, <1>5
<1>7. (w * e) * per <= fit * per
  BY <1>1, <1>2, <1>5, <1>6, Times
<1>8. (w * e) * per = per * w * e
  BY <1>1, <1>4, <1>5
<1>9. (w * e) * per \in Nat /\ fit * per \in Nat
  BY <1>1, <1>2, <1>6
<1>10. per * w * e <= size
  BY <1>1, <1>2, <1>7, <1>8, <1>9
<1> QED BY <1>10 DEF size, per, w, e

LEMMA RegionServes ==
  ASSUME NEW p \in Topologies, NEW n \in Needs, NEW s \in Nat
  PROVE  Waves(p, n, AllocSize(n, s)) >=
           IF p.gfx11 THEN Smaller(s \div NumSe(p), Most(p))
           ELSE Smaller(s \div NumSe(p), Most(p) \div NumSe(p)) * NumSe(p)
<1> DEFINE size == AllocSize(n, s)
           se == NumSe(p)
           fit == Fit(n, size)
           most == Most(p)
           w == Waves(p, n, size)
<1>1. se \in Nat \ {0} /\ most \in Nat /\ s \in Nat /\ p.gfx11 \in BOOLEAN
  BY Devices DEF Most
<1>2. fit \in Nat /\ s <= fit
  BY <1>1, SlotsInFit
<1>3. w = IF p.gfx11 THEN OrOne(Smaller(fit \div se, most))
          ELSE LET v == (Smaller(fit, most) \div se) * se
               IN  IF v = 0 THEN se ELSE v
  BY DEF Waves, Fit, Most
<1>4. s \div se \in Nat
  BY <1>1, Quotient
<1> HIDE DEF size, se, fit, most, w
<1>5. /\ fit \div se \in Nat /\ most \div se \in Nat
      /\ s \div se <= fit \div se
  BY <1>1, <1>2, Quotient, QuotientMonotone
<1>6. CASE p.gfx11
  <2>1. w >= Smaller(s \div se, most)
    BY <1>1, <1>3, <1>4, <1>5, <1>6 DEF OrOne, Smaller
  <2> QED BY <1>6, <2>1 DEF w, se, size, most
<1>7. CASE ~p.gfx11
  <2> DEFINE a == Smaller(s \div se, most \div se)
             b == Smaller(fit, most) \div se
  <2>1. a \in Nat /\ b \in Nat /\ a <= b
    BY <1>1, <1>2, <1>4, <1>5 DEF Smaller
  <2>2. w = IF b * se = 0 THEN se ELSE b * se
    BY <1>3, <1>7
  <2> HIDE DEF a, b
  <2>3. a * se <= b * se /\ a * se \in Nat /\ b * se \in Nat
    BY <1>1, <2>1, Times
  <2>4. w >= a * se
    BY <1>1, <2>2, <2>3
  <2> QED BY <1>7, <2>4 DEF w, se, size, a, most
<1> QED BY <1>6, <1>7

-----------------------------------------------------------------------------
(* A request keeps to one size: what is allocated is what its slots need,  *)
(* and they are at least two per engine.                                   *)
RequestInv ==
  /\ topology \in Topologies /\ need \in Needs /\ group \in Groups
  /\ slots \in Counts /\ outcome \in {"trying", "allocated", "failed"}
  /\ region \in 0..MaxBytes
  /\ outcome = "allocated" => /\ 2 * NumSe(topology) <= slots
                              /\ region = AllocSize(need, slots)

LEMMA PartitionEngines ==
  ASSUME OnePartition, topology \in Topologies
  PROVE  HandlerSe = NumSe(topology) /\ HandlerSe \in Nat \ {0}
<1>1. /\ NumSe(topology) \in Nat \ {0}
      /\ topology.xccs \in Nat /\ topology.xccs <= 1
  BY Devices DEF OnePartition
<1>2. OrOne(topology.xccs) = 1
  BY <1>1 DEF OrOne
<1>3. NumSe(topology) \div 1 = NumSe(topology)
  BY <1>1
<1> QED BY <1>1, <1>2, <1>3 DEF HandlerSe, OrOne

LEMMA RequestInvNext ==
  ASSUME OnePartition, RequestInv, [SizingNext]_sizingVars
  PROVE  RequestInv'
<1>1. HandlerSe = NumSe(topology) /\ HandlerSe \in Nat \ {0}
  BY PartitionEngines DEF RequestInv
<1>2. CASE Allocated
  <2>1. AllocSize(need, slots) \in Nat
    BY Constants, Sizes DEF RequestInv, Counts
  <2> QED BY <1>1, <1>2, <2>1, Constants DEF RequestInv, Allocated, Trying, MinSlots
<1>3. CASE Refused
  <2> DEFINE left == (slots - group) % Word
  <2>1. left \in Counts /\ Word \in Nat \ {0, 1}
    BY Constants DEF RequestInv, Counts
  <2>2. FewerSlots \in Counts
    <3>1. (left \div HandlerSe) * HandlerSe <= left /\ left \div HandlerSe \in Nat
      BY <1>1, <2>1, Quotient DEF Counts
    <3>2. (left \div HandlerSe) * HandlerSe \in Nat
      BY <1>1, <3>1
    <3>3. FewerSlots = (left \div HandlerSe) * HandlerSe
      BY DEF FewerSlots
    <3> HIDE DEF left
    <3> QED BY <2>1, <3>1, <3>2, <3>3 DEF Counts
  <2> QED BY <1>3, <2>2 DEF RequestInv, Refused, Trying
<1>4. CASE GiveUp
  BY <1>4 DEF RequestInv, GiveUp
<1>5. CASE UNCHANGED sizingVars
  BY <1>5 DEF RequestInv, sizingVars
<1> QED BY <1>2, <1>3, <1>4, <1>5 DEF SizingNext

LEMMA RequestInvInit == SizingInit => RequestInv
  BY Devices, Constants DEF SizingInit, RequestInv

(* compute_tmpring_size() against scratch_alloc_size(): the waves that the *)
(* register allows lie inside the region that was allocated, for any       *)
(* device of one partition, kernel, work-group and sequence of refusals,   *)
(* those that wrap the number of slots included.                           *)
THEOREM SizesCorrect == ASSUME OnePartition PROVE SizingSpec => []SizingInv
<1>1. SizingInit => RequestInv
  BY RequestInvInit
<1>2. RequestInv /\ [SizingNext]_sizingVars => RequestInv'
  BY RequestInvNext
<1>3. RequestInv => SizingInv
  <2> SUFFICES ASSUME RequestInv PROVE SizingInv
    OBVIOUS
  <2>1. SizingTypeOK
    BY DEF RequestInv, SizingTypeOK
  <2>2. slots \in Nat
    BY Constants DEF RequestInv, Counts
  <2>3. WavesFit
    BY <2>2, RegionHolds DEF RequestInv, WavesFit, Share
  <2> QED BY <2>1, <2>3 DEF SizingInv
<1> QED BY <1>1, <1>2, <1>3, PTL DEF SizingSpec

(* The register wastes nothing: it allows the waves of every slot that was *)
(* allocated, as far as the device has them, for any work-group and after  *)
(* a wrap too.                                                             *)
THEOREM AllSlotsServed == ASSUME OnePartition PROVE SizingSpec => []SlotsServed
<1>1. SizingInit => RequestInv
  BY RequestInvInit
<1>2. RequestInv /\ [SizingNext]_sizingVars => RequestInv'
  BY RequestInvNext
<1>3. RequestInv => SlotsServed
  <2> SUFFICES ASSUME RequestInv PROVE SlotsServed
    OBVIOUS
  <2>1. slots \in Nat
    BY Constants DEF RequestInv, Counts
  <2> QED BY <2>1, RegionServes DEF RequestInv, SlotsServed, Most
<1> QED BY <1>1, <1>2, <1>3, PTL DEF SizingSpec
=============================================================================
