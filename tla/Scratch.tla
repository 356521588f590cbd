------------------------------- MODULE Scratch -------------------------------
(***************************************************************************)
(* On-demand scratch memory of a compute queue (lib/queue.cpp:             *)
(* ComputeQueue::dispatch() and QueueBase::scratch_handler()).  A dispatch *)
(* that needs more scratch per thread than the queue has pushes a request, *)
(* and puts packets before its launch that report the request when earlier *)
(* kernels have finished (scratch_ready, then an event), wait for the      *)
(* watcher thread (scratch_done), and take the new registers from an       *)
(* indirect buffer the watcher has filled.                                 *)
(*                                                                         *)
(* dispatch() runs under submit_mtx from start to end, so one thread's     *)
(* locals are enough.  Shared words are read and written one at a time.    *)
(* Scratch regions are numbered in the order of their allocation, 0 being  *)
(* none, and a tmpring size is the bytes per thread it stands for.         *)
(*                                                                         *)
(* External: the command processor, the kernels' waves and the event.      *)
(***************************************************************************)
EXTENDS Integers, Sequences, FiniteSets

CONSTANTS Kernels,         \* the kernels, [need, pos]: scratch per thread, and
                           \* the user SGPR that holds the scratch base, 0 if none
          Positions,       \* the positions of user SGPRs
          WaveLimit,       \* the largest need the hardware supports
          MaxDispatches,   \* bound: calls of dispatch()
          InlineRequests   \* requests the list holds without malloc(): 8

ASSUME ScratchAssumption ==
  /\ Kernels \subseteq [need : Nat, pos : Positions \cup {0}]
  /\ Positions \subseteq Nat \ {0} /\ WaveLimit \in Nat
  /\ MaxDispatches \in Nat /\ InlineRequests \in Nat

VARIABLES
  pc, kernel, mySeq, resize, stall, va, tmp,  \* dispatch() and its locals
  dispatches,    \* calls of dispatch() so far
  lost,          \* history: a submission failed after its request was pushed
  seq,           \* sctx->seq, requests ever made
  requests,      \* sctx->requests
  perThread, scratchVa, tmpring, error,       \* sctx->scratch_per_thread, ...
  ready, done,   \* ctl()->scratch_ready and scratch_done
  ib,            \* ctl()->indirect
  allocated,     \* the region the queue owns, [id, size]
  regions,       \* regions allocated so far
  wpc, req,      \* scratch_handler() and its locals
  event,         \* the scratch event is signaled
  ring, stage,   \* packets of accepted dispatches, and where the CP is in them
  regs,          \* the CP's scratch and user data registers; history: laid,
                 \* the layout of user SGPRs they were last written for
  eop,           \* RELEASE_MEM packets that have not taken effect
  running,       \* kernels that execute, with the registers they got;
                 \* history: behind, it waited for another dispatch's request
  launched       \* history: the dispatches launched

locals == <<pc, kernel, mySeq, resize, stall, va, tmp, dispatches, lost>>
context == <<perThread, scratchVa, tmpring, error, allocated, regions>>
handler == <<wpc, req>>
device == <<ring, stage, regs, eop, running, launched>>
vars == <<pc, kernel, mySeq, resize, stall, va, tmp, dispatches, lost,
          seq, requests, perThread, scratchVa, tmpring, error, allocated, regions,
          ready, done, ib, wpc, req, event,
          ring, stage, regs, eop, running, launched>>

Arg == -1  \* what a user SGPR holds for a kernel that has no base in it
Idle == [need |-> 0, pos |-> 0]
NoIndirect == [base |-> -1, tmp |-> 0, pos |-> 0]

TypeOK ==
  /\ pc \in {"idle", "per", "push", "done", "va", "tmpring", "submit"}
  /\ kernel \in Kernels \cup {Idle} /\ req \in Kernels \cup {Idle}
  /\ mySeq \in 0..MaxDispatches /\ seq \in 0..MaxDispatches
  /\ done \in 0..seq /\ ready \in 0..seq
  /\ Len(requests) <= MaxDispatches /\ error \in BOOLEAN /\ event \in BOOLEAN
  /\ lost \in BOOLEAN
  /\ va \in 0..regions /\ scratchVa \in {0, allocated.id}
  /\ allocated.id \in {0, regions}
  /\ wpc \in {"idle", "begin", "pop", "free", "zerotmp", "zeroper", "alloc",
              "settmp", "setper", "fail", "build", "done"}
  /\ stage \in {"setup", "release", "wait", "indirect", "launch"}
  /\ ib.pos \in Positions \cup {0}
  /\ launched \subseteq 1..MaxDispatches

Init ==
  /\ pc = "idle" /\ kernel = Idle /\ mySeq = 0 /\ resize = FALSE
  /\ stall = FALSE /\ va = 0 /\ tmp = 0 /\ dispatches = 0 /\ lost = FALSE
  /\ seq = 0 /\ requests = <<>>
  /\ perThread = 0 /\ scratchVa = 0 /\ tmpring = 0 /\ error = FALSE
  /\ allocated = [id |-> 0, size |-> 0] /\ regions = 0
  /\ ready = 0 /\ done = 0 /\ ib = NoIndirect
  /\ wpc = "idle" /\ req = Idle /\ event = FALSE
  /\ ring = <<>> /\ stage = "setup" /\ eop = <<>>
  /\ regs = [base |-> 0, tmp |-> 0, user |-> [i \in Positions |-> Arg], laid |-> 0]
  /\ running = {} /\ launched = {}

-----------------------------------------------------------------------------
(* dispatch()                                                              *)
Dispatch(k) ==
  /\ pc = "idle" /\ dispatches < MaxDispatches
  /\ dispatches' = dispatches + 1
  /\ IF error THEN UNCHANGED <<pc, kernel, mySeq, resize>>
     ELSE /\ pc' = "per" /\ kernel' = k
          /\ mySeq' = seq /\ resize' = FALSE
  /\ UNCHANGED <<stall, va, tmp, lost, seq, requests, context, ready, done,
                 ib, handler, event, device>>

(* Needs that exceed the wave limit return ERANGE.                         *)
ReadPerThread ==
  /\ pc = "per"
  /\ pc' = IF kernel.need <= perThread THEN "done"
           ELSE IF kernel.need <= WaveLimit THEN "push" ELSE "idle"
  /\ UNCHANGED <<kernel, mySeq, resize, stall, va, tmp, dispatches, lost,
                 seq, requests, context, ready, done, ib, handler, event,
                 device>>

PushRequest ==
  /\ pc = "push" /\ pc' = "done"
  /\ requests' = Append(requests, kernel)
  /\ seq' = seq + 1 /\ mySeq' = seq + 1 /\ resize' = TRUE
  /\ UNCHANGED <<kernel, stall, va, tmp, dispatches, lost, context, ready,
                 done, ib, handler, event, device>>

(* The list could not grow: ENOMEM.                                        *)
PushFails ==
  /\ pc = "push" /\ Len(requests) >= InlineRequests
  /\ pc' = "idle"
  /\ UNCHANGED <<kernel, mySeq, resize, stall, va, tmp, dispatches, lost,
                 seq, requests, context, ready, done, ib, handler, event,
                 device>>

\* Mutant of NeedsStall: only the dispatch that made a request waits for it.
NeedsStallOwn == resize
NeedsStall == kernel.need > 0 /\ mySeq > done

ReadDone ==
  /\ pc = "done" /\ pc' = "va"
  /\ stall' = NeedsStall
  /\ UNCHANGED <<kernel, mySeq, resize, va, tmp, dispatches, lost, seq,
                 requests, context, ready, done, ib, handler, event,
                 device>>

ReadVa ==
  /\ pc = "va" /\ pc' = "tmpring"
  /\ va' = scratchVa
  /\ UNCHANGED <<kernel, mySeq, resize, stall, tmp, dispatches, lost, seq,
                 requests, context, ready, done, ib, handler, event,
                 device>>

ReadTmpring ==
  /\ pc = "tmpring" /\ pc' = "submit"
  /\ tmp' = tmpring
  /\ UNCHANGED <<kernel, mySeq, resize, stall, va, dispatches, lost, seq,
                 requests, context, ready, done, ib, handler, event,
                 device>>

(* submit_impl() accepts the packets, or leaves nothing: it times out when *)
(* the ring is full of other packets, as behind a wait() of the caller's.  *)
Submit ==
  /\ pc = "submit" /\ pc' = "idle"
  /\ ring' = Append(ring, [id |-> dispatches, kernel |-> kernel, base |-> va,
                           tmp |-> tmp, stall |-> stall, resize |-> resize,
                           seq |-> mySeq])
  /\ UNCHANGED <<kernel, mySeq, resize, stall, va, tmp, dispatches, lost,
                 seq, requests, context, ready, done, ib, handler, event,
                 stage, regs, eop, running, launched>>

SubmitFails ==
  /\ pc = "submit" /\ pc' = "idle"
  /\ lost' = (lost \/ resize)
  /\ UNCHANGED <<kernel, mySeq, resize, stall, va, tmp, dispatches, seq,
                 requests, context, ready, done, ib, handler, event,
                 device>>

-----------------------------------------------------------------------------
(* scratch_handler(), on the watcher thread.  The watcher calls every      *)
(* handler whenever any event wakes it.                                    *)
Wake ==
  /\ wpc = "idle" /\ event
  /\ wpc' = "begin" /\ event' = FALSE
  /\ UNCHANGED <<locals, seq, requests, context, ready, done, ib, req,
                 device>>

WakeForOther ==
  /\ wpc = "idle"
  /\ wpc' = "begin"
  /\ UNCHANGED <<locals, seq, requests, context, ready, done, ib, req,
                 event, device>>

HandlerBegin ==
  /\ wpc = "begin"
  /\ wpc' = IF done + 1 > ready THEN "idle" ELSE "pop"
  /\ UNCHANGED <<locals, seq, requests, context, ready, done, ib, req,
                 event, device>>

AfterPop(r) == CASE r.need <= perThread                   -> "build"
                 [] r.need > perThread /\ scratchVa # 0   -> "free"
                 [] r.need > perThread /\ scratchVa = 0   -> "alloc"

PopRequest ==
  /\ wpc = "pop"
  /\ IF requests = <<>> THEN wpc' = "idle" /\ UNCHANGED <<requests, req>>
     ELSE /\ wpc' = AfterPop(Head(requests))
          /\ req' = Head(requests) /\ requests' = Tail(requests)
  /\ UNCHANGED <<locals, seq, context, ready, done, ib, event, device>>

(* The old region is released, and the words that describe it cleared.     *)
FreeOld ==
  /\ wpc = "free" /\ wpc' = "zerotmp"
  /\ allocated' = [id |-> 0, size |-> 0] /\ scratchVa' = 0
  /\ UNCHANGED <<locals, seq, requests, perThread, tmpring, error, regions,
                 ready, done, ib, req, event, device>>

ClearTmpring ==
  /\ wpc = "zerotmp" /\ wpc' = "zeroper"
  /\ tmpring' = 0
  /\ UNCHANGED <<locals, seq, requests, perThread, scratchVa, error,
                 allocated, regions, ready, done, ib, req, event, device>>

ClearPerThread ==
  /\ wpc = "zeroper" /\ wpc' = "alloc"
  /\ perThread' = 0
  /\ UNCHANGED <<locals, seq, requests, scratchVa, tmpring, error,
                 allocated, regions, ready, done, ib, req, event, device>>

(* The pool is shared with other queues: an allocation of enough slots may *)
(* succeed or fail.  A failure leaves a NOP in the indirect buffer.        *)
Allocate ==
  /\ wpc = "alloc" /\ wpc' = "settmp"
  /\ regions' = regions + 1
  /\ allocated' = [id |-> regions + 1, size |-> req.need]
  /\ scratchVa' = regions + 1
  /\ UNCHANGED <<locals, seq, requests, perThread, tmpring, error, ready,
                 done, ib, req, event, device>>

AllocateFails ==
  /\ wpc = "alloc" /\ wpc' = "fail"
  /\ ib' = NoIndirect
  /\ UNCHANGED <<locals, seq, requests, context, ready, done, req, event,
                 device>>

SetTmpring ==
  /\ wpc = "settmp" /\ wpc' = "setper"
  /\ tmpring' = req.need
  /\ UNCHANGED <<locals, seq, requests, perThread, scratchVa, error,
                 allocated, regions, ready, done, ib, req, event, device>>

SetPerThread ==
  /\ wpc = "setper" /\ wpc' = "build"
  /\ perThread' = req.need
  /\ UNCHANGED <<locals, seq, requests, scratchVa, tmpring, error,
                 allocated, regions, ready, done, ib, req, event, device>>

SetError ==
  /\ wpc = "fail" /\ wpc' = "done"
  /\ error' = TRUE
  /\ UNCHANGED <<locals, seq, requests, perThread, scratchVa, tmpring,
                 allocated, regions, ready, done, ib, req, event, device>>

\* Mutant of Indirect: the buffer does not set the user SGPRs.
IndirectBaseOnly == [base |-> scratchVa, tmp |-> tmpring, pos |-> 0]

(* set_scratch_base() and set_scratch_sgprs(), for the requesting kernel.  *)
Indirect == [base |-> scratchVa, tmp |-> tmpring, pos |-> req.pos]

BuildIndirect ==
  /\ wpc = "build" /\ wpc' = "done"
  /\ ib' = Indirect
  /\ UNCHANGED <<locals, seq, requests, context, ready, done, req, event,
                 device>>

StoreDone ==
  /\ wpc = "done" /\ wpc' = "idle"
  /\ done' = done + 1
  /\ UNCHANGED <<locals, seq, requests, context, ready, ib, req, event,
                 device>>

-----------------------------------------------------------------------------
(* External: the command processor executes the packets of a dispatch.     *)
Packets == Head(ring)
At(place) == ring # <<>> /\ stage = place

CpSetup ==
  /\ At("setup")
  /\ stage' = IF ~Packets.stall THEN "launch"
              ELSE IF Packets.resize THEN "release" ELSE "wait"
  /\ regs' = [base |-> Packets.base, tmp |-> Packets.tmp,
              user |-> [i \in Positions |->
                          IF i = Packets.kernel.pos THEN Packets.base ELSE Arg],
              laid |-> Packets.kernel.pos]
  /\ UNCHANGED <<locals, seq, requests, context, ready, done, ib, handler,
                 event, ring, eop, running, launched>>

Earlier == {w.id : w \in running}

\* Mutant of CpRelease: the event is put before the word.
CpReleaseEventFirst ==
  /\ At("release") /\ stage' = "wait"
  /\ eop' = eop \o <<[op |-> "event", seq |-> Packets.seq, after |-> Earlier],
                     [op |-> "ready", seq |-> Packets.seq, after |-> Earlier]>>
  /\ UNCHANGED <<locals, seq, requests, context, ready, done, ib, handler,
                 event, ring, regs, running, launched>>

(* Two RELEASE_MEM packets: the word, then the event.                      *)
CpRelease ==
  /\ At("release") /\ stage' = "wait"
  /\ eop' = eop \o <<[op |-> "ready", seq |-> Packets.seq, after |-> Earlier],
                     [op |-> "event", seq |-> Packets.seq, after |-> Earlier]>>
  /\ UNCHANGED <<locals, seq, requests, context, ready, done, ib, handler,
                 event, ring, regs, running, launched>>

CpWait ==
  /\ At("wait") /\ done >= Packets.seq
  /\ stage' = "indirect"
  /\ UNCHANGED <<locals, seq, requests, context, ready, done, ib, handler,
                 event, ring, regs, eop, running, launched>>

CpIndirect ==
  /\ At("indirect") /\ stage' = "launch"
  /\ regs' = IF ib = NoIndirect THEN regs
             ELSE [base |-> ib.base, tmp |-> ib.tmp,
                   user |-> [i \in Positions |->
                               IF i = ib.pos THEN ib.base ELSE regs.user[i]],
                   laid |-> ib.pos]
  /\ UNCHANGED <<locals, seq, requests, context, ready, done, ib, handler,
                 event, ring, eop, running, launched>>

CpLaunch ==
  /\ At("launch") /\ stage' = "setup"
  /\ ring' = Tail(ring)
  /\ running' = running \cup
       {[id |-> Packets.id, kernel |-> Packets.kernel, regs |-> regs,
         behind |-> Packets.stall /\ ~Packets.resize]}
  /\ launched' = launched \cup {Packets.id}
  /\ UNCHANGED <<locals, seq, requests, context, ready, done, ib, handler,
                 event, regs, eop>>

Finish(w) ==
  /\ running' = running \ {w}
  /\ UNCHANGED <<locals, seq, requests, context, ready, done, ib, handler,
                 event, ring, stage, regs, eop, launched>>

EndOfPipe ==
  /\ eop # <<>> /\ Head(eop).after \cap {w.id : w \in running} = {}
  /\ eop' = Tail(eop)
  /\ \/ Head(eop).op = "ready" /\ ready' = Head(eop).seq /\ UNCHANGED event
     \/ Head(eop).op = "event" /\ event' = TRUE /\ UNCHANGED ready
  /\ UNCHANGED <<locals, seq, requests, context, done, ib, handler, ring,
                 stage, regs, running, launched>>

-----------------------------------------------------------------------------
DispatchStep == \/ ReadPerThread \/ PushRequest \/ PushFails \/ ReadDone
                \/ ReadVa \/ ReadTmpring \/ Submit \/ SubmitFails

HandlerStep == \/ Wake \/ HandlerBegin \/ PopRequest \/ FreeOld \/ ClearTmpring
               \/ ClearPerThread \/ Allocate \/ AllocateFails \/ SetTmpring
               \/ SetPerThread \/ SetError \/ BuildIndirect \/ StoreDone

CommandProcessor == CpSetup \/ CpRelease \/ CpWait \/ CpIndirect \/ CpLaunch
FinishSome == \E w \in running : Finish(w)

Next == \/ \E k \in Kernels : Dispatch(k)
        \/ DispatchStep \/ HandlerStep \/ WakeForOther
        \/ CommandProcessor \/ FinishSome \/ EndOfPipe

Spec == Init /\ [][Next]_vars

(* The watcher and the device work and kernels end.  Nothing else is       *)
(* relied on to wake the watcher.                                          *)
FairSpec == /\ Spec
            /\ WF_vars(HandlerStep) /\ WF_vars(CommandProcessor)
            /\ WF_vars(FinishSome) /\ WF_vars(EndOfPipe)

-----------------------------------------------------------------------------
UsesScratch == {w \in running : w.kernel.need > 0}

(* Every kernel runs in the region the queue owns, and the region and the  *)
(* wave size it was launched with are large enough: no region is released  *)
(* or replaced under a kernel, and no launch takes words from two regions. *)
(* (After an allocation has failed the code launches without scratch.)     *)
Fits(w) == /\ w.regs.base = allocated.id /\ allocated.id # 0
           /\ w.kernel.need <= w.regs.tmp /\ w.regs.tmp <= allocated.size
RunsInScratch == \A w \in UsesScratch : ~error => Fits(w)

(* Every request the handler has not answered is in the list, in order, so *)
(* that the request popped for scratch_done + 1 is the one with that       *)
(* number.                                                                 *)
RequestsCounted ==
  seq = done + Len(requests)
          + (IF wpc \in {"idle", "begin", "pop"} THEN 0 ELSE 1)

(* The region of dispatch() and scratch_handler() serves every kernel that *)
(* runs in it, and every request is answered once and in its turn.         *)
Inv == TypeOK /\ RunsInScratch /\ RequestsCounted

(* A kernel that did not wait, or waited for the request it made, has the  *)
(* scratch base in the user SGPR its descriptor asks for and its arguments *)
(* in the others: the indirect buffer it executed is the answer to its own *)
(* request and no other's (queue.cpp:105, :286).  One that waited behind   *)
(* another's request has them if that kernel's layout is the same.         *)
SgprsRight(w) ==
  \A i \in Positions : w.regs.user[i] = IF i = w.kernel.pos THEN w.regs.base ELSE Arg
UserSgprsMatch ==
  \A w \in running : SgprsRight(w) \/ (w.behind /\ w.regs.laid # w.kernel.pos)

(* queue.cpp:697 "stall the CP until the previous work has completed and   *)
(* the new scratch region is allocated by the watcher thread": the stall   *)
(* ends, and every dispatch that reported success is launched, as long as  *)
(* no submission has failed after its request was pushed.                  *)
Accepted(d) == \E i \in DOMAIN ring : ring[i].id = d
KernelsLaunchUnlessLost ==
  \A d \in 1..MaxDispatches : Accepted(d) ~> d \in launched \/ lost
=============================================================================
