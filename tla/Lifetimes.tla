------------------------------ MODULE Lifetimes -------------------------------
(***************************************************************************)
(* What uses the device's memory, together: buffers of the program (module *)
(* Buffers), hardware queues (QueueLife), and the loader, which works on   *)
(* the queues (Loader).  A program keeps a queue where it is while it      *)
(* loads with it.                                                          *)
(*                                                                         *)
(* Bounds: queues share the hardware queues and nothing else, so that one  *)
(* is created or destroyed only while no other is, or while the others are *)
(* about to ask for a hardware queue.  A load has only its two queues      *)
(* beside it, and no queue is created while it has commands in flight.     *)
(* The program uses its own buffers before it has queues, and submits one  *)
(* command at a time to its compute queues, none to the SDMA queue.        *)
(***************************************************************************)
EXTENDS Loader, Buffers

vars == <<qvars, lvars, bvars>>

NoBuffers == memory = {}
NoQueues == ~doorbells /\ lost = 0 /\ \A s \in Slots : phase[s] = "empty"
Loading == at \notin {"idle", "loaded"}
AtRest(s) == phase[s] \in {"empty", "live", "source"}
Alone(s) == \A o \in Slots \ {s} : AtRest(o) \/ Making1(o, "hw")

TypeOK == QTypeOK /\ LTypeOK /\ BTypeOK

Init == QInit /\ LInit /\ BInit

Start(s) ==
  /\ NoBuffers /\ at = "idle" /\ ~InFlight /\ Alone(s)
  /\ Begin(s)
  /\ UNCHANGED <<lvars, bvars>>
Call(s) == Alone(s) /\ QueueCall(s) /\ UNCHANGED <<lvars, bvars>>
Work(s) ==
  /\ IsCompute(s) /\ \A c \in ComputeSlots : fifo[c] = <<>>
  /\ Submit(s)
  /\ UNCHANGED <<lvars, bvars>>
Run(s) ==
  \/ DeviceStep(s) /\ UNCHANGED <<lvars, bvars>>
  \/ EngineStep(s) /\ UNCHANGED bvars
End(s) == ~Loading /\ Alone(s) /\ Destroy(s) /\ UNCHANGED <<lvars, bvars>>

MoveTo(s, from) ==
  /\ ~Loading /\ Alone(s)
  /\ MoveInto(s, from) \/ Assign(s, from)
  /\ UNCHANGED <<lvars, bvars>>

BeginLoad ==
  /\ \E i \in Images, s \in SdmaSlots, c \in ComputeSlots :
       /\ AtEnd(img, s, c) /\ Load(i, s, c)
       /\ \A o \in Slots \ {s, c} : phase[o] = "empty"
  /\ UNCHANGED bvars
LoadCall == LoadStep /\ UNCHANGED bvars
LoadError == LoadFails /\ UNCHANGED bvars
Unload == DestroyExecutable /\ UNCHANGED bvars

UseBuffer(b) == NoQueues /\ BufferStep(b) /\ UNCHANGED <<qvars, lvars>>

Next ==
  \/ \E s \in Slots : \/ Start(s) \/ Call(s) \/ Work(s) \/ Run(s) \/ End(s)
                      \/ \E from \in Slots : MoveTo(s, from)
  \/ BeginLoad \/ LoadCall \/ LoadError \/ Unload
  \/ \E c \in Chunks : Prefetch(c) /\ UNCHANGED bvars
  \/ \E b \in Objects : UseBuffer(b)

Spec == Init /\ [][Next]_vars

(* Threads are scheduled, and the device executes the commands of its      *)
(* queues.  SF: submit() waits for room with submit_mtx held, so that the  *)
(* room other threads see is not taken from the loader again and again;    *)
(* and calls on two queues exclude each other by the bound alone.          *)
FairSpec ==
  /\ Spec /\ SF_vars(LoadCall)
  /\ \A s \in Slots : SF_vars(Call(s)) /\ WF_vars(Run(s))

-----------------------------------------------------------------------------
(* What a handler uses while its event is watched exists, what load()      *)
(* returned is in VRAM, and what an object holds it can give back.         *)
Inv == TypeOK /\ WatchedAlive /\ AsStaged /\ DestroyIsAccepted

(* What the hardware uses exists as long as it uses it, at every step of   *)
(* the creations, failures, moves, assignments and ends of queues          *)
(* (queue.cpp:493).  Not so, and left out of the formulas: the copies of a *)
(* load that has failed (loader.cpp:165), a queue created for which        *)
(* create() then finds no mutex (queue.cpp:444), and eop_seq of a queue    *)
(* that is assigned to (queue.h:282).                                      *)
MemoryAlive == QueueMemoryAlive /\ CopiesHaveMemory

(* What nobody holds is gone.                                              *)
NothingLeft == QueueLeavesNothing /\ EachHeldOnce

(* Every creation, destruction, assignment and load ends.                  *)
CallsEnd ==
  /\ \A s \in Slots : []<>(phase[s] \in {"empty", "live", "source"})
  /\ []<>(at \in {"idle", "loaded"})
=============================================================================
