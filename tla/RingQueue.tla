------------------------------ MODULE RingQueue ------------------------------
(***************************************************************************)
(* The ring of a kfd::QueueBase (lib/queue.cpp): submit(), submit_impl()   *)
(* and wait_for_room(), called by several threads, against the engine that *)
(* drains the ring.                                                        *)
(*                                                                         *)
(* The ring is an array of Cap dwords.  pending_wptr counts the dwords     *)
(* ever written; a packet that would cross the end of the ring is preceded *)
(* by a NOP that pads the ring to its end.  The write pointer is published *)
(* twice, to memory and to the doorbell, in the units of the engine.       *)
(*                                                                         *)
(* External, modelled from how the code uses it: the engine consumes whole *)
(* packets in order up to the doorbell, or up to the write pointer in      *)
(* memory when the scheduler maps the queue again, and reports its read    *)
(* pointer to memory some time after it consumed.  The submit mutex is the *)
(* lock of module AbstractLock.                                            *)
(***************************************************************************)
EXTENDS Integers, Sequences

CONSTANTS Threads,    \* the threads that submit
          Cap,        \* ring_dwords(), a power of two
          Word,       \* 2^32, the width of the host's index arithmetic
          Sizes,      \* the submission lengths to try, in dwords
          MaxCalls,   \* bound: calls of submit() in a behaviour
          QueueTypes  \* the types of queue to try

ASSUME RingAssumption ==
  /\ Cap \in Nat \ {0} /\ Word \in Nat \ {0} /\ Word % (4 * Cap) = 0
  /\ Sizes \subseteq Nat /\ MaxCalls \in Nat
  /\ QueueTypes \subseteq {"COMPUTE", "SDMA", "SDMA_XGMI"}

VARIABLES
  type,         \* type: COMPUTE, SDMA or SDMA_XGMI
  owner,        \* the holder of submit_mtx, as a set of at most one thread
  pc,           \* where each thread is in submit()
  id,           \* the call each thread is executing
  pos,          \* the local pos of each thread's submit_impl()
  calls,        \* calls begun so far
  size,         \* the length of each call
  result,       \* what each call returned
  accepted,     \* history: the calls whose packet was written, in order
  pendingWptr,  \* pending_wptr
  ring,         \* the ring's dwords
  writePtr,     \* ctl()->write_ptr, in engine units
  doorbell,     \* the doorbell register, in engine units
  readPtr,      \* ctl()->read_ptr, in engine units
  rptr,         \* dwords the engine consumed
  executed,     \* history: what the engine executed
  hung          \* the engine has stopped, as on a packet that waits for memory

host == <<type, owner, pc, id, pos, calls, size, result, accepted, pendingWptr,
          ring, writePtr, doorbell>>
engine == <<readPtr, rptr, executed, hung>>
vars == <<type, owner, pc, id, pos, calls, size, result, accepted, pendingWptr,
          ring, writePtr, doorbell, readPtr, rptr, executed, hung>>

Calls == 1..MaxCalls

(* A dword of the ring: the k-th of a packet of len dwords of call id.     *)
(* Padding has the id of the NOP encoding it was written with.             *)
NopPM4  == -1
NopSDMA == -2
Zeroed  == [id |-> 0, k |-> 0, len |-> 0]
Dword(c, k, len) == [id |-> c, k |-> k, len |-> len]

Places == {"idle", "lock", "enter", "padroom", "padpublish", "paddoorbell",
           "room", "publish", "doorbell"}
Results == {"none", "running", "ok", "EMSGSIZE", "ETIMEDOUT"}

TypeOK ==
  /\ type \in QueueTypes /\ hung \in BOOLEAN
  /\ owner \in SUBSET Threads
  /\ pc \in [Threads -> Places]
  /\ id \in [Threads -> 0..MaxCalls]
  /\ pos \in [Threads -> 0..(Cap - 1)]
  /\ calls \in 0..MaxCalls
  /\ size \in [Calls -> Sizes \cup {0}]
  /\ result \in [Calls -> Results]
  /\ accepted \in Seq(Calls) /\ executed \in Seq(Calls \cup {0})
  /\ pendingWptr \in Nat /\ writePtr \in Nat /\ doorbell \in Nat
  /\ readPtr \in Nat /\ rptr \in Nat
  /\ ring \in [0..(Cap - 1) -> [id : Int, k : Nat, len : Nat]]

Init ==
  /\ type \in QueueTypes /\ hung = FALSE
  /\ owner = {}
  /\ pc = [t \in Threads |-> "idle"]
  /\ id = [t \in Threads |-> 0]
  /\ pos = [t \in Threads |-> 0]
  /\ calls = 0
  /\ size = [c \in Calls |-> 0]
  /\ result = [c \in Calls |-> "none"]
  /\ accepted = <<>> /\ executed = <<>>
  /\ pendingWptr = 0 /\ writePtr = 0 /\ doorbell = 0 /\ readPtr = 0 /\ rptr = 0
  /\ ring = [i \in 0..(Cap - 1) |-> Zeroed]

-----------------------------------------------------------------------------
(* The host's view of the units: only the type SDMA is taken to count in   *)
(* bytes.                                                                  *)
\* Mutant of ToHw: write pointers count dwords for every type.
ToHwDwords(w) == w
ToHw(w) == IF type = "SDMA" THEN 4 * w ELSE w
ReadDwords == IF type = "SDMA" THEN (readPtr % Word) \div 4
                                    ELSE readPtr % Word
PadId == IF type = "SDMA" THEN NopSDMA ELSE NopPM4

(* The index of the next dword to write, and the unsigned 32-bit           *)
(* arithmetic of wait_for_room().                                          *)
RingPos == pendingWptr % Cap
InFlight == ((RingPos + Cap - ReadDwords) % Word) % Cap
\* Mutant of HasRoom: the ring may be filled to the last dword.
HasRoomFull(dwords) == InFlight + dwords <= Cap
HasRoom(dwords) == InFlight + dwords < Cap

Goto(t, place) == pc' = [pc EXCEPT ![t] = place]

Return(t, r) ==
  /\ Goto(t, "idle")
  /\ result' = [result EXCEPT ![id[t]] = r]
  /\ owner' = owner \ {t}

(* The ring with len dwords of packet c written from index p on.           *)
Written(c, p, len) ==
  [i \in 0..(Cap - 1) |->
     IF i \in p..(p + len - 1) THEN Dword(c, i - p + 1, len) ELSE ring[i]]

(* A thread calls submit() with a packet of n dwords.                      *)
Call(t, n) ==
  /\ pc[t] = "idle" /\ calls < MaxCalls
  /\ calls' = calls + 1
  /\ id' = [id EXCEPT ![t] = calls + 1]
  /\ size' = [size EXCEPT ![calls + 1] = n]
  /\ result' = [result EXCEPT ![calls + 1] = "running"]
  /\ Goto(t, "lock")
  /\ UNCHANGED <<type, owner, pos, accepted, pendingWptr, ring, writePtr, doorbell,
                 engine>>

\* Mutant of AcquireSubmitMutex: submit() does not exclude other threads.
EnterUnlocked(t) ==
  /\ pc[t] = "lock"
  /\ owner' = owner \cup {t}
  /\ Goto(t, "enter")
  /\ UNCHANGED <<type, id, pos, calls, size, result, accepted, pendingWptr, ring,
                 writePtr, doorbell, engine>>

AcquireSubmitMutex(t) ==
  /\ pc[t] = "lock" /\ owner = {}
  /\ owner' = {t}
  /\ Goto(t, "enter")
  /\ UNCHANGED <<type, id, pos, calls, size, result, accepted, pendingWptr, ring,
                 writePtr, doorbell, engine>>

(* submit_impl(): the empty and the oversized packet return at once.       *)
EnterSubmitImpl(t) ==
  LET n == size[id[t]]
      p == RingPos
  IN  /\ pc[t] = "enter"
      /\ pos' = [pos EXCEPT ![t] = p]
      /\ \/ n = 0 /\ Return(t, "ok")
         \/ n >= Cap /\ Return(t, "EMSGSIZE")
         \/ /\ n \in 1..(Cap - 1)
            /\ Goto(t, IF p + n > Cap THEN "padroom" ELSE "room")
            /\ UNCHANGED <<type, owner, result>>
      /\ UNCHANGED <<type, id, calls, size, accepted, pendingWptr, ring, writePtr,
                     doorbell, engine>>

(* wait_for_room() succeeded for the padding: fill the ring to its end.    *)
WritePadding(t) ==
  LET pad == Cap - pos[t]
  IN  /\ pc[t] = "padroom" /\ HasRoom(pad)
      /\ ring' = Written(PadId, pos[t], pad)
      /\ pendingWptr' = pendingWptr + pad
      /\ Goto(t, "padpublish")
      /\ UNCHANGED <<type, owner, id, pos, calls, size, result, accepted, writePtr,
                     doorbell, engine>>

(* wait_for_room() succeeded for the packet: copy it into the ring.        *)
WritePacket(t) ==
  LET n == size[id[t]]
  IN  /\ pc[t] = "room" /\ HasRoom(n)
      /\ ring' = Written(id[t], pos[t], n)
      /\ pendingWptr' = pendingWptr + n
      /\ accepted' = Append(accepted, id[t])
      /\ Goto(t, "publish")
      /\ UNCHANGED <<type, owner, id, pos, calls, size, result, writePtr, doorbell,
                     engine>>

(* The write pointer reaches memory before the doorbell.                   *)
Publish(t) ==
  /\ pc[t] \in {"padpublish", "publish"}
  /\ writePtr' = ToHw(pendingWptr)
  /\ Goto(t, IF pc[t] = "publish" THEN "doorbell" ELSE "paddoorbell")
  /\ UNCHANGED <<type, owner, id, pos, calls, size, result, accepted, pendingWptr,
                 ring, doorbell, engine>>

RingPadDoorbell(t) ==
  /\ pc[t] = "paddoorbell"
  /\ doorbell' = ToHw(pendingWptr)
  /\ pos' = [pos EXCEPT ![t] = 0]
  /\ Goto(t, "room")
  /\ UNCHANGED <<type, owner, id, calls, size, result, accepted, pendingWptr, ring,
                 writePtr, engine>>

RingDoorbell(t) ==
  /\ pc[t] = "doorbell"
  /\ doorbell' = ToHw(pendingWptr)
  /\ Return(t, "ok")
  /\ UNCHANGED <<type, id, pos, calls, size, accepted, pendingWptr, ring, writePtr,
                 engine>>

\* Mutant of TimeOut: the early return keeps the mutex.
TimeOutKeepsMutex(t) ==
  /\ \/ pc[t] = "padroom" /\ ~HasRoom(Cap - pos[t])
     \/ pc[t] = "room" /\ ~HasRoom(size[id[t]])
  /\ Goto(t, "idle")
  /\ result' = [result EXCEPT ![id[t]] = "ETIMEDOUT"]
  /\ UNCHANGED <<type, owner, id, pos, calls, size, accepted, pendingWptr, ring,
                 writePtr, doorbell, engine>>

(* wait_for_room() found no room until the five seconds were over.         *)
TimeOut(t) ==
  /\ \/ pc[t] = "padroom" /\ ~HasRoom(Cap - pos[t])
     \/ pc[t] = "room" /\ ~HasRoom(size[id[t]])
  /\ Return(t, "ETIMEDOUT")
  /\ UNCHANGED <<type, id, pos, calls, size, accepted, pendingWptr, ring, writePtr,
                 doorbell, engine>>

-----------------------------------------------------------------------------
(* External: the engine.  SDMA engines count bytes, PM4 engines dwords, and *)
(* each knows its own NOP only.                                            *)
EngineUnit == IF type = "COMPUTE" THEN 1 ELSE 4
EngineNop  == IF type = "COMPUTE" THEN NopPM4 ELSE NopSDMA

(* What lies at the read pointer: the packet if it is whole, or garbage.   *)
Header == ring[rptr % Cap]
Intact == /\ Header.k = 1 /\ Header.id \in Calls \cup {EngineNop}
          /\ \A j \in 0..(Header.len - 1) :
               ring[(rptr + j) % Cap] = [Header EXCEPT !.k = j + 1]

(* Consume the packet at the read pointer once it is available in full.    *)
Consume(limit) ==
  /\ ~hung /\ rptr < limit
  /\ Intact => rptr + Header.len <= limit
  /\ rptr' = rptr + (IF Intact THEN Header.len ELSE 1)
  /\ executed' = IF Intact /\ Header.id = EngineNop THEN executed
                 ELSE Append(executed, IF Intact THEN Header.id ELSE 0)
  /\ UNCHANGED <<readPtr, hung, host>>

ConsumeRung   == Consume(doorbell \div EngineUnit)
ConsumePolled == Consume(writePtr \div EngineUnit)

ReportReadPtr ==
  /\ ~hung /\ readPtr # EngineUnit * rptr
  /\ readPtr' = EngineUnit * rptr
  /\ UNCHANGED <<rptr, executed, hung, host>>

(* The engine stops for ever, for instance on a wait for memory that       *)
(* nobody writes.                                                          *)
Hang ==
  /\ ~hung
  /\ hung' = TRUE
  /\ UNCHANGED <<readPtr, rptr, executed, host>>

-----------------------------------------------------------------------------
SubmitStep(t) ==
  \/ AcquireSubmitMutex(t) \/ EnterSubmitImpl(t)
  \/ WritePadding(t) \/ WritePacket(t)
  \/ Publish(t) \/ RingPadDoorbell(t) \/ RingDoorbell(t)

Next ==
  \/ \E t \in Threads : SubmitStep(t) \/ TimeOut(t)
  \/ \E t \in Threads, n \in Sizes : Call(t, n)
  \/ ConsumeRung \/ ConsumePolled \/ ReportReadPtr \/ Hang

Spec == Init /\ [][Next]_vars

(* Threads are scheduled, and unless it hangs the engine keeps draining    *)
(* what it was told of by the doorbell and reporting it.  Polling of the   *)
(* write pointer in memory is not relied on.                               *)
FairSpec ==
  /\ Spec
  /\ \A t \in Threads : WF_vars(SubmitStep(t) \/ TimeOut(t))
  /\ WF_vars(ConsumeRung) /\ WF_vars(ReportReadPtr)

-----------------------------------------------------------------------------
(* The ring never holds a full ring of unread dwords, so no dword the      *)
(* engine has yet to read is overwritten and "full" is never taken for     *)
(* "empty".  The host computes the occupancy modulo the ring from a stale, *)
(* 32-bit, unit-converted read pointer; this is the true occupancy.        *)
NoOverrun == pendingWptr - rptr < Cap

(* Whenever no submission is in progress, everything written to the ring   *)
(* has been published to memory and to the doorbell: also after a call     *)
(* that timed out between its padding and its packet.                      *)
NothingUnpublished ==
  owner = {} => /\ writePtr = ToHw(pendingWptr)
                /\ doorbell = ToHw(pendingWptr)

(* The ring is never overrun, and at rest both pointers tell the engine of *)
(* everything submit() wrote (queue.cpp:559-648).                          *)
Inv == TypeOK /\ NoOverrun /\ NothingUnpublished

(* Accepted packets are executed whole, once and in order, nothing else is *)
(* executed, and a call that failed left nothing in the stream.            *)
Stream == INSTANCE CommandStream WITH Calls <- Calls, dwords <- size
ImplementsStream == Stream!Spec

(* No call of submit() waits for ever, even if the engine stops: the wait  *)
(* for room has a deadline, and whoever holds the mutex gives it up.       *)
SubmitReturns == \A t \in Threads : pc[t] # "idle" ~> pc[t] = "idle"

(* Queues execute packets in order (queue.cpp:773 says it of every SDMA    *)
(* queue, XGMI ones included): unless the engine hangs, a packet submit()  *)
(* accepted is executed, without a later submission to push it along.      *)
AcceptedRuns ==
  \A c \in Calls :
    result[c] = "ok" /\ size[c] > 0
      ~> hung \/ \E i \in DOMAIN executed : executed[i] = c
=============================================================================
