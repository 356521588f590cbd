------------------------------ MODULE QueueLife -------------------------------
(***************************************************************************)
(* The life of hardware queues and of what they use (lib/queue.cpp:        *)
(* QueueBase::create(), its destructor and moves, ComputeQueue::create(),  *)
(* SDMAQueue::create(); lib/device.cpp: Device::doorbell()).               *)
(*                                                                         *)
(* Each C++ object is a slot.  A creation acquires the things of Making()  *)
(* one by one; where one fails, and when an object is destroyed or         *)
(* assigned to, the things are given up one by one, in the order of the    *)
(* code, while the device executes the queue's commands and the watcher    *)
(* thread calls handlers.                                                  *)
(*                                                                         *)
(* External: the device executes the commands of a queue in order; the     *)
(* kernel has MaxHardware queues.                                          *)
(***************************************************************************)
EXTENDS Integers, SequencesExt

CONSTANTS ComputeSlots, SdmaSlots,
          MaxHardware,  \* external: hardware queues of the device
          MaxRetries,   \* QUEUE_CREATE_RETRIES: 20
          MaxCommands   \* bound: commands in flight of a queue

Slots == ComputeSlots \cup SdmaSlots

ASSUME QueueLifeAssumption ==
  /\ ComputeSlots \cap SdmaSlots = {}
  /\ {MaxHardware, MaxRetries} \subseteq Nat /\ MaxCommands \in Nat \ {0}

VARIABLES
  phase,    \* what each object is in
  has,      \* what it owns
  todo,     \* what it gives up, in order
  tries,    \* failed CREATE_QUEUEs of its creation
  fifo,     \* the commands its hardware queue has to execute
  doorbells, \* the doorbell page is mapped
  source,   \* the object it is assigned from
  lost      \* history: hardware queues left behind for want of memory

qvars == <<phase, has, todo, tries, fifo, doorbells, source, lost>>

(* The things, in the order of their creation.  A Buffer is one thing,     *)
(* with its mapping; "hw" is the hardware queue, "err" and "scratch" name  *)
(* the two watched events: event, handler's context, watch.                *)
Making(s) ==
  IF s \in SdmaSlots THEN <<"control", "ring", "hw", "doorbell", "submit_mtx">>
  ELSE <<"control", "err_event", "cwsr", "ring", "eop", "hw", "doorbell", "submit_mtx",
         "err_watch_ctx", "err_watch", "scratch_event", "scratch_watch_ctx",
         "scratch_watch", "eop_seq">>

Things == {"scratch"} \cup UNION {ToSet(Making(s)) : s \in Slots}

(* ~QueueBase() and its members in reverse order, then eop_seq.            *)
DestroyOrder ==
  <<"err_watch", "scratch_watch", "hw", "scratch", "submit_mtx", "scratch_watch_ctx",
    "scratch_event", "err_watch_ctx", "err_event", "doorbell", "cwsr", "eop", "ring",
    "control", "eop_seq">>

(* The assignment of a ComputeQueue: eop_seq first, then the old queue and *)
(* the members of QueueBase as operator= replaces them.                    *)
AssignOrder ==
  <<"eop_seq", "err_watch", "scratch_watch", "hw", "scratch", "ring", "control", "eop",
    "cwsr", "doorbell", "err_event", "err_watch_ctx", "scratch_event",
    "scratch_watch_ctx", "submit_mtx">>

(* The locals of QueueBase::create() before there is a QueueBase.          *)
Locals == <<"doorbell", "eop", "ring", "err_event", "cwsr", "control">>

QTypeOK ==
  /\ phase \in [Slots -> {"empty", "making", "live", "undo", "dying", "assigned",
                        "source"}]
  /\ has \in [Slots -> SUBSET Things]
  /\ \A s \in Slots : /\ ToSet(todo[s]) \subseteq Things
                      /\ Len(fifo[s]) <= MaxCommands
  /\ tries \in [Slots -> 0..MaxRetries]
  /\ doorbells \in BOOLEAN /\ lost \in Nat
  /\ source \in [Slots -> Slots]

QInit ==
  /\ phase = [s \in Slots |-> "empty"] /\ has = [s \in Slots |-> {}]
  /\ todo = [s \in Slots |-> <<>>] /\ tries = [s \in Slots |-> 0]
  /\ fifo = [s \in Slots |-> <<>>]
  /\ doorbells = FALSE /\ lost = 0 /\ source = [s \in Slots |-> s]

-----------------------------------------------------------------------------
IsCompute(s) == s \in ComputeSlots

(* The first thing of the order that is in the set.                        *)
First(x, order, set) ==
  /\ x \in set
  /\ \E i \in DOMAIN order : order[i] = x /\ \A j \in 1..(i - 1) : order[j] \notin set

Making1(s, x) == phase[s] = "making" /\ First(x, Making(s), Things \ has[s])
HardwareInUse == lost + Cardinality({s \in Slots : "hw" \in has[s]})

Begin(s) ==
  /\ phase[s] = "empty"
  /\ phase' = [phase EXCEPT ![s] = "making"]
  /\ tries' = [tries EXCEPT ![s] = 0]
  /\ UNCHANGED <<has, todo, fifo, doorbells, source, lost>>

(* A Buffer, an Event, a Box, or a watch.                                  *)
Acquire(s) ==
  /\ \E x \in Things \ {"hw", "doorbell"} :
       Making1(s, x) /\ has' = [has EXCEPT ![s] = @ \cup {x}]
  /\ UNCHANGED <<phase, todo, tries, fifo, doorbells, source, lost>>

CreateHardware(s) ==
  /\ Making1(s, "hw") /\ HardwareInUse < MaxHardware
  /\ has' = [has EXCEPT ![s] = @ \cup {"hw"}]
  /\ UNCHANGED <<phase, todo, tries, fifo, doorbells, source, lost>>

(* ENOMEM: try again after 100 ms.                                         *)
RetryHardware(s) ==
  /\ Making1(s, "hw") /\ HardwareInUse = MaxHardware /\ tries[s] < MaxRetries
  /\ tries' = [tries EXCEPT ![s] = @ + 1]
  /\ UNCHANGED <<phase, has, todo, fifo, doorbells, source, lost>>

(* The device's page is mapped by the first queue that needs it.           *)
FindDoorbell(s) ==
  /\ Making1(s, "doorbell")
  /\ has' = [has EXCEPT ![s] = @ \cup {"doorbell"}]
  /\ doorbells' = TRUE
  /\ UNCHANGED <<phase, todo, tries, fifo, source, lost>>

GiveUpInOrder(s, how, order) ==
  /\ phase' = [phase EXCEPT ![s] = how]
  /\ todo' = [todo EXCEPT ![s] = order]

\* Mutant of UndoDoorbell: as for any other error.
UndoDoorbellAsLocals == Locals

UndoDoorbell == <<"hw">> \o Locals

(* Any step may fail.  Before the QueueBase is complete its parts are      *)
(* locals of create(), and the hardware queue belongs to nobody: it is     *)
(* destroyed when the doorbell cannot be mapped, and left behind when      *)
(* there is no memory for the mutex.                                       *)
Fails(s) ==
  \E x \in Things :
    /\ Making1(s, x)
    /\ x = "doorbell" => ~doorbells
    /\ GiveUpInOrder(s, "undo",
         IF "submit_mtx" \in has[s] THEN DestroyOrder
         ELSE IF x = "doorbell" THEN UndoDoorbell ELSE Locals)
    /\ x = "submit_mtx" => lost = 0  \* bound
    /\ IF x = "submit_mtx"
       THEN lost' = lost + 1 /\ has' = [has EXCEPT ![s] = @ \ {"hw"}]
       ELSE UNCHANGED <<has, lost>>
    /\ UNCHANGED <<tries, fifo, doorbells, source>>

(* A compute queue clears eop_seq with its first commands.                 *)
Complete(s) ==
  /\ phase[s] = "making" /\ ToSet(Making(s)) \subseteq has[s]
  /\ phase' = [phase EXCEPT ![s] = "live"]
  /\ fifo' = IF IsCompute(s) THEN [fifo EXCEPT ![s] = <<<<"work">>>>] ELSE fifo
  /\ UNCHANGED <<has, todo, tries, doorbells, source, lost>>

-----------------------------------------------------------------------------
Put(s, cmd) ==
  /\ phase[s] = "live" /\ Len(fifo[s]) < MaxCommands
  /\ fifo' = [fifo EXCEPT ![s] = Append(@, cmd)]
  /\ UNCHANGED <<phase, has, todo, tries, doorbells, source, lost>>

Next1(s, cmd) == fifo[s] # <<>> /\ Head(fifo[s]) = cmd
Done(s) ==
  /\ fifo' = [fifo EXCEPT ![s] = Tail(@)]
  /\ UNCHANGED <<phase, has, todo, tries, doorbells, source, lost>>

(* Commands that need no scratch, kernels that do, and the waves of one    *)
(* that has it.                                                            *)
Submit(s) ==
  \/ Put(s, <<"work">>)
  \/ IsCompute(s) /\ Put(s, <<"kernel">>)

Execute(s) == (Next1(s, <<"work">>) \/ Next1(s, <<"waves">>)) /\ Done(s)

(* The watcher's handler (module Scratch) serves the kernel that stalls.   *)
ServeScratch(s) ==
  /\ Next1(s, <<"kernel">>) /\ "scratch_watch" \in has[s]
  /\ has' = [has EXCEPT ![s] = @ \cup {"scratch"}]
  /\ fifo' = [fifo EXCEPT ![s][1] = <<"waves">>]
  /\ UNCHANGED <<phase, todo, tries, doorbells, source, lost>>

-----------------------------------------------------------------------------
Destroy(s) ==
  /\ phase[s] = "live"
  /\ GiveUpInOrder(s, "dying", DestroyOrder)
  /\ UNCHANGED <<has, tries, fifo, doorbells, source, lost>>

(* One thing after the other; the destruction of the hardware queue        *)
(* preempts what it executes.                                              *)
GiveUp(s) ==
  /\ \E x \in Things :
       /\ First(x, todo[s], has[s])
       /\ has' = [has EXCEPT ![s] = @ \ {x}]
       /\ fifo' = IF x = "hw" THEN [fifo EXCEPT ![s] = <<>>] ELSE fifo
  /\ UNCHANGED <<phase, todo, tries, doorbells, source, lost>>

GivenUp(s, how) == phase[s] \in how /\ ToSet(todo[s]) \cap has[s] = {}

GaveUp(s) ==
  /\ GivenUp(s, {"undo", "dying"})
  /\ phase' = [phase EXCEPT ![s] = "empty"] /\ todo' = [todo EXCEPT ![s] = <<>>]
  /\ UNCHANGED <<has, tries, fifo, doorbells, source, lost>>

SameType(s, from) == IsCompute(s) = IsCompute(from)

(* QueueBase(QueueBase &&): all the things change hands.                   *)
Take(s, from) ==
  /\ phase' = [phase EXCEPT ![s] = "live", ![from] = "empty"]
  /\ has' = [has EXCEPT ![s] = has[from], ![from] = {}]
  /\ fifo' = [fifo EXCEPT ![s] = fifo[from], ![from] = <<>>]
  /\ todo' = [todo EXCEPT ![s] = <<>>]
  /\ UNCHANGED <<tries, doorbells, lost>>

MoveInto(s, from) ==
  /\ SameType(s, from) /\ phase[s] = "empty" /\ phase[from] = "live"
  /\ Take(s, from) /\ UNCHANGED source

(* operator=: first give up what it has.                                   *)
Assign(s, from) ==
  /\ s # from /\ SameType(s, from)
  /\ phase[s] = "live" /\ phase[from] = "live"
  /\ phase' = [phase EXCEPT ![s] = "assigned", ![from] = "source"]
  /\ todo' = [todo EXCEPT ![s] = AssignOrder]
  /\ source' = [source EXCEPT ![s] = from]
  /\ UNCHANGED <<has, tries, fifo, doorbells, lost>>

Assigned(s) ==
  /\ GivenUp(s, {"assigned"})
  /\ Take(s, source[s])
  /\ source' = [source EXCEPT ![s] = s]

QueueCall(s) ==
  \/ Acquire(s) \/ CreateHardware(s) \/ RetryHardware(s) \/ FindDoorbell(s)
  \/ Fails(s) \/ Complete(s) \/ GiveUp(s) \/ GaveUp(s) \/ Assigned(s)

DeviceStep(s) == Execute(s) \/ ServeScratch(s)

QueueStep(s) ==
  \/ Begin(s) \/ QueueCall(s) \/ DeviceStep(s) \/ Submit(s) \/ Destroy(s)
  \/ \E from \in Slots : MoveInto(s, from) \/ Assign(s, from)

-----------------------------------------------------------------------------
(* While the kernel has the queue, the memory it was given, and what the   *)
(* commands in flight use, exists.  The old queue of an assignment loses   *)
(* eop_seq too early (queue.h:282, README).                                *)
HardwareUses(s) ==
  {"control", "ring"}
  \cup (IF IsCompute(s) THEN {"eop", "cwsr"} ELSE {})
  \cup (IF IsCompute(s) /\ fifo[s] # <<>> /\ phase[s] # "assigned" THEN {"eop_seq"}
        ELSE {})
  \cup (IF <<"waves">> \in ToSet(fifo[s]) THEN {"scratch"} ELSE {})

QueueMemoryAlive == \A s \in Slots : "hw" \in has[s] => HardwareUses(s) \subseteq has[s]

(* What the watcher's handlers use exists while the event is watched.      *)
WatchedAlive ==
  \A s \in Slots :
    /\ "err_watch" \in has[s] => {"err_event", "err_watch_ctx", "control"} \subseteq has[s]
    /\ "scratch_watch" \in has[s] =>
         {"scratch_event", "scratch_watch_ctx", "control"} \subseteq has[s]

(* An object that holds no queue owns nothing, and neither does one that   *)
(* has given up all the code gives up.                                     *)
QueueLeavesNothing ==
  \A s \in Slots :
    phase[s] = "empty" \/ GivenUp(s, {"undo", "dying", "assigned"})
    => has[s] = {} /\ fifo[s] = <<>>
=============================================================================
