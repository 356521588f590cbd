------------------------------- MODULE Buffers --------------------------------
(***************************************************************************)
(* kfd::Buffer (lib/memory.cpp): objects that own a buffer of the kernel,  *)
(* what mapped_ids says of it, and what the kernel has mapped.             *)
(*                                                                         *)
(* External, the kernel: a MAP or UNMAP of several GPUs that fails may     *)
(* have been done for some of them, and a buffer that is mapped is not     *)
(* freed.                                                                  *)
(***************************************************************************)
EXTENDS FiniteSets, Naturals

CONSTANTS Objects,   \* the Buffer objects
          Handles,   \* the kernel's handles; they are used again
          Null,      \* handle 0
          Gpus

ASSUME BufferAssumption == Null \notin Handles

VARIABLES
  handle,     \* the handle each object holds
  mapped_ids, \* the GPUs it has mapped, as it knows them
  memory,     \* kernel: the handles allocated ...
  mapped,     \* ... and the GPUs each is mapped to
  partial,    \* history: handles a failed MAP left mapped
  forgotten   \* history: handles nobody holds for want of memory

bvars == <<handle, mapped_ids, memory, mapped, partial, forgotten>>

BTypeOK ==
  /\ handle \in [Objects -> Handles \cup {Null}]
  /\ mapped_ids \in [Objects -> SUBSET Gpus]
  /\ memory \subseteq Handles /\ mapped \in [Handles -> SUBSET Gpus]
  /\ partial \subseteq Handles /\ forgotten \subseteq Handles

BInit ==
  /\ handle = [b \in Objects |-> Null] /\ mapped_ids = [b \in Objects |-> {}]
  /\ memory = {} /\ mapped = [h \in Handles |-> {}]
  /\ partial = {} /\ forgotten = {}

(* allocate() and pin(), into an object that holds nothing.                *)
Allocate(b) ==
  /\ handle[b] = Null
  /\ \E h \in Handles \ memory :
       /\ handle' = [handle EXCEPT ![b] = h]
       /\ memory' = memory \cup {h}
  /\ UNCHANGED <<mapped_ids, mapped, partial, forgotten>>

(* No memory for the mutex: the handle is lost with the error (bound: one). *)
AllocateForgets(b) ==
  /\ handle[b] = Null /\ forgotten = {}
  /\ \E h \in Handles \ memory : memory' = memory \cup {h} /\ forgotten' = {h}
  /\ UNCHANGED <<handle, mapped_ids, mapped, partial>>

Map(b, gpus) ==
  /\ handle[b] # Null
  /\ mapped' = [mapped EXCEPT ![handle[b]] = @ \cup gpus]
  /\ mapped_ids' = [mapped_ids EXCEPT ![b] = @ \cup gpus]
  /\ UNCHANGED <<handle, memory, partial, forgotten>>

(* The ioctl fails after some of the GPUs.                                 *)
MapFails(b, some) ==
  /\ handle[b] # Null
  /\ mapped' = [mapped EXCEPT ![handle[b]] = @ \cup some]
  /\ partial' = IF some \subseteq mapped_ids[b] THEN partial ELSE partial \cup {handle[b]}
  /\ UNCHANGED <<handle, mapped_ids, memory, forgotten>>

Unmap(b, gpus) ==
  /\ handle[b] # Null
  /\ mapped' = [mapped EXCEPT ![handle[b]] = @ \ gpus]
  /\ mapped_ids' = [mapped_ids EXCEPT ![b] = @ \ gpus]
  /\ UNCHANGED <<handle, memory, partial, forgotten>>

UnmapFails(b, some) ==
  /\ handle[b] # Null
  /\ mapped' = [mapped EXCEPT ![handle[b]] = @ \ some]
  /\ UNCHANGED <<handle, mapped_ids, memory, partial, forgotten>>

(* The kernel frees what is not mapped any more; else KFD_ASSERT ends the  *)
(* process.                                                                *)
Freed(b) == mapped[handle[b]] \subseteq mapped_ids[b]

FreeHandle(b) ==
  /\ Freed(b)
  /\ memory' = memory \ {handle[b]}
  /\ mapped' = [mapped EXCEPT ![handle[b]] = {}]
  /\ partial' = partial \ {handle[b]}

(* destroy(): the mapping goes first, then the handle.                     *)
DestroyBuffer(b) ==
  /\ handle[b] # Null /\ FreeHandle(b)
  /\ handle' = [handle EXCEPT ![b] = Null]
  /\ mapped_ids' = [mapped_ids EXCEPT ![b] = {}]
  /\ UNCHANGED forgotten

\* Mutant of MoveBuffer: what b holds is overwritten.
MoveBufferOver(b, from) ==
  /\ b # from
  /\ handle' = [handle EXCEPT ![b] = handle[from], ![from] = Null]
  /\ mapped_ids' = [mapped_ids EXCEPT ![b] = mapped_ids[from], ![from] = {}]
  /\ UNCHANGED <<memory, mapped, partial, forgotten>>

(* Buffer(Buffer &&) and operator=, which destroys what b holds.           *)
MoveBuffer(b, from) ==
  /\ b # from
  /\ IF handle[b] # Null THEN FreeHandle(b) ELSE UNCHANGED <<memory, mapped, partial>>
  /\ handle' = [handle EXCEPT ![b] = handle[from], ![from] = Null]
  /\ mapped_ids' = [mapped_ids EXCEPT ![b] = mapped_ids[from], ![from] = {}]
  /\ UNCHANGED forgotten

BufferStep(b) ==
  \/ Allocate(b) \/ AllocateForgets(b) \/ DestroyBuffer(b)
  \/ \E gpus \in SUBSET Gpus \ {{}} : Map(b, gpus) \/ Unmap(b, gpus)
  \/ \E some \in SUBSET Gpus \ {Gpus} : MapFails(b, some) \/ UnmapFails(b, some)
  \/ \E from \in Objects : MoveBuffer(b, from)

-----------------------------------------------------------------------------
(* An object knows every GPU its buffer is mapped to, so that destroying   *)
(* it unmaps them all and the kernel frees it (memory.cpp:59).  A MAP that *)
(* failed halfway is the exception (README).                               *)
DestroyIsAccepted ==
  \A b \in Objects : handle[b] # Null => Freed(b) \/ handle[b] \in partial

(* Each handle of the kernel is held by one object, and objects hold no    *)
(* others.                                                                 *)
EachHeldOnce ==
  /\ \A h \in memory \ forgotten : Cardinality({b \in Objects : handle[b] = h}) = 1
  /\ \A b \in Objects : handle[b] = Null \/ handle[b] \in memory \ forgotten
=============================================================================
