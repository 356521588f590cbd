---------------------------- MODULE ScratchSizing ----------------------------
(***************************************************************************)
(* How much scratch memory a request gets: the sizing functions of         *)
(* lib/detail/scratch.cpp and the loop of QueueBase::scratch_handler()     *)
(* that tries smaller and smaller numbers of wave slots until the pool,    *)
(* VRAM and the mapping all agree (lib/queue.cpp).  One behaviour is one   *)
(* request.  Sizes are in bytes, scaled down with the constants.           *)
(***************************************************************************)
EXTENDS Integers, FiniteSetsExt

CONSTANTS Topologies,  \* device properties: [simds, simdPerCu, arrays,
                       \* arraysPerEngine, slotsPerCu, xccs, gfx11]; from
                       \* GFX11 on WAVES counts per shader engine
          Needs,       \* bytes per thread that kernels ask for
          Groups,      \* waves of a work-group
          Lanes,       \* SCRATCH_LANES_PER_WAVE
          Unit,        \* scratch_alignment_unit()
          PageAlign,   \* PRIVATE_SEGMENT_ALIGN
          WavesField,  \* the WAVES field of tmpring holds 0..WavesField - 1
          MaxBytes,    \* the largest region the pool can hand out
          Word         \* 2^32, the width of slots

Counts == 0..(Word - 1)

ASSUME SizingAssumption ==
  /\ {Lanes, Unit, PageAlign} \subseteq Nat \ {0} /\ Word \in Nat \ {0, 1}
  /\ {WavesField, MaxBytes} \subseteq Nat
  /\ Needs \subseteq Nat \ {0} /\ Groups \subseteq Nat \ {0}
  /\ Topologies \subseteq
       [simds : Counts, simdPerCu : Counts, arrays : Counts, arraysPerEngine : Counts,
        slotsPerCu : Counts, xccs : Counts, gfx11 : BOOLEAN]

VARIABLES topology, need, group,  \* the request
          slots,                  \* wave slots to try next
          outcome,                \* "trying", "allocated" or "failed"
          region                  \* the size allocated

sizingVars == <<topology, need, group, slots, outcome, region>>

-----------------------------------------------------------------------------
OrOne(n) == IF n = 0 THEN 1 ELSE n
Smaller(m, n) == IF m < n THEN m ELSE n

(* x & m, for m below 2^31: the largest number whose bits are bits of both. *)
Powers == {b \in Counts : \E i \in 0..30 : b = 2^i}
HasBit(n, b) == (n \div b) % 2 = 1
And(x, m) ==
  LET with(y) == {0} \cup {z \in 1..m : \A b \in Powers :
                              HasBit(z, b) => HasBit(y, b) /\ HasBit(m, b)}
  IN  [y \in Nat |-> Max(with(y))][x]

(* align_up(): adds and masks, whether or not the alignment is a power of  *)
(* two.                                                                    *)
AlignUp(value, alignment) ==
  LET x == value + alignment - 1 IN x - And(x, alignment - 1)

NumSe(p) == IF p.arraysPerEngine = 0 THEN 1
            ELSE OrOne(p.arrays \div p.arraysPerEngine)
NumCus(p) == p.simds \div OrOne(p.simdPerCu)

(* scratch_device_slots(dev, 1)                                            *)
DeviceSlots(p) ==
  LET n == (AlignUp(NumCus(p), NumSe(p)) * p.slotsPerCu) % Word
  IN  IF n = 0 THEN NumSe(p) ELSE n

PerWave(n) == AlignUp(Lanes * n, Unit)

\* Mutant of AllocSize: the waves are not aligned one by one.
AllocSizeLoose(n, s) == AlignUp(Lanes * n * s, PageAlign)

(* scratch_alloc_size()                                                    *)
AllocSize(n, s) == AlignUp(PerWave(n) * s, PageAlign)

\* Mutant of Waves: the waves are not aligned one by one.
WavesUnaligned(p, n, size) ==
  LET fit == size \div (Lanes * n)
  IN  IF p.gfx11 THEN OrOne(fit \div NumSe(p)) ELSE OrOne(fit)

\* Mutant of Waves: nothing limits the waves to those of the device.
WavesUncapped(p, n, size) ==
  LET fit == size \div PerWave(n)
  IN  IF p.gfx11 THEN OrOne(fit \div NumSe(p))
      ELSE LET w == (fit \div NumSe(p)) * NumSe(p)
           IN  IF w = 0 THEN NumSe(p) ELSE w

(* compute_tmpring_size(dev, need, size, 1): the WAVES field.  It counts   *)
(* the waves of one shader engine from GFX11 on, and all of them before.   *)
Waves(p, n, size) ==
  LET fit == size \div PerWave(n)
      max == NumCus(p) * p.slotsPerCu
  IN  IF p.gfx11 THEN OrOne(Smaller(fit \div NumSe(p), max))
      ELSE LET w == (Smaller(fit, max) \div NumSe(p)) * NumSe(p)
           IN  IF w = 0 THEN NumSe(p) ELSE w

(* The handler divides the engines among the partitions of the device.     *)
HandlerSe == OrOne(NumSe(topology) \div OrOne(topology.xccs))
MinSlots == 2 * HandlerSe

-----------------------------------------------------------------------------
SizingInit ==
  /\ topology \in Topologies /\ need \in Needs /\ group \in Groups
  /\ slots = DeviceSlots(topology)
  /\ outcome = "trying" /\ region = 0

Trying == outcome = "trying" /\ slots >= MinSlots

Allocated ==
  /\ Trying /\ AllocSize(need, slots) <= MaxBytes
  /\ outcome' = "allocated" /\ region' = AllocSize(need, slots)
  /\ UNCHANGED <<topology, need, group, slots>>

\* Mutant of FewerSlots: the retry makes no progress.
SameSlots == (slots \div HandlerSe) * HandlerSe
(* Unsigned: a work-group of more waves than there are slots left wraps.   *)
FewerSlots == (((slots - group) % Word) \div HandlerSe) * HandlerSe

(* The pool, VRAM or the mapping refused, which any of them may.           *)
Refused ==
  /\ Trying
  /\ slots' = FewerSlots
  /\ UNCHANGED <<topology, need, group, outcome, region>>

GiveUp ==
  /\ outcome = "trying" /\ slots < MinSlots
  /\ outcome' = "failed"
  /\ UNCHANGED <<topology, need, group, slots, region>>

SizingNext == Allocated \/ Refused \/ GiveUp
SizingSpec == SizingInit /\ [][SizingNext]_sizingVars
SizingFairSpec == SizingSpec /\ WF_sizingVars(SizingNext)

-----------------------------------------------------------------------------
SizingTypeOK ==
  /\ slots \in Counts /\ outcome \in {"trying", "allocated", "failed"}
  /\ region \in 0..MaxBytes

(* scratch.h:57 "total = WAVES * per_wave": the waves the register allows, *)
(* each of its aligned size, lie inside the region that was allocated.     *)
WavesFit ==
  outcome = "allocated" =>
    LET waves == Waves(topology, need, region)
    IN  PerWave(need) * waves * (IF topology.gfx11 THEN NumSe(topology) ELSE 1)
          <= region

(* compute_tmpring_size() promises no wave outside the region, whatever    *)
(* was refused before, and after a wrap too.                               *)
SizingInv == SizingTypeOK /\ WavesFit

(* The register does not waste memory that was allocated: it allows the    *)
(* waves of every slot the region was sized for, as far as the device has  *)
(* compute units for them.                                                 *)
SlotsServed ==
  outcome = "allocated" =>
    LET p == topology
        most == NumCus(p) * p.slotsPerCu
    IN  Waves(p, need, region) >=
          IF p.gfx11 THEN Smaller(slots \div NumSe(p), most)
          ELSE Smaller(slots \div NumSe(p), most \div NumSe(p)) * NumSe(p)

(* scratch.h:67 "WAVES [11:0]": on devices whose slots the field can       *)
(* count, the number of waves does not spill into WAVESIZE, however large  *)
(* the region.                                                             *)
WavesFitField ==
  outcome = "allocated" => Waves(topology, need, region) < WavesField

(* The loop of scratch_handler() ends, also when the number of slots wraps *)
(* (queue.cpp:230): it settles on a size or reports ENOMEM.  Not so on     *)
(* some devices with some work-groups, while memory stays short: there the *)
(* numbers after the wrap come back to the one that wrapped, for the       *)
(* "resize" of queue.cpp:221 has made the request larger.                  *)
Settles == <>(outcome # "trying")
=============================================================================
