------------------------------- MODULE Loader ---------------------------------
(***************************************************************************)
(* Executable::load() (lib/loader.cpp) on the queues of module QueueLife:  *)
(* the image is laid out in a staging buffer, the SDMA queue copies it     *)
(* into VRAM chunk by chunk and signals, the compute queue waits for the   *)
(* signal, invalidates its caches and signals in turn, and the host waits  *)
(* for that.  Any call may fail, and the locals are destroyed.             *)
(*                                                                         *)
(* External: while the device works a compute unit may cache a chunk of    *)
(* VRAM at any time, also what the place held before.  After a load that   *)
(* failed with commands in flight the next one waits until they are gone.  *)
(***************************************************************************)
EXTENDS QueueLife, Elf

CONSTANTS Images,      \* the images that may be loaded
          Dev,         \* the device: [gfx, xnack, sramecc]
          VramBase,    \* external: where the image is allocated
          ChunkWords,  \* max_copy_linear_bytes()
          VramChunks   \* bound: chunks of the largest image

ASSUME LoaderAssumption ==
  /\ ChunkWords \in Nat \ {0} /\ VramChunks \in Nat /\ VramBase \in Nat
  /\ Images # {} /\ SdmaSlots # {} /\ ComputeSlots # {}
  /\ \A img \in Images : Acceptable(img, Dev) =>
       Footprint(img) \in 0..(VramChunks * ChunkWords)

VARIABLES
  at,      \* where load() is
  img,     \* its image
  sdma, compute,  \* its queues
  holds,   \* what it has, or the Executable
  next,    \* the chunk it copies next
  fence,   \* the value of its signal
  vram,    \* what VRAM holds at the image's place
  cache    \* what the caches of the compute units hold of each chunk, or {}

lvars == <<at, img, sdma, compute, holds, next, fence, vram, cache>>

Chunks == 0..VramChunks - 1
Old == <<>>  \* what was in VRAM before

(* A chunk of the staging buffer.                                          *)
Chunk(i, c) ==
  LET m == Staged(i, VramBase)
  IN  [k \in 1..Least(ChunkWords, Footprint(i) - c * ChunkWords) |-> m[c * ChunkWords + k - 1]]
ChunksOf(i) == (Footprint(i) + ChunkWords - 1) \div ChunkWords

LTypeOK ==
  /\ at \in {"idle", "image", "staging", "pinned", "fill", "signal", "copy",
             "sdmaSignal", "wait", "acquire", "computeSignal", "host", "loaded"}
  /\ img \in Images /\ sdma \in Slots /\ compute \in Slots
  /\ holds \subseteq {"region", "image", "staging", "pinned", "signal"}
  /\ next \in 0..VramChunks /\ fence \in 0..2
  /\ DOMAIN vram = Chunks /\ DOMAIN cache = Chunks

AtEnd(i, s, c) ==
  /\ i = CHOOSE k \in Images : TRUE
  /\ s = CHOOSE k \in SdmaSlots : TRUE
  /\ c = CHOOSE k \in ComputeSlots : TRUE

LInit ==
  /\ at = "idle" /\ AtEnd(img, sdma, compute) /\ holds = {} /\ next = 0 /\ fence = 0
  /\ vram = [c \in Chunks |-> Old] /\ cache = [c \in Chunks |-> {}]

-----------------------------------------------------------------------------
LoaderCommands == {<<"copy", c>> : c \in Chunks} \cup {<<"wait">>, <<"acquire">>, <<"signal">>}
InFlight == \E s \in Slots : ToSet(fifo[s]) \cap LoaderCommands # {}
Go(from, to) == at = from /\ at' = to

Ends ==
  /\ at' = "idle" /\ AtEnd(img', sdma', compute') /\ holds' = {} /\ next' = 0
  /\ fence' = IF InFlight THEN fence ELSE 0
  /\ vram' = [c \in Chunks |-> Old] /\ cache' = [c \in Chunks |-> {}]
  /\ UNCHANGED qvars

Load(i, s, c) ==
  /\ Go("idle", "image") /\ ~InFlight /\ phase[s] = "live" /\ phase[c] = "live"
  /\ Acceptable(i, Dev)
  /\ img' = i /\ sdma' = s /\ compute' = c
  /\ holds' = {"region"} /\ next' = 0
  /\ UNCHANGED <<fence, vram, cache, qvars>>

(* The image in VRAM, the staging buffer, and the pin that maps it.        *)
Get(from, to, thing) ==
  /\ Go(from, to)
  /\ holds' = holds \cup {thing}
  /\ UNCHANGED <<img, sdma, compute, next, fence, vram, cache, qvars>>

Fill ==
  /\ Go("fill", "signal") /\ Fillable(img)
  /\ UNCHANGED <<img, sdma, compute, holds, next, fence, vram, cache, qvars>>

Refuse == at = "fill" /\ ~Fillable(img) /\ Ends

InitialFence == 2

CreateSignal ==
  /\ Go("signal", "copy")
  /\ fence' = InitialFence /\ holds' = holds \cup {"signal"}
  /\ UNCHANGED <<img, sdma, compute, next, vram, cache, qvars>>

CopyChunk ==
  /\ at = "copy" /\ next < ChunksOf(img)
  /\ Put(sdma, <<"copy", next>>)
  /\ next' = next + 1
  /\ UNCHANGED <<at, img, sdma, compute, holds, fence, vram, cache>>

AllCopied ==
  /\ next = ChunksOf(img) /\ Go("copy", "sdmaSignal")
  /\ UNCHANGED <<img, sdma, compute, holds, next, fence, vram, cache, qvars>>

SubmitTo(q, from, to, cmd) ==
  /\ Go(from, to) /\ Put(q, cmd)
  /\ UNCHANGED <<img, sdma, compute, holds, next, fence, vram, cache>>

\* Mutant of ComputeSteps: the caches are invalidated before the wait.
ComputeStepsSwapped ==
  \/ SubmitTo(compute, "wait", "acquire", <<"acquire">>)
  \/ SubmitTo(compute, "acquire", "computeSignal", <<"wait">>)
  \/ SubmitTo(compute, "computeSignal", "host", <<"signal">>)

ComputeSteps ==
  \/ SubmitTo(compute, "wait", "acquire", <<"wait">>)
  \/ SubmitTo(compute, "acquire", "computeSignal", <<"acquire">>)
  \/ SubmitTo(compute, "computeSignal", "host", <<"signal">>)

(* Everything but the image and its file is destroyed.                     *)
HostWaits ==
  /\ Go("host", "loaded") /\ fence = 0
  /\ holds' = {"region", "image"} /\ next' = 0
  /\ UNCHANGED <<img, sdma, compute, fence, vram, cache, qvars>>

(* Any call may fail: no memory, an image that cannot be laid out, a ring  *)
(* that has no room for five seconds, a wait the kernel refuses.           *)
LoadFails == at \notin {"idle", "loaded"} /\ Ends

DestroyExecutable == at = "loaded" /\ Ends

LoadStep ==
  \/ Get("image", "staging", "image") \/ Get("staging", "pinned", "staging")
  \/ Get("pinned", "fill", "pinned") \/ Fill \/ Refuse \/ CreateSignal \/ CopyChunk
  \/ AllCopied \/ SubmitTo(sdma, "sdmaSignal", "wait", <<"signal">>)
  \/ ComputeSteps \/ HostWaits

-----------------------------------------------------------------------------
(* The engines.                                                            *)
Copy(s) ==
  /\ \E c \in Chunks : /\ Next1(s, <<"copy", c>>)
                       /\ vram' = IF at = "idle" THEN vram
                                  ELSE [vram EXCEPT ![c] = Chunk(img, c)]
  /\ Done(s) /\ UNCHANGED <<at, img, sdma, compute, holds, next, fence, cache>>

Signal(s) ==
  /\ Next1(s, <<"signal">>) /\ Done(s)
  /\ fence' = IF fence > 0 THEN fence - 1 ELSE fence
  /\ UNCHANGED <<at, img, sdma, compute, holds, next, vram, cache>>

\* Mutant of WaitValue: the compute queue waits for its own signal.
WaitValueLast == 0

WaitValue == 1

Wait(s) ==
  /\ Next1(s, <<"wait">>) /\ fence = WaitValue /\ Done(s)
  /\ UNCHANGED <<at, img, sdma, compute, holds, next, fence, vram, cache>>

AcquireMem(s) ==
  /\ Next1(s, <<"acquire">>) /\ Done(s)
  /\ cache' = [c \in Chunks |-> {}]
  /\ UNCHANGED <<at, img, sdma, compute, holds, next, fence, vram>>

Prefetch(c) ==
  /\ at \notin {"idle", "loaded"}
  /\ cache' = [cache EXCEPT ![c] = {vram[c]}]
  /\ UNCHANGED <<at, img, sdma, compute, holds, next, fence, vram, qvars>>

EngineStep(s) == Copy(s) \/ Signal(s) \/ Wait(s) \/ AcquireMem(s)

-----------------------------------------------------------------------------
(* What the image says each word is: the last relocation that names it,    *)
(* read in the file; else what the last segment that covers it has in the  *)
(* file; else zero.                                                        *)
FileAt(i, vaddr) ==
  LET covers(p) == vaddr \in p.vaddr..p.vaddr + p.filesz - 1
      cover == {k \in LoadSegments(i) : covers(i.phdrs[k])}
      ph == i.phdrs[Max(cover)]
  IN  IF cover = {} THEN Data(0) ELSE i.bytes[ph.offset + vaddr - ph.vaddr]

Reference(i, a) ==
  LET vaddr == a + Lo(i)
      rela(k) == FileAt(i, Dynamic(i).rela + k - 1)
      named == IF Relocates(i)
               THEN {k \in 1..Dynamic(i).relasz :
                       rela(k).kind = "rela" /\ rela(k).offset = vaddr}
               ELSE {}
  IN  IF named = {} THEN FileAt(i, vaddr)
      ELSE Data(VramBase - Lo(i) + rela(Max(named)).addend)

(* When load() has returned, VRAM holds what was staged, chunk by chunk,   *)
(* and no cache of a compute unit anything else: the copies were done      *)
(* before the caches were invalidated, and both before the host went on    *)
(* (loader.cpp:164).                                                       *)
AsStaged ==
  at = "loaded" =>
    \A c \in 0..ChunksOf(img) - 1 :
      vram[c] = Chunk(img, c) /\ cache[c] \subseteq {vram[c]}

(* The copies find the staging buffer and the image, unless load() gave up *)
(* with commands in flight (loader.cpp:165, README).                       *)
CopiesHaveMemory ==
  \/ at = "idle"
  \/ \A s \in Slots : \A c \in Chunks :
       <<"copy", c>> \in ToSet(fifo[s]) => {"image", "staging", "pinned"} \subseteq holds

(* A lookup finds the symbol of that name that the table of the image is   *)
(* made for, whatever buckets and chains the hashes fall into.             *)
LookupFinds(i) ==
  \A name \in Names :
    LET of == {k \in i.hash.symndx + 1..Len(i.syms) : i.syms[k].name = name}
    IN  FindSymbol(i, name) = IF of = {} THEN NoSymbol ELSE i.syms[Min(of)]

(* The host reads the descriptor of a kernel in the file, the device the   *)
(* one in VRAM: they are the same.                                         *)
DescriptorsAgree(i) ==
  \A name \in Names :
    Entry(i, name) # NoEntry =>
      LET sym == FindSymbol(i, name)
      IN  Staged(i, VramBase)[sym.value - Lo(i)] = i.bytes[FileOffset(i, sym)]

(* What was staged is the image as its segments and relocations define it, *)
(* and its symbols and kernels are found (loader.cpp:98, elf.cpp).         *)
ImageRight ==
  at = "loaded" =>
    /\ \A a \in 0..Footprint(img) - 1 : Staged(img, VramBase)[a] = Reference(img, a)
    /\ LookupFinds(img) /\ DescriptorsAgree(img)
=============================================================================
