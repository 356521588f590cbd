--------------------------------- MODULE Elf ----------------------------------
(***************************************************************************)
(* What the loader reads of a code object (lib/detail/elf.cpp,             *)
(* detail/elf.h, and the pure parts of lib/loader.cpp), for an image       *)
(*   [flags, size, phdrs, sections, syms, hash, bytes]                     *)
(* of size words of 8 bytes; bytes[i] is the word at offset i of the file. *)
(* A word is data, an entry of the relocation table, or a descriptor of a  *)
(* kernel with the distance to its entry.                                  *)
(*                                                                         *)
(* Addresses are whole numbers of words and do not wrap: the checks for    *)
(* wrapped sums, and those of the headers in ELF64LE::create(), are the    *)
(* field "header" of an image.                                             *)
(***************************************************************************)
EXTENDS Integers, SequencesExt

CONSTANTS Hash,        \* hash_gnu(): the hash of each name
          GfxOf,       \* AMDGPU_MACH_LIST: the version a machine stands for
          GenericMap,  \* AMDGPU_GENERIC_MAP: [mach, gfx, min]
          PageWords,   \* words of a page
          MaxWords     \* UINT32_MAX, in words

Names == DOMAIN Hash

ASSUME ElfAssumption ==
  /\ \A name \in Names : Hash[name] \in Nat
  /\ PageWords \in Nat \ {0} /\ MaxWords \in Nat

NoSymbol == [name |-> "", value |-> 0, size |-> 0, section |-> 0, kd |-> FALSE]
Data(v) == [kind |-> "data", v |-> v]
Least(a, b) == IF a < b THEN a ELSE b
AlignUp(n, to) == ((n + to - 1) \div to) * to

(* is_compatible(): the features an image demands are on or off as it      *)
(* demands, and the GPU is its own, or one of its generic target's that    *)
(* the version of the image covers.                                        *)
Demands(feature, on) ==
  \/ feature = "any"
  \/ feature = (IF on THEN "on" ELSE "off")

Compatible(flags, dev) ==
  /\ Demands(flags.xnack, dev.xnack) /\ Demands(flags.sramecc, dev.sramecc)
  /\ IF \E g \in GenericMap : g.mach = flags.mach
     THEN \E g \in GenericMap : /\ g.mach = flags.mach /\ g.gfx = dev.gfx
                                /\ flags.version >= g.min
     ELSE flags.mach \in DOMAIN GfxOf /\ GfxOf[flags.mach] = dev.gfx

-----------------------------------------------------------------------------
(* load_extent().                                                          *)
LoadSegments(img) == {i \in DOMAIN img.phdrs : img.phdrs[i].type = "LOAD"}
Lo(img) == Min({img.phdrs[i].vaddr : i \in LoadSegments(img)})
Hi(img) == Max({img.phdrs[i].vaddr + img.phdrs[i].memsz : i \in LoadSegments(img)})
Align(img) == Max({img.phdrs[i].align : i \in LoadSegments(img)} \cup {PageWords})
Footprint(img) == AlignUp(Hi(img) - Lo(img), Align(img))

Extends(img) == LoadSegments(img) # {} /\ Lo(img) < Hi(img)

(* segment_data().                                                         *)
InFile(img, ph) == ph.offset + ph.filesz <= img.size

(* What Executable::load() refuses before it allocates anything.           *)
Acceptable(img, dev) ==
  /\ img.header /\ img.size > 0 /\ Compatible(img.flags, dev)
  /\ Extends(img) /\ Footprint(img) <= MaxWords

(* The first PT_DYNAMIC segment names the relocation table.                *)
Dynamics(img) == {i \in DOMAIN img.phdrs : img.phdrs[i].type = "DYNAMIC"}
Dynamic(img) == img.phdrs[Min(Dynamics(img))]
Relocates(img) == Dynamics(img) # {} /\ Dynamic(img).rela # 0 /\ Dynamic(img).relasz # 0
Table(img) == Dynamic(img).rela - Lo(img)

(* ... and while it fills the staging buffer.                              *)
Fillable(img) ==
  /\ \A i \in LoadSegments(img) :
       LET ph == img.phdrs[i]
       IN  ph.filesz > 0 =>
             InFile(img, ph) /\ ph.vaddr - Lo(img) + ph.filesz <= Footprint(img)
  /\ Dynamics(img) # {} => InFile(img, Dynamic(img))
  /\ Relocates(img) => /\ Table(img) >= 0 /\ Table(img) <= Footprint(img)
                       /\ Dynamic(img).relasz <= Footprint(img) - Table(img)

PlaceSegment(img, m, ph) ==
  IF ph.type # "LOAD" THEN m
  ELSE [a \in DOMAIN m |-> LET at == a - (ph.vaddr - Lo(img))
                           IN  IF at \in 0..ph.filesz - 1 THEN img.bytes[ph.offset + at]
                               ELSE m[a]]

\* Mutant of Relocate: relative to the image in VRAM, not to its load bias.
RelocateToBase(img, base, m, i) ==
  LET rel == m[Table(img) + i - 1]
      at == rel.offset - Lo(img)
  IN  IF rel.kind = "rela" /\ at >= 0 /\ at + 1 <= Footprint(img)
      THEN [m EXCEPT ![at] = Data(base + rel.addend)] ELSE m

(* One entry of the table, which is read where the segments were placed.   *)
Relocate(img, base, m, i) ==
  LET rel == m[Table(img) + i - 1]
      at == rel.offset - Lo(img)
  IN  IF rel.kind = "rela" /\ at >= 0 /\ at + 1 <= Footprint(img)
      THEN [m EXCEPT ![at] = Data(base - Lo(img) + rel.addend)] ELSE m

(* The staging buffer: zeros, the segments, and the relocations in order.  *)
Staged(img, base) ==
  LET zero == [a \in 0..Footprint(img) - 1 |-> Data(0)]
      filled == FoldLeft(LAMBDA m, ph : PlaceSegment(img, m, ph), zero, img.phdrs)
  IN  IF ~Relocates(img) THEN filled
      ELSE FoldLeft(LAMBDA m, i : Relocate(img, base, m, i), filled,
                    [i \in 1..Dynamic(img).relasz |-> i])

-----------------------------------------------------------------------------
(* lookup_gnu_hash(): the Bloom filter, then the chain of the bucket up to *)
(* the value with bit 0 set.                                               *)
Filtered(h, t) ==
  {<<(h \div 64) % t.maskwords, h % 64>>,
   <<(h \div 64) % t.maskwords, (h \div 2^t.shift2) % 64>>} \subseteq t.filter

Chain(h, t, count) ==
  LET start == t.buckets[h % t.nbuckets]
      inTable(i) == i >= t.symndx /\ i < count /\ i - t.symndx < Len(t.values)
      value(i) == t.values[i - t.symndx + 1]
  IN  {i \in start..count : /\ \A j \in start..i : inTable(j)
                            /\ \A j \in start..i - 1 : value(j) % 2 = 0}

LookupGnuHash(name, t, syms) ==
  LET h == Hash[name]
      hits == {i \in Chain(h, t, Len(syms)) :
                 /\ t.values[i - t.symndx + 1] \div 2 = h \div 2
                 /\ syms[i + 1].name = name}
  IN  IF t.nbuckets = 0 \/ t.maskwords = 0 \/ t.shift2 >= 32 \/ ~Filtered(h, t)
         \/ hits = {}
      THEN NoSymbol ELSE syms[Min(hits) + 1]

(* find_symbol(), for an image with one table.  A symbol is a record [name, *)
(* value, size, section, kd]: kd for an object whose name ends in ".kd".   *)
FindSymbol(img, name) == LookupGnuHash(name, img.hash, img.syms)

(* Executable::symbol(): the words of the image, or none.                  *)
InImage(img, sym) ==
  /\ sym # NoSymbol /\ sym.value >= Lo(img)
  /\ sym.value - Lo(img) + sym.size <= Footprint(img)

(* symbol_address(): where the file holds what a symbol names.             *)
FileOffset(img, sym) ==
  LET sec == img.sections[sym.section]
  IN  sec.offset + sym.value - sec.addr

HasAddress(img, sym) ==
  /\ sym.section \in DOMAIN img.sections
  /\ LET sec == img.sections[sym.section]
     IN  /\ sec.type # "NOBITS"
         /\ sym.value >= sec.addr /\ sym.value - sec.addr + sym.size <= sec.size
         /\ FileOffset(img, sym) < img.size
         /\ FileOffset(img, sym) + sym.size <= img.size

(* Executable::kernel(): the entry of the kernel in the image, -1 if the   *)
(* name is refused.                                                        *)
NoEntry == -1
Entry(img, name) ==
  LET sym == FindSymbol(img, name)
      entry == img.bytes[FileOffset(img, sym)].entry + sym.value - Lo(img)
  IN  IF /\ InImage(img, sym) /\ sym.kd /\ sym.size >= 1 /\ HasAddress(img, sym)
         /\ entry >= 0 /\ entry < Footprint(img)
      THEN entry ELSE NoEntry
=============================================================================
