----------------------------- MODULE MCLifetimes ------------------------------
(* Two compute queues and an SDMA queue on a device with room for two.     *)
EXTENDS Lifetimes, TLC
CONSTANTS c1, c2, d, x, y, h1, h2, g1, g2

Dat(v) == [kind |-> "data", v |-> v]
Rela(offset, addend) == [kind |-> "rela", offset |-> offset, addend |-> addend]
Kd(entry) == [kind |-> "kd", entry |-> entry]

Seg(type, offset, vaddr, filesz, memsz) ==
  [type |-> type, offset |-> offset, vaddr |-> vaddr, filesz |-> filesz,
   memsz |-> memsz, align |-> 1]
Dyn(rela, relasz) ==
  [type |-> "DYNAMIC", offset |-> 0, vaddr |-> 0, filesz |-> 1, memsz |-> 1,
   align |-> 1, rela |-> rela, relasz |-> relasz]
Sym(name, value, size, section, kd) ==
  [name |-> name, value |-> value, size |-> size, section |-> section, kd |-> kd]

MCHash == "a.kd" :> 130 @@ "b.kd" :> 131 @@ "v" :> 200 @@ "w" :> 264 @@ "z" :> 7
MCGfxOf == "gfx1030" :> 100300 @@ "gfx942" :> 90402
MCGenericMap == {[mach |-> "gfx10-3-generic", gfx |-> 100300, min |-> 1]}

(* "a.kd" and "b.kd" have hashes that differ in bit 0 only; with one       *)
(* bucket all three are in one chain.                                      *)
Table2 ==
  [nbuckets |-> 2, maskwords |-> 1, shift2 |-> 1, symndx |-> 1,
   filter |-> {<<0, 130 % 64>>, <<0, 65 % 64>>, <<0, 131 % 64>>, <<0, 200 % 64>>, <<0, 100 % 64>>},
   buckets |-> 0 :> 1 @@ 1 :> 3, values |-> <<130, 201, 131>>]
Sections == <<[type |-> "PROGBITS", addr |-> 2, offset |-> 1, size |-> 4],
              [type |-> "NOBITS", addr |-> 6, offset |-> 5, size |-> 1]>>

Good ==
  [header |-> TRUE, size |-> 6,
   flags |-> [mach |-> "gfx10-3-generic", xnack |-> "any", sramecc |-> "off", version |-> 1],
   phdrs |-> <<Seg("LOAD", 1, 2, 4, 5), Dyn(4, 1)>>,
   sections |-> Sections,
   syms |-> <<NoSymbol, Sym("a.kd", 2, 1, 1, TRUE), Sym("v", 5, 1, 1, FALSE),
              Sym("b.kd", 3, 1, 1, TRUE)>>,
   hash |-> Table2,
   bytes |-> 0 :> Dat(9) @@ 1 :> Kd(2) @@ 2 :> Kd(-2) @@ 3 :> Rela(6, 3) @@ 4 :> Dat(4)
             @@ 5 :> Dat(5)]

Plain ==
  [Good EXCEPT !.phdrs = <<Seg("LOAD", 1, 2, 2, 2), Seg("LOAD", 3, 4, 0, 1)>>,
               !.flags.mach = "gfx1030", !.bytes[1] = Kd(0),
               !.hash.nbuckets = 1, !.hash.buckets = 0 :> 1,
               !.hash.values = <<130, 200, 131>>]

(* Images that are refused, before and while they are laid out.            *)
Foreign == [Good EXCEPT !.flags.mach = "gfx942"]
Truncated == [Good EXCEPT !.phdrs[1].filesz = 7]

MCImages == {Good, Plain, Foreign, Truncated}
MCDev == [gfx |-> 100300, xnack |-> TRUE, sramecc |-> FALSE]
=============================================================================
