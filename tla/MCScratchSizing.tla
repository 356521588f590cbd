--------------------------- MODULE MCScratchSizing ---------------------------
(* Devices scaled down: a few compute units with two slots each stand for  *)
(* about a hundred with 32, and a WAVES field of 32 for one of 4096.       *)
(* Work-groups of up to six waves are larger than the two slots an engine  *)
(* keeps, so that the number of slots wraps.  As on real devices, the      *)
(* slots of a compute unit (2 for 32) are a multiple of every power of two *)
(* that divides the waves a work-group takes of an engine: 4 is left out.  *)
(* So are 14 and 15, for which the loop need not end on three engines,     *)
(* here and on real devices (see the README).                              *)
EXTENDS ScratchSizing

Topology(cus, engines, xccs, gfx11) ==
  [simds |-> 2 * cus, simdPerCu |-> 2, arrays |-> 2 * engines,
   arraysPerEngine |-> 2, slotsPerCu |-> 2, xccs |-> xccs, gfx11 |-> gfx11]

(* Devices of one partition with one to four engines (Navi 32 has three),  *)
(* and one whose topology has no engines.                                  *)
MCTopologies ==
  {Topology(cus, e, 1, gfx11) : cus \in 4..15, e \in 1..4, gfx11 \in BOOLEAN}
  \cup {[Topology(4, 1, 0, gfx11) EXCEPT !.arraysPerEngine = 0] : gfx11 \in BOOLEAN}
=============================================================================
