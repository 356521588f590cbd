------------------------------ MODULE Window ---------------------------------
(***************************************************************************)
(* What the window backends of computetoy share (tools/computetoy/         *)
(* window.h): the buffers a program imports, presents and waits for.       *)
(***************************************************************************)
EXTENDS Integers

CONSTANTS NumBuffers,    \* 3; one buffer alone would wait for itself
          NoBuffer       \* -1: an empty slot

ASSUME WindowAssumption ==
  NumBuffers \in Nat \ {0, 1} /\ NoBuffer \in Int \ 0..NumBuffers

Buffers == 0..(NumBuffers - 1)
=============================================================================
