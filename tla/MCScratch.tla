------------------------------ MODULE MCScratch ------------------------------
(* Kernels that need no scratch, some, more, and more than the hardware    *)
(* allows.                                                                 *)
EXTENDS Scratch

Kernel(need, pos) == [need |-> need, pos |-> pos]

(* The smaller and the larger need have different layouts of user SGPRs.   *)
MCKernels == {Kernel(0, 1), Kernel(1, 1), Kernel(2, 2), Kernel(3, 1)}
=============================================================================
