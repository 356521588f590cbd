------------------------------ MODULE MCContext ------------------------------
(* Two threads.  The nodes are GPU 1, or a CPU and GPU 2, or both GPUs;    *)
(* GPU 1 reports no save area sizes.                                       *)
EXTENDS Context, TLC
CONSTANTS t1, t2

MCKeys == {"gfx_target_version", "simd_count", "simd_per_cu", "num_xcc", "array_count",
           "simd_arrays_per_engine", "lds_size_in_kb", "cwsr_size", "ctl_stack_size"}

Line(key, val) == [key |-> key, val |-> val]
Cache(level, size) == [level |-> level, size |-> size, type |-> 1]

Cpu == [gpu |-> 0, text |-> <<>>, caches |-> <<>>]
Gpu1 == [gpu |-> 1,
         text |-> <<Line("simd_count", 8), Line("simd_per_cu", 4), Line("array_count", 2),
                    Line("gfx_target_version", 100302), Line("unknown", 5),
                    Line("num_xcc", NoNumber)>>,
         caches |-> <<Cache(1, 16), Cache(1, 32), Cache(1, 16)>>]
Gpu2 == [gpu |-> 2,
         text |-> <<Line("gfx_target_version", 90402), Line("cwsr_size", 8192),
                    Line("ctl_stack_size", 4096)>>,
         caches |-> <<Cache(2, 64)>>]

MCLayouts == {<<Gpu1>>, <<Cpu, Gpu2>>, <<Gpu1, Gpu2>>}
=============================================================================
