------------------------- MODULE MCPhysicalDevices -------------------------
(* Two drivers, one of them with two devices, and heaps with few addresses *)
(* so that freed addresses are used again.                                 *)
EXTENDS PhysicalDevices, TLC

CONSTANTS gpuA, gpuB, gpuC, icd1, icd2, t1, t2, t3, w1, w2, w3, w4

MCDriverOf == (gpuA :> icd1) @@ (gpuB :> icd1) @@ (gpuC :> icd2)

\* What the next call depends on and what the last one returned.  No step reads
\* held, and the counts are stored anew by each call before it reads them.
CallView == <<present, icd_terms, term, phys_devs_term, tramp, phys_devs_tramp,
              total_gpu_count, out>>

\* Addresses are interchangeable.
AddrSymmetry == Permutations(TermAddr) \cup Permutations(TrampAddr)
=============================================================================
