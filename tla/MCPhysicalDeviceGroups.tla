----------------------- MODULE MCPhysicalDeviceGroups -----------------------
(* One driver with two devices, which it may link. *)
EXTENDS PhysicalDeviceGroups, TLC

CONSTANTS gpuA, gpuB, icd1, t1, t2, w1, w2, w3, g1, g2, g3

MCDriverOf == [d \in Devices |-> icd1]

AddrSymmetry ==
    Permutations(TermAddr) \cup Permutations(TrampAddr) \cup Permutations(GroupAddr)

\* No step reads held, out or the counts of the previous enumeration; a call begins with
\* any set of failing drivers.
GroupsView == <<present, icd_terms, term, phys_devs_term, tramp, phys_devs_tramp,
                total_gpu_count, linked, groupVars, IF call.at = "idle" THEN {} ELSE failing>>
=============================================================================
