---------------------------- MODULE HandleTable ----------------------------
(***************************************************************************)
(* What vkEnumeratePhysicalDevices promises an application that asks for    *)
(* all its devices: a table of handles, at most one for each device the      *)
(* loader knows of, in which a device keeps its handle for as long as every   *)
(* enumeration finds it.  A handle may come to stand for another device only  *)
(* after its own was lost.                                                   *)
(***************************************************************************)
CONSTANTS Devices, Handles

VARIABLES
    known,  \* the devices the last enumeration found
    table   \* the pairs of a device and its handle

Init == known = {} /\ table = {}

OneToOne(T) == \A e, f \in T : e[1] = f[1] <=> e[2] = f[2]

Enumerate ==
    /\ known' \in SUBSET Devices
    /\ table' \in SUBSET (known' \X Handles)
    /\ OneToOne(table')
    /\ \A e \in table : e[1] \in known' => e \in table'

Spec == Init /\ [][Enumerate]_<<known, table>>
=============================================================================
