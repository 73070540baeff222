---------------------------- MODULE InstanceTable ----------------------------
(***************************************************************************)
(* What vkCreateInstance and vkDestroyInstance promise an application: an  *)
(* instance appears with at least one driver behind it, and with driver    *)
(* instances of its own, or it does not appear at all; it loses a driver   *)
(* only by the unloading of that driver; and what happens to one instance  *)
(* never shows on another.                                                 *)
(***************************************************************************)
CONSTANTS Handles, Drivers, DriverInstances

VARIABLE served     \* each VkInstance's drivers, with the instance inside each

Init == served = [h \in {} |-> {}]

\* The drivers of two instances keep separate instances for them.
Apart(t, u) == \A d \in DOMAIN t \cap DOMAIN u : t[d] # u[d]

Create(h) ==
    \E D \in (SUBSET Drivers) \ {{}} : \E t \in [D -> DriverInstances] :
        /\ \A g \in DOMAIN served : Apart(t, served[g])
        /\ served' = [g \in DOMAIN served \cup {h} |-> IF g = h THEN t ELSE served[g]]

Destroy(h) == served' = [g \in DOMAIN served \ {h} |-> served[g]]

\* The last driver may go as well.
Unload(h, d) ==
    served' = [served EXCEPT ![h] = [e \in DOMAIN served[h] \ {d} |-> served[h][e]]]

Next ==
    \/ \E h \in Handles \ DOMAIN served : Create(h)
    \/ \E h \in DOMAIN served :
         Destroy(h) \/ \E d \in DOMAIN served[h] : Unload(h, d)

Spec == Init /\ [][Next]_served
=============================================================================
