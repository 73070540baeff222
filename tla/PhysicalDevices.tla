--------------------------- MODULE PhysicalDevices ---------------------------
(***************************************************************************)
(* The two lists of physical-device objects a loader_instance keeps, and   *)
(* vkEnumeratePhysicalDevices, which rebuilds both on every call.          *)
(*                                                                         *)
(*   driver's VkPhysicalDevice <- loader_physical_device_term (terminator) *)
(*                             <- loader_physical_device_tramp (the handle *)
(*                                the application holds)                   *)
(*                                                                         *)
(* The objects live on a heap whose addresses are reused after a free, so  *)
(* a stale pointer can come to point to another object.  The drivers are   *)
(* the environment: devices come and go between calls (PlugIn, Unplug),    *)
(* and a driver's answer to one call may be an error.  Every operation     *)
(* holds loader_lock from its first to its last line: each is one action.  *)
(***************************************************************************)
EXTENDS Integers, FiniteSets, Functions

CONSTANTS
    Drivers,        \* the ICDs that vkCreateInstance loaded
    Devices,        \* the VkPhysicalDevice handles the drivers can report
    DriverOf,       \* the driver of each device
    TermAddr,       \* heap addresses for loader_physical_device_term
    TrampAddr,      \* heap addresses for loader_physical_device_tramp
    PartialQueries, \* may the application's array be too small?
    HotPlug         \* may devices come and go, and drivers fail?

ASSUME DriversFinite == IsFiniteSet(Drivers)
ASSUME DevicesFinite == IsFiniteSet(Devices)
ASSUME DriverOfType == DriverOf \in [Devices -> Drivers]
ASSUME SwitchTypes == PartialQueries \in BOOLEAN /\ HotPlug \in BOOLEAN

VARIABLES
    present,                \* the devices that exist now (environment)
    icd_terms,              \* the drivers on inst->icd_terms
    physical_device_count,  \* icd_term->physical_device_count
    term,                   \* the allocated terminator objects, as a function
                            \* from their addresses to their phys_dev field
    phys_devs_term,         \* inst->phys_devs_term[0 .. phys_dev_count_term)
    tramp,                  \* the allocated trampoline objects: address to
                            \* phys_dev field, the address of a terminator
    phys_devs_tramp,        \* inst->phys_devs_tramp[0 .. phys_dev_count_tramp)
    total_gpu_count,        \* inst->total_gpu_count
    out,                    \* what the last call returned to the application
    held                    \* <<d, w>>: w was returned for d, and every
                            \* successful re-enumeration since reported d

termVars == <<physical_device_count, term, phys_devs_term>>
trampVars == <<tramp, phys_devs_tramp>>
vars == <<present, icd_terms, termVars, trampVars, total_gpu_count, out, held>>

-----------------------------------------------------------------------------
(* Arrays are functions from 1..n; a heap is a function from the allocated *)
(* addresses to the objects there.                                         *)

\* The driver chooses the order of its devices and the platform's sort may
\* reorder them, so every order of a set of devices is possible.
Orderings(S) == Bijection(1..Cardinality(S), S)
Empty == [i \in {} |-> 0]
MinOf(a, b) == IF a <= b THEN a ELSE b
MaxOf(a, b) == IF a <= b THEN b ELSE a

Alloc(heap, objs) == [a \in DOMAIN heap \cup DOMAIN objs |->
                        IF a \in DOMAIN objs THEN objs[a] ELSE heap[a]]
Free(heap, addrs) == [a \in DOMAIN heap \ addrs |-> heap[a]]

Success == "VK_SUCCESS"
Incomplete == "VK_INCOMPLETE"
OutOfMemory == "VK_ERROR_OUT_OF_HOST_MEMORY"
InitFailed == "VK_ERROR_INITIALIZATION_FAILED"
Results == {Success, Incomplete, OutOfMemory, InitFailed}

Init ==
    /\ present \in SUBSET Devices
    /\ icd_terms = Drivers
    /\ physical_device_count = [i \in Drivers |-> 0]
    /\ term = Empty /\ phys_devs_term = Empty
    /\ tramp = Empty /\ phys_devs_tramp = Empty
    /\ total_gpu_count = 0
    /\ out = [res |-> Success, arr |-> Empty]
    /\ held = {}

-----------------------------------------------------------------------------
(* setup_loader_term_phys_devs                                             *)

\* What the drivers on icd_terms report when those in failed answer with an
\* error other than out of memory, which counts as having no device.  (The
\* fill call answering VK_INCOMPLETE, because a device appeared after the
\* count call, is such an error.)
Reported(failed) == {d \in present : DriverOf[d] \in icd_terms \ failed}

FailedDrivers == IF HotPlug THEN SUBSET icd_terms ELSE {{}}

ReportedCount(failed, i) == Cardinality({d \in Reported(failed) : DriverOf[d] = i})

\* Faulty variant: a terminator object is made for every device of every call.
KnownNever(d) == FALSE
\* find_phys_dev in the array of the previous call.
Known(d) == \E i \in DOMAIN phys_devs_term : term[phys_devs_term[i]] = d
TermOf(d) == phys_devs_term[CHOOSE i \in DOMAIN phys_devs_term :
                              term[phys_devs_term[i]] = d]

\* New objects are allocated while the old ones are still there, and only
\* then are the old ones that were not carried over freed.
SetupTermPhysDevs(failed) ==
    LET reported == Reported(failed)
        new == {d \in reported : ~Known(d)}
    IN  /\ reported # {}
        /\ physical_device_count' = [i \in Drivers |-> ReportedCount(failed, i)]
        /\ \E order \in Orderings(reported),
              addr \in Injection(new, TermAddr \ DOMAIN term) :
             LET new_phys_devs == [i \in DOMAIN order |->
                    IF order[i] \in new THEN addr[order[i]] ELSE TermOf(order[i])]
             IN  /\ phys_devs_term' = new_phys_devs
                 /\ term' = Free(Alloc(term, AntiFunction(addr)),
                                 Range(phys_devs_term) \ Range(new_phys_devs))

\* Faulty variant: the error path frees the copied objects too.
TermCleanupAll(copied, fresh) == copied \cup fresh

\* What the error path frees: the objects in the new array, except those that
\* were copied from the old array.
TermCleanup(copied, fresh) == (copied \cup fresh) \ Range(phys_devs_term)

\* A driver is out of memory (those asked before it have their count stored),
\* no driver has a device, or an allocation fails half-way.
SetupTermPhysDevsFails(res) ==
    /\ \E asked \in SUBSET icd_terms, failed \in FailedDrivers :
         /\ physical_device_count' =
              [i \in Drivers |-> IF i \in asked THEN ReportedCount(failed, i)
                                                ELSE physical_device_count[i]]
         /\ \/ res = OutOfMemory /\ UNCHANGED term
            \/ res = InitFailed /\ asked = icd_terms /\ Reported(failed) = {}
               /\ UNCHANGED term
            \/ /\ res = OutOfMemory /\ asked = icd_terms /\ Reported(failed) # {}
               /\ \E copied \in SUBSET Range(phys_devs_term),
                     addr \in UNION {Injection({d}, TermAddr \ DOMAIN term) :
                                       d \in Reported(failed)} :
                    term' = Free(Alloc(term, AntiFunction(addr)),
                                 TermCleanup(copied, Range(addr)))
    /\ total_gpu_count' = 0
    /\ UNCHANGED phys_devs_term

-----------------------------------------------------------------------------
(* setup_loader_tramp_phys_devs(inst, phys_dev_count, phys_devs), called   *)
(* with inst->total_gpu_count = total.                                     *)

\* Faulty variant: old wrappers are never recognised.
OldToNewNone(phys_devs, c) == {}

\* The entry of phys_devs that the old entry c wraps, and the other way round.
OldToNew(phys_devs, c) ==
    {n \in DOMAIN phys_devs : tramp[phys_devs_tramp[c]] = phys_devs[n]}
Matches(phys_devs, n) == {c \in DOMAIN phys_devs_tramp : n \in OldToNew(phys_devs, c)}

\* Faulty variants: the wrapper at the same index is taken for the old one, or
\* the terminator object is returned unwrapped.
OldForSameIndex(phys_devs, n) ==
    phys_devs_tramp[MinOf(n, Cardinality(DOMAIN phys_devs_tramp))]

OldFor(phys_devs, n) == phys_devs_tramp[CHOOSE c \in Matches(phys_devs, n) : TRUE]
Unmatched(phys_devs) == {c \in DOMAIN phys_devs_tramp : OldToNew(phys_devs, c) = {}}

\* The first k unmatched entries of the old array, in order.
Leftovers(phys_devs, k) ==
    {f \in Injection(1..k, Unmatched(phys_devs)) :
        /\ \A i, j \in 1..k : i < j => f[i] < f[j]
        /\ \A c \in Unmatched(phys_devs) \ Range(f) : \A i \in 1..k : f[i] < c}

NewCount(phys_devs, total) == MaxOf(total, Cardinality(DOMAIN phys_devs))

\* Nothing changed: the wrappers there are already suffice.
SetupTrampFast(phys_devs, total) ==
    /\ \A n \in DOMAIN phys_devs : Matches(phys_devs, n) # {}
    /\ Cardinality(DOMAIN phys_devs_tramp) = NewCount(phys_devs, total)

\* A wrapper for each entry of phys_devs, the old one where there is one, and
\* then old wrappers as long as there is room; the others are freed.
SetupTrampSlow(phys_devs, total) ==
    LET n == Cardinality(DOMAIN phys_devs)
        new == {i \in DOMAIN phys_devs : Matches(phys_devs, i) = {}}
        k == MinOf(NewCount(phys_devs, total) - n, Cardinality(Unmatched(phys_devs)))
    IN  \E addr \in Injection(new, TrampAddr \ DOMAIN tramp),
           left \in Leftovers(phys_devs, k) :
          LET objs == [a \in Range(addr) |-> phys_devs[AntiFunction(addr)[a]]]
              new_phys_devs == [i \in 1..(n + k) |->
                  IF i > n THEN phys_devs_tramp[left[i - n]]
                  ELSE IF i \in new THEN addr[i] ELSE OldFor(phys_devs, i)]
          IN  /\ phys_devs_tramp' = new_phys_devs
              /\ tramp' = Free(Alloc(tramp, objs),
                               Range(phys_devs_tramp) \ Range(new_phys_devs))

TrampCleanup(copied, fresh) == (copied \cup fresh) \ Range(phys_devs_tramp)

\* The new array or one of the new wrappers cannot be allocated.
SetupTrampFails(phys_devs) ==
    /\ \E copied \in SUBSET {OldFor(phys_devs, n) : n \in {n \in DOMAIN phys_devs :
                                                    Matches(phys_devs, n) # {}}},
          addr \in UNION {Injection({n}, TrampAddr \ DOMAIN tramp) : n \in DOMAIN phys_devs} :
         tramp' = Free(Alloc(tramp, [a \in Range(addr) |-> phys_devs[AntiFunction(addr)[a]]]),
                       TrampCleanup(copied, Range(addr)))
    /\ UNCHANGED phys_devs_tramp

-----------------------------------------------------------------------------
(* vkEnumeratePhysicalDevices                                              *)

StillHeld(reported) == {h \in held : h[1] \in reported}

\* Faulty variant: the counts of the previous call are used.
UnloadByOldCount == icd_terms' = {i \in icd_terms : physical_device_count[i] # 0}

\* unload_drivers_without_physical_devices
UnloadEmptyDrivers == icd_terms' = {i \in icd_terms : physical_device_count'[i] # 0}

\* pPhysicalDevices is NULL: only the count is asked for.
EnumerateCount ==
    /\ \/ \E failed \in FailedDrivers :
            /\ SetupTermPhysDevs(failed)
            /\ total_gpu_count' = Cardinality(DOMAIN phys_devs_term')
            /\ held' = StillHeld(Reported(failed))
            /\ out' = [res |-> Success, arr |-> Empty]
       \/ \E res \in {OutOfMemory, InitFailed} :
            /\ SetupTermPhysDevsFails(res)
            /\ out' = [res |-> res, arr |-> Empty]
            /\ UNCHANGED held
    /\ UNCHANGED <<present, icd_terms, trampVars>>

\* The terminator has the devices; wrap the first copy_count of them.  On
\* failure the application is told of the error only.
WrapAndUnload(failed, copy_count) ==
    LET total == Cardinality(DOMAIN phys_devs_term')
        phys_devs == [i \in 1..copy_count |-> phys_devs_term'[i]]
        res == IF copy_count < total THEN Incomplete ELSE Success
        returned(arr) ==
            /\ total_gpu_count' = total
            /\ out' = [res |-> res, arr |-> arr]
            /\ held' = StillHeld(Reported(failed))
                         \cup {<<term'[phys_devs[i]], arr[i]>> : i \in 1..copy_count}
    IN  /\ \/ /\ copy_count = 0
              /\ returned(Empty)
              /\ UNCHANGED trampVars
           \/ /\ copy_count > 0 /\ SetupTrampFast(phys_devs, total)
              /\ returned([i \in 1..copy_count |-> OldFor(phys_devs, i)])
              /\ UNCHANGED trampVars
           \/ /\ copy_count > 0 /\ ~SetupTrampFast(phys_devs, total)
              /\ SetupTrampSlow(phys_devs, total)
              /\ returned([i \in 1..copy_count |-> phys_devs_tramp'[i]])
           \/ /\ copy_count > 0 /\ ~SetupTrampFast(phys_devs, total)
              /\ SetupTrampFails(phys_devs)
              /\ total_gpu_count' = 0
              /\ out' = [res |-> OutOfMemory, arr |-> Empty]
              /\ held' = StillHeld(Reported(failed))
        /\ UnloadEmptyDrivers

EnumerateFill ==
    /\ \/ \E failed \in FailedDrivers :
            \E copy_count \in 0..Cardinality(Reported(failed)) :
              /\ PartialQueries \/ copy_count = Cardinality(Reported(failed))
              /\ SetupTermPhysDevs(failed)
              /\ WrapAndUnload(failed, copy_count)
       \/ \E res \in {OutOfMemory, InitFailed} :
            /\ SetupTermPhysDevsFails(res)
            /\ out' = [res |-> res, arr |-> Empty]
            /\ UNCHANGED <<icd_terms, trampVars, held>>
    /\ UNCHANGED present

\* The environment: a device appears or disappears.
PlugIn == /\ HotPlug
          /\ \E d \in Devices \ present : present' = present \cup {d}
          /\ UNCHANGED <<icd_terms, termVars, trampVars, total_gpu_count, out, held>>
Unplug == /\ HotPlug
          /\ \E d \in present : present' = present \ {d}
          /\ UNCHANGED <<icd_terms, termVars, trampVars, total_gpu_count, out, held>>

Next == EnumerateCount \/ EnumerateFill \/ PlugIn \/ Unplug

Spec == Init /\ [][Next]_vars

-----------------------------------------------------------------------------
(* Properties                                                              *)

IsArrayOf(f, S) == \E n \in 0..Cardinality(Devices) : f \in [1..n -> S]

\* Every variable keeps its type; in particular both arrays are dense.
TypeOK ==
    /\ present \subseteq Devices /\ icd_terms \subseteq Drivers
    /\ physical_device_count \in [Drivers -> Nat]
    /\ \E A \in SUBSET TermAddr : term \in [A -> Devices]
    /\ \E A \in SUBSET TrampAddr : tramp \in [A -> TermAddr]
    /\ IsArrayOf(phys_devs_term, TermAddr)
    /\ IsArrayOf(phys_devs_tramp, TrampAddr)
    /\ total_gpu_count \in 0..Cardinality(Devices)
    /\ out.res \in Results /\ IsArrayOf(out.arr, TrampAddr)
    /\ held \subseteq Devices \X TrampAddr

\* Between calls the heap holds exactly the objects the two arrays own: no
\* path through either setup function, the out-of-memory ones included, leaks
\* an object, frees one twice or frees one that is still in an array.
HeapOwned ==
    /\ DOMAIN term = Range(phys_devs_term) /\ IsInjective(phys_devs_term)
    /\ DOMAIN tramp = Range(phys_devs_tramp) /\ IsInjective(phys_devs_tramp)

\* A driver's device has one terminator object and a terminator address one
\* wrapper, even when the address of a freed terminator is used again.
OneObjectPerDevice == IsInjective(term) /\ IsInjective(tramp)

\* No terminator object belongs to a driver that was unloaded.
TermDriversLoaded == \A a \in DOMAIN term : DriverOf[term[a]] \in icd_terms

\* The handle w leads through live objects to device d.
Resolves(d, w) == /\ w \in DOMAIN tramp
                  /\ tramp[w] \in DOMAIN term
                  /\ term[tramp[w]] = d

\* Each handle the last call returned leads to a device, no two to the same,
\* and VK_SUCCESS means that every device of the terminator's list is there.
ReturnedHandlesResolve ==
    /\ \A i \in DOMAIN out.arr : \E d \in Devices : Resolves(d, out.arr[i])
    /\ IsInjective(out.arr)
    /\ out.res = Success /\ out.arr # Empty =>
         \A a \in DOMAIN term : \E i \in DOMAIN out.arr : tramp[out.arr[i]] = a

\* "We always want to re-use previous physical device pointers since they may
\* be used by an application after returning previously" (loader.c:6579): a
\* handle stays good for as long as its device is reported.
HeldHandlesResolve == \A h \in held : Resolves(h[1], h[2])

\* The handles of the application, as a table of devices.
Table == INSTANCE HandleTable
    WITH Handles <- TrampAddr, known <- Range(term),
         table <- {e \in Devices \X TrampAddr : Resolves(e[1], e[2])}

\* The two lists, rebuilt on every call with the objects of the previous call where they
\* fit, implement a table in which devices keep their handles (loader.c:6579).
IsHandleTable == Table!Spec
=============================================================================
