------------------------ MODULE PhysicalDeviceGroups ------------------------
(***************************************************************************)
(* vkEnumeratePhysicalDeviceGroups, on top of the lists of PhysicalDevices.  *)
(* Its terminator asks every driver twice, first for the number of its       *)
(* groups and then for the groups, and keeps the groups it found in          *)
(* inst->phys_dev_groups_term, as sets of terminator objects.                *)
(*                                                                         *)
(* The whole call holds loader_lock, but it is not atomic to the drivers:    *)
(* between its calls to them devices come and go and a driver may begin or   *)
(* cease to answer with errors.                                              *)
(***************************************************************************)
EXTENDS PhysicalDevices

CONSTANTS
    GroupDrivers,  \* the drivers that have vkEnumeratePhysicalDeviceGroups
    GroupAddr,     \* heap addresses for VkPhysicalDeviceGroupProperties
    Null,          \* the empty entry of an array of groups
    NoArray        \* pPhysicalDeviceGroupProperties is NULL

ASSUME GroupDriversType == GroupDrivers \subseteq Drivers
ASSUME NullIsNoAddress == Null \notin GroupAddr

VARIABLES
    linked,                \* the drivers that report their devices as one group (environment)
    failing,               \* the drivers that answer this call with an error now (environment)
    call,                  \* how far the call is: at, the drivers still to be asked,
                           \* total_count, the groups found, *pPhysicalDeviceGroupCount,
                           \* the result so far, and whether a driver ever came to have
                           \* fewer groups while a call was under way
    group,                 \* the allocated groups: address to set of terminator addresses
    phys_dev_groups_term,  \* inst->phys_dev_groups_term[0 .. phys_dev_group_count_term)
    found                  \* what the last call, if it was this one, returned: the result,
                           \* the result before the copying, and the groups of handles
groupVars == <<call, group, phys_dev_groups_term, found>>
environment == <<linked, failing>>
allVars == <<vars, environment, groupVars>>

----------------------------------------------------------------------------
NoGroups(res) == [res |-> res, cause |-> res, groups |-> {}]
Stage(at, room, lost) == [at |-> at, todo |-> {}, total |-> 0, local |-> {}, room |-> room,
                          cause |-> Success, lost |-> lost]
Idle == Stage("idle", NoArray, call.lost)

GroupsInit ==
    /\ Init
    /\ linked = {} /\ failing = {}
    /\ call = Stage("idle", NoArray, FALSE)
    /\ group = Empty /\ phys_dev_groups_term = Empty
    /\ found = NoGroups(Success)

\* The groups driver i reports: its linked devices, or each device by itself.
GroupsOf(i) ==
    LET own == {d \in present : DriverOf[d] = i} IN
    IF i \in linked THEN {own} \ {{}} ELSE {{d} : d \in own}

EnumerateGroups(room) ==
    /\ call.at = "idle"
    /\ call' = [Stage("count", room, call.lost) EXCEPT !.todo = icd_terms]
    /\ found' = NoGroups(Success)
    /\ failing' \in FailedDrivers
    /\ UNCHANGED <<vars, linked, group, phys_dev_groups_term>>

\* Faulty variant: the devices are counted, not the groups.
CountDevices(i) ==
    /\ call.at = "count" /\ i \in call.todo
    /\ i \notin failing
    /\ call' = [call EXCEPT !.todo = @ \ {i}, !.total = @ + Cardinality(UNION GroupsOf(i))]
    /\ UNCHANGED <<vars, environment, group, phys_dev_groups_term, found>>
\* The counting loop.  It goes on to the next driver only when this one has answered: an
\* error leaves icd_term where it is, and the driver is asked again.
CountGroups(i) ==
    /\ call.at = "count" /\ i \in call.todo
    /\ i \notin failing
    /\ call' = [call EXCEPT !.todo = @ \ {i}, !.total = @ + Cardinality(GroupsOf(i))]
    /\ UNCHANGED <<vars, environment, group, phys_dev_groups_term, found>>

----------------------------------------------------------------------------
(* The end of a call *)

NumGroups(arr) == Cardinality(DOMAIN arr)

\* setup_loader_tramp_phys_dev_groups: the devices of the copied groups, one group after the
\* other, are wrapped like those of vkEnumeratePhysicalDevices.
Flattened(arr, heap, count) ==
    LET devices == UNION {heap[arr[i]] : i \in 1..count}
        rank(a) == CHOOSE i \in 1..count : a \in heap[arr[i]]
    IN  {f \in Orderings(devices) : \A m, n \in DOMAIN f : m < n => rank(f[m]) <= rank(f[n])}

WrapGroups(cause, res, arr, heap, count) ==
    \E phys_devs \in Flattened(arr, heap, count) :
        LET wrapped(w) == {{w[n] : n \in {n \in DOMAIN phys_devs : phys_devs[n] \in heap[arr[i]]}} :
                              i \in 1..count}
        IN \/ /\ phys_devs = Empty
              /\ found' = [res |-> res, cause |-> cause, groups |-> {}]
              /\ UNCHANGED <<trampVars, total_gpu_count>>
           \/ /\ phys_devs # Empty /\ SetupTrampFast(phys_devs, total_gpu_count)
              /\ found' = [res |-> res, cause |-> cause,
                           groups |-> wrapped([n \in DOMAIN phys_devs |-> OldFor(phys_devs, n)])]
              /\ UNCHANGED <<trampVars, total_gpu_count>>
           \/ /\ phys_devs # Empty /\ ~SetupTrampFast(phys_devs, total_gpu_count)
              /\ SetupTrampSlow(phys_devs, total_gpu_count)
              /\ total_gpu_count' = NewCount(phys_devs, total_gpu_count)
              /\ found' = [res |-> res, cause |-> cause, groups |-> wrapped(phys_devs_tramp')]
           \/ /\ phys_devs # Empty /\ ~SetupTrampFast(phys_devs, total_gpu_count)
              /\ SetupTrampFails(phys_devs)
              /\ total_gpu_count' = 0
              /\ found' = NoGroups(OutOfMemory)

\* From the label out: the array that is in the instance now, the new one or, after an
\* error, still the old one, is copied as far as there is room; too little room makes the
\* result VK_INCOMPLETE, whatever it was.  An empty entry is followed like any other.
CopyOut(cause, arr, heap) ==
    LET count == MinOf(NumGroups(arr), call.room)
        res == IF count < NumGroups(arr) THEN Incomplete ELSE cause
    IN  \/ /\ \E i \in 1..count : arr[i] = Null
           /\ call' = [call EXCEPT !.at = "crashed"]
           /\ UNCHANGED <<trampVars, total_gpu_count, found>>
        \/ /\ \A i \in 1..count : arr[i] # Null
           /\ res \in {Success, Incomplete}
           /\ WrapGroups(cause, res, arr, heap, count)
           /\ call' = Idle
        \/ /\ \A i \in 1..count : arr[i] # Null
           /\ res \notin {Success, Incomplete}
           /\ found' = NoGroups(res)
           /\ call' = Idle
           /\ UNCHANGED <<trampVars, total_gpu_count>>

\* goto out before anything of the new array exists.
GiveUp(cause) ==
    /\ CopyOut(cause, phys_dev_groups_term, group)
    /\ UNCHANGED <<group, phys_dev_groups_term>>

----------------------------------------------------------------------------
\* The terminator objects are made only if there are none yet, or nothing was counted.
NeedsDevices == call.total = 0 \/ total_gpu_count = 0
Counted == call.at = "count" /\ call.todo = {}

GroupsSetup ==
    /\ Counted /\ NeedsDevices
    /\ \/ \E failed \in FailedDrivers :
            /\ failing \cap icd_terms \subseteq failed
            /\ SetupTermPhysDevs(failed)
            /\ total_gpu_count' = Cardinality(DOMAIN phys_devs_term')
            /\ held' = StillHeld(Reported(failed))
            /\ call' = [call EXCEPT !.at = "ready"]
       \/ \E res \in {OutOfMemory, InitFailed} :
            /\ SetupTermPhysDevsFails(res)
            /\ call' = [call EXCEPT !.at = "ready", !.cause = res]
            /\ UNCHANGED held
    /\ UNCHANGED <<present, icd_terms, trampVars, out, environment, group, phys_dev_groups_term, found>>

\* A call that only wants the number ends here; the others go on to the second loop, unless
\* the devices could not be set up or the new array not be allocated.
Ready == call.at = "ready" \/ (Counted /\ ~NeedsDevices)
GroupsReady ==
    /\ Ready
    /\ \/ /\ call.room = NoArray
          /\ found' = NoGroups(call.cause)
          /\ call' = Idle
          /\ UNCHANGED <<trampVars, total_gpu_count, group, phys_dev_groups_term>>
       \/ /\ call.room # NoArray /\ call.cause = Success
          /\ call' = [call EXCEPT !.at = "fill", !.todo = icd_terms]
          /\ UNCHANGED <<trampVars, total_gpu_count, group, phys_dev_groups_term, found>>
       \/ call.room # NoArray /\ call.cause = Success /\ GiveUp(OutOfMemory)
       \/ call.room # NoArray /\ call.cause # Success /\ GiveUp(call.cause)
    /\ UNCHANGED <<present, icd_terms, termVars, out, held, environment>>

\* Faulty variant: the second answer is not held against the room there is.
FillGroupsUnchecked(i) ==
    /\ call.at = "fill" /\ i \in call.todo
    /\ i \notin failing
    /\ call' = [call EXCEPT !.todo = @ \ {i}, !.local = @ \cup GroupsOf(i)]
    /\ UNCHANGED <<vars, environment, group, phys_dev_groups_term, found>>
\* The driver's second answer, if there is still room in the arrays that total_count sized.
FillGroups(i) ==
    /\ call.at = "fill" /\ i \in call.todo
    /\ LET room == call.total - Cardinality(call.local) IN
       \/ /\ i \notin failing /\ Cardinality(GroupsOf(i)) <= room
          /\ call' = [call EXCEPT !.todo = @ \ {i}, !.local = @ \cup GroupsOf(i)]
          /\ UNCHANGED <<trampVars, total_gpu_count, group, phys_dev_groups_term, found>>
       \/ i \notin failing /\ Cardinality(GroupsOf(i)) > room /\ GiveUp(Incomplete)
       \/ i \in failing /\ GiveUp(InitFailed)
    /\ UNCHANGED <<present, icd_terms, termVars, out, held, environment>>

----------------------------------------------------------------------------
(* The new array *)

TermsOf(g) == {TermOf(d) : d \in g}
OldGroups == Range(phys_dev_groups_term) \ {Null}
\* Faulty variant: an old group with as many devices is taken for the new one.
OldGroupBySize(g) == {a \in OldGroups : Cardinality(group[a]) = Cardinality(g)}
\* The group of the previous call that has the same devices.
OldGroup(g) == {a \in OldGroups : group[a] = TermsOf(g)}

\* What is freed when the new array is swapped in.
StaleGroups(new) == OldGroups \ new

\* The groups found, in the order of the platform's sort, which put the empty entries of
\* the arrays anywhere but left them out of the new array: it ends with as many empty
\* entries as drivers reported fewer groups than they had announced.
MatchGroups ==
    /\ call.at = "fill" /\ call.todo = {}
    /\ \A g \in call.local : \A d \in g : Known(d)
    /\ \E order \in Orderings(call.local),
          addr \in Injection({g \in call.local : OldGroup(g) = {}}, GroupAddr \ DOMAIN group) :
         LET at(g) == IF g \in DOMAIN addr THEN addr[g] ELSE CHOOSE a \in OldGroup(g) : TRUE
             new == [i \in 1..call.total |-> IF i \in DOMAIN order THEN at(order[i]) ELSE Null]
             objs == [a \in Range(addr) |-> TermsOf(AntiFunction(addr)[a])]
             heap == Free(Alloc(group, objs), StaleGroups(Range(new)))
         IN  /\ group' = heap
             /\ phys_dev_groups_term' = new
             /\ CopyOut(Success, new, heap)
    /\ UNCHANGED <<present, icd_terms, termVars, out, held, environment>>

\* A device of a group has no terminator object: it appeared after the list was made.
MatchUnknown ==
    /\ call.at = "fill" /\ call.todo = {}
    /\ \E g \in call.local : \E d \in g : ~Known(d)
    /\ GiveUp(InitFailed)
    /\ UNCHANGED <<present, icd_terms, termVars, out, held, environment>>

\* Faulty variant: the error path frees every group of the new array.
GroupCleanupAll(copied, fresh) == copied \cup fresh
\* The error path frees the groups of the new array that are not in the old one.
GroupCleanup(copied, fresh) == (copied \cup fresh) \ OldGroups

\* A group cannot be allocated after some were copied from the old array or allocated.
MatchFails ==
    /\ call.at = "fill" /\ call.todo = {}
    /\ \A g \in call.local : \A d \in g : Known(d)
    /\ \E copied \in SUBSET UNION {OldGroup(g) : g \in call.local},
          fresh \in SUBSET (GroupAddr \ DOMAIN group) :
         /\ Cardinality(copied) + Cardinality(fresh) < Cardinality(call.local)
         /\ LET heap == Free(Alloc(group, [a \in fresh |-> {}]), GroupCleanup(copied, fresh))
            IN group' = heap /\ CopyOut(OutOfMemory, phys_dev_groups_term, heap)
    /\ UNCHANGED <<present, icd_terms, termVars, out, held, environment, phys_dev_groups_term>>

----------------------------------------------------------------------------
\* loader_lock keeps the application's other calls out; the drivers do not know of it.
OtherCalls ==
    /\ call.at = "idle"
    /\ EnumerateCount \/ EnumerateFill
    /\ found' = NoGroups(Success)
    /\ UNCHANGED <<environment, call, group, phys_dev_groups_term>>
InCall == call.at \notin {"idle", "crashed"}
Changed == call' = [call EXCEPT !.lost = call.lost \/ InCall]
DevicesChange ==
    /\ call.at # "crashed"
    /\ \/ PlugIn /\ UNCHANGED <<call, linked>>
       \/ Unplug /\ Changed /\ UNCHANGED linked
       \/ /\ HotPlug
          /\ \E i \in GroupDrivers : linked' = (linked \cup {i}) \ (linked \cap {i})
          /\ Changed /\ UNCHANGED vars
    /\ UNCHANGED <<failing, group, phys_dev_groups_term, found>>
DriverFails(i) ==
    /\ HotPlug /\ InCall /\ i \in call.todo \ failing
    /\ failing' = failing \cup {i}
    /\ UNCHANGED <<vars, linked, groupVars>>
DriverRecovers(i) ==
    /\ InCall /\ i \in call.todo \cap failing
    /\ failing' = failing \ {i}
    /\ UNCHANGED <<vars, linked, groupVars>>

Rooms == 0..Cardinality(Devices)
GroupsStep ==
    \/ \E i \in Drivers : CountGroups(i) \/ FillGroups(i)
    \/ GroupsSetup \/ GroupsReady
    \/ MatchGroups \/ MatchUnknown \/ MatchFails

GroupsNext ==
    \/ \E room \in Rooms \cup {NoArray} : EnumerateGroups(room)
    \/ GroupsStep
    \/ OtherCalls \/ DevicesChange
    \/ \E i \in Drivers : DriverFails(i) \/ DriverRecovers(i)

GroupsSpec == GroupsInit /\ [][GroupsNext]_allVars
\* The thread that makes the call goes on with it, and an error that comes and goes is not
\* met every time.
GroupsFairSpec == GroupsSpec /\ SF_allVars(GroupsStep)

----------------------------------------------------------------------------
GroupsTypeOK ==
    /\ TypeOK
    /\ linked \subseteq GroupDrivers /\ failing \subseteq Drivers
    /\ call.at \in {"idle", "count", "ready", "fill", "crashed"}
    /\ call.todo \subseteq icd_terms
    /\ call.total \in Nat /\ Cardinality(call.local) <= call.total
    /\ call.local \subseteq SUBSET Devices
    /\ \E A \in SUBSET GroupAddr : group \in [A -> SUBSET TermAddr]
    /\ phys_dev_groups_term \in [DOMAIN phys_dev_groups_term -> GroupAddr \cup {Null}]
    /\ found.res \in Results /\ found.groups \subseteq SUBSET TrampAddr

\* The heap holds exactly the groups of inst->phys_dev_groups_term, each once: no path
\* through terminator_EnumeratePhysicalDeviceGroups, the failures after some groups were
\* copied from the old array included, leaks a group or frees one that is still used.
GroupsOwned ==
    /\ DOMAIN group = OldGroups
    /\ \A i, j \in DOMAIN phys_dev_groups_term :
         phys_dev_groups_term[i] = phys_dev_groups_term[j] /\ i # j =>
             phys_dev_groups_term[i] = Null

\* The groups of a call that met no error consist of handles that lead through live objects
\* to devices of one driver, and no device is in two of them, although the terminator
\* objects are not made anew and old groups are recognised by addresses that may have been
\* freed and used again.  (After an error too little room still makes the result
\* VK_INCOMPLETE, loader.c:8216, with the groups of an earlier call.)
GroupsResolve ==
    found.cause = Success =>
        /\ \A G \in found.groups :
             \E i \in icd_terms : \A w \in G : \E d \in Devices : Resolves(d, w) /\ DriverOf[d] = i
        /\ \A G, H \in found.groups : G # H => G \cap H = {}

\* An entry of the array stays empty, and the copy to the application follows it, only when
\* a device disappeared, or was linked to another, between a driver's two answers
\* (loader.c:8196).
NoEmptyEntry ==
    (call.at = "crashed" \/ Null \in Range(phys_dev_groups_term)) => call.lost

\* The lists this call shares with vkEnumeratePhysicalDevices stay sound when the two calls
\* alternate: nothing leaks, and a device has one handle, whichever call returned it.
SharedListsSound == HeapOwned /\ OneObjectPerDevice

\* "For each ICD, query the number of physical device groups" (loader.c:7827): the call
\* comes to an end.
CallEnds == call.at # "idle" ~> call.at \in {"idle", "crashed"}
=============================================================================
