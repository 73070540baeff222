------------------------------- MODULE Devices -------------------------------
(***************************************************************************)
(* Logical devices, and the table of unknown device functions that every   *)
(* device's dispatch table extends.                                        *)
(*                                                                         *)
(* vkCreateDevice and vkDestroyDevice hold loader_lock all along: through  *)
(* the layers, the terminator and the driver.  The lock is recursive, so a *)
(* layer may create a second device of its own from inside vkCreateDevice  *)
(* (VK_LOADER_LAYER_CREATE_DEVICE_CALLBACK) and destroys it from inside    *)
(* vkDestroyDevice.  vkGetInstanceProcAddr takes no lock: when it meets a  *)
(* name the loader does not know, it gives the name a slot and walks the   *)
(* lists of logical devices to fill that slot of their tables.  A layer    *)
(* may ask from inside vkCreateDevice or vkDestroyDevice too; that call    *)
(* then goes on when the query is done.                                    *)
(*                                                                         *)
(* Queries that find no support for the name, or the name array full,      *)
(* return NULL and change nothing: they are left out.  A name and its      *)
(* characters are stored in one step.  That a layer's vkGetDeviceProcAddr, *)
(* which the walk calls, asks for unknown names itself is left out.        *)
(***************************************************************************)
EXTENDS Integers, Sequences, FiniteSets, Functions

CONSTANTS
    Threads,
    DriverCount,
    DevAddr,            \* addresses for struct loader_device
    Names,              \* names of device functions the loader does not know
    Offers,             \* the names each driver has
    LayerOffers,        \* the names the layers have
    MaxUnknown,         \* MAX_NUM_UNKNOWN_EXTS
    None,               \* a null pointer
    Environments        \* the environments to look at

Drivers == 1..DriverCount       \* in the order of inst->icd_terms
Slots == 0..(MaxUnknown - 1)

\* What happens around the loader: the threads that create and destroy devices,
\* those that ask for function pointers, and whether the driver or a layer may
\* fail a creation.
EnvironmentType == [devices : SUBSET Threads, queries : SUBSET Threads, fails : BOOLEAN]

ASSUME ThreadsAssumption == IsFiniteSet(Threads)
ASSUME DriverCountAssumption == DriverCount \in Nat
ASSUME MaxUnknownAssumption == MaxUnknown \in Nat \ {0}
ASSUME OffersAssumption == Offers \in [Drivers -> SUBSET Names] /\ LayerOffers \subseteq Names
ASSUME NoneDistinct == None \notin DevAddr \cup Names \cup Threads
ASSUME EnvironmentsAssumption == Environments \subseteq EnvironmentType

VARIABLES
    dev,        \* the loader_device objects, by address
    list,       \* icd_term->logical_device_list of each driver, first to last
    handles,    \* the devices whose VkDevice the application holds
    lock,       \* the thread that holds loader_lock
    frames,     \* its device calls under way, the innermost last
    patched,    \* threads whose VkDeviceCreateInfo points into the loader's stack
    names,      \* inst->dev_ext_disp_functions
    count,      \* inst->dev_ext_disp_function_count
    given,      \* trampolines handed out: for which name, and its slot
    query,      \* what each thread's vkGetInstanceProcAddr is in the middle of
    fault,      \* the undefined behaviour that was reached, if any
    env         \* the environment, which never changes

device_vars == <<dev, list, handles, lock, frames, patched>>
table_vars == <<names, count, given, query>>
vars == <<dev, list, handles, lock, frames, patched, names, count, given, query, fault, env>>

\* driver: of phys_dev_term.  icd: whether icd_device points to a device that
\* exists.  gdpa: the dispatch table has its GetDeviceProcAddr.  ext: the slots
\* of ext_dispatch, None for vkDevExtError.  second: the device that a layer
\* created along with this one, which only the layer knows.
NewDev == [driver |-> None, icd |-> "none", gdpa |-> FALSE,
           ext |-> [i \in Slots |-> None], second |-> None]
Dev == [driver : Drivers \cup {None}, icd : {"none", "live", "dead"}, gdpa : BOOLEAN,
        ext : [Slots -> Names \cup {None}], second : DevAddr \cup {None}]

\* A call under way: on which device, for which driver; slot is the next that
\* loader_init_dispatch_dev_ext looks at; inner tells that the create info has
\* a VkDeviceGroupDeviceCreateInfo behind another structure of its pNext chain,
\* so that the pointer to it is in the caller's memory.
Phases == {"begin", "down", "up", "init", "failed", "gone"}
Frame == [op : {"create", "destroy"}, a : DevAddr \cup {None}, d : Drivers,
          phase : Phases, slot : 0..MaxUnknown, inner : BOOLEAN]
Creating(d, inner) == [op |-> "create", a |-> None, d |-> d, phase |-> "begin",
                       slot |-> 0, inner |-> inner]
Destroying(a, d) == [op |-> "destroy", a |-> a, d |-> d, phase |-> "down",
                     slot |-> 0, inner |-> FALSE]

\* A query under way: the name, the slot it had when the walk began, and the
\* device that the walk is at (with the driver whose list that is), which may
\* have been freed under it.
NoQuery == [f |-> None, slot |-> 0, d |-> 0, a |-> None, freed |-> FALSE]
Query == [f : Names \cup {None}, slot : Slots, d : 0..(DriverCount + 1),
          a : DevAddr \cup {None}, freed : BOOLEAN]

Init ==
    /\ dev = [a \in {} |-> NewDev]
    /\ list = [d \in Drivers |-> <<>>]
    /\ handles = {}
    /\ lock = None
    /\ frames = <<>>
    /\ patched = {}
    /\ names = [i \in Slots |-> None]
    /\ count = 0
    /\ given = {}
    /\ query = [t \in Threads |-> NoQuery]
    /\ fault = "none"
    /\ env \in Environments

-----------------------------------------------------------------------------
(* Helpers                                                                 *)

Without(f, x) == [y \in DOMAIN f \ {x} |-> f[y]]
With(f, x, v) == [y \in DOMAIN f \cup {x} |-> IF y = x THEN v ELSE f[y]]

\* A list without its i-th entry.
Unlinked(s, i) == [j \in 1..(Len(s) - 1) |-> IF j < i THEN s[j] ELSE s[j + 1]]

Depth == Len(frames)
Top == frames[Depth]

\* The thread is in this phase of its innermost call, and not in a query that a layer
\* makes from there.
At(t, op, phase) ==
    /\ lock = t /\ query[t] = NoQuery
    /\ frames # <<>> /\ Top.op = op /\ Top.phase = phase
Goes(phase) == frames' = [frames EXCEPT ![Depth].phase = phase]

\* The drivers whose list holds the device, and its place there.
On(a) == {d \in Drivers : a \in Range(list[d])}
FirstOn(a) == CHOOSE d \in On(a) : \A e \in On(a) : d <= e
Place(a, d) == CHOOSE i \in DOMAIN list[d] : list[d][i] = a

\* What GetDeviceProcAddr, down the layers to the driver, has of a device.
ChainOffers(a) == Offers[dev[a].driver] \cup LayerOffers

\* The innermost call returns with this result: to the application, which then
\* gives up loader_lock, or to the layer, inside vkCreateDevice or
\* vkDestroyDevice of the outer device.
Pops(outer_phase) ==
    /\ frames' = IF Depth = 1 THEN <<>> ELSE <<[frames[1] EXCEPT !.phase = outer_phase]>>
    /\ lock' = IF Depth = 1 THEN None ELSE lock

-----------------------------------------------------------------------------
(* vkCreateDevice: loader_layer_create_device                              *)

\* The application's call, for a physical device of driver d.
CreateBegin(t, d, inner) ==
    /\ lock = None /\ query[t] = NoQuery
    /\ lock' = t
    /\ frames' = <<Creating(d, inner)>>
    /\ patched' = patched \ {t}
    /\ UNCHANGED <<dev, list, handles, table_vars>>

\* A layer creates a device of its own once the outer one exists below it.
LayerCreateBegin(t, d) ==
    /\ At(t, "create", "up") /\ Depth = 1
    /\ dev[Top.a].second = None
    /\ DOMAIN dev # DevAddr         \* the bound on devices
    /\ frames' = Append(frames, Creating(d, FALSE))
    /\ UNCHANGED <<dev, list, handles, lock, patched, table_vars>>

\* The extensions cannot be listed, or one asked for is missing, or there is no
\* memory for the loader_device.
CreateRefused(t) ==
    /\ At(t, "create", "begin")
    /\ Depth = 1 \/ env.fails
    /\ Pops("failed")
    /\ UNCHANGED <<dev, list, handles, patched, table_vars>>

\* The loader_device is allocated.  The VkDeviceGroupDeviceCreateInfo in the
\* chain is replaced by a copy on the stack, with unwrapped physical devices.
CreateDown(t, a) ==
    /\ At(t, "create", "begin")
    /\ dev' = With(dev, a, NewDev)
    /\ frames' = [frames EXCEPT ![Depth].a = a, ![Depth].phase = "down"]
    /\ patched' = IF Top.inner THEN patched \cup {t} ELSE patched
    /\ UNCHANGED <<list, handles, lock, table_vars>>

\* terminator_CreateDevice: the driver has its device, the loader_device enters
\* the driver's list, and the driver's device gets its dispatch pointer.
TerminatorCreate(t) ==
    /\ At(t, "create", "down")
    /\ dev' = [dev EXCEPT ![Top.a].driver = Top.d, ![Top.a].icd = "live"]
    /\ list' = [list EXCEPT ![Top.d] = <<Top.a>> \o @]
    /\ Goes("up")
    /\ UNCHANGED <<handles, lock, patched, table_vars>>

\* A layer, the terminator or the driver fails before a device exists.
TerminatorFails(t) ==
    /\ env.fails
    /\ At(t, "create", "down")
    /\ dev' \in {dev, [dev EXCEPT ![Top.a].driver = Top.d]}
    /\ Goes("failed")
    /\ UNCHANGED <<list, handles, lock, patched, table_vars>>

\* A layer fails on the way up; it may or may not destroy the device below.
LayerFails(t) ==
    /\ env.fails
    /\ At(t, "create", "up")
    /\ dev' \in {dev, [dev EXCEPT ![Top.a].icd = "dead"]}
    /\ Goes("failed")
    /\ UNCHANGED <<list, handles, lock, patched, table_vars>>

\* The create info gets the application's VkDeviceGroupDeviceCreateInfo back.
GroupRestored(t) == patched' = IF Top.inner THEN patched \ {t} ELSE patched

\* loader_init_device_dispatch_table
TableFilled(a) == [dev EXCEPT ![a].gdpa = TRUE, ![a].ext = [i \in Slots |-> None]]

\* The chain returns with success.
ChainReturns(t) ==
    /\ At(t, "create", "up")
    /\ dev' = TableFilled(Top.a)
    /\ GroupRestored(t)
    /\ Goes("init")
    /\ UNCHANGED <<list, handles, lock, table_vars>>

\* Faulty variant: only the slots that are already counted are looked at.
InitSlotCounted(a, i) ==
    IF i < count /\ names[i] # None /\ names[i] \in ChainOffers(a)
    THEN [dev EXCEPT ![a].ext[i] = names[i]] ELSE dev

\* loader_init_dispatch_dev_ext_entry for one device and one slot.
InitSlot(a, i) ==
    IF names[i] # None /\ names[i] \in ChainOffers(a)
    THEN [dev EXCEPT ![a].ext[i] = names[i]] ELSE dev

\* loader_init_dispatch_dev_ext looks at every slot.
CreateInitSlot(t) ==
    /\ At(t, "create", "init") /\ Top.slot < MaxUnknown
    /\ dev' = InitSlot(Top.a, Top.slot)
    /\ frames' = [frames EXCEPT ![Depth].slot = @ + 1]
    /\ UNCHANGED <<list, handles, lock, patched, table_vars>>

CreateDone(t) ==
    /\ At(t, "create", "init") /\ Top.slot = MaxUnknown
    /\ IF Depth = 1
       THEN handles' = handles \cup {Top.a} /\ dev' = dev
       ELSE handles' = handles /\ dev' = [dev EXCEPT ![frames[1].a].second = Top.a]
    /\ Pops("up")
    /\ UNCHANGED <<list, patched, table_vars>>

\* Faulty variant: the device is freed, but stays in the driver's list.
CleanupList(a) == list

\* Faulty variant: only the first driver's list is searched.
CleanupFirst(a) ==
    IF 1 \notin On(a) THEN list ELSE [list EXCEPT ![1] = Unlinked(@, Place(a, 1))]

\* Failure cleanup: the first list that has the device is relieved of it.
CleanedList(a) ==
    IF On(a) = {} THEN list
    ELSE [list EXCEPT ![FirstOn(a)] = Unlinked(@, Place(a, FirstOn(a)))]

\* loader_destroy_logical_device: whoever walks the lists may be at the device.
Freed(a) ==
    /\ dev' = Without(dev, a)
    /\ query' = [t \in Threads |-> [query[t] EXCEPT !.freed = @ \/ query[t].a = a]]

CreateCleanup(t) ==
    /\ At(t, "create", "failed")
    /\ list' = CleanedList(Top.a)
    /\ Freed(Top.a)
    /\ Pops("failed")
    /\ UNCHANGED <<handles, patched, names, count, given>>

-----------------------------------------------------------------------------
(* vkDestroyDevice: loader_layer_destroy_device                            *)

\* loader_get_icd_and_device finds the driver and the loader_device.
DestroyBegin(t, a) ==
    /\ lock = None /\ query[t] = NoQuery
    /\ On(a) # {}
    /\ lock' = t
    /\ frames' = <<Destroying(a, FirstOn(a))>>
    /\ handles' = handles \ {a}
    /\ UNCHANGED <<dev, list, patched, table_vars>>

\* The layer that created a second device destroys it first.
LayerDestroyBegin(t) ==
    /\ At(t, "destroy", "down") /\ Depth = 1
    /\ LET b == dev[Top.a].second
       IN  /\ b # None /\ On(b) # {}
           /\ dev' = [dev EXCEPT ![Top.a].second = None]
           /\ frames' = Append(frames, Destroying(b, FirstOn(b)))
    /\ UNCHANGED <<list, handles, lock, patched, table_vars>>

\* The driver destroys its device.
DriverDestroys(t) ==
    /\ At(t, "destroy", "down")
    /\ dev[Top.a].second = None
    /\ dev' = [dev EXCEPT ![Top.a].icd = "dead"]
    /\ Goes("gone")
    /\ UNCHANGED <<list, handles, lock, patched, table_vars>>

\* Faulty variant: the first device of the list goes, whichever it is.
RemovedFirst(a, d) == [list EXCEPT ![d] = Unlinked(@, 1)]

\* loader_remove_logical_device
Removed(a, d) == [list EXCEPT ![d] = Unlinked(@, Place(a, d))]

DestroyRemove(t) ==
    /\ At(t, "destroy", "gone")
    /\ list' = Removed(Top.a, Top.d)
    /\ Freed(Top.a)
    /\ Pops("down")
    /\ UNCHANGED <<handles, patched, names, count, given>>

\* vkDestroyInstance, when the application has destroyed its devices:
\* loader_icd_destroy frees the devices that are still in the lists, and
\* loader_free_dev_ext_table the names.  Another instance may follow.
DestroyInstance ==
    /\ lock = None /\ handles = {}
    /\ \A t \in Threads : query[t] = NoQuery
    /\ dev' = [a \in DOMAIN dev \ UNION {Range(list[d]) : d \in Drivers} |-> dev[a]]
    /\ list' = [d \in Drivers |-> <<>>]
    /\ names' = [i \in Slots |-> None] /\ count' = 0 /\ given' = {}
    /\ UNCHANGED <<handles, lock, frames, patched, query>>

-----------------------------------------------------------------------------
(* vkGetInstanceProcAddr of a name the loader does not know:               *)
(* loader_dev_ext_gpa_impl, without a lock                                 *)

HasRoom == count < MaxUnknown

Known(f) == {i \in Slots : i < count /\ names[i] = f}

\* The name has a slot: its trampoline is returned.
QueryKnown(t, f) ==
    /\ query[t] = NoQuery
    /\ Known(f) # {}
    /\ given' = given \cup {<<f, CHOOSE i \in Known(f) : \A j \in Known(f) : i <= j>>}
    /\ UNCHANGED <<device_vars, names, count, query>>

\* The place where a walk begins, or goes on, after driver d's list ends: the
\* first device of the next driver that has one.
NextHead(d) ==
    LET later == {e \in Drivers : e > d /\ list[e] # <<>>}
    IN  IF later = {} THEN [d |-> DriverCount + 1, a |-> None]
        ELSE LET e == CHOOSE e \in later : \A g \in later : e <= g
             IN  [d |-> e, a |-> list[e][1]]

\* A driver has the name or, when the application asks and not a layer, a layer.
Supported(f, is_tramp) ==
    (\E d \in Drivers : f \in Offers[d]) \/ (is_tramp /\ f \in LayerOffers)

\* The name is stored in the next slot and the walk begins.
QueryNew(t, f, is_tramp) ==
    /\ query[t] = NoQuery
    /\ Known(f) = {} /\ HasRoom
    /\ Supported(f, is_tramp)
    /\ names' = [names EXCEPT ![count] = f]
    /\ query' = [query EXCEPT ![t] = [f |-> f, slot |-> count, d |-> NextHead(0).d,
                                      a |-> NextHead(0).a, freed |-> FALSE]]
    /\ UNCHANGED <<device_vars, count, given>>

\* There is no memory for the name.
QueryNoMemory(t, f, is_tramp) ==
    /\ query[t] = NoQuery
    /\ Known(f) = {} /\ HasRoom
    /\ Supported(f, is_tramp)
    /\ names' = [names EXCEPT ![count] = None]
    /\ UNCHANGED <<device_vars, count, given, query>>

\* Where the walk goes from device a of driver d's list.
NextStop(a, d) ==
    LET i == Place(a, d)
    IN  IF i < Len(list[d]) THEN [d |-> d, a |-> list[d][i + 1]] ELSE NextHead(d)

VisitInit(a, i, f) ==
    IF f \in ChainOffers(a) THEN [dev EXCEPT ![a].ext[i] = f] ELSE dev

\* The walk asks the device's chain for the name.
QueryVisit(t) ==
    LET q == query[t]
    IN  /\ q.a # None /\ ~q.freed /\ dev[q.a].gdpa /\ dev[q.a].icd = "live"
        /\ dev' = VisitInit(q.a, q.slot, q.f)
        /\ LET n == NextStop(q.a, q.d)
           IN  query' = [query EXCEPT ![t].d = n.d, ![t].a = n.a]
        /\ UNCHANGED <<list, handles, lock, frames, patched, names, count, given>>

\* The device was freed meanwhile, or is in the list before its dispatch table
\* is filled, or is still there when the driver has destroyed it: the walk calls
\* through freed memory or a null pointer, or hands on a device that is gone.
QueryFaults(t) ==
    LET q == query[t]
    IN  /\ q.a # None
        /\ \/ q.freed /\ fault' = "freed"
           \/ ~q.freed /\ ~dev[q.a].gdpa /\ fault' = "null"
           \/ ~q.freed /\ dev[q.a].gdpa /\ dev[q.a].icd # "live" /\ fault' = "destroyed"
        /\ UNCHANGED <<device_vars, table_vars>>

\* Faulty variant: the slot is counted first.
ReturnedNext(f) == IF count + 1 < MaxUnknown THEN {<<f, count + 1>>} ELSE {}

\* The trampoline of the slot that count now names.
Returned(f) == IF count < MaxUnknown THEN {<<f, count>>} ELSE {}

QueryDone(t) ==
    /\ query[t] # NoQuery /\ query[t].a = None
    /\ count' = count + 1
    /\ given' = given \cup Returned(query[t].f)
    /\ query' = [query EXCEPT ![t] = NoQuery]
    /\ UNCHANGED <<device_vars, names>>

-----------------------------------------------------------------------------

DeviceStep(t) ==
    \/ \E d \in Drivers, inner \in BOOLEAN : CreateBegin(t, d, inner)
    \/ \E d \in Drivers : LayerCreateBegin(t, d)
    \/ CreateRefused(t)
    \/ \E a \in DevAddr \ DOMAIN dev : CreateDown(t, a)
    \/ TerminatorCreate(t)
    \/ TerminatorFails(t)
    \/ LayerFails(t)
    \/ ChainReturns(t)
    \/ CreateInitSlot(t)
    \/ CreateDone(t)
    \/ CreateCleanup(t)
    \/ \E a \in handles : DestroyBegin(t, a)
    \/ LayerDestroyBegin(t)
    \/ DriverDestroys(t)
    \/ DestroyRemove(t)

QueryStep(t) ==
    \/ \E f \in Names : QueryKnown(t, f)
    \/ \E f \in Names, is_tramp \in BOOLEAN : QueryNew(t, f, is_tramp)
    \/ \E f \in Names, is_tramp \in BOOLEAN : QueryNoMemory(t, f, is_tramp)
    \/ QueryVisit(t)
    \/ QueryDone(t)

\* Nothing is said about a program after undefined behaviour.
Next ==
    \/ /\ fault = "none"
       /\ \/ \E t \in env.devices : DeviceStep(t)
          \/ \E t \in env.queries : QueryStep(t)
          \/ DestroyInstance
       /\ UNCHANGED <<fault, env>>
    \/ /\ fault = "none"
       /\ \E t \in env.queries : QueryFaults(t)
       /\ UNCHANGED env
    \/ fault # "none" /\ UNCHANGED vars

Spec == Init /\ [][Next]_vars

-----------------------------------------------------------------------------
(* Properties                                                              *)

\* Every variable keeps its type.
TypeOK ==
    /\ \E A \in SUBSET DevAddr : dev \in [A -> Dev]
    /\ list \in [Drivers -> Seq(DevAddr)]
    /\ handles \subseteq DevAddr
    /\ lock \in Threads \cup {None}
    /\ frames \in Seq(Frame)
    /\ patched \subseteq Threads
    /\ names \in [Slots -> Names \cup {None}]
    /\ count \in Nat
    /\ given \subseteq Names \X Slots
    /\ query \in [Threads -> Query]
    /\ fault \in {"none", "freed", "null", "destroyed"}
    /\ env \in Environments

Listed == UNION {Range(list[d]) : d \in Drivers}
InHand == {frames[i].a : i \in DOMAIN frames} \ {None}

\* The lists hold exactly the loader_devices that exist, each once and under
\* its own driver, but for one whose creation is under way: whichever step of a
\* creation failed, in the outer or in the nested one, none is left dangling in
\* a list, and none is lost that vkDestroyInstance would not free.
DevicesListed ==
    /\ TypeOK
    /\ Listed \subseteq DOMAIN dev
    /\ DOMAIN dev \subseteq Listed \cup InHand
    /\ \A d \in Drivers : /\ IsInjective(list[d])
                          /\ \A i \in DOMAIN list[d] : dev[list[d][i]].driver = d

\* A VkDevice that the application holds, or a layer, belongs to a device that
\* exists in the driver, with its dispatch table filled, and that
\* loader_get_icd_and_device finds.
HandlesResolve ==
    \A a \in handles \cup ({dev[b].second : b \in DOMAIN dev} \ {None}) :
        /\ a \in Listed
        /\ dev[a].icd = "live" /\ dev[a].gdpa

\* loader_get_icd_and_device reads through icd_device of every device it walks
\* past, those of other threads included.  All of them exist when loader_lock is free and
\* when its holder is in a layer or a driver, unless the call it is in has failed or
\* the driver has destroyed the device, which is in the list until that call is done.
ScansSafe ==
    (frames = <<>> \/ Top.phase \notin {"failed", "gone"}) =>
        \A a \in Listed : a \in DOMAIN dev /\ dev[a].icd = "live"

Quiet == lock = None /\ \A t \in Threads : query[t] = NoQuery

\* Whichever came first, the creation of the device or the first query for the
\* name, the slot of the name leads to the device's own function, and if the
\* device has none, to the error function.  So for one thread that queries,
\* beside others that create and destroy devices.
SlotsFilled ==
    Quiet /\ Cardinality(env.queries) <= 1 /\ fault = "none" =>
        \A a \in Listed : dev[a].gdpa => \A i \in Slots :
            dev[a].ext[i] = IF i < count /\ names[i] \in ChainOffers(a)
                            THEN names[i] ELSE None

\* A trampoline that was returned for a name is the name's own: through it, the
\* application calls the function it asked for.
TrampolinesHold == \A g \in given : names[g[2]] = g[1]

\* A walk is at a device whose own call is on its way back up the layers: created, but its
\* dispatch table is not filled yet or a layer has failed; or destroyed, but not removed.
ComesBack(op) == \E i \in DOMAIN frames, t \in env.queries :
    /\ frames[i].op = op /\ frames[i].a \in Listed
    /\ frames[i].phase \in {"up", "failed", "gone"}
    /\ query[t].a = frames[i].a

\* loader_dev_ext_gpa_impl takes no lock.  What it needs of its callers: while one thread at
\* most asks for unknown functions, every trampoline is its name's own.  If that thread alone
\* creates and destroys devices, its walk meets no device that was freed, one without a
\* dispatch table only when a layer asks from inside that device's vkCreateDevice, after the
\* call to the next one has returned, and one that the driver has destroyed only when a layer
\* asks at that point of its vkDestroyDevice.
SafeAlone ==
    /\ Cardinality(env.queries) <= 1 => TrampolinesHold
    /\ Cardinality(env.devices \cup env.queries) = 1 =>
         /\ fault # "freed"
         /\ fault = "null" => ComesBack("create")
         /\ fault = "destroyed" => ComesBack("destroy")

\* The pNext chain of a VkDeviceCreateInfo points to the application's own
\* structures again when vkCreateDevice has returned.
GroupGivenBack == patched \subseteq {lock}
=============================================================================
