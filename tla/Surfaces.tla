------------------------------ MODULE Surfaces ------------------------------
(***************************************************************************)
(* VkSurfaceKHR objects (wsi.c).  The handle the application holds is a    *)
(* VkIcdSurface of the loader with a slot number.  Each driver's own       *)
(* surface is created lazily, by the first query that needs it, and stored *)
(* in the driver's surface_list at that slot.                              *)
(*                                                                         *)
(* vkCreate*SurfaceKHR holds loader_lock.  The queries (through            *)
(* wsi_unwrap_icd_surface) and vkDestroySurfaceKHR do not: other threads'  *)
(* calls may come between a query's test of the list and the driver's      *)
(* write into it, and between a destruction's driver calls and its writes. *)
(*                                                                         *)
(* Vulkan lets an application query one surface from several threads, but  *)
(* not destroy a surface that is in use; a driver is unloaded only while   *)
(* no surface call is under way.                                           *)
(***************************************************************************)
EXTENDS UsedObjectList

CONSTANTS
    Threads,
    DriverCount,     \* drivers with VK_KHR_surface enabled and a loader-driver
                     \* interface of version 3 or later; the loader keeps no
                     \* list for any other
    Handles,         \* addresses for VkIcdSurface
    DriverHandles,   \* the VkSurfaceKHR values of a driver
    Environments     \* the environments to look at

ASSUME DriverCountAssumption == DriverCount \in Nat
ASSUME HandlesDistinct == Null \notin DriverHandles /\ Garbage \notin DriverHandles

\* What may happen around the loader: the threads that make calls, whether
\* allocate_icd_surface_struct may run out of memory, and whether the memory
\* comes from the application's VkAllocationCallbacks.
EnvironmentType == [threads : SUBSET Threads, oom : BOOLEAN, app_allocator : BOOLEAN]
ASSUME EnvironmentsAssumption == Environments \subseteq EnvironmentType

Drivers == 1..DriverCount       \* in the order of inst->icd_terms

VARIABLES
    icd_terms,      \* the drivers still loaded
    surfaces_list,  \* inst->surfaces_list: which slots are in use
    surface,        \* the live VkIcdSurface objects: handle to surface_index
    surface_list,   \* icd_term->surface_list of each driver
    live,           \* the surfaces that exist inside each driver (external)
    call,           \* what each thread is in the middle of
    env             \* the environment, which never changes

vars == <<icd_terms, surfaces_list, surface, surface_list, live, call, env>>

\* A call under way: a query that found no driver surface and called driver d
\* to create one, or a destruction that has called the drivers.  moved holds
\* the lists that were reallocated elsewhere meanwhile (0 is surfaces_list):
\* what the call still writes to them goes to freed memory.
Idle == [op |-> "idle", s |-> Null, d |-> 0, moved |-> {}]
Calls == {Idle} \cup
         [op : {"query"}, s : Handles, d : Drivers, moved : SUBSET Drivers] \cup
         [op : {"destroy"}, s : Handles, d : {0}, moved : SUBSET (0..DriverCount)]

InUse(s) == \E t \in Threads : call[t].s = s
Destroying(s) == \E t \in Threads : call[t].op = "destroy" /\ call[t].s = s

Init ==
    /\ icd_terms = Drivers
    /\ surfaces_list = Empty
    /\ surface = Empty
    /\ surface_list = [d \in Drivers |-> Empty]
    /\ live = [d \in Drivers |-> {}]
    /\ call = [t \in Threads |-> Idle]
    /\ env \in Environments

-----------------------------------------------------------------------------
(* vkCreate*SurfaceKHR                                                     *)

Bounded(i, reached) ==
    /\ surfaces_list = Empty \/ HasFree(surfaces_list) \/ CanGrow(surfaces_list)
    /\ \A d \in reached : \/ surface_list[d] = Empty
                          \/ ~IsShort(surface_list[d], i)
                          \/ CanGrow(surface_list[d])

\* Faulty variant: the lists are left as they are.
ExtendNone(i, reached) == surface_list' = surface_list

\* The loop of allocate_icd_surface_struct over the drivers in reached.
ExtendLists(i, reached) ==
    surface_list' \in
      {f \in [Drivers -> UNION {Extended(surface_list[d], i, env.app_allocator) : d \in Drivers}
                           \cup {surface_list[d] : d \in Drivers}] :
         \A d \in Drivers : IF d \in reached
                           THEN f[d] \in Extended(surface_list[d], i, env.app_allocator)
                           ELSE f[d] = surface_list[d]}

\* A reallocated list may or may not move.
MoveLists(i, reached) ==
    LET resized == {d \in reached : surface_list[d] # Empty /\ IsShort(surface_list[d], i)}
                     \cup (IF surfaces_list # Empty /\ NeedsMemory(surfaces_list)
                           THEN {0} ELSE {})
    IN  \E m \in SUBSET resized :
          call' = [t \in Threads |->
            CASE call[t].op = "query"   -> [call[t] EXCEPT !.moved = @ \cup (m \cap {call[t].d})]
              [] call[t].op = "destroy" -> [call[t] EXCEPT !.moved = @ \cup m]
              [] OTHER                  -> call[t]]

Creates(t, i, reached) ==
    /\ call[t] = Idle
    /\ Bounded(i, reached)
    /\ ExtendLists(i, reached)
    /\ MoveLists(i, reached)

CreateSurface(t) ==
    /\ \E i \in NextIndex(surfaces_list), s \in Handles \ DOMAIN surface :
         /\ Creates(t, i, icd_terms)
         /\ surfaces_list' = Taken(surfaces_list, i)
         /\ surface' = [r \in DOMAIN surface \cup {s} |-> IF r = s THEN i ELSE surface[r]]
    /\ UNCHANGED <<icd_terms, live, env>>

\* loader_get_next_available_entry fails.
CreateNoSlot(t) ==
    /\ env.oom /\ call[t] = Idle
    /\ NeedsMemory(surfaces_list)
    /\ UNCHANGED vars

\* Out of memory for the VkIcdSurface or for a driver's list: the drivers
\* before that one have their lists, and the slot stays in use, because
\* cleanup_surface_creation is not told of the surface.
CreateOutOfMemory(t) ==
    /\ env.oom
    /\ \E i \in NextIndex(surfaces_list), k \in 0..DriverCount :
         /\ \/ k = 0     \* the VkIcdSurface itself
            \/ \E d \in icd_terms : /\ IsShort(surface_list[d], i)
                                    /\ d > k /\ \A e \in icd_terms : e > k => e >= d
         /\ Creates(t, i, icd_terms \cap 1..k)
         /\ surfaces_list' = Taken(surfaces_list, i)
    /\ UNCHANGED <<icd_terms, surface, live, env>>

\* Faulty variant: the slot is not given back.
CleanupKeepsSlot(i) == surfaces_list' = Taken(surfaces_list, i)

\* cleanup_surface_creation
CleanupSlot(i) == surfaces_list' = Released(Taken(surfaces_list, i), i)

\* copy_surface_create_info fails (an unknown structure in the pNext chain, or
\* no memory): what a driver already has at the slot is destroyed.
CreateCopyFails(t) ==
    /\ DOMAIN surface # Handles     \* the VkIcdSurface was allocated
    /\ \E i \in NextIndex(surfaces_list) :
         /\ Creates(t, i, icd_terms)
         /\ CleanupSlot(i)
         /\ live' = [d \in Drivers |->
              IF d \in icd_terms /\ i \in DOMAIN surface_list'[d]
              THEN live[d] \ {surface_list'[d][i]} ELSE live[d]]
    /\ UNCHANGED <<icd_terms, surface, env>>

-----------------------------------------------------------------------------
(* wsi_unwrap_icd_surface, in every query that names a surface             *)

\* The driver has no surface in this slot yet: it is asked for one.  (When it
\* has one, or the slot is outside its list, the query only reads.)
QueryCreates(t, s, d) ==
    /\ call[t] = Idle
    /\ ~Destroying(s)
    /\ surface[s] \in DOMAIN surface_list[d]
    /\ surface_list[d][surface[s]] = Null
    /\ call' = [call EXCEPT ![t] = [op |-> "query", s |-> s, d |-> d, moved |-> {}]]
    /\ UNCHANGED <<icd_terms, surfaces_list, surface, surface_list, live, env>>

\* The driver writes the new handle where the loader's pointer points.
QueryCreated(t) ==
    LET d == call[t].d
    IN  /\ call[t].op = "query"
        /\ \E h \in DriverHandles \ live[d] :
             /\ live' = [live EXCEPT ![d] = @ \cup {h}]
             /\ surface_list' = IF d \in call[t].moved THEN surface_list
                                ELSE [surface_list EXCEPT ![d][surface[call[t].s]] = h]
        /\ call' = [call EXCEPT ![t] = Idle]
        /\ UNCHANGED <<icd_terms, surfaces_list, surface, env>>

\* The driver answers with an error.
QueryFails(t) ==
    /\ call[t].op = "query"
    /\ call' = [call EXCEPT ![t] = Idle]
    /\ UNCHANGED <<icd_terms, surfaces_list, surface, surface_list, live, env>>

-----------------------------------------------------------------------------
(* vkDestroySurfaceKHR                                                     *)

\* What the loop reads from driver d's list, which it does not bound.
Entry(d, i) == IF i \in DOMAIN surface_list[d] THEN surface_list[d][i] ELSE Garbage

\* Every driver that has a surface in the slot destroys it ...
DestroySurface(t, s) ==
    /\ call[t] = Idle
    /\ ~InUse(s)
    /\ live' = [d \in Drivers |->
                  IF d \in icd_terms THEN live[d] \ {Entry(d, surface[s])} ELSE live[d]]
    /\ call' = [call EXCEPT ![t] = [op |-> "destroy", s |-> s, d |-> 0, moved |-> {}]]
    /\ UNCHANGED <<icd_terms, surfaces_list, surface, surface_list, env>>

\* Faulty variant: the drivers' entries are left as they are.
EntriesKept(i, moved) == surface_list' = surface_list

EntriesCleared(i, moved) ==
    surface_list' = [d \in Drivers |->
        IF d \in icd_terms \ moved /\ i \in DOMAIN surface_list[d]
        THEN [surface_list[d] EXCEPT ![i] = Null] ELSE surface_list[d]]

\* ... its entry is cleared, the slot released and the VkIcdSurface freed.
DestroyFinished(t) ==
    LET s == call[t].s
    IN  /\ call[t].op = "destroy"
        /\ EntriesCleared(surface[s], call[t].moved)
        /\ surfaces_list' = IF 0 \in call[t].moved THEN surfaces_list
                            ELSE Released(surfaces_list, surface[s])
        /\ surface' = [r \in DOMAIN surface \ {s} |-> surface[r]]
        /\ call' = [call EXCEPT ![t] = Idle]
        /\ UNCHANGED <<icd_terms, live, env>>

-----------------------------------------------------------------------------
(* loader_icd_close_objects and loader_icd_destroy, with the destruction   *)
(* of the driver's instance between them.                                  *)

\* Faulty variant: only the entries of free slots are closed.
ClosableFree(d) == {i \in DOMAIN surface_list[d] :
                      i \in DOMAIN surfaces_list /\ ~surfaces_list[i]}

Closable(d) == {i \in DOMAIN surface_list[d] :
                  i \in DOMAIN surfaces_list /\ surfaces_list[i]}

UnloadDriver(d) ==
    /\ \A t \in Threads : call[t] = Idle
    /\ live' = [live EXCEPT ![d] = @ \ {surface_list[d][i] : i \in Closable(d)}]
    /\ surface_list' = [surface_list EXCEPT ![d] = Empty]
    /\ icd_terms' = icd_terms \ {d}
    /\ UNCHANGED <<surfaces_list, surface, call, env>>

Next ==
    \/ \E t \in env.threads :
         \/ CreateSurface(t)
         \/ CreateNoSlot(t)
         \/ CreateOutOfMemory(t)
         \/ CreateCopyFails(t)
         \/ \E s \in DOMAIN surface, d \in icd_terms : QueryCreates(t, s, d)
         \/ QueryCreated(t)
         \/ QueryFails(t)
         \/ \E s \in DOMAIN surface : DestroySurface(t, s)
         \/ DestroyFinished(t)
    \/ \E d \in icd_terms : UnloadDriver(d)

Spec == Init /\ [][Next]_vars

-----------------------------------------------------------------------------
(* Properties                                                              *)

\* Every variable keeps its type; the lists are dense from slot 0.
TypeOK ==
    /\ icd_terms \subseteq Drivers
    /\ surfaces_list \in Lists(BOOLEAN)
    /\ \E A \in SUBSET Handles : surface \in [A -> Entries(MaxCapacity)]
    /\ surface_list \in [Drivers -> Lists(DriverHandles \cup {Null, Garbage})]
    /\ live \in [Drivers -> SUBSET DriverHandles]
    /\ call \in [Threads -> Calls]
    /\ env \in Environments

SingleThreaded == \E t \in Threads : env.threads = {t}
NeverGrown == \A d \in Drivers : Capacity(surface_list[d]) <= InitialCapacity
LostSlots == {i \in DOMAIN surfaces_list :
                surfaces_list[i] /\ \A s \in DOMAIN surface : surface[s] # i}

\* A slot belongs to one surface at most, and is in use as long as that
\* surface exists: no two surfaces share a driver's entry.  And a slot that is
\* in use belongs to a surface, unless a creation ran out of memory or two
\* threads' calls overlapped.
SlotsOwned ==
    /\ TypeOK
    /\ \A s \in DOMAIN surface : /\ surface[s] \in DOMAIN surfaces_list
                                 /\ surfaces_list[surface[s]]
    /\ \A r, s \in DOMAIN surface : surface[r] = surface[s] => r = s
    /\ SingleThreaded /\ ~env.oom => LostSlots = {}

AllCovered ==
    \A s \in DOMAIN surface, d \in icd_terms : surface[s] \in DOMAIN surface_list[d]

\* Every driver's list has an entry for every surface, so a surface the loader
\* created never takes wsi_unwrap_icd_surface's branch for "not one that was
\* created by the loader" (wsi.c:80), and vkDestroySurfaceKHR, which does not
\* look at the capacity, stays inside the list; as long as fewer slots are lost
\* than a new list has entries.
ListsCoverSurfaces == Cardinality(LostSlots) < InitialCapacity => AllCovered

\* A handle in a driver's list is one of that driver's living surfaces, unless
\* the surface of that slot is being destroyed: the loader never gives a driver
\* a surface that is not its own, or that is gone.  (Memory of the application
\* is not cleared, and a list that grows under a call loses that call's write.)
EntriesLive ==
    ~env.app_allocator /\ (SingleThreaded \/ NeverGrown) =>
      \A d \in icd_terms : \A i \in DOMAIN surface_list[d] :
        \/ surface_list[d][i] \in {Null} \cup live[d]
        \/ \E s \in DOMAIN surface : surface[s] = i /\ Destroying(s)

\* A driver's surface can be reached through a surface of the application, and
\* none is left when the driver's instance is destroyed.
NoSurfaceLeaked ==
    /\ \A d \in icd_terms : \A h \in live[d] :
         \E s \in DOMAIN surface : Entry(d, surface[s]) = h
    /\ \A d \in Drivers \ icd_terms : live[d] = {}

\* The same for an application whose calls do not overlap and whose surfaces
\* are all inside the lists, garbage from its own allocator included.
NothingLeaked ==
    SingleThreaded /\ Cardinality(LostSlots) < InitialCapacity => NoSurfaceLeaked
=============================================================================
