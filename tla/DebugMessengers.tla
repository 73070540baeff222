--------------------------- MODULE DebugMessengers ---------------------------
(***************************************************************************)
(* VkDebugUtilsMessengerEXT objects (debug_utils.c).  The handle is the    *)
(* address of a cell with a slot number; unlike a surface, a messenger is  *)
(* created in every driver at once, and a failure half-way rolls back.     *)
(* VkDebugReportCallbackEXT objects, which the Vulkan build has besides,   *)
(* are handled by the same code with other names.                          *)
(*                                                                         *)
(* Both entry points hold loader_lock: each is one action.                 *)
(***************************************************************************)
EXTENDS UsedObjectList, SequencesExt

CONSTANTS
    DriverCount,
    Supporting,      \* the drivers with VK_EXT_debug_utils
    Handles,         \* addresses for the loader's handles
    DriverHandles,   \* the VkDebugUtilsMessengerEXT values of a driver
    Environments     \* the environments to look at: sets of Mishaps

\* What may go wrong around the loader.
Mishaps ==
    {"slot_init", "slot_grow",   \* messengers_list cannot be made, or grown
     "list_init", "list_grow",   \* nor a driver's list
     "driver",                   \* a driver's vkCreateDebugUtilsMessengerEXT
     "node",                     \* no memory for the VkLayerDbgFunctionNode
     "uncleared"}                \* the allocator's memory is not zeroed

Drivers == 1..DriverCount       \* in the order of inst->icd_terms

ASSUME DriverCountAssumption == DriverCount \in Nat
ASSUME SupportingAssumption == Supporting \subseteq Drivers
ASSUME HandlesDistinct == Null \notin DriverHandles /\ Garbage \notin DriverHandles
ASSUME EnvironmentsAssumption == Environments \subseteq SUBSET Mishaps

VARIABLES
    icd_terms,          \* the drivers still loaded
    messengers_list,    \* inst->debug_utils_messengers_list: slots in use
    messenger,          \* the living messengers: handle to slot
    messenger_list,     \* icd_term->debug_utils_messenger_list of each driver
    dbg_functions,      \* inst->current_dbg_function_head, first to last
    live,               \* the messengers inside each driver (external)
    invalid,            \* the drivers asked to destroy what they do not have
    env                 \* the mishaps of this behaviour, which never change

vars == <<icd_terms, messengers_list, messenger, messenger_list, dbg_functions,
          live, invalid, env>>

Init ==
    /\ icd_terms = Drivers
    /\ messengers_list = Empty
    /\ messenger = Empty
    /\ messenger_list = [d \in Drivers |-> Empty]
    /\ dbg_functions = <<>>
    /\ live = [d \in Drivers |-> {}]
    /\ invalid = {}
    /\ env \in Environments

-----------------------------------------------------------------------------
(* The loop over the drivers that a destruction and a roll-back share: any *)
(* driver with a handle in the slot is told to destroy it.  The entry is   *)
(* not cleared, and the list's capacity is not looked at.                  *)

Entry(list, i) == IF i \in DOMAIN list THEN list[i] ELSE Garbage

Destroyed(lists, i) ==
    [d \in Drivers |->
       IF d \in icd_terms \cap Supporting /\ lists[d] # Empty
       THEN {Entry(lists[d], i)} \ {Null} ELSE {}]

\* created holds what the drivers made earlier in the same call.
DestroyAt(lists, i, created) ==
    LET gone == Destroyed(lists, i)
        had == [d \in Drivers |-> live[d] \cup created[d]]
    IN  /\ live' = [d \in Drivers |-> had[d] \ gone[d]]
        /\ invalid' = invalid \cup {d \in Drivers : ~(gone[d] \subseteq had[d])}

-----------------------------------------------------------------------------
(* terminator_CreateDebugUtilsMessengerEXT                                 *)

Bounded(i, reached) ==
    /\ messengers_list = Empty \/ HasFree(messengers_list) \/ CanGrow(messengers_list)
    /\ \A d \in reached : \/ messenger_list[d] = Empty
                          \/ ~IsShort(messenger_list[d], i)
                          \/ CanGrow(messenger_list[d])

\* Driver d's list once slot i can be used, with what the driver wrote there.
Written(d, i, handle) ==
    {[j \in DOMAIN l |-> IF j = i /\ d \in DOMAIN handle THEN handle[d] ELSE l[j]] :
        l \in Extended(messenger_list[d], i, "uncleared" \in env)}

\* Faulty variant: what the drivers return is not stored.
CreateInUnstored(i, reached, handle) ==
    messenger_list' = [d \in Drivers |-> IF d \in reached
                         THEN CHOOSE l \in Extended(messenger_list[d], i, FALSE) : TRUE
                         ELSE messenger_list[d]]

\* The loop over the drivers in reached; handle is what those that support the
\* extension return.
CreateIn(i, reached, handle) ==
    messenger_list' \in
      {f \in [Drivers -> UNION {Written(d, i, handle) : d \in reached}
                           \cup {messenger_list[d] : d \in Drivers}] :
         \A d \in Drivers : IF d \in reached THEN f[d] \in Written(d, i, handle)
                                             ELSE f[d] = messenger_list[d]}

NewHandles(ds) == {h \in [ds -> DriverHandles] : \A d \in ds : h[d] \notin live[d]}

\* pNextIndex, the cell that becomes the handle, is allocated first.
CellAllocated == DOMAIN messenger # Handles

CreateMessenger ==
    /\ \E i \in NextIndex(messengers_list),
          handle \in NewHandles(icd_terms \cap Supporting),
          m \in Handles \ DOMAIN messenger :
         /\ Bounded(i, icd_terms)
         /\ CreateIn(i, icd_terms, handle)
         /\ messengers_list' = Taken(messengers_list, i)
         /\ live' = [d \in Drivers |-> IF d \in DOMAIN handle
                                       THEN live[d] \cup {handle[d]} ELSE live[d]]
         /\ messenger' = [r \in DOMAIN messenger \cup {m} |-> IF r = m THEN i ELSE messenger[r]]
         /\ dbg_functions' = <<m>> \o dbg_functions
    /\ UNCHANGED <<icd_terms, invalid, env>>

\* No slot can be had.  The roll-back still runs, with the index at 0.
CreateNoSlot ==
    /\ CellAllocated
    /\ \/ "slot_init" \in env /\ messengers_list = Empty
       \/ "slot_grow" \in env /\ messengers_list # Empty /\ NeedsMemory(messengers_list)
    /\ DestroyAt(messenger_list, 0, [d \in Drivers |-> {}])
    /\ UNCHANGED <<icd_terms, messengers_list, messenger, messenger_list, dbg_functions,
                   env>>

\* Faulty variant: the roll-back forgets what the drivers just created.
RollBackNothing(i, created) ==
    /\ live' = [d \in Drivers |-> live[d] \cup created[d]]
    /\ UNCHANGED invalid

RollBack(i, created) == DestroyAt(messenger_list', i, created)

\* Creation stops at driver k, because its list cannot be made or grown or
\* because it answers with an error, or after the last one (k = DriverCount + 1)
\* for want of a node.  A driver that fails leaves the handle alone or clears it.
CreateFails(k) ==
    LET before == icd_terms \cap 1..(k - 1)
        atList(i) == /\ k \in icd_terms
                     /\ \/ "list_init" \in env /\ messenger_list[k] = Empty
                        \/ /\ "list_grow" \in env /\ messenger_list[k] # Empty
                           /\ IsShort(messenger_list[k], i)
        atDriver == "driver" \in env /\ k \in icd_terms \cap Supporting
        atNode == "node" \in env /\ k = DriverCount + 1
    IN  /\ CellAllocated
        /\ \E i \in NextIndex(messengers_list), handle \in NewHandles(before \cap Supporting) :
             /\ \/ /\ atList(i) \/ atNode
                   /\ Bounded(i, before)
                   /\ CreateIn(i, before, handle)
                \/ /\ atDriver
                   /\ Bounded(i, before \cup {k})
                   /\ \/ CreateIn(i, before \cup {k}, handle)
                      \/ CreateIn(i, before \cup {k}, [d \in DOMAIN handle \cup {k} |->
                                     IF d = k THEN Null ELSE handle[d]])
             /\ messengers_list' = Released(Taken(messengers_list, i), i)
             /\ RollBack(i, [d \in Drivers |-> IF d \in DOMAIN handle THEN {handle[d]} ELSE {}])
        /\ UNCHANGED <<icd_terms, messenger, dbg_functions, env>>

-----------------------------------------------------------------------------
(* terminator_DestroyDebugUtilsMessengerEXT                                *)

\* util_DestroyDebugUtilsMessenger
CallbackRemoved(m) == dbg_functions' = RemoveFirst(dbg_functions, m)

ReleaseSlot(i) == messengers_list' = Released(messengers_list, i)

DestroyMessenger(m) ==
    /\ DestroyAt(messenger_list, messenger[m], [d \in Drivers |-> {}])
    /\ CallbackRemoved(m)
    /\ ReleaseSlot(messenger[m])
    /\ messenger' = [r \in DOMAIN messenger \ {m} |-> messenger[r]]
    /\ UNCHANGED <<icd_terms, messenger_list, env>>

-----------------------------------------------------------------------------
(* loader_icd_close_objects and loader_icd_destroy, with the destruction   *)
(* of the driver's instance between them.                                  *)

\* Faulty variant: every entry is closed, those of free slots too.
ClosableAll(d) == DOMAIN messenger_list[d]

Closable(d) == {i \in DOMAIN messenger_list[d] :
                  i \in DOMAIN messengers_list /\ messengers_list[i]}

UnloadDriver(d) ==
    LET closed == IF d \in Supporting
                  THEN {messenger_list[d][i] : i \in Closable(d)} \ {Null} ELSE {}
    IN  /\ live' = [live EXCEPT ![d] = @ \ closed]
        /\ invalid' = IF closed \subseteq live[d] THEN invalid ELSE invalid \cup {d}
        /\ messenger_list' = [messenger_list EXCEPT ![d] = Empty]
        /\ icd_terms' = icd_terms \ {d}
        /\ UNCHANGED <<messengers_list, messenger, dbg_functions, env>>

Next ==
    \/ CreateMessenger
    \/ CreateNoSlot
    \/ \E k \in 1..(DriverCount + 1) : CreateFails(k)
    \/ \E m \in DOMAIN messenger : DestroyMessenger(m)
    \/ \E d \in icd_terms : UnloadDriver(d)

Spec == Init /\ [][Next]_vars

-----------------------------------------------------------------------------
(* Properties                                                              *)

\* Every variable keeps its type; the lists are dense from slot 0.
TypeOK ==
    /\ icd_terms \subseteq Drivers
    /\ messengers_list \in Lists(BOOLEAN)
    /\ \E A \in SUBSET Handles : messenger \in [A -> Entries(MaxCapacity)]
    /\ messenger_list \in [Drivers -> Lists(DriverHandles \cup {Null, Garbage})]
    /\ dbg_functions \in Seq(Handles)
    /\ live \in [Drivers -> SUBSET DriverHandles]
    /\ invalid \subseteq Drivers
    /\ env \in Environments

AllBacked ==
    \A d \in icd_terms \cap Supporting :
        /\ \A m \in DOMAIN messenger : Entry(messenger_list[d], messenger[m]) \in live[d]
        /\ \A l, m \in DOMAIN messenger :
             Entry(messenger_list[d], messenger[l]) = Entry(messenger_list[d], messenger[m])
               => l = m

\* Mishaps after which the roll-back finds in the slot only what the failed
\* creation put there.
RolledBackCleanly == env \subseteq {"slot_init", "list_init", "node", "uncleared"}

\* Every messenger the application holds exists in every driver that supports
\* the extension, under a handle no other messenger has there, whatever
\* creations were rolled back and whatever slots were used before, and its
\* callback is in the list of debug functions once.
MessengersBacked ==
    /\ TypeOK
    /\ RolledBackCleanly => AllBacked
    /\ ToSet(dbg_functions) = DOMAIN messenger
    /\ Len(dbg_functions) = Cardinality(DOMAIN messenger)

\* The drivers hold nothing else, so a failed creation leaves nothing behind and
\* no messenger outlives its driver's instance.
NothingLeaked ==
    /\ \A d \in icd_terms : \A h \in live[d] :
         \E m \in DOMAIN messenger : Entry(messenger_list[d], messenger[m]) = h
    /\ \A d \in Drivers \ icd_terms : live[d] = {}

\* No driver is asked to destroy a messenger that it does not have, as when a
\* handle that was left in a slot is destroyed again.
DestroysOnlyLive == RolledBackCleanly => invalid = {}
=============================================================================
