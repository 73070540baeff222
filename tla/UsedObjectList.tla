---------------------------- MODULE UsedObjectList ----------------------------
(***************************************************************************)
(* The growing lists behind the loader's own handles.  The instance keeps, *)
(* for each kind of object, a loader_used_object_list: one "in use" flag   *)
(* per slot.  Every driver keeps a list of its own handles, indexed by the *)
(* same slots.  Both start with InitialCapacity entries when first needed  *)
(* and double when they are full.                                          *)
(*                                                                         *)
(* A list is a function from 0..n-1; the list that is still NULL is Empty. *)
(***************************************************************************)
EXTENDS Integers, FiniteSets

CONSTANTS
    InitialCapacity,    \* entries of a new list (32 in the code)
    MaxCapacity,        \* bound: a list never grows past this
    Null,               \* VK_NULL_HANDLE
    Garbage             \* a non-null handle read from memory nobody wrote

ASSUME CapacityAssumption == /\ InitialCapacity \in Nat \ {0}
                             /\ MaxCapacity \in Nat
                             /\ InitialCapacity <= MaxCapacity

Empty == [i \in {} |-> 0]
Entries(n) == 0..(n - 1)
Capacity(list) == Cardinality(DOMAIN list)

\* The lists with entries in S.
Lists(S) == UNION {[Entries(n) -> S] : n \in 0..MaxCapacity}

-----------------------------------------------------------------------------
(* loader_get_next_available_entry                                         *)

HasFree(list) == \E i \in DOMAIN list : ~list[i]
FirstFree(list) == {i \in DOMAIN list : /\ ~list[i]
                                       /\ \A j \in DOMAIN list : j < i => list[j]}

\* The list must be allocated or resized, so the call can fail.
NeedsMemory(list) == ~HasFree(list)

CanGrow(list) == 2 * Capacity(list) <= MaxCapacity

\* The slot that is handed out, as a set of one ...
NextIndex(list) == IF HasFree(list) THEN FirstFree(list) ELSE {Capacity(list)}

\* ... and the list with that slot in use.  The new half of a list that grew
\* is zeroed whatever allocator provided it.
Taken(list, i) ==
    IF list = Empty THEN [j \in Entries(InitialCapacity) |-> j = i]
    ELSE IF i \in DOMAIN list THEN [list EXCEPT ![i] = TRUE]
    ELSE [j \in Entries(2 * Capacity(list)) |-> j \in DOMAIN list \/ j = i]

\* loader_release_object_from_list
Released(list, i) ==
    IF i \in DOMAIN list THEN [list EXCEPT ![i] = FALSE] ELSE list

-----------------------------------------------------------------------------
(* A driver's list, which a creation makes or grows before it uses slot i. *)

IsShort(list, i) == i \notin DOMAIN list

\* What an entry that loader_realloc added may hold: malloc's memory is zeroed,
\* the memory of the application's pfnReallocation is not.
NewEntry(app_allocator) == IF app_allocator THEN {Null, Garbage} ELSE {Null}

\* loader_init_generic_list for a list that is NULL, else one doubling by
\* loader_resize_generic_list; neither looks how far away i is.
Extended(list, i, app_allocator) ==
    IF list = Empty THEN {[j \in Entries(InitialCapacity) |-> Null]}
    ELSE IF ~IsShort(list, i) THEN {list}
    ELSE {[j \in Entries(2 * Capacity(list)) |->
             IF j \in DOMAIN list THEN list[j] ELSE new[j]] :
             new \in [Entries(2 * Capacity(list)) \ DOMAIN list -> NewEntry(app_allocator)]}
=============================================================================
