------------------------------ MODULE Instances ------------------------------
(***************************************************************************)
(* The life of an instance: vkCreateInstance scans the drivers' libraries, *)
(* links the new instance into loader.instances, calls down the chain of   *)
(* layers to terminator_CreateInstance, which has every driver create its  *)
(* own instance, and comes back up; any of it may fail.  vkDestroyInstance *)
(* undoes it.  Beside that, drivers without physical devices are unloaded, *)
(* and vkEnumerateInstanceExtensionProperties keeps the libraries          *)
(* "preloaded" so that they are not opened again and again.                *)
(*                                                                         *)
(* vkCreateInstance holds loader_lock from its first step to its last, so  *)
(* at most one creation is under way and only what takes                   *)
(* loader_preload_icd_lock alone can happen between its steps.             *)
(***************************************************************************)
EXTENDS Integers, Sequences, FiniteSets, Functions

CONSTANTS
    DriverCount,
    InstanceAddr,       \* addresses for struct loader_instance
    DriverInstances,    \* the VkInstance values of a driver
    MaxPending,         \* bound: unfinished vkDestroyInstance calls
    None,               \* a null pointer
    Preload,            \* preloaded_icds, as the owner of an open library
    Environments        \* the environments to look at: sets of Mishaps

Drivers == 1..DriverCount       \* in the order in which a scan finds them

\* What may go wrong around the loader.
Mishaps ==
    {"oom",             \* an allocation fails, here or in a driver
     "layers",          \* a layer's vkCreateInstance fails
     "extensions",      \* a driver that could list its extensions no longer can
     "entries"}         \* a driver lacks entry points the loader requires

ASSUME DriverCountAssumption == DriverCount \in Nat
ASSUME MaxPendingAssumption == MaxPending \in Nat
ASSUME NamesDistinct == /\ None \notin DriverInstances /\ None \notin Drivers
                        /\ None \notin InstanceAddr /\ Preload \notin InstanceAddr
ASSUME EnvironmentsAssumption == Environments \subseteq SUBSET Mishaps

VARIABLES
    inst,           \* the loader_instance objects, by address
    instances,      \* loader.instances, first to last
    preloaded,      \* preloaded_icds: its entries, None where one was unloaded
    preload_made,   \* preloaded_icds.scanned_list is not NULL
    pending,        \* vkDestroyInstance calls that have yet to unload preloaded_icds
    creating,       \* the vkCreateInstance call that holds loader_lock
    opened,         \* who keeps each driver's library open (external)
    live,           \* the instances that exist inside each driver (external)
    env             \* the mishaps of this behaviour, which never change

vars == <<inst, instances, preloaded, preload_made, pending, creating, opened,
          live, env>>

\* An instance's scanned drivers (those of icd_tramp_list whose library is
\* open) and its icd_terms: the driver's instance, None if it has none yet.
NoTerms == [d \in {} |-> None]
Terms == UNION {[D -> DriverInstances \cup {None}] : D \in SUBSET Drivers}
Instance == [scanned : SUBSET Drivers, icd_terms : Terms]
NewInstance == [scanned |-> {}, icd_terms |-> NoTerms]

\* A creation: the phase it has reached, the drivers the terminator's loop has
\* yet to visit, its VkResult, whether a driver answered
\* VK_ERROR_INITIALIZATION_FAILED, and which drivers created an instance.
Phases == {"begin", "scanned", "linked", "terminator", "back", "returned"}
Results == {"success", "out_of_memory", "initialization_failed",
            "incompatible_driver", "not_present"}
NotCreating == [a |-> None, phase |-> "none", todo |-> {}, res |-> "success",
                forced |-> FALSE, made |-> {}]

Init ==
    /\ inst = [a \in {} |-> NewInstance]
    /\ instances = <<>>
    /\ preloaded = <<>>
    /\ preload_made = FALSE
    /\ pending = 0
    /\ creating = NotCreating
    /\ opened = [d \in Drivers |-> {}]
    /\ live = [d \in Drivers |-> {}]
    /\ env \in Environments

-----------------------------------------------------------------------------
(* Helpers                                                                 *)

Opened(S, owner) == [d \in Drivers |-> IF d \in S THEN opened[d] \cup {owner} ELSE opened[d]]

\* loader_clear_scanned_icd_list: the libraries of the list are closed.
Closed(S, owner) == [d \in Drivers |-> IF d \in S THEN opened[d] \ {owner} ELSE opened[d]]

\* The drivers in ds destroy the instance they have for these icd_terms.
Destroyed(terms, ds) ==
    [d \in Drivers |-> IF d \in DOMAIN terms \cap ds THEN live[d] \ {terms[d]} ELSE live[d]]

\* A list without its i-th entry.
Unlinked(list, i) == [j \in 1..(Len(list) - 1) |-> IF j < i THEN list[j] ELSE list[j + 1]]

Without(f, x) == [y \in DOMAIN f \ {x} |-> f[y]]
With(f, x, v) == [y \in DOMAIN f \cup {x} |-> IF y = x THEN v ELSE f[y]]

LockFree == creating = NotCreating
Self == creating.a
At(phase) == creating.phase = phase
Goes(phase, res) == creating' = [creating EXCEPT !.phase = phase, !.res = res]

\* The VkResults with which a step that can run out of memory may fail.
OutOfMemory == IF "oom" \in env THEN {"out_of_memory"} ELSE {}

-----------------------------------------------------------------------------
(* vkCreateInstance, down to the terminator                                *)

\* The loader_instance is allocated and loader_lock taken.
CreateBegin(a) ==
    /\ LockFree
    /\ inst' = With(inst, a, NewInstance)
    /\ creating' = [NotCreating EXCEPT !.a = a, !.phase = "begin"]
    /\ UNCHANGED <<instances, preloaded, preload_made, pending, opened, live, env>>

\* Messengers, settings, filters, the scan for layers, and the check that the
\* layers asked for exist.
CreateRefused ==
    /\ At("begin")
    /\ \E r \in OutOfMemory \cup {"not_present"} : Goes("returned", r)
    /\ UNCHANGED <<inst, instances, preloaded, preload_made, pending, opened, live, env>>

\* loader_icd_scan opens the libraries of S; a scan that runs out of memory
\* keeps those it has.
CreateScan(S) ==
    /\ At("begin")
    /\ inst' = [inst EXCEPT ![Self].scanned = S]
    /\ opened' = Opened(S, Self)
    /\ \/ \E r \in OutOfMemory : Goes("returned", r)
       \/ S = {} /\ Goes("returned", "incompatible_driver")
       \/ S # {} /\ Goes("scanned", "success")
    /\ UNCHANGED <<instances, preloaded, preload_made, pending, live, env>>

\* The drivers' extensions, the extensions asked for, the dispatch table.
CreateInvalid ==
    /\ At("scanned")
    /\ \E r \in OutOfMemory \cup {"not_present"} : Goes("returned", r)
    /\ UNCHANGED <<inst, instances, preloaded, preload_made, pending, opened, live, env>>

CreateLink ==
    /\ At("scanned")
    /\ instances' = <<Self>> \o instances
    /\ Goes("linked", "success")
    /\ UNCHANGED <<inst, preloaded, preload_made, pending, opened, live, env>>

\* The layers are enabled and loaded, and pass the call down or fail.
CreateCallDown ==
    /\ At("linked")
    /\ \/ creating' = [creating EXCEPT !.phase = "terminator", !.todo = inst[Self].scanned]
       \/ \E r \in OutOfMemory : Goes("returned", r)
       \/ "layers" \in env /\ Goes("returned", "initialization_failed")
    /\ UNCHANGED <<inst, instances, preloaded, preload_made, pending, opened, live, env>>

-----------------------------------------------------------------------------
(* terminator_CreateInstance                                               *)

\* The loop is at driver d.
Visiting(d) == /\ At("terminator")
               /\ d \in creating.todo /\ \A e \in creating.todo : d <= e

\* Faulty variant: the loop does not move on.
VisitedAgain(d, res, forced, made) ==
    creating' = [creating EXCEPT !.res = res, !.forced = @ \/ forced, !.made = @ \cup made]

\* The loop goes on to the next driver, whose turn begins by setting res.
Visited(d, res, forced, made) ==
    creating' = [creating EXCEPT !.todo = @ \ {d}, !.res = res,
                                 !.forced = @ \/ forced, !.made = @ \cup made]

\* loader_icd_add, the list of extensions or the driver's own vkCreateInstance
\* runs out of memory: the loop is left, with an icd_term for d or without.
VisitOutOfMemory(d) ==
    /\ Visiting(d)
    /\ \E r \in OutOfMemory : creating' = [creating EXCEPT !.todo = {}, !.res = r]
    /\ \/ inst' = inst
       \/ inst' = [inst EXCEPT ![Self].icd_terms = With(@, d, None)]
    /\ UNCHANGED <<instances, preloaded, preload_made, pending, opened, live, env>>

\* The driver cannot list its extensions: its icd_term goes, res stays.
VisitNoExtensions(d) ==
    /\ Visiting(d)
    /\ "extensions" \in env
    /\ Visited(d, "initialization_failed", FALSE, {})
    /\ UNCHANGED <<inst, instances, preloaded, preload_made, pending, opened, live, env>>

\* The driver's vkCreateInstance fails: its icd_term goes.
VisitFails(d) ==
    /\ Visiting(d)
    /\ \E f \in BOOLEAN : Visited(d, "success", f, {})
    /\ UNCHANGED <<inst, instances, preloaded, preload_made, pending, opened, live, env>>

\* loader_icd_init_entries fails: the icd_term goes, and the driver is not told
\* to destroy the instance it has just created.
VisitNoEntries(d) ==
    /\ Visiting(d)
    /\ "entries" \in env
    /\ \E v \in DriverInstances \ live[d] : live' = [live EXCEPT ![d] = @ \cup {v}]
    /\ Visited(d, "success", FALSE, {})
    /\ UNCHANGED <<inst, instances, preloaded, preload_made, pending, opened, env>>

VisitCreates(d) ==
    /\ Visiting(d)
    /\ \E v \in DriverInstances \ live[d] :
         /\ live' = [live EXCEPT ![d] = @ \cup {v}]
         /\ inst' = [inst EXCEPT ![Self].icd_terms = With(@, d, v)]
    /\ Visited(d, "success", FALSE, {d})
    /\ UNCHANGED <<instances, preloaded, preload_made, pending, opened, env>>

\* Faulty variant: nobody looks whether there is a driver.
FinalResUnchecked == creating.res

FinalRes ==
    IF creating.res = "success" /\ inst[Self].icd_terms = NoTerms
    THEN IF creating.forced THEN "initialization_failed" ELSE "incompatible_driver"
    ELSE creating.res

\* Faulty variant: the icd_terms are dropped without a call to the drivers.
DropTerms(a, ds) ==
    /\ inst' = [inst EXCEPT ![a].icd_terms = NoTerms]
    /\ live' = live

\* The drivers in ds destroy their instances and all icd_terms are freed.
DestroyTerms(a, ds) ==
    /\ inst' = [inst EXCEPT ![a].icd_terms = NoTerms]
    /\ live' = Destroyed(inst[a].icd_terms, ds)

TerminatorEnds ==
    /\ At("terminator")
    /\ creating.todo = {}
    /\ Goes("back", FinalRes)
    /\ \/ FinalRes = "success" /\ UNCHANGED <<inst, live>>
       \/ FinalRes # "success" /\ DestroyTerms(Self, Drivers)
    /\ UNCHANGED <<instances, preloaded, preload_made, pending, opened, env>>

-----------------------------------------------------------------------------
(* vkCreateInstance, on the way back                                       *)

\* A layer may fail what the layers below it did, and the list of enabled
\* layers may not find memory.
CreateComeBack ==
    /\ At("back")
    /\ \/ Goes("returned", creating.res)
       \/ creating.res = "success" /\ \E r \in OutOfMemory : Goes("returned", r)
       \/ creating.res = "success" /\ "layers" \in env /\ Goes("returned", "initialization_failed")
    /\ UNCHANGED <<inst, instances, preloaded, preload_made, pending, opened, live, env>>

Unlock == creating' = NotCreating

CreateSucceeds ==
    /\ At("returned") /\ creating.res = "success"
    /\ Unlock
    /\ UNCHANGED <<inst, instances, preloaded, preload_made, pending, opened, live, env>>

\* Faulty variant: the instance stays in the list.
UnlinkNothing(a) == instances' = instances

\* The head of loader.instances is removed if it is this instance.
UnlinkHead(a) ==
    instances' = IF instances # <<>> /\ instances[1] = a THEN Unlinked(instances, 1)
                                                        ELSE instances

CloseLibraries(a) == opened' = Closed(inst[a].scanned, a)

\* The error path: "should clean everything up".
CreateFails ==
    /\ At("returned") /\ creating.res # "success"
    /\ UnlinkHead(Self)
    /\ live' = Destroyed(inst[Self].icd_terms, Drivers)
    /\ CloseLibraries(Self)
    /\ inst' = Without(inst, Self)
    /\ Unlock
    /\ UNCHANGED <<preloaded, preload_made, pending, env>>

-----------------------------------------------------------------------------
(* vkDestroyInstance                                                       *)

\* Everything that happens under loader_lock.
DestroyInstance(a) ==
    /\ LockFree
    /\ pending < MaxPending
    /\ \E i \in DOMAIN instances : instances[i] = a /\ instances' = Unlinked(instances, i)
    /\ live' = Destroyed(inst[a].icd_terms, Drivers)
    /\ CloseLibraries(a)
    /\ inst' = Without(inst, a)
    /\ pending' = pending + 1
    /\ UNCHANGED <<preloaded, preload_made, creating, env>>

Named(list) == {list[i] : i \in DOMAIN list} \ {None}

\* loader_unload_preloaded_icds, after loader_lock was released
UnloadPreloaded ==
    /\ pending > 0
    /\ pending' = pending - 1
    /\ opened' = Closed(Named(preloaded), Preload)
    /\ preloaded' = <<>>
    /\ preload_made' = FALSE
    /\ UNCHANGED <<inst, instances, creating, live, env>>

-----------------------------------------------------------------------------
(* loader_preload_icds, from vkEnumerateInstanceExtensionProperties.  (A   *)
(* scan that runs out of memory is undone at once.)                        *)

ScanOrder(S) == {q \in Bijection(1..Cardinality(S), S) :
                   \A i, j \in DOMAIN q : i < j => q[i] < q[j]}

PreloadIcds(S) ==
    /\ ~preload_made
    /\ preloaded' \in ScanOrder(S)
    /\ preload_made' = TRUE
    /\ opened' = Opened(S, Preload)
    /\ UNCHANGED <<inst, instances, pending, creating, live, env>>

-----------------------------------------------------------------------------
(* unload_drivers_without_physical_devices, one driver.  The entry of      *)
(* preloaded_icds is replaced by the last one; the count goes down unless  *)
(* it was the first.                                                       *)

\* Faulty variant: the last entry stays where it is as well.
CondensedTwice(list, i) ==
    [j \in DOMAIN list |-> IF j = i THEN list[Len(list)] ELSE list[j]]

Condensed(list, i) ==
    LET n == Len(list)
    IN  [j \in 1..(IF i > 1 THEN n - 1 ELSE n) |->
           IF j = n THEN None ELSE IF j = i THEN list[n] ELSE list[j]]

\* Faulty variant: the head of the list stays.
UnlinkTermNotHead(terms, d) == IF \A e \in DOMAIN terms : e <= d THEN terms ELSE Without(terms, d)

UnlinkTerm(terms, d) == Without(terms, d)

UnloadEmptyDriver(a, d) ==
    /\ LockFree
    /\ live' = Destroyed(inst[a].icd_terms, {d})
    /\ inst' = [inst EXCEPT ![a] = [scanned |-> @.scanned \ {d},
                                    icd_terms |-> UnlinkTerm(@.icd_terms, d)]]
    /\ \/ /\ d \notin Named(preloaded)
          /\ opened' = [opened EXCEPT ![d] = @ \ {a}]
          /\ UNCHANGED preloaded
       \/ \E i \in DOMAIN preloaded :
            /\ preloaded[i] = d
            /\ preloaded' = Condensed(preloaded, i)
            /\ opened' = [opened EXCEPT ![d] = @ \ {a, Preload}]
    /\ UNCHANGED <<instances, preload_made, pending, creating, env>>

-----------------------------------------------------------------------------
CreateStep ==
    \/ CreateRefused \/ CreateInvalid \/ CreateLink \/ CreateCallDown
    \/ \E S \in SUBSET Drivers : CreateScan(S)
    \/ \E d \in Drivers : \/ VisitOutOfMemory(d) \/ VisitNoExtensions(d) \/ VisitFails(d)
                          \/ VisitNoEntries(d) \/ VisitCreates(d)
    \/ TerminatorEnds
    \/ CreateComeBack \/ CreateSucceeds \/ CreateFails

Next ==
    \/ \E a \in InstanceAddr \ DOMAIN inst : CreateBegin(a)
    \/ CreateStep
    \/ \E a \in DOMAIN inst :
         \/ DestroyInstance(a)
         \/ \E d \in DOMAIN inst[a].icd_terms : UnloadEmptyDriver(a, d)
    \/ UnloadPreloaded
    \/ \E S \in SUBSET Drivers : PreloadIcds(S)

Spec == Init /\ [][Next]_vars

\* A call that has begun goes on: no step of it waits for another thread, but
\* for loader_preload_icd_lock, which is never held for long.
FairSpec == Spec /\ WF_vars(CreateStep)

-----------------------------------------------------------------------------
(* Properties                                                              *)

\* Every variable keeps its type.
TypeOK ==
    /\ \E A \in SUBSET InstanceAddr : inst \in [A -> Instance]
    /\ instances \in Seq(InstanceAddr)
    /\ preloaded \in Seq(Drivers \cup {None})
    /\ preload_made \in BOOLEAN
    /\ pending \in 0..MaxPending
    /\ creating \in {NotCreating} \cup
         [a : DOMAIN inst, phase : Phases, todo : SUBSET Drivers, res : Results,
          forced : BOOLEAN, made : SUBSET Drivers]
    /\ opened \in [Drivers -> SUBSET (InstanceAddr \cup {Preload})]
    /\ live \in [Drivers -> SUBSET DriverInstances]
    /\ env \in Environments

\* Each open library belongs to exactly one entry of a list that will close it,
\* and each entry's library is open: nothing is left open when creation fails
\* half-way or a driver is unloaded, and nothing is closed twice.
LibrariesOwned ==
    \A d \in Drivers :
        /\ \A a \in InstanceAddr : a \in opened[d] <=> a \in DOMAIN inst /\ d \in inst[a].scanned
        /\ Preload \in opened[d] <=> d \in Named(preloaded)
        /\ \A i, j \in DOMAIN preloaded : preloaded[i] = d /\ preloaded[j] = d => i = j

\* The drivers an instance calls into are loaded by that instance: neither the
\* preloaded libraries going nor another instance's cleanup can take them away.
TermsLoaded ==
    \A a \in DOMAIN inst : \A d \in DOMAIN inst[a].icd_terms : a \in opened[d]

\* Every instance in loader.instances, which loader_get_icd_and_device walks,
\* exists, and every instance the application has is in it, once.
InstancesListed ==
    /\ \A i \in DOMAIN instances : instances[i] \in DOMAIN inst
    /\ \A i, j \in DOMAIN instances : instances[i] = instances[j] => i = j
    /\ \A a \in DOMAIN inst \ {Self} : \E i \in DOMAIN instances : instances[i] = a

\* Each instance inside a driver belongs to one icd_term, and the other way
\* round.
InstancesOwned ==
    \A d \in Drivers :
        /\ \A v \in live[d] : \E a \in DOMAIN inst :
             d \in DOMAIN inst[a].icd_terms /\ inst[a].icd_terms[d] = v
        /\ \A a \in DOMAIN inst : d \in DOMAIN inst[a].icd_terms =>
             \/ inst[a].icd_terms[d] \in live[d]
             \/ inst[a].icd_terms[d] = None /\ a = Self
        /\ \A a, b \in DOMAIN inst :
             /\ d \in DOMAIN inst[a].icd_terms \cap DOMAIN inst[b].icd_terms
             /\ inst[a].icd_terms[d] = inst[b].icd_terms[d]
             => a = b

\* No driver's instance is lost, whatever fails, as long as the drivers have
\* the entry points that the loader requires.
NoInstanceLost == "entries" \notin env => InstancesOwned

\* terminator_CreateInstance succeeds if and only if some driver created its
\* instance, and the application's instance is never without a driver's; as long
\* as memory lasts and the drivers keep listing their extensions.
OneDriverSuffices ==
    At("back") /\ env \cap {"oom", "extensions"} = {} =>
        /\ creating.res = "success" <=> creating.made # {}
        /\ creating.res = "success" => DOMAIN inst[Self].icd_terms = creating.made

\* What an application sees of all this, where a creation that fails leaves no
\* trace: the instances it was given, each with drivers that created instances
\* for it and for no other.
AppView == [a \in DOMAIN inst \ {Self} |-> inst[a].icd_terms]
Table == INSTANCE InstanceTable WITH Handles <- InstanceAddr, served <- AppView
IsInstanceTable == Table!Spec

\* A creation gives loader_lock back, whatever fails.
CreationEnds == ~LockFree ~> LockFree
=============================================================================
