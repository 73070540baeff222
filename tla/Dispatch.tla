------------------------------ MODULE Dispatch ------------------------------
EXTENDS CommandTrampolines, FiniteSets
(***************************************************************************)
(* How a command travels: the application asks vkGetInstanceProcAddr or     *)
(* vkGetDeviceProcAddr for it, calls what it was given, and the call goes    *)
(* through a trampoline, the layer's function and a terminator, as far as    *)
(* each exists, to the driver.  The tables the route depends on are filled   *)
(* in steps while the instance and then the device are created.              *)
(*                                                                         *)
(* A behaviour follows one command, under one choice of what is enabled and  *)
(* of what the driver and one layer offer (env).  A pointer to a function    *)
(* is the kind of function it points to.                                     *)
(***************************************************************************)
VARIABLES
    env,     \* the command and its surroundings, fixed
    stage,   \* how far the instance and the device are
    icd,     \* functions in icd_term->dispatch that matter to the command
    slot,    \* its slot in the instance, device and device terminator tables
    given,   \* what was handed out, per route
    result   \* where the last call ended, per route, and the handle that arrived

vars == <<env, stage, icd, slot, given, result>>

Pointers == {"null", "trampoline", "layer", "terminator", "driver"}
\* The application's two ways to a pointer, and a layer that calls down while the layers'
\* vkCreateDevice calls return.
Routes == {"gipa", "gdpa", "early"}
\* own, alias, base: the driver's function of that name was called.  zero: the loader
\* answered that there is nothing.  skip: VK_SUCCESS, and nothing was done.  null: a call
\* through an empty slot.
Ends == {"own", "alias", "base", "zero", "skip", "refuse", "abort", "null", "layer", "none"}
\* Whose handle for the object an argument is: the loader's own (what the application
\* holds), the next layer's, or the driver's; stray when one was taken for another.
Handles == {"loader", "chain", "driver", "stray"}

----------------------------------------------------------------------------
(* The commands *)

CoreGroups == {"core_1_0", "core_1_1", "core_1_1_external", "core_1_2", "core_1_3", "core_1_4",
               "GetDeviceProcAddr", "DestroyDevice", "GetDeviceQueue", "AllocateCommandBuffers",
               "GetDeviceQueue2"}

CoreQueries == Each("physical", {"core_1_0"})
CoreQueries2 == Each("physical", {"core_1_1", "core_1_1_external", "core_1_3"})

\* The trampolines of each version, by the class of their first argument.
QueueTrampolines_1_0 == Each("queue", {"core_1_0"})
DeviceTrampolines_1_0 ==
    Each("device", {"core_1_0", "GetDeviceProcAddr", "DestroyDevice", "GetDeviceQueue",
                    "AllocateCommandBuffers"})
CommandBufferTrampolines_1_0 == Each("command_buffer", {"core_1_0"})
Trampolines_1_1 ==
    Each("device", {"core_1_1", "GetDeviceQueue2"}) \cup Each("command_buffer", {"core_1_1"})
Trampolines_1_2 == {"device", "command_buffer"} \X {"core_1_2"}
Trampolines_1_3 == {"device", "command_buffer", "queue"} \X {"core_1_3"}
Trampolines_1_4 == {"device", "command_buffer"} \X {"core_1_4"}

CoreTrampolines ==
    CoreQueries \cup CoreQueries2 \cup QueueTrampolines_1_0 \cup DeviceTrampolines_1_0
    \cup CommandBufferTrampolines_1_0 \cup Trampolines_1_1 \cup Trampolines_1_2
    \cup Trampolines_1_3 \cup Trampolines_1_4

\* The names of the extensions that Vulkan 1.1 took over share its trampolines.
Queries2 == {"core_1_1", "KHR_get_physical_device_properties2"}
ExternalQueries == {"core_1_1_external", "KHR_external_memory_capabilities",
                    "KHR_external_semaphore_capabilities", "KHR_external_fence_capabilities"}
AliasTrampolines == Each("physical", (Queries2 \cup ExternalQueries) \ CoreGroups)

PresentationSupport == {"KHR_xcb_surface", "KHR_xlib_surface", "KHR_wayland_surface",
                        "KHR_win32_surface", "EXT_directfb_surface", "QNX_screen_surface"}
WsiTrampolines ==
    Each("physical", PresentationSupport \cup
                     {"KHR_surface", "KHR_swapchain", "KHR_display",
                      "KHR_get_display_properties2", "KHR_get_surface_capabilities2"})
    \cup Each("device", {"KHR_swapchain", "CreateSwapchainKHR", "CreateSharedSwapchainsKHR",
                         "GetDeviceGroupSurfacePresentModesKHR"})
    \cup Each("queue", {"KHR_swapchain"})

ManualTrampolines ==
    Each("physical", {"NV_external_memory_capabilities", "EXT_display_surface_counter",
                      "EXT_direct_mode_display", "EXT_acquire_xlib_display",
                      "EXT_full_screen_exclusive", "EXT_tooling_info"})
    \cup Each("device", {"GetDeviceGroupSurfacePresentModes2EXT"})

DebugTrampolines ==
    Each("device", {"SetDebugUtilsObject", "DebugMarkerSetObject"})
    \cup Each("queue", {"EXT_debug_utils"}) \cup Each("command_buffer", {"EXT_debug_utils"})

Commands ==
    {c \in ExtensionTrampolines : c[1] \notin {"else_abort", "else_refuse"}}
    \cup CoreTrampolines \cup AliasTrampolines \cup WsiTrampolines \cup ManualTrampolines
    \cup DebugTrampolines

Key(e) == e.cmd[2]
Physical(e) == e.cmd[1] = "physical"
Core(e) == Key(e) \in CoreGroups
DebugUtils == {"SetDebugUtilsObject", "EXT_debug_utils"}
Naming == {"SetDebugUtilsObject", "DebugMarkerSetObject"}

\* The extension a command singled out by name belongs to.  (VK_KHR_device_group, together
\* with VK_KHR_surface, enables vkGetDeviceGroupSurfacePresentModesKHR as well: for this
\* command `ext' below says that one of the two is on.)
ExtensionOf(k) ==
    CASE k \in DebugUtils -> "EXT_debug_utils"
      [] k = "DebugMarkerSetObject" -> "EXT_debug_marker"
      [] k \in {"CreateSwapchainKHR", "GetDeviceGroupSurfacePresentModesKHR"} -> "KHR_swapchain"
      [] k = "CreateSharedSwapchainsKHR" -> "KHR_display_swapchain"
      [] k = "GetDeviceGroupSurfacePresentModes2EXT" -> "EXT_full_screen_exclusive"
      [] k = "core_1_1" -> "KHR_get_physical_device_properties2"
      [] k = "core_1_1_external" -> "KHR_external_memory_capabilities"
      [] OTHER -> k

TakesSurface(e) ==
    \/ Key(e) \in {"CreateSwapchainKHR", "CreateSharedSwapchainsKHR",
                   "GetDeviceGroupSurfacePresentModesKHR",
                   "GetDeviceGroupSurfacePresentModes2EXT"}
    \/ Physical(e) /\ Key(e) \in {"KHR_surface", "KHR_swapchain", "KHR_get_surface_capabilities2",
                                  "EXT_display_surface_counter", "EXT_full_screen_exclusive"}

----------------------------------------------------------------------------
(* The surroundings of a command.                                             *)
(*   ext     its extension is enabled (on the instance or the device); for a  *)
(*           query of a device extension, the physical device lists it        *)
(*   surf    VK_KHR_surface is enabled                                        *)
(*   offers  the functions the driver returns: the command's own, the one of  *)
(*           its other name, and the older one the loader can fall back on    *)
(*   lay     a layer intercepts the command                                   *)
(*   old     the application (for queries of 1.3, the device) is older than    *)
(*           the version of Vulkan the command came with                      *)
(*   strict  maintenance5 is on, which hides commands of newer versions       *)
(*   obj     the kind of object whose handle is an argument                   *)
(*   swap    the device has VK_KHR_swapchain enabled                          *)
(*   makes   the driver creates surfaces of its own                           *)
(* Fields a command does not look at are fixed.                               *)

OldName == Queries2 \cup ExternalQueries
HasBase == {"EXT_display_surface_counter", "KHR_get_surface_capabilities2",
            "KHR_get_display_properties2", "NV_external_memory_capabilities"}

AlwaysThere == {"core_1_0", "GetDeviceProcAddr", "DestroyDevice", "GetDeviceQueue",
                "AllocateCommandBuffers"}

InstanceExtension(e) == ExtensionOf(Key(e)) \in EnabledExtensions

Relevant(e) ==
    /\ "alias" \in e.offers => Key(e) \in OldName
    /\ "base" \in e.offers => Key(e) \in HasBase
    /\ Core(e) /\ Key(e) \notin OldName => ~e.ext
    /\ e.old => \/ Core(e) /\ Key(e) \notin AlwaysThere
                \/ Key(e) \in OldName
    /\ e.strict => Core(e) /\ ~Physical(e)
    /\ CASE Key(e) \in Naming -> TRUE
         [] TakesSurface(e) -> e.obj = "surface"
         [] Physical(e) /\ ~TakesSurface(e) /\ Key(e) \notin Naming -> e.obj = "physical"
         [] OTHER -> e.obj = "none"
    /\ e.makes => e.obj = "surface"
    /\ e.surf => TakesSurface(e)
    /\ e.swap => Key(e) \in Naming /\ e.obj = "surface"

\* What the Vulkan specification and the loader's own filters guarantee of an extension that
\* is enabled: it was listed by the driver, by the layer, or (on the instance) by another
\* driver in LOADER_INSTANCE_EXTENSIONS, and so were the extensions it depends on.
Consistent(e) ==
    /\ TakesSurface(e) /\ e.ext => e.surf
    /\ Key(e) = "KHR_surface" => (e.ext <=> e.surf)
    /\ e.ext /\ ~InstanceExtension(e) => "own" \in e.offers \/ e.lay
    /\ e.ext /\ InstanceExtension(e) =>
           ExtensionOf(Key(e)) \in LoaderInstanceExtensions \/ e.lay
    /\ Key(e) \in AlwaysThere /\ ~Physical(e) => "own" \in e.offers

Envs ==
    {e \in [cmd: Commands, ext: BOOLEAN, surf: BOOLEAN, offers: SUBSET {"own", "alias", "base"},
            lay: BOOLEAN, old: BOOLEAN, strict: BOOLEAN,
            obj: {"none", "physical", "instance", "surface"}, swap: BOOLEAN, makes: BOOLEAN] :
        Relevant(e) /\ Consistent(e)}

\* inst->enabled_extensions of the command's own extension.
Flag(e) == e.ext /\ ExtensionOf(Key(e)) \in EnabledExtensions

----------------------------------------------------------------------------
(* Ends of the two chains: what the loader answers a layer, or itself *)

\* loader_gpa_instance_terminator
InstanceTerminator(e) ==
    IF \/ Key(e) \in DebugUtils /\ Flag(e)
       \/ Physical(e) /\ Key(e) \in InstanceLookup \cap InstanceDisp
    THEN "terminator" ELSE "null"

DeviceTerminators == {"CreateSwapchainKHR", "GetDeviceGroupSurfacePresentModesKHR",
                      "CreateSharedSwapchainsKHR", "DebugMarkerSetObject",
                      "SetDebugUtilsObject", "EXT_debug_utils",
                      "GetDeviceGroupSurfacePresentModes2EXT"}

\* dev->driver_extensions: what terminator_CreateDevice found enabled and in the driver's
\* list; for VK_EXT_debug_utils, what the instance has enabled.
DriverExtension(e) == IF Key(e) \in DebugUtils THEN Flag(e) ELSE e.ext /\ "own" \in e.offers

\* The driver's vkGetDeviceProcAddr.
DriverGdpa(e) == IF "own" \in e.offers THEN "driver" ELSE "null"

\* loader_gpa_device_terminator
DeviceTerminator(e) ==
    CASE Key(e) = "GetDeviceProcAddr" -> "terminator"
      [] Key(e) \in DeviceTerminators -> IF DriverExtension(e) THEN "terminator" ELSE "null"
      [] OTHER -> DriverGdpa(e)

\* The top of a chain, as the loader sees it through vkGetInstanceProcAddr or
\* vkGetDeviceProcAddr of the first layer.
InstanceChain(e) == IF e.lay THEN "layer" ELSE InstanceTerminator(e)
DeviceChain(e) == IF e.lay THEN "layer" ELSE DeviceTerminator(e)

\* What loader_init_device_dispatch_table and loader_init_device_extension_dispatch_table put
\* into the command's slot.
DeviceSlot(e) ==
    CASE Key(e) \in DeviceCoreTable -> DeviceChain(e)
      [] Key(e) \in DeviceExtensionTable /\ Key(e) \in DebugUtils -> InstanceChain(e)
      [] Key(e) \in DeviceExtensionTable /\ Key(e) \notin DebugUtils -> DeviceChain(e)
      [] OTHER -> "null"

InstanceSlot(e) ==
    IF Key(e) \in InstanceCoreTable \cup InstanceExtensionTable THEN InstanceChain(e) ELSE "null"

\* init_extension_device_proc_terminator_dispatch
TerminatorSlot(e) ==
    IF Key(e) \in DeviceTerminators /\ DriverExtension(e) THEN DriverGdpa(e) ELSE "null"

----------------------------------------------------------------------------
(* Pointers handed to the application *)

SurfaceGated == {"KHR_surface", "KHR_get_surface_capabilities2",
                 "GetDeviceGroupSurfacePresentModesKHR"}
OwnGated == PresentationSupport \cup {"KHR_display", "KHR_get_display_properties2"}

\* wsi_swapchain_instance_gpa
WsiGpa(e) ==
    \/ Key(e) \in SurfaceGated /\ e.surf
    \/ Physical(e) /\ Key(e) = "KHR_swapchain" /\ e.surf
    \/ ~Physical(e) /\ Key(e) \in {"KHR_swapchain", "CreateSwapchainKHR",
                                   "CreateSharedSwapchainsKHR"}
    \/ Key(e) \in OwnGated /\ Flag(e)

\* trampoline_get_proc_addr, up to the functions nobody knows
GetInstanceProcAddr(e) ==
    IF \/ Core(e)
       \/ WsiGpa(e)
       \/ <<"always", Key(e)>> \in ExtensionGpa
       \/ <<"own", Key(e)>> \in ExtensionGpa /\ Flag(e)
    THEN "trampoline" ELSE "null"

\* dev->layer_extensions, which decide whether naming an object has a trampoline.
LayerExtension(e) ==
    IF Key(e) = "SetDebugUtilsObject" THEN Flag(e) ELSE e.ext /\ ("own" \in e.offers \/ e.lay)

Hidden(e) == e.strict /\ e.old

\* loader_lookup_device_dispatch_table, and the device chain for a name it does not know
LookupDeviceTable(e, table) ==
    CASE Key(e) \notin DeviceLookup -> DeviceChain(e)
      [] Key(e) \in DeviceLookup /\ Hidden(e) -> "null"
      [] Key(e) \in DeviceLookup /\ ~Hidden(e) -> table.device

\* Faulty variant: names of objects are answered from the table like other commands.
NamesFromTheTable(e, table) == IF Key(e) \in DeviceLookup THEN table.device ELSE DeviceChain(e)
\* vkGetDeviceProcAddr
GetDeviceProcAddr(e, table) ==
    CASE Key(e) \in {"GetDeviceProcAddr", "DestroyDevice", "GetDeviceQueue",
                     "AllocateCommandBuffers"} -> "trampoline"
      [] Key(e) = "GetDeviceQueue2" -> IF Hidden(e) THEN "null" ELSE "trampoline"
      [] Key(e) \in Naming /\ Key(e) \in DeviceLookup ->
             IF LayerExtension(e) THEN "trampoline" ELSE "null"
      [] OTHER -> LookupDeviceTable(e, table)

----------------------------------------------------------------------------
(* Where a call ends *)

End(to, handle) == [to |-> to, handle |-> handle]

\* wsi_unwrap_icd_surface: a driver that makes surfaces of its own finds them in its
\* surface_list, another one is handed the loader's VkIcdSurface.
Unwrap(e, handle) == IF e.obj = "surface" /\ e.makes THEN "driver" ELSE handle

\* A terminator reads the driver's handle out of the loader_physical_device_term it takes
\* its argument for.
OfDriver(e, handle) == IF e.obj = "physical" /\ handle # "chain" THEN "stray" ELSE "driver"

\* The terminators of the queries of Vulkan 1.1 and of their older names.  The core function
\* is looked at only for an application of 1.1, the other only with its extension.
Modern(e) == IF Core(e) THEN "own" ELSE "alias"
Older(e) == IF Core(e) THEN "alias" ELSE "own"
EndOfQuery2(e, handle, fns) ==
    CASE ~e.old /\ Modern(e) \in fns -> End(Modern(e), OfDriver(e, handle))
      [] ~(~e.old /\ Modern(e) \in fns) /\ Flag(e) /\ Older(e) \in fns -> End(Older(e), OfDriver(e, handle))
      [] OTHER -> End(IF Key(e) \in Queries2 THEN "base" ELSE "zero", OfDriver(e, handle))

\* The terminators that read one slot: what they do when it is empty.
EmptySlot(e) ==
    CASE Key(e) \in {"core_1_3", "EXT_tooling_info", "KHR_surface", "KHR_swapchain",
                     "KHR_display"} \cup PresentationSupport -> "zero"
      [] Key(e) \in {"EXT_direct_mode_display", "EXT_full_screen_exclusive"} -> "abort"
      [] <<"else_abort", Key(e)>> \in ExtensionTrampolines -> "abort"
      [] Key(e) = "core_1_0" -> "null"
      [] OTHER -> "refuse"

\* The extension a terminator checks before anything else, and the answer without it.
Gate(e) == CASE Key(e) \in {"KHR_surface", "KHR_get_surface_capabilities2"} -> e.surf
             [] Key(e) \in OwnGated \ {"KHR_get_display_properties2"} -> Flag(e)
             [] Key(e) \in {"core_1_3", "EXT_tooling_info"} -> IF Core(e) THEN ~e.old ELSE e.ext
             [] OTHER -> TRUE
Ungated(e) == IF Key(e) \in {"core_1_3", "EXT_tooling_info"} \cup PresentationSupport
              THEN "zero" ELSE "skip"

\* The four commands with an older one to fall back on; only the terminator of
\* vkGetPhysicalDeviceSurfaceCapabilities2EXT calls it without looking whether it is there.
\* (NV_external_memory_capabilities falls back only when asked without externalHandleType.)
Fallback(e, fns) ==
    CASE "base" \in fns -> "base"
      [] "base" \notin fns /\ Key(e) = "EXT_display_surface_counter" -> "null"
      [] "base" \notin fns /\ Key(e) = "NV_external_memory_capabilities" -> "refuse"
      [] OTHER -> "zero"

PhysicalHandle(e, handle) ==
    IF TakesSurface(e) THEN Unwrap(e, handle) ELSE OfDriver(e, handle)
EndAtPhysicalTerminator(e, handle, fns) ==
    CASE Key(e) \in OldName -> EndOfQuery2(e, handle, fns)
      [] ~Gate(e) -> End(Ungated(e), handle)
      [] Gate(e) /\ "own" \in fns /\ Key(e) \notin OldName ->
             End("own", PhysicalHandle(e, handle))
      [] Gate(e) /\ "own" \notin fns /\ Key(e) \in HasBase ->
             End(Fallback(e, fns), PhysicalHandle(e, handle))
      [] OTHER -> End(EmptySlot(e), handle)

\* The terminators of the commands that name an object: the surface is replaced only on a
\* device whose own table has vkCreateSwapchainKHR.
NamedHandle(e, handle) ==
    CASE e.obj \in {"physical", "instance"} -> OfDriver(e, handle)
      [] e.obj = "surface" /\ e.swap -> Unwrap(e, handle)
      [] OTHER -> handle

\* Faulty variant: the swapchain terminators forget wsi_unwrap_icd_surface.
SurfaceAsItIs(e, handle, table) ==
    IF table.terminator = "null" THEN End("skip", handle) ELSE End("own", handle)
EndAtDeviceTerminator(e, handle, table) ==
    CASE Key(e) = "GetDeviceProcAddr" -> End("own", handle)
      [] Key(e) # "GetDeviceProcAddr" /\ table.terminator = "null" ->
             End(IF Key(e) = "GetDeviceGroupSurfacePresentModes2EXT" THEN "abort" ELSE "skip",
                 handle)
      [] OTHER -> End("own", IF Key(e) \in Naming THEN NamedHandle(e, handle)
                             ELSE Unwrap(e, handle))

EndAt(e, ptr, handle, fns, table) ==
    CASE ptr = "null" -> End("null", handle)
      [] ptr = "terminator" -> IF Physical(e) THEN EndAtPhysicalTerminator(e, handle, fns)
                               ELSE EndAtDeviceTerminator(e, handle, table)
      [] ptr = "driver" -> End("own", handle)

\* A layer hands the call on when there is something below it to hand it to.
Below(e) == IF Physical(e) THEN InstanceTerminator(e) ELSE DeviceTerminator(e)
EndThroughLayer(e, handle, fns, table) ==
    IF Below(e) = "null" THEN End("layer", handle)
    ELSE EndAt(e, Below(e), handle, fns, table)

EndFrom(e, ptr, handle, fns, table) ==
    IF ptr = "layer" THEN EndThroughLayer(e, handle, fns, table)
    ELSE EndAt(e, ptr, handle, fns, table)

\* A trampoline: the handle it replaces, the slot it calls, and the few that look first.
TrampolineHandle(e) ==
    IF e.obj \in {"physical", "instance"} THEN "chain" ELSE "loader"
EmptyTrampoline(e) ==
    CASE Key(e) \in DebugUtils -> "skip"
      [] Key(e) = "CreateSwapchainKHR" -> "abort"
      [] OTHER -> "null"
\* vkGetPhysicalDeviceFeatures2 and its kin choose the slot of the older name when its
\* extension is enabled; InstanceSlot is the same for both names.
EndFromTrampoline(e, fns, table) ==
    LET next == IF Physical(e) THEN table.instance ELSE table.device IN
    IF next = "null" THEN End(EmptyTrampoline(e), TrampolineHandle(e))
    ELSE EndFrom(e, next, TrampolineHandle(e), fns, table)

EndOfCall(e, ptr, fns, table) ==
    IF ptr = "trampoline" THEN EndFromTrampoline(e, fns, table)
    ELSE EndFrom(e, ptr, "loader", fns, table)

----------------------------------------------------------------------------
Init ==
    /\ env \in Envs
    /\ stage = "start"
    /\ icd = {}
    /\ slot = [instance |-> "null", device |-> "null", terminator |-> "null"]
    /\ given = [r \in Routes |-> "unasked"]
    /\ result = [r \in Routes |-> End("none", "loader")]

\* The group whose table entry holds a function the driver offers.
IcdGroup(e, f) ==
    CASE f = "own" -> Key(e)
      [] f = "alias" /\ Core(e) -> ExtensionOf(Key(e))
      [] f = "alias" /\ ~Core(e) /\ Key(e) \in Queries2 -> "core_1_1"
      [] f = "alias" /\ ~Core(e) /\ Key(e) \in ExternalQueries -> "core_1_1_external"
      [] f = "base" /\ Key(e) = "KHR_get_display_properties2" -> "KHR_display"
      [] f = "base" /\ Key(e) = "NV_external_memory_capabilities" -> "core_1_0"
      [] OTHER -> "KHR_surface"

\* loader_icd_init_entries: the driver's functions that have a slot.
IcdFunctions(e) == {f \in e.offers : IcdGroup(e, f) \in IcdEntries}

\* vkCreateInstance: a driver without a required function is left out; otherwise the
\* instance's dispatch table is filled from its chain.
CreateInstance ==
    /\ stage = "start"
    /\ IF Physical(env) /\ Key(env) = "core_1_0" /\ "own" \notin env.offers
       THEN stage' = "no_driver" /\ UNCHANGED <<icd, slot>>
       ELSE /\ stage' = "instance"
            /\ icd' = IcdFunctions(env)
            /\ slot' = [slot EXCEPT !.instance = InstanceSlot(env)]
    /\ UNCHANGED <<env, given, result>>

\* vkCreateDevice, down the chain to the driver: the device exists, its tables are empty.
CreateDevice ==
    /\ stage = "instance"
    /\ stage' = "created"
    /\ UNCHANGED <<env, icd, slot, given, result>>

\* What an application may call: a command of its version of Vulkan that the device has, or
\* one of an extension that is enabled.
Conformant(e) ==
    IF Core(e) THEN ~e.old /\ (Physical(e) \/ "own" \in e.offers) ELSE e.ext

\* A layer, back from the vkCreateDevice below it, calls the command through the pointer it
\* got from the chain's vkGetDeviceProcAddr.
LayerCallsEarly ==
    /\ stage = "created"
    /\ env.lay /\ ~Physical(env) /\ Conformant(env)
    /\ Below(env) # "null"
    /\ given' = [given EXCEPT !["early"] = Below(env)]
    /\ result' = [result EXCEPT !["early"] =
                     EndAt(env, Below(env), TrampolineHandle(env), icd, slot)]
    /\ UNCHANGED <<env, stage, icd, slot>>

\* The rest of vkCreateDevice: loader_init_device_dispatch_table,
\* init_extension_device_proc_terminator_dispatch, and
\* loader_init_device_extension_dispatch_table.
FillDeviceTables ==
    /\ stage = "created"
    /\ stage' = "ready"
    /\ slot' = [slot EXCEPT !.device = DeviceSlot(env), !.terminator = TerminatorSlot(env)]
    /\ UNCHANGED <<env, icd, given, result>>

AskInstance ==
    /\ stage \in {"instance", "created", "ready"}
    /\ given' = [given EXCEPT !["gipa"] = GetInstanceProcAddr(env)]
    /\ UNCHANGED <<env, stage, icd, slot, result>>

AskDevice ==
    /\ stage = "ready" /\ ~Physical(env)
    /\ given' = [given EXCEPT !["gdpa"] = GetDeviceProcAddr(env, slot)]
    /\ UNCHANGED <<env, stage, icd, slot, result>>

Call(r) ==
    /\ IF Physical(env) THEN stage \in {"instance", "ready"} ELSE stage = "ready"
    /\ given[r] \notin {"unasked", "null"}
    /\ Conformant(env)
    /\ result' = [result EXCEPT ![r] = EndOfCall(env, given[r], icd, slot)]
    /\ UNCHANGED <<env, stage, icd, slot, given>>

Next ==
    \/ CreateInstance \/ CreateDevice \/ LayerCallsEarly \/ FillDeviceTables
    \/ AskInstance \/ AskDevice
    \/ \E r \in {"gipa", "gdpa"} : Call(r)

Spec == Init /\ [][Next]_vars

----------------------------------------------------------------------------
TypeOK ==
    /\ env \in Envs
    /\ stage \in {"start", "no_driver", "instance", "created", "ready"}
    /\ icd \subseteq env.offers
    /\ slot \in [{"instance", "device", "terminator"} -> Pointers]
    /\ given \in [Routes -> Pointers \cup {"unasked"}]
    /\ result \in [Routes -> [to: Ends, handle: Handles]]

\* The trampolines call their slots without looking (generated/vk_loader_extensions.c), so
\* a slot must be filled before its command can be called: no call that is allowed, by the
\* application or by a layer while vkCreateDevice returns, jumps through an empty slot.  The
\* exception is vkGetPhysicalDeviceSurfaceCapabilities2EXT on a driver without
\* VK_KHR_surface (extension_manual.c:127).
NoNullCall ==
    TypeOK /\ \A r \in Routes :
        result[r].to = "null" =>
            Key(env) = "EXT_display_surface_counter" /\ env.offers \cap {"own", "base"} = {}

\* The driver is handed its own handle for a physical device, an instance or a surface it
\* made, whichever way the pointer was obtained and whoever calls.  The exception is a name
\* given to a surface on a device without VK_KHR_swapchain, which is not replaced although
\* the comment at generated/vk_loader_extensions.c:6874 knows no such condition.
HandlesTranslated ==
    \A r \in Routes :
        /\ result[r].to \in {"own", "alias", "base"}
        /\ \/ env.obj \in {"physical", "instance"}
           \/ env.obj = "surface" /\ env.makes
        /\ ~(Key(env) \in Naming /\ env.obj = "surface" /\ ~env.swap)
        => result[r].handle = "driver"

\* A call ends the same through the pointer vkGetInstanceProcAddr gave out (always a
\* trampoline) and through the one of vkGetDeviceProcAddr, which skips the trampoline.
RoutesAgree ==
    result["gipa"].to # "none" /\ result["gdpa"].to # "none" =>
        result["gipa"] = result["gdpa"]

\* What the driver offers is used: once the tables are filled, an allowed command whose
\* function the driver has is handed out by both lookups, and its calls reach the driver's
\* function under its own or its other name (all the generated tables agree).
ServedByDriver ==
    Conformant(env) /\ "own" \in env.offers /\ stage = "ready" =>
        \A r \in {"gipa", "gdpa"} :
            /\ given[r] # "null"
            /\ result[r].to \in {"none", "own", "alias"}

=============================================================================
