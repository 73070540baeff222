--------------------------- MODULE DispatchProofs ---------------------------
EXTENDS Dispatch, TLAPS
(***************************************************************************)
(* The proofs of module Dispatch.  They fall into three parts: what the      *)
(* generated tables have to say about every command (TablesAgree), which is  *)
(* the only place where the names in the tables are looked at; where a call  *)
(* that is allowed ends, for any command the tables agree about; and the     *)
(* invariant of the steps that fill the tables and hand out the pointers.    *)
(***************************************************************************)

----------------------------------------------------------------------------
(* The inductive invariant *)

Live == {"instance", "created", "ready"}

\* The slots of the command at a stage of the instance and of the device.
SlotsAt(e, st) ==
    [instance |-> IF st \in Live THEN InstanceSlot(e) ELSE "null",
     device |-> IF st = "ready" THEN DeviceSlot(e) ELSE "null",
     terminator |-> IF st = "ready" THEN TerminatorSlot(e) ELSE "null"]

\* A driver that lacks a query of Vulkan 1.0 does not become part of an instance.
DriverComplete(e) == ~(Physical(e) /\ Key(e) = "core_1_0" /\ "own" \notin e.offers)

\* Where a call through a trampoline ends at a stage, and where one of a layer ends that
\* does not wait for the end of vkCreateDevice.
TrampolineEnd(e, st) == EndFromTrampoline(e, IcdFunctions(e), SlotsAt(e, st))
EarlyEnd(e) == EndAt(e, Below(e), TrampolineHandle(e), IcdFunctions(e), SlotsAt(e, "created"))
MayBeCalledAt(e, st) == IF Physical(e) THEN st \in {"instance", "ready"} ELSE st = "ready"

\* The tables hold what belongs there at the stage.
TablesInv ==
    /\ env \in Envs
    /\ stage \in {"start", "no_driver"} \cup Live
    /\ icd = IF stage \in Live THEN IcdFunctions(env) ELSE {}
    /\ slot = SlotsAt(env, stage)
    /\ stage \in Live => DriverComplete(env)

\* What was handed out is what the lookups answer with the tables filled.
GivenInv ==
    /\ given \in [Routes -> Pointers \cup {"unasked"}]
    /\ given["gipa"] \in {"unasked", GetInstanceProcAddr(env)}
    /\ \/ given["gdpa"] = "unasked"
       \/ /\ stage = "ready" /\ ~Physical(env)
          /\ given["gdpa"] = GetDeviceProcAddr(env, SlotsAt(env, "ready"))

NotCalled == End("none", "loader")

\* A call that was made was allowed, and ended where the trampoline's would have.
Called(r) ==
    /\ Conformant(env) /\ DriverComplete(env)
    /\ given[r] # "unasked"
    /\ \E st \in Live : MayBeCalledAt(env, st) /\ result[r] = TrampolineEnd(env, st)

CalledEarly ==
    /\ Conformant(env) /\ ~Physical(env)
    /\ Below(env) # "null"
    /\ result["early"] = EarlyEnd(env)

ResultInv ==
    /\ DOMAIN result = Routes /\ result = [r \in Routes |-> result[r]]
    /\ \A r \in {"gipa", "gdpa"} : result[r] = NotCalled \/ Called(r)
    /\ result["early"] = NotCalled \/ CalledEarly

DispatchInv == TablesInv /\ GivenInv /\ ResultInv

----------------------------------------------------------------------------
(* What the tables say of a command.  <<"physical", k>> is a command that takes a physical
   device, every other one travels along a device. *)

HasDeviceSlot(k) == k \in DeviceCoreTable \cup DeviceExtensionTable
HasInstanceSlot(k) ==
    /\ k \in InstanceCoreTable \cup InstanceExtensionTable
    /\ k \in InstanceLookup /\ k \in InstanceDisp /\ k \in IcdEntries

\* Enabling the extension of a command of a device says that the driver or the layer has it.
IsDeviceExtension(k) ==
    k \in CoreGroups \/ k \in DebugUtils \/ ExtensionOf(k) \notin EnabledExtensions

\* vkGetInstanceProcAddr knows the name when its extension is enabled.
KnownName(k) ==
    \/ <<"always", k>> \in ExtensionGpa
    \/ <<"own", k>> \in ExtensionGpa /\ ExtensionOf(k) \in EnabledExtensions
KnownToWsi(k) ==
    \/ k \in SurfaceGated
    \/ k \in {"KHR_swapchain", "CreateSwapchainKHR", "CreateSharedSwapchainsKHR"}
    \/ k \in OwnGated /\ ExtensionOf(k) \in EnabledExtensions
Answered(k) == k \in CoreGroups \/ KnownName(k) \/ KnownToWsi(k)

Agreed(c) ==
    /\ Answered(c[2])
    /\ c[1] = "physical" => HasInstanceSlot(c[2])
    /\ c[1] # "physical" => HasDeviceSlot(c[2]) /\ IsDeviceExtension(c[2])

IsCommand(c) == c[1] \notin {"else_abort", "else_refuse"}

LEMMA EachIs == \A how, groups : \A c \in Each(how, groups) : c[1] = how /\ c[2] \in groups
BY DEF Each

LEMMA InEach == \A how, groups : \A k \in groups : <<how, k>> \in Each(how, groups)
BY DEF Each

\* The commands of the slots of the device table are commands of device extensions.
LEMMA DeviceTableGated == \A k \in DeviceExtensionTable : IsDeviceExtension(k)
<1> USE DEF IsDeviceExtension, ExtensionOf, EnabledExtensions, DebugUtils
<1>1. \A k \in DeviceTable_KHR_swapchain : IsDeviceExtension(k)
  BY SMT DEF DeviceTable_KHR_swapchain
<1>2. \A k \in DeviceTable_KHR_deferred_host_operations : IsDeviceExtension(k)
  BY SMT DEF DeviceTable_KHR_deferred_host_operations
<1>3. \A k \in DeviceTable_NV_external_memory_win32 : IsDeviceExtension(k)
  BY SMT DEF DeviceTable_NV_external_memory_win32
<1>4. \A k \in DeviceTable_NV_scissor_exclusive : IsDeviceExtension(k)
  BY SMT DEF DeviceTable_NV_scissor_exclusive
<1>5. \A k \in DeviceTable_FUCHSIA_external_memory : IsDeviceExtension(k)
  BY SMT DEF DeviceTable_FUCHSIA_external_memory
<1>6. \A k \in DeviceTable_ARM_tensors : IsDeviceExtension(k)
  BY SMT DEF DeviceTable_ARM_tensors
<1>7. \A k \in DeviceTable_KHR_ray_tracing_pipeline : IsDeviceExtension(k)
  BY SMT DEF DeviceTable_KHR_ray_tracing_pipeline
<1> QED BY <1>1, <1>2, <1>3, <1>4, <1>5, <1>6, <1>7 DEF DeviceExtensionTable

\* The generated trampolines: each has its slots, its terminator and its entry in
\* extension_instance_gpa.
LEMMA GeneratedAgree ==
    \A c \in ExtensionTrampolines : IsCommand(c) => Agreed(c)
<1> USE EachIs DEF IsCommand, ExtensionTrampolines,
        Trampolines_KHR_video_queue, Trampolines_KHR_video_decode_queue,
        Trampolines_KHR_external_memory_fd, Trampolines_KHR_descriptor_update_template,
        Trampolines_KHR_external_fence_win32, Trampolines_KHR_performance_query,
        Trampolines_KHR_sampler_ycbcr_conversion, Trampolines_KHR_timeline_semaphore,
        Trampolines_KHR_buffer_device_address, Trampolines_KHR_pipeline_executable_properties,
        Trampolines_KHR_synchronization2, Trampolines_KHR_device_address_commands,
        Trampolines_KHR_copy_commands2, Trampolines_KHR_maintenance5,
        Trampolines_KHR_pipeline_binary, Trampolines_KHR_calibrated_timestamps,
        Trampolines_KHR_copy_memory_indirect, Trampolines_EXT_debug_marker,
        Trampolines_NVX_binary_import, Trampolines_AMD_draw_indirect_count,
        Trampolines_EXT_display_control, Trampolines_EXT_hdr_metadata,
        Trampolines_ANDROID_external_memory_android_hardware_buffer,
        Trampolines_AMD_gpa_interface, Trampolines_AMDX_shader_enqueue,
        Trampolines_EXT_descriptor_heap, Trampolines_EXT_sample_locations,
        Trampolines_NV_shading_rate_image, Trampolines_NV_ray_tracing,
        Trampolines_KHR_ray_tracing_pipeline, Trampolines_EXT_calibrated_timestamps,
        Trampolines_NV_device_diagnostic_checkpoints, Trampolines_INTEL_performance_query,
        Trampolines_EXT_buffer_device_address, Trampolines_EXT_extended_dynamic_state,
        Trampolines_EXT_host_image_copy, Trampolines_NV_device_generated_commands,
        Trampolines_EXT_acquire_drm_display, Trampolines_NV_cuda_kernel_launch,
        Trampolines_EXT_metal_objects, Trampolines_EXT_descriptor_buffer,
        Trampolines_NV_fragment_shading_rate_enums, Trampolines_FUCHSIA_external_memory,
        Trampolines_FUCHSIA_buffer_collection, Trampolines_EXT_pipeline_properties,
        Trampolines_EXT_opacity_micromap, Trampolines_HUAWEI_cluster_culling_shader,
        Trampolines_NV_memory_decompression, Trampolines_EXT_extended_dynamic_state3,
        Trampolines_ARM_tensors, Trampolines_EXT_shader_module_identifier,
        Trampolines_EXT_shader_object, Trampolines_NV_cooperative_vector,
        Trampolines_ARM_data_graph, Trampolines_ARM_data_graph_instruction_set_tosa,
        Trampolines_NV_external_compute_queue, Trampolines_EXT_device_generated_commands,
        Trampolines_NV_cooperative_matrix2, Trampolines_ARM_shader_instrumentation,
        Trampolines_ARM_data_graph_optical_flow, Trampolines_EXT_primitive_restart_index,
        Trampolines_KHR_acceleration_structure, Trampolines_KHR_ray_tracing_pipeline_2,
        Trampolines_EXT_mesh_shader
<1>1. \A c \in ExtensionTrampolines :
        IsCommand(c) /\ c[1] # "physical" => c[2] \in DeviceExtensionTable
  BY SMT DEF DeviceExtensionTable,
      DeviceTable_KHR_swapchain, DeviceTable_KHR_deferred_host_operations,
      DeviceTable_NV_external_memory_win32, DeviceTable_NV_scissor_exclusive,
      DeviceTable_FUCHSIA_external_memory, DeviceTable_ARM_tensors,
      DeviceTable_KHR_ray_tracing_pipeline
<1>2. \A c \in ExtensionTrampolines : c[1] = "physical" => c[2] \in InstanceExtensionTable
  BY SMT DEF InstanceExtensionTable,
      InstanceTable_KHR_surface, InstanceTable_MVK_macos_surface
<1>3. \A c \in ExtensionTrampolines : c[1] = "physical" => c[2] \in InstanceLookup
  BY SMT DEF InstanceLookup,
      InstanceLookup_core_1_0, InstanceLookup_EXT_debug_report,
      InstanceLookup_ARM_data_graph_optical_flow
<1>4. \A c \in ExtensionTrampolines : c[1] = "physical" => c[2] \in InstanceDisp
  BY SMT DEF InstanceDisp,
      InstanceDisp_core_1_0, InstanceDisp_NV_external_memory_capabilities
<1>5. \A c \in ExtensionTrampolines : c[1] = "physical" => c[2] \in IcdEntries
  BY SMT DEF IcdEntries,
      IcdEntries_core_1_0, IcdEntries_KHR_calibrated_timestamps,
      IcdEntries_ARM_data_graph_optical_flow
<1>6. \A c \in ExtensionTrampolines : IsCommand(c) => KnownName(c[2])
  BY InEach, SMT DEF KnownName, ExtensionOf, EnabledExtensions, DebugUtils, ExtensionGpa,
      Gpa_KHR_video_queue, Gpa_KHR_external_memory_win32, Gpa_KHR_performance_query,
      Gpa_KHR_pipeline_executable_properties, Gpa_KHR_device_address_commands,
      Gpa_KHR_maintenance5, Gpa_EXT_transform_feedback, Gpa_EXT_display_control,
      Gpa_AMD_gpa_interface, Gpa_EXT_image_drm_format_modifier,
      Gpa_NV_device_diagnostic_checkpoints, Gpa_EXT_extended_dynamic_state,
      Gpa_NV_cuda_kernel_launch, Gpa_FUCHSIA_external_memory, Gpa_EXT_opacity_micromap,
      Gpa_EXT_extended_dynamic_state3, Gpa_ARM_tensors, Gpa_NV_low_latency2,
      Gpa_EXT_device_generated_commands, Gpa_EXT_primitive_restart_index
<1>7. ASSUME NEW c \in ExtensionTrampolines, IsCommand(c)
      PROVE  Agreed(c)
  <2> HIDE EachIs DEF IsCommand, ExtensionTrampolines
  <2>1. Answered(c[2])
    BY <1>6, <1>7, Zenon DEF Answered
  <2>2. c[1] = "physical" => HasInstanceSlot(c[2])
    BY <1>2, <1>3, <1>4, <1>5, Zenon DEF HasInstanceSlot
  <2>3. c[1] # "physical" => HasDeviceSlot(c[2]) /\ IsDeviceExtension(c[2])
    BY <1>1, <1>7, DeviceTableGated, Zenon DEF HasDeviceSlot
  <2> QED BY <2>1, <2>2, <2>3, Zenon DEF Agreed
<1> HIDE EachIs DEF IsCommand, ExtensionTrampolines
<1> QED BY <1>7, Zenon

\* The trampolines written by hand (trampoline.c, wsi.c, extension_manual.c and the debug
\* extensions).
HandWritten ==
    CoreTrampolines \cup AliasTrampolines \cup WsiTrampolines \cup ManualTrampolines
    \cup DebugTrampolines

LEMMA HandWrittenAgree == \A c \in HandWritten : Agreed(c)
<1> USE EachIs DEF HandWritten,
        CoreTrampolines, CoreQueries, CoreQueries2, QueueTrampolines_1_0,
        DeviceTrampolines_1_0, CommandBufferTrampolines_1_0, Trampolines_1_1, Trampolines_1_2,
        Trampolines_1_3, Trampolines_1_4, AliasTrampolines, Queries2, ExternalQueries,
        CoreGroups, WsiTrampolines, PresentationSupport, ManualTrampolines, DebugTrampolines
<1>1. \A c \in HandWritten :
        c[1] # "physical" => c[2] \in DeviceCoreTable \cup DeviceExtensionTable
  BY SMT DEF DeviceCoreTable, DeviceExtensionTable,
      DeviceCoreTable_core_1_0, DeviceCoreTable_core_1_2, DeviceTable_KHR_swapchain,
      DeviceTable_KHR_deferred_host_operations, DeviceTable_NV_external_memory_win32,
      DeviceTable_NV_scissor_exclusive, DeviceTable_FUCHSIA_external_memory,
      DeviceTable_ARM_tensors, DeviceTable_KHR_ray_tracing_pipeline
<1>2. \A c \in HandWritten :
        c[1] = "physical" => c[2] \in InstanceCoreTable \cup InstanceExtensionTable
  BY SMT DEF InstanceCoreTable, InstanceExtensionTable,
      InstanceTable_KHR_surface, InstanceTable_MVK_macos_surface
<1>3. \A c \in HandWritten : c[1] = "physical" => c[2] \in InstanceLookup
  BY SMT DEF InstanceLookup,
      InstanceLookup_core_1_0, InstanceLookup_EXT_debug_report,
      InstanceLookup_ARM_data_graph_optical_flow
<1>4. \A c \in HandWritten : c[1] = "physical" => c[2] \in InstanceDisp
  BY SMT DEF InstanceDisp,
      InstanceDisp_core_1_0, InstanceDisp_NV_external_memory_capabilities
<1>5. \A c \in HandWritten : c[1] = "physical" => c[2] \in IcdEntries
  BY SMT DEF IcdEntries,
      IcdEntries_core_1_0, IcdEntries_KHR_calibrated_timestamps,
      IcdEntries_ARM_data_graph_optical_flow
<1>6. \A c \in HandWritten : Answered(c[2])
  BY InEach, SMT DEF Answered, KnownName, KnownToWsi, SurfaceGated, OwnGated, ExtensionOf,
      EnabledExtensions, DebugUtils, ExtensionGpa,
      Gpa_KHR_video_queue, Gpa_KHR_external_memory_win32, Gpa_KHR_performance_query,
      Gpa_KHR_pipeline_executable_properties, Gpa_KHR_device_address_commands,
      Gpa_KHR_maintenance5, Gpa_EXT_transform_feedback, Gpa_EXT_display_control,
      Gpa_AMD_gpa_interface, Gpa_EXT_image_drm_format_modifier,
      Gpa_NV_device_diagnostic_checkpoints, Gpa_EXT_extended_dynamic_state,
      Gpa_NV_cuda_kernel_launch, Gpa_FUCHSIA_external_memory, Gpa_EXT_opacity_micromap,
      Gpa_EXT_extended_dynamic_state3, Gpa_ARM_tensors, Gpa_NV_low_latency2,
      Gpa_EXT_device_generated_commands, Gpa_EXT_primitive_restart_index
<1>7. \A k \in DeviceCoreTable : IsDeviceExtension(k)
  BY SMT DEF IsDeviceExtension, DeviceCoreTable, DeviceCoreTable_core_1_0, DeviceCoreTable_core_1_2
<1>8. ASSUME NEW c \in HandWritten
      PROVE  Agreed(c)
  <2> HIDE EachIs DEF HandWritten
  <2>1. c[1] = "physical" => HasInstanceSlot(c[2])
    BY <1>2, <1>3, <1>4, <1>5, Zenon DEF HasInstanceSlot
  <2>2. c[1] # "physical" => HasDeviceSlot(c[2]) /\ IsDeviceExtension(c[2])
    BY <1>1, <1>7, DeviceTableGated, Zenon DEF HasDeviceSlot
  <2> QED BY <1>6, <2>1, <2>2, Zenon DEF Agreed
<1> HIDE EachIs DEF HandWritten
<1> QED BY <1>8, Zenon

\* Whichever of the generated tables a command appears in, the others go along:
\* vkGetInstanceProcAddr knows its name; a command of a physical device has a slot in the
\* instance's table, is found by the lookup in it, and its terminator has a slot in the
\* driver's; any other has a slot in the device's table, and no extension of an instance
\* stands for its being enabled.
THEOREM TablesAgree == \A c \in Commands : Agreed(c)
BY GeneratedAgree, HandWrittenAgree, Zenon DEF Commands, HandWritten, IsCommand

----------------------------------------------------------------------------
(* Where an allowed call ends.  From here on only the facts above are known of the tables,
   and a few names the code singles out. *)

LEMMA EnvFields ==
    ASSUME NEW e \in Envs
    PROVE  /\ e.cmd \in Commands /\ e.offers \subseteq {"own", "alias", "base"}
           /\ e.ext \in BOOLEAN /\ e.surf \in BOOLEAN /\ e.lay \in BOOLEAN /\ e.old \in BOOLEAN
           /\ e.strict \in BOOLEAN /\ e.swap \in BOOLEAN /\ e.makes \in BOOLEAN
           /\ e.obj \in {"none", "physical", "instance", "surface"}
           /\ Relevant(e) /\ Consistent(e)
BY DEF Envs

LEMMA PhysicalAgreed ==
    ASSUME NEW e \in Envs, Physical(e)
    PROVE  HasInstanceSlot(Key(e)) /\ Answered(Key(e))
BY EnvFields, TablesAgree, Zenon DEF Physical, Key, Agreed

LEMMA DeviceAgreed ==
    ASSUME NEW e \in Envs, ~Physical(e)
    PROVE  HasDeviceSlot(Key(e)) /\ IsDeviceExtension(Key(e)) /\ Answered(Key(e))
BY EnvFields, TablesAgree, Zenon DEF Physical, Key, Agreed

\* Every function a driver has for a query has its slot in icd_term->dispatch.
LEMMA IcdHasAll ==
    ASSUME NEW e \in Envs, Physical(e)
    PROVE  IcdFunctions(e) = e.offers
<1> DEFINE k == Key(e)
<1>1. {"core_1_0", "core_1_1", "core_1_1_external", "KHR_surface", "KHR_display",
       "KHR_get_physical_device_properties2", "KHR_external_memory_capabilities"}
        \subseteq IcdEntries
  BY SMT DEF IcdEntries, IcdEntries_core_1_0
<1>2. k \in IcdEntries
  BY PhysicalAgreed DEF HasInstanceSlot
<1>3. /\ e.offers \subseteq {"own", "alias", "base"}
      /\ "alias" \in e.offers => k \in OldName
      /\ "base" \in e.offers => k \in HasBase
  BY EnvFields DEF Relevant
<1>4. IcdGroup(e, "own") \in IcdEntries
  BY <1>2 DEF IcdGroup
<1>5. k \in OldName => IcdGroup(e, "alias") \in IcdEntries
  BY <1>1 DEF IcdGroup, OldName, Queries2, ExternalQueries, Core, CoreGroups, ExtensionOf,
             DebugUtils
<1>6. k \in HasBase => IcdGroup(e, "base") \in IcdEntries
  BY <1>1 DEF IcdGroup, HasBase, Queries2, ExternalQueries, Core, CoreGroups
<1> QED BY <1>3, <1>4, <1>5, <1>6 DEF IcdFunctions

\* A query goes to its terminator, past the layer or through it.
LEMMA PhysicalRoute ==
    ASSUME NEW e \in Envs, Physical(e), NEW st \in Live
    PROVE  TrampolineEnd(e, st) = EndAtPhysicalTerminator(e, TrampolineHandle(e), e.offers)
<1>1. InstanceTerminator(e) = "terminator"
  BY PhysicalAgreed DEF InstanceTerminator, HasInstanceSlot
<1>2. InstanceSlot(e) = IF e.lay THEN "layer" ELSE "terminator"
  BY PhysicalAgreed, <1>1 DEF InstanceSlot, InstanceChain, HasInstanceSlot
<1>3. SlotsAt(e, st).instance = IF e.lay THEN "layer" ELSE "terminator"
  BY <1>2 DEF SlotsAt
<1>4. Below(e) = "terminator"
  BY <1>1 DEF Below
<1>5. \A fns, table : EndAt(e, "terminator", TrampolineHandle(e), fns, table)
                        = EndAtPhysicalTerminator(e, TrampolineHandle(e), fns)
  BY DEF EndAt
<1> HIDE DEF SlotsAt
<1> QED BY <1>3, <1>4, <1>5, IcdHasAll
        DEF TrampolineEnd, EndFromTrampoline, EndFrom, EndThroughLayer

----------------------------------------------------------------------------
(* Queries of a physical device *)

\* The arguments of a query: a physical device, and perhaps a surface.
LEMMA PhysicalObject ==
    ASSUME NEW e \in Envs, Physical(e)
    PROVE  /\ Key(e) \notin Naming
           /\ e.obj = IF TakesSurface(e) THEN "surface" ELSE "physical"
           /\ TrampolineHandle(e) = IF TakesSurface(e) THEN "loader" ELSE "chain"
<1>1. Key(e) \in InstanceLookup
  BY PhysicalAgreed DEF HasInstanceSlot
<1>2. Key(e) \notin Naming
  BY <1>1, SMT DEF Naming, InstanceLookup, InstanceLookup_core_1_0,
      InstanceLookup_EXT_debug_report, InstanceLookup_ARM_data_graph_optical_flow
<1>3. e.obj = IF TakesSurface(e) THEN "surface" ELSE "physical"
  BY <1>2, EnvFields DEF Relevant
<1> QED BY <1>2, <1>3 DEF TrampolineHandle

\* The tests of a terminator, in their order.
LEMMA PhysicalCases ==
    ASSUME NEW e, NEW h, NEW fns
    PROVE  EndAtPhysicalTerminator(e, h, fns) =
             IF Key(e) \in OldName THEN EndOfQuery2(e, h, fns)
             ELSE IF ~Gate(e) THEN End(Ungated(e), h)
             ELSE IF "own" \in fns THEN End("own", PhysicalHandle(e, h))
             ELSE IF Key(e) \in HasBase THEN End(Fallback(e, fns), PhysicalHandle(e, h))
             ELSE End(EmptySlot(e), h)
<1>1. Key(e) \in OldName => Gate(e) /\ Key(e) \notin HasBase
  BY DEF Gate, OldName, Queries2, ExternalQueries, HasBase, OwnGated, PresentationSupport
<1> QED BY <1>1 DEF EndAtPhysicalTerminator

LEMMA SmallAnswers ==
    ASSUME NEW e, NEW fns
    PROVE  /\ Ungated(e) \in {"zero", "skip"}
           /\ EmptySlot(e) \in {"zero", "abort", "null", "refuse"}
           /\ EmptySlot(e) = "null" => Key(e) = "core_1_0"
           /\ Fallback(e, fns) \in {"base", "null", "refuse", "zero"}
           /\ Fallback(e, fns) = "null" =>
                  "base" \notin fns /\ Key(e) = "EXT_display_surface_counter"
           /\ Modern(e) \in {"own", "alias"} /\ Older(e) \in {"own", "alias"}
<1>1. Ungated(e) \in {"zero", "skip"}
  BY DEF Ungated
<1>2. /\ EmptySlot(e) \in {"zero", "abort", "null", "refuse"}
      /\ EmptySlot(e) = "null" => Key(e) = "core_1_0"
  BY DEF EmptySlot
<1>3. /\ Fallback(e, fns) \in {"base", "null", "refuse", "zero"}
      /\ Fallback(e, fns) = "null" =>
             "base" \notin fns /\ Key(e) = "EXT_display_surface_counter"
  BY DEF Fallback
<1> QED BY <1>1, <1>2, <1>3 DEF Modern, Older

LEMMA QueryEnds ==
    ASSUME NEW e, NEW h, NEW fns
    PROVE  /\ EndOfQuery2(e, h, fns).to \in {"own", "alias", "base", "zero"}
           /\ EndOfQuery2(e, h, fns).handle = OfDriver(e, h)
<1>1. \E to \in {"own", "alias", "base", "zero"} : EndOfQuery2(e, h, fns) = End(to, OfDriver(e, h))
  BY SmallAnswers DEF EndOfQuery2
<1> QED BY <1>1 DEF End

LEMMA PhysicalNoNull ==
    ASSUME NEW e \in Envs, Physical(e), DriverComplete(e), NEW h,
           EndAtPhysicalTerminator(e, h, e.offers).to = "null"
    PROVE  Key(e) = "EXT_display_surface_counter" /\ e.offers \cap {"own", "base"} = {}
<1>1. Key(e) \notin OldName
  BY PhysicalCases, QueryEnds
<1>2. Gate(e)
  BY <1>1, PhysicalCases, SmallAnswers DEF End
<1>3. "own" \notin e.offers
  BY <1>1, <1>2, PhysicalCases DEF End
<1>4. CASE Key(e) \in HasBase
  <2>1. Fallback(e, e.offers) = "null"
    BY <1>1, <1>2, <1>3, <1>4, PhysicalCases DEF End
  <2> QED BY <1>3, <2>1, SmallAnswers
<1>5. CASE Key(e) \notin HasBase
  <2>1. EmptySlot(e) = "null"
    BY <1>1, <1>2, <1>3, <1>5, PhysicalCases DEF End
  <2> QED BY <1>3, <2>1, SmallAnswers DEF DriverComplete
<1> QED BY <1>4, <1>5

\* What a driver gets to see of the arguments of a query are its own handles.
LEMMA PhysicalHandles ==
    ASSUME NEW e \in Envs, Physical(e), e.obj = "physical" \/ e.makes,
           NEW end, end = EndAtPhysicalTerminator(e, TrampolineHandle(e), e.offers),
           end.to \in {"own", "alias", "base"}
    PROVE  end.handle = "driver"
<1> DEFINE h == TrampolineHandle(e)
<1>1. PhysicalHandle(e, h) = "driver"
  BY PhysicalObject DEF PhysicalHandle, Unwrap, OfDriver
<1>2. CASE Key(e) \in OldName
  <2>1. ~TakesSurface(e)
    BY <1>2 DEF TakesSurface, OldName, Queries2, ExternalQueries
  <2>2. OfDriver(e, h) = "driver"
    BY <2>1, PhysicalObject DEF OfDriver
  <2> QED BY <1>2, <2>2, PhysicalCases, QueryEnds
<1>3. CASE Key(e) \notin OldName
  <2>1. end.to \in {"own", "base"} /\ end.handle = PhysicalHandle(e, h)
    BY <1>3, PhysicalCases, SmallAnswers DEF End
  <2> QED BY <1>1, <2>1
<1> QED BY <1>2, <1>3

\* An allowed query that the driver implements reaches the driver.
LEMMA PhysicalServed ==
    ASSUME NEW e \in Envs, Physical(e), Conformant(e), "own" \in e.offers, NEW h
    PROVE  EndAtPhysicalTerminator(e, h, e.offers).to \in {"own", "alias"}
<1>1. CASE Key(e) \in OldName
  <2>1. ~Core(e) => Flag(e)
    BY <1>1 DEF Flag, Core, Conformant, OldName, Queries2, ExternalQueries, CoreGroups,
                ExtensionOf, EnabledExtensions, DebugUtils
  <2>2. \E to \in {"own", "alias"} : EndOfQuery2(e, h, e.offers) = End(to, OfDriver(e, h))
    BY <2>1 DEF EndOfQuery2, Modern, Older, Conformant
  <2> QED BY <1>1, <2>2, PhysicalCases DEF End
<1>2. CASE Key(e) \notin OldName
  <2>1. Gate(e)
    <3>1. Key(e) = "KHR_surface" \/ TakesSurface(e) => e.surf \/ Core(e)
      BY EnvFields DEF Consistent, Conformant, TakesSurface
    <3>2. CASE Key(e) \in {"KHR_surface", "KHR_get_surface_capabilities2"}
      BY <3>1, <3>2 DEF Gate, OwnGated, PresentationSupport, TakesSurface, Core, CoreGroups
    <3>3. CASE Key(e) \in OwnGated \ {"KHR_get_display_properties2"}
      <4>1. Flag(e)
        BY <3>3 DEF OwnGated, PresentationSupport, Flag, Conformant, Core, CoreGroups,
                    ExtensionOf, EnabledExtensions, DebugUtils
      <4> QED BY <4>1, <3>3 DEF Gate, OwnGated, PresentationSupport
    <3>4. CASE Key(e) \in {"core_1_3", "EXT_tooling_info"}
      BY <3>4 DEF Gate, OwnGated, PresentationSupport, Conformant
    <3> QED BY <3>2, <3>3, <3>4 DEF Gate
  <2> QED BY <1>2, <2>1, PhysicalCases DEF End
<1> QED BY <1>1, <1>2

----------------------------------------------------------------------------
(* Commands that travel along a device *)

\* Names the code singles out.
LEMMA SingledOut ==
    /\ DebugUtils \cap DeviceCoreTable = {}
    /\ DebugUtils \subseteq DeviceTerminators
    /\ DebugUtils \subseteq DeviceLookup /\ Naming \subseteq DeviceLookup
    /\ Naming \subseteq DeviceTerminators
    /\ "GetDeviceProcAddr" \notin DeviceTerminators
BY SMT DEF DebugUtils, Naming, DeviceCoreTable, DeviceCoreTable_core_1_0,
    DeviceCoreTable_core_1_2, DeviceTerminators, DeviceLookup, DeviceLookup_KHR_pipeline_binary

LEMMA DeviceTerminatorIs ==
    ASSUME NEW e
    PROVE  /\ DeviceTerminator(e) \in {"terminator", "null", "driver"}
           /\ DeviceTerminator(e) = "terminator" =>
                  \/ Key(e) = "GetDeviceProcAddr"
                  \/ Key(e) \in DeviceTerminators /\ DriverExtension(e)
           /\ DeviceTerminator(e) = "driver" =>
                  Key(e) \notin DeviceTerminators /\ "own" \in e.offers
           /\ Key(e) \in DeviceTerminators /\ DriverExtension(e) =>
                  DeviceTerminator(e) = "terminator"
BY SingledOut DEF DeviceTerminator, DriverGdpa

\* The slots filled from the instance chain hold what the device chain would have given.
LEMMA DeviceSlotIsChain ==
    ASSUME NEW e \in Envs, ~Physical(e)
    PROVE  DeviceSlot(e) = DeviceChain(e)
<1>1. CASE Key(e) \in DeviceCoreTable
  BY <1>1, SingledOut DEF DeviceSlot
<1>2. CASE Key(e) \notin DeviceCoreTable
  <2>1. Key(e) \in DeviceExtensionTable
    BY <1>2, DeviceAgreed DEF HasDeviceSlot
  <2>2. CASE Key(e) \in DebugUtils
    <3>1. DeviceTerminator(e) = IF Flag(e) THEN "terminator" ELSE "null"
      BY <2>2, SingledOut DEF DeviceTerminator, DriverExtension
    <3>2. InstanceTerminator(e) = IF Flag(e) THEN "terminator" ELSE "null"
      BY <2>2 DEF InstanceTerminator
    <3>3. DeviceSlot(e) = InstanceChain(e)
      BY <1>2, <2>1, <2>2 DEF DeviceSlot
    <3> QED BY <3>1, <3>2, <3>3 DEF InstanceChain, DeviceChain
  <2>3. CASE Key(e) \notin DebugUtils
    BY <1>2, <2>1, <2>3 DEF DeviceSlot
  <2> QED BY <2>2, <2>3
<1> QED BY <1>1, <1>2

\* The end of an allowed call through a trampoline once the device is there: the layer or
\* the trampoline itself deals with a chain that has no end.
LEMMA DeviceRoute ==
    ASSUME NEW e \in Envs, ~Physical(e), NEW h, NEW fns, NEW table
    PROVE  /\ DeviceChain(e) # "null" =>
                EndFrom(e, DeviceChain(e), h, fns, table) =
                  IF DeviceTerminator(e) = "null" THEN End("layer", h)
                  ELSE EndAt(e, DeviceTerminator(e), h, fns, table)
           /\ DeviceChain(e) = "null" <=> ~e.lay /\ DeviceTerminator(e) = "null"
<1>1. Below(e) = DeviceTerminator(e)
  BY DEF Below
<1>2. DeviceTerminator(e) # "layer"
  BY DeviceTerminatorIs
<1> QED BY <1>1, <1>2 DEF EndFrom, EndThroughLayer, DeviceChain

LEMMA ReadySlots ==
    ASSUME NEW e \in Envs, ~Physical(e)
    PROVE  /\ SlotsAt(e, "ready").device = DeviceChain(e)
           /\ SlotsAt(e, "ready").terminator = TerminatorSlot(e)
           /\ SlotsAt(e, "created").terminator = "null"
BY DeviceSlotIsChain DEF SlotsAt

LEMMA DeviceTrampolineEnd ==
    ASSUME NEW e \in Envs, ~Physical(e)
    PROVE  TrampolineEnd(e, "ready") =
             IF DeviceTerminator(e) # "null"
             THEN EndAt(e, DeviceTerminator(e), TrampolineHandle(e), IcdFunctions(e),
                        SlotsAt(e, "ready"))
             ELSE End(IF e.lay THEN "layer" ELSE EmptyTrampoline(e), TrampolineHandle(e))
<1> DEFINE fns == IcdFunctions(e)
           table == SlotsAt(e, "ready")
           h == TrampolineHandle(e)
<1>1. table.device = DeviceChain(e)
  BY ReadySlots
<1> HIDE DEF fns, table, h
<1>2. EndFromTrampoline(e, fns, table) =
        IF DeviceChain(e) = "null" THEN End(EmptyTrampoline(e), TrampolineHandle(e))
        ELSE EndFrom(e, DeviceChain(e), TrampolineHandle(e), fns, table)
  BY <1>1 DEF EndFromTrampoline
<1>3. EndFromTrampoline(e, fns, table) =
        IF DeviceTerminator(e) # "null"
        THEN EndAt(e, DeviceTerminator(e), TrampolineHandle(e), fns, table)
        ELSE End(IF e.lay THEN "layer" ELSE EmptyTrampoline(e), TrampolineHandle(e))
  BY <1>2, DeviceRoute
<1> QED BY <1>3 DEF TrampolineEnd, fns, table, h

\* What an allowed command may count on: the driver or the layer has it.
LEMMA ConformantDevice ==
    ASSUME NEW e \in Envs, ~Physical(e), Conformant(e)
    PROVE  /\ Key(e) \in DebugUtils \/ e.lay \/ "own" \in e.offers
           /\ ~Hidden(e)
           /\ Key(e) \in DebugUtils => Flag(e)
           /\ ~Core(e) => e.ext
<1>1. ~Core(e) => e.ext
  BY DEF Conformant
<1>2. ~Core(e) /\ Key(e) \notin DebugUtils => e.lay \/ "own" \in e.offers
  BY <1>1, EnvFields, DeviceAgreed DEF Consistent, InstanceExtension, IsDeviceExtension, Core
<1>3. Core(e) => "own" \in e.offers /\ ~e.old
  BY DEF Conformant
<1>4. ~Hidden(e)
  BY <1>3, EnvFields DEF Hidden, Relevant
<1>5. Key(e) \in DebugUtils => Flag(e)
  BY <1>1, SMT DEF DebugUtils, Flag, Core, CoreGroups, ExtensionOf, EnabledExtensions
<1> QED BY <1>1, <1>2, <1>3, <1>4, <1>5

\* An allowed call does not run into the end of the chain, unless the trampoline looks.
LEMMA ChainHasEnd ==
    ASSUME NEW e \in Envs, ~Physical(e), Conformant(e), ~e.lay, Key(e) \notin DebugUtils
    PROVE  DeviceTerminator(e) # "null"
<1>1. "own" \in e.offers
  BY ConformantDevice
<1>2. CASE Key(e) \in DeviceTerminators
  <2>1. ~Core(e)
    BY <1>2 DEF Core, CoreGroups, DeviceTerminators
  <2>2. DriverExtension(e)
    BY <1>1, <2>1, ConformantDevice DEF DriverExtension
  <2> QED BY <1>2, <2>2, DeviceTerminatorIs
<1>3. CASE Key(e) \notin DeviceTerminators
  BY <1>1, <1>3 DEF DeviceTerminator, DriverGdpa
<1> QED BY <1>2, <1>3

LEMMA DeviceEnds ==
    ASSUME NEW e, ~Physical(e), DeviceTerminator(e) # "null", NEW h, NEW fns, NEW table
    PROVE  /\ EndAt(e, DeviceTerminator(e), h, fns, table) =
                IF DeviceTerminator(e) = "terminator" THEN EndAtDeviceTerminator(e, h, table)
                ELSE End("own", h)
           /\ EndAtDeviceTerminator(e, h, table).to \in {"own", "abort", "skip"}
<1>1. EndAt(e, DeviceTerminator(e), h, fns, table) =
        IF DeviceTerminator(e) = "terminator" THEN EndAtDeviceTerminator(e, h, table)
        ELSE End("own", h)
  BY DeviceTerminatorIs DEF EndAt
<1>2. EndAtDeviceTerminator(e, h, table).to \in {"own", "abort", "skip"}
  BY DEF EndAtDeviceTerminator, End
<1> QED BY <1>1, <1>2

LEMMA DeviceNoNull ==
    ASSUME NEW e \in Envs, ~Physical(e), Conformant(e)
    PROVE  TrampolineEnd(e, "ready").to # "null"
<1>1. CASE DeviceTerminator(e) # "null"
  BY <1>1, DeviceTrampolineEnd, DeviceEnds DEF End
<1>2. CASE DeviceTerminator(e) = "null"
  <2>1. e.lay \/ Key(e) \in DebugUtils
    BY <1>2, ChainHasEnd
  <2>2. Key(e) \in DebugUtils => EmptyTrampoline(e) = "skip"
    BY DEF EmptyTrampoline, DebugUtils
  <2> QED BY <1>2, <2>1, <2>2, DeviceTrampolineEnd DEF End
<1> QED BY <1>1, <1>2

LEMMA EarlyNoNull ==
    ASSUME NEW e \in Envs, ~Physical(e), Below(e) # "null"
    PROVE  EarlyEnd(e).to # "null"
<1>1. Below(e) = DeviceTerminator(e)
  BY DEF Below
<1> QED BY <1>1, DeviceEnds DEF EarlyEnd, End

\* The commands of a device that take a handle the loader has wrapped have a terminator of
\* the loader, and it puts the driver's handle in its place.
Wrapped(e) ==
    \/ e.obj \in {"physical", "instance"}
    \/ e.obj = "surface" /\ e.makes
Exempt(e) == Key(e) \in Naming /\ e.obj = "surface" /\ ~e.swap

LEMMA DeviceHandles ==
    ASSUME NEW e \in Envs, ~Physical(e), Wrapped(e), ~Exempt(e), NEW table,
           DeviceTerminator(e) # "null", NEW fns,
           NEW end, end = EndAt(e, DeviceTerminator(e), TrampolineHandle(e), fns, table),
           end.to \in {"own", "alias", "base"}
    PROVE  end.handle = "driver"
<1> DEFINE h == TrampolineHandle(e)
<1>1. Key(e) \in Naming \/ TakesSurface(e)
  BY EnvFields DEF Relevant, Wrapped
<1>2. Key(e) \in DeviceTerminators
  BY <1>1, SingledOut DEF TakesSurface, DeviceTerminators
<1>3. DeviceTerminator(e) = "terminator"
  BY <1>2, DeviceTerminatorIs
<1>4. end = EndAtDeviceTerminator(e, h, table)
  BY <1>3, DeviceEnds
<1>5. Key(e) # "GetDeviceProcAddr"
  BY <1>2, SingledOut
<1>6. table.terminator # "null"
  BY <1>4, <1>5 DEF EndAtDeviceTerminator, End
<1>7. end = End("own", IF Key(e) \in Naming THEN NamedHandle(e, h) ELSE Unwrap(e, h))
  BY <1>4, <1>5, <1>6 DEF EndAtDeviceTerminator
<1>8. Key(e) \notin Naming => e.obj = "surface"
  BY <1>1, EnvFields DEF Relevant
<1>9. Key(e) \in Naming => NamedHandle(e, h) = "driver"
  BY EnvFields DEF NamedHandle, Wrapped, Exempt, OfDriver, Unwrap, TrampolineHandle
<1>10. Key(e) \notin Naming => Unwrap(e, h) = "driver"
  BY <1>8, EnvFields DEF Wrapped, Unwrap
<1> QED BY <1>7, <1>9, <1>10 DEF End

\* An allowed command that the driver implements has its end in the driver.
LEMMA DeviceServed ==
    ASSUME NEW e \in Envs, ~Physical(e), Conformant(e), "own" \in e.offers
    PROVE  /\ DeviceTerminator(e) # "null"
           /\ TrampolineEnd(e, "ready").to = "own"
<1>1. CASE Key(e) \in DeviceTerminators
  <2>1. ~Core(e)
    BY <1>1 DEF Core, CoreGroups, DeviceTerminators
  <2>2. DriverExtension(e)
    BY <2>1, ConformantDevice DEF DriverExtension
  <2>3. DeviceTerminator(e) = "terminator"
    BY <1>1, <2>2, DeviceTerminatorIs
  <2>4. SlotsAt(e, "ready").terminator = "driver"
    BY <1>1, <2>2, ReadySlots DEF TerminatorSlot, DriverGdpa
  <2>5. EndAtDeviceTerminator(e, TrampolineHandle(e), SlotsAt(e, "ready")).to = "own"
    BY <1>1, <2>4, SingledOut DEF EndAtDeviceTerminator, End
  <2> QED BY <2>3, <2>5, DeviceTrampolineEnd, DeviceEnds
<1>2. CASE Key(e) \notin DeviceTerminators
  <2>1. DeviceTerminator(e) = IF Key(e) = "GetDeviceProcAddr" THEN "terminator" ELSE "driver"
    BY <1>2 DEF DeviceTerminator, DriverGdpa
  <2>2. Key(e) = "GetDeviceProcAddr" =>
          EndAtDeviceTerminator(e, TrampolineHandle(e), SlotsAt(e, "ready")).to = "own"
    BY DEF EndAtDeviceTerminator, End
  <2> QED BY <2>1, <2>2, DeviceTrampolineEnd, DeviceEnds DEF End
<1> QED BY <1>1, <1>2

----------------------------------------------------------------------------
(* The two lookups *)

LEMMA GipaPointers ==
    ASSUME NEW e
    PROVE  GetInstanceProcAddr(e) \in {"null", "trampoline"}
BY DEF GetInstanceProcAddr

LEMMA GipaServed ==
    ASSUME NEW e \in Envs, Conformant(e)
    PROVE  GetInstanceProcAddr(e) = "trampoline"
<1>1. Answered(Key(e))
  BY PhysicalAgreed, DeviceAgreed
<1>2. CASE Core(e)
  BY <1>2 DEF GetInstanceProcAddr
<1>3. CASE ~Core(e) /\ KnownName(Key(e))
  BY <1>3 DEF GetInstanceProcAddr, KnownName, Flag, Conformant
<1>4. CASE ~Core(e) /\ KnownToWsi(Key(e))
  <2>1. e.ext
    BY <1>4 DEF Conformant
  <2>2. Key(e) = "KHR_surface" \/ TakesSurface(e) => e.surf
    BY <2>1, EnvFields DEF Consistent
  <2>3. CASE Key(e) \in SurfaceGated
    <3>1. Key(e) = "KHR_get_surface_capabilities2" => Physical(e)
      <4>1. ASSUME ~Physical(e), Key(e) = "KHR_get_surface_capabilities2" PROVE FALSE
        BY <4>1, <2>1, DeviceAgreed, SMT DEF IsDeviceExtension, ExtensionOf, DebugUtils,
            CoreGroups, EnabledExtensions
      <4> QED BY <4>1
    <3> QED BY <2>2, <2>3, <3>1 DEF SurfaceGated, TakesSurface, WsiGpa, GetInstanceProcAddr
  <2>4. CASE Key(e) = "KHR_swapchain"
    BY <2>2, <2>4 DEF TakesSurface, WsiGpa, GetInstanceProcAddr
  <2>5. CASE Key(e) \in {"CreateSwapchainKHR", "CreateSharedSwapchainsKHR"}
    <3>1. ~Physical(e)
      <4>1. ASSUME Physical(e) PROVE FALSE
        <5>1. Key(e) \in InstanceLookup
          BY <4>1, PhysicalAgreed DEF HasInstanceSlot
        <5> QED BY <2>5, <5>1, SMT DEF InstanceLookup, InstanceLookup_core_1_0,
                InstanceLookup_EXT_debug_report, InstanceLookup_ARM_data_graph_optical_flow
      <4> QED BY <4>1
    <3> QED BY <2>5, <3>1 DEF WsiGpa, GetInstanceProcAddr
  <2>6. CASE Key(e) \in OwnGated /\ ExtensionOf(Key(e)) \in EnabledExtensions
    BY <2>1, <2>6 DEF Flag, WsiGpa, GetInstanceProcAddr
  <2> QED BY <1>4, <2>3, <2>4, <2>5, <2>6 DEF KnownToWsi
<1> QED BY <1>1, <1>2, <1>3, <1>4 DEF Answered, Core

\* For an allowed command the pointer vkGetDeviceProcAddr returns is the trampoline, or the
\* slot the trampoline would call with the same arguments.
LEMMA GdpaPointers ==
    ASSUME NEW e \in Envs, ~Physical(e), Conformant(e)
    PROVE  LET ptr == GetDeviceProcAddr(e, SlotsAt(e, "ready")) IN
           /\ \/ ptr \in {"null", "trampoline"}
              \/ ptr = DeviceChain(e) /\ Key(e) \notin Naming
           /\ ptr = "null" => ~("own" \in e.offers)
<1> DEFINE ptr == GetDeviceProcAddr(e, SlotsAt(e, "ready"))
           plain == {"GetDeviceProcAddr", "DestroyDevice", "GetDeviceQueue",
                     "AllocateCommandBuffers"}
<1>1. CASE Key(e) \in plain \cup {"GetDeviceQueue2"}
  <2>1. ptr = "trampoline"
    BY <1>1, ConformantDevice DEF GetDeviceProcAddr, Naming
  <2> QED BY <2>1
<1>2. CASE Key(e) \in Naming
  <2>1. ptr = IF LayerExtension(e) THEN "trampoline" ELSE "null"
    BY <1>2, SingledOut DEF GetDeviceProcAddr, Naming
  <2>2. ~Core(e)
    BY <1>2 DEF Core, CoreGroups, Naming
  <2>3. "own" \in e.offers => LayerExtension(e)
    BY <2>2, ConformantDevice DEF LayerExtension, DebugUtils
  <2> QED BY <2>1, <2>3
<1>3. CASE Key(e) \notin plain \cup {"GetDeviceQueue2"} /\ Key(e) \notin Naming
  <2>1. ptr = LookupDeviceTable(e, SlotsAt(e, "ready"))
    BY <1>3 DEF GetDeviceProcAddr
  <2>2. ptr = DeviceChain(e)
    BY <2>1, ConformantDevice, ReadySlots DEF LookupDeviceTable
  <2>3. "own" \in e.offers => ptr # "null"
    BY <2>2, DeviceServed, DeviceRoute
  <2> QED BY <1>3, <2>2, <2>3
<1> QED BY <1>1, <1>2, <1>3

\* Calling what either lookup returned ends where the trampoline's call would.
LEMMA GdpaRoute ==
    ASSUME NEW e \in Envs, ~Physical(e), Conformant(e), NEW ptr, ptr # "null",
           ptr = GetDeviceProcAddr(e, SlotsAt(e, "ready"))
    PROVE  EndOfCall(e, ptr, IcdFunctions(e), SlotsAt(e, "ready")) = TrampolineEnd(e, "ready")
<1>1. CASE ptr = "trampoline"
  BY <1>1 DEF EndOfCall, TrampolineEnd
<1>2. CASE ptr = DeviceChain(e) /\ Key(e) \notin Naming
  <2>1. DeviceChain(e) # "trampoline"
    BY DeviceTerminatorIs DEF DeviceChain
  <2>2. TrampolineHandle(e) = "loader"
    BY <1>2, EnvFields DEF TrampolineHandle, Relevant, Physical
  <2>3. SlotsAt(e, "ready").device = DeviceChain(e)
    BY ReadySlots
  <2>4. EndFromTrampoline(e, IcdFunctions(e), SlotsAt(e, "ready"))
          = EndFrom(e, DeviceChain(e), "loader", IcdFunctions(e), SlotsAt(e, "ready"))
    BY <1>2, <2>2, <2>3 DEF EndFromTrampoline
  <2> QED BY <1>2, <2>1, <2>4 DEF EndOfCall, TrampolineEnd
<1> QED BY <1>1, <1>2, GdpaPointers

----------------------------------------------------------------------------
(* Types of what the lookups and the calls produce *)

AnEnd == [to: Ends, handle: Handles]

LEMMA EndIsTyped ==
    ASSUME NEW to \in Ends, NEW h \in Handles
    PROVE  End(to, h) \in AnEnd
BY DEF End, AnEnd

LEMMA HandleTypes ==
    ASSUME NEW e, NEW h \in Handles
    PROVE  /\ TrampolineHandle(e) \in Handles
           /\ OfDriver(e, h) \in Handles /\ Unwrap(e, h) \in Handles
           /\ NamedHandle(e, h) \in Handles /\ PhysicalHandle(e, h) \in Handles
<1>1. TrampolineHandle(e) \in Handles
  BY DEF TrampolineHandle, Handles
<1>2. OfDriver(e, h) \in Handles /\ Unwrap(e, h) \in Handles
  BY DEF OfDriver, Unwrap, Handles
<1>3. NamedHandle(e, h) \in Handles
  BY <1>2 DEF NamedHandle
<1> QED BY <1>1, <1>2, <1>3 DEF PhysicalHandle

LEMMA PhysicalEndTyped ==
    ASSUME NEW e, NEW h \in Handles, NEW fns
    PROVE  EndAtPhysicalTerminator(e, h, fns) \in AnEnd
<1>1. EndOfQuery2(e, h, fns) \in AnEnd
  <2>1. \E to \in Ends : EndOfQuery2(e, h, fns) = End(to, OfDriver(e, h))
    BY SmallAnswers DEF EndOfQuery2, Ends
  <2> QED BY <2>1, HandleTypes, EndIsTyped
<1>2. /\ Ungated(e) \in Ends /\ EmptySlot(e) \in Ends /\ Fallback(e, fns) \in Ends
      /\ "own" \in Ends
  BY SmallAnswers DEF Ends
<1> QED BY <1>1, <1>2, PhysicalCases, HandleTypes, EndIsTyped

LEMMA DeviceEndTyped ==
    ASSUME NEW e, ~Physical(e), DeviceTerminator(e) # "null", NEW h \in Handles, NEW fns,
           NEW table
    PROVE  EndAt(e, DeviceTerminator(e), h, fns, table) \in AnEnd
<1>1. {"own", "abort", "skip"} \subseteq Ends
  BY DEF Ends
<1>2. EndAtDeviceTerminator(e, h, table) \in AnEnd
  BY <1>1, HandleTypes, EndIsTyped DEF EndAtDeviceTerminator
<1> QED BY <1>1, <1>2, DeviceEnds, EndIsTyped

LEMMA TrampolineEndTyped ==
    ASSUME NEW e \in Envs, NEW st \in Live, MayBeCalledAt(e, st)
    PROVE  TrampolineEnd(e, st) \in AnEnd
<1>1. TrampolineHandle(e) \in Handles
  BY DEF TrampolineHandle, Handles
<1>2. CASE Physical(e)
  BY <1>1, <1>2, PhysicalRoute, PhysicalEndTyped
<1>3. CASE ~Physical(e)
  <2>1. st = "ready"
    BY <1>3 DEF MayBeCalledAt
  <2>2. EmptyTrampoline(e) \in Ends /\ "layer" \in Ends
    BY DEF EmptyTrampoline, Ends
  <2> QED BY <1>1, <1>3, <2>1, <2>2, DeviceTrampolineEnd, DeviceEndTyped, EndIsTyped
<1> QED BY <1>2, <1>3

LEMMA EarlyEndTyped ==
    ASSUME NEW e \in Envs, ~Physical(e), Below(e) # "null"
    PROVE  EarlyEnd(e) \in AnEnd
<1>1. Below(e) = DeviceTerminator(e) /\ TrampolineHandle(e) \in Handles
  BY DEF Below, TrampolineHandle, Handles
<1> QED BY <1>1, DeviceEndTyped DEF EarlyEnd

LEMMA PointerTypes ==
    ASSUME NEW e
    PROVE  /\ GetInstanceProcAddr(e) \in Pointers
           /\ InstanceSlot(e) \in Pointers /\ DeviceSlot(e) \in Pointers
           /\ TerminatorSlot(e) \in Pointers /\ Below(e) \in Pointers
           /\ \A st : SlotsAt(e, st) \in [{"instance", "device", "terminator"} -> Pointers]
<1>1. GetInstanceProcAddr(e) \in Pointers
  BY GipaPointers DEF Pointers
<1>2. InstanceTerminator(e) \in Pointers /\ DeviceTerminator(e) \in Pointers
  BY DeviceTerminatorIs DEF InstanceTerminator, Pointers
<1>3. InstanceChain(e) \in Pointers /\ DeviceChain(e) \in Pointers
  BY <1>2 DEF InstanceChain, DeviceChain, Pointers
<1>4. InstanceSlot(e) \in Pointers /\ Below(e) \in Pointers
  BY <1>2, <1>3 DEF InstanceSlot, Below, Pointers
<1>5. DeviceSlot(e) \in Pointers
  BY <1>3 DEF DeviceSlot, Pointers
<1>6. TerminatorSlot(e) \in Pointers
  BY DEF TerminatorSlot, DriverGdpa, Pointers
<1>7. \A st : SlotsAt(e, st) \in [{"instance", "device", "terminator"} -> Pointers]
  <2>1. "null" \in Pointers
    BY DEF Pointers
  <2> QED BY <1>4, <1>5, <1>6, <2>1 DEF SlotsAt
<1> QED BY <1>1, <1>4, <1>5, <1>6, <1>7

LEMMA GdpaTyped ==
    ASSUME NEW e
    PROVE  GetDeviceProcAddr(e, SlotsAt(e, "ready")) \in Pointers
<1>1. SlotsAt(e, "ready").device \in Pointers
  BY PointerTypes DEF SlotsAt
<1>2. DeviceChain(e) \in Pointers
  BY DeviceTerminatorIs DEF DeviceChain, Pointers
<1>3. LookupDeviceTable(e, SlotsAt(e, "ready")) \in Pointers
  BY <1>1, <1>2 DEF LookupDeviceTable, Pointers
<1> QED BY <1>3 DEF GetDeviceProcAddr, Pointers

----------------------------------------------------------------------------
(* The steps *)

LEMMA InitDispatch ==
    ASSUME Init
    PROVE  DispatchInv
<1>1. TablesInv
  BY DEF Init, TablesInv, SlotsAt, Live
<1>2. GivenInv
  BY DEF Init, GivenInv, Routes
<1>3. ResultInv
  BY DEF Init, ResultInv, NotCalled, Routes
<1> QED BY <1>1, <1>2, <1>3 DEF DispatchInv

\* The steps that do not answer and do not call leave what was answered alone.
LEMMA GivenKept ==
    ASSUME GivenInv, env' = env, given' = given, stage = "ready" => stage' = "ready"
    PROVE  GivenInv'
BY DEF GivenInv

LEMMA ResultKept ==
    ASSUME ResultInv, env' = env, result' = result,
           \A r \in {"gipa", "gdpa"} : given[r] # "unasked" => given'[r] # "unasked"
    PROVE  ResultInv'
<1>1. ASSUME NEW r \in {"gipa", "gdpa"}, Called(r)
      PROVE  Called(r)'
  BY <1>1 DEF Called
<1>2. CalledEarly => CalledEarly'
  BY DEF CalledEarly
<1> QED BY <1>1, <1>2 DEF ResultInv

LEMMA CreateInstanceStep ==
    ASSUME DispatchInv, CreateInstance
    PROVE  DispatchInv'
<1>1. TablesInv'
  <2> USE DEF DispatchInv, TablesInv, CreateInstance, Live
  <2>1. CASE ~DriverComplete(env)
    BY <2>1 DEF DriverComplete, SlotsAt
  <2>2. CASE DriverComplete(env)
    <3>1. stage' = "instance" /\ icd' = IcdFunctions(env)
          /\ slot' = [slot EXCEPT !.instance = InstanceSlot(env)]
      BY <2>2 DEF DriverComplete
    <3>2. slot' = SlotsAt(env, "instance")
      BY <3>1 DEF SlotsAt
    <3> QED BY <2>2, <3>1, <3>2
  <2> QED BY <2>1, <2>2
<1>2. GivenInv'
  BY GivenKept DEF DispatchInv, CreateInstance
<1>3. ResultInv'
  BY ResultKept DEF DispatchInv, CreateInstance
<1> QED BY <1>1, <1>2, <1>3 DEF DispatchInv

LEMMA CreateDeviceStep ==
    ASSUME DispatchInv, CreateDevice
    PROVE  DispatchInv'
<1>1. TablesInv'
  BY DEF DispatchInv, TablesInv, CreateDevice, Live, SlotsAt
<1>2. GivenInv'
  BY GivenKept DEF DispatchInv, CreateDevice
<1>3. ResultInv'
  BY ResultKept DEF DispatchInv, CreateDevice
<1> QED BY <1>1, <1>2, <1>3 DEF DispatchInv

LEMMA FillDeviceTablesStep ==
    ASSUME DispatchInv, FillDeviceTables
    PROVE  DispatchInv'
<1>1. TablesInv'
  BY DEF DispatchInv, TablesInv, FillDeviceTables, Live, SlotsAt
<1>2. GivenInv'
  BY GivenKept DEF DispatchInv, FillDeviceTables
<1>3. ResultInv'
  BY ResultKept DEF DispatchInv, FillDeviceTables
<1> QED BY <1>1, <1>2, <1>3 DEF DispatchInv

LEMMA TablesKept ==
    ASSUME TablesInv, UNCHANGED <<env, stage, icd, slot>>
    PROVE  TablesInv'
BY DEF TablesInv

LEMMA AskInstanceStep ==
    ASSUME DispatchInv, AskInstance
    PROVE  DispatchInv'
<1>1. TablesInv'
  BY TablesKept DEF DispatchInv, AskInstance
<1>2. GivenInv'
  BY PointerTypes DEF DispatchInv, GivenInv, AskInstance, Routes
<1>3. GetInstanceProcAddr(env) # "unasked"
  BY GipaPointers
<1>4. \A r \in {"gipa", "gdpa"} : given[r] # "unasked" => given'[r] # "unasked"
  BY <1>3 DEF DispatchInv, GivenInv, AskInstance, Routes
<1>5. ResultInv'
  BY <1>4, ResultKept DEF DispatchInv, AskInstance
<1> QED BY <1>1, <1>2, <1>5 DEF DispatchInv

LEMMA AskDeviceStep ==
    ASSUME DispatchInv, AskDevice
    PROVE  DispatchInv'
<1>1. TablesInv'
  BY TablesKept DEF DispatchInv, AskDevice
<1>2. slot = SlotsAt(env, "ready")
  BY DEF DispatchInv, TablesInv, AskDevice
<1>3. given' = [given EXCEPT !["gdpa"] = GetDeviceProcAddr(env, SlotsAt(env, "ready"))]
  BY <1>2 DEF AskDevice
<1>4. GivenInv'
  BY <1>3, GdpaTyped DEF DispatchInv, GivenInv, AskDevice, Routes
<1>5. GetDeviceProcAddr(env, SlotsAt(env, "ready")) # "unasked"
  BY GdpaTyped DEF Pointers
<1>6. \A r \in {"gipa", "gdpa"} : given[r] # "unasked" => given'[r] # "unasked"
  BY <1>3, <1>5 DEF DispatchInv, GivenInv, Routes
<1>7. ResultInv'
  BY <1>6, ResultKept DEF DispatchInv, AskDevice
<1> QED BY <1>1, <1>4, <1>7 DEF DispatchInv

LEMMA CallStep ==
    ASSUME DispatchInv, NEW r \in {"gipa", "gdpa"}, Call(r)
    PROVE  DispatchInv'
<1> USE DEF DispatchInv
<1>1. TablesInv'
  BY TablesKept DEF Call
<1>2. GivenInv'
  BY GivenKept DEF Call
<1>3. /\ env \in Envs /\ stage \in Live /\ MayBeCalledAt(env, stage) /\ DriverComplete(env)
      /\ icd = IcdFunctions(env) /\ slot = SlotsAt(env, stage)
  BY DEF TablesInv, Call, MayBeCalledAt, Live
<1>4. EndOfCall(env, given[r], icd, slot) = TrampolineEnd(env, stage)
  <2>1. CASE r = "gipa"
    <3>1. given[r] = "trampoline"
      BY <2>1, GipaPointers DEF GivenInv, Call
    <3> QED BY <1>3, <3>1 DEF EndOfCall, TrampolineEnd
  <2>2. CASE r = "gdpa"
    <3>1. /\ stage = "ready" /\ ~Physical(env)
          /\ given[r] = GetDeviceProcAddr(env, SlotsAt(env, "ready")) /\ given[r] # "null"
      BY <2>2 DEF GivenInv, Call
    <3>2. Conformant(env)
      BY DEF Call
    <3> QED BY <1>3, <3>1, <3>2, GdpaRoute
  <2> QED BY <2>1, <2>2
<1>5. result' = [result EXCEPT ![r] = TrampolineEnd(env, stage)]
  BY <1>4 DEF Call
<1>6. Called(r)'
  <2>1. result'[r] = TrampolineEnd(env, stage)
    BY <1>5 DEF ResultInv, Routes
  <2> QED BY <1>3, <2>1 DEF Called, Call
<1>7. ASSUME NEW q \in {"gipa", "gdpa"}, q # r
      PROVE  (result[q] = NotCalled \/ Called(q))'
  <2>1. result'[q] = result[q]
    BY <1>5, <1>7 DEF ResultInv, Routes
  <2> QED BY <2>1 DEF ResultInv, Called, Call
<1>8. (result["early"] = NotCalled \/ CalledEarly)'
  <2>1. result'["early"] = result["early"]
    BY <1>5 DEF ResultInv, Routes
  <2> QED BY <2>1 DEF ResultInv, CalledEarly, Call
<1>9. DOMAIN result' = Routes /\ result' = [q \in Routes |-> result'[q]]
  BY <1>5 DEF ResultInv
<1>10. ResultInv'
  BY <1>6, <1>7, <1>8, <1>9 DEF ResultInv
<1> QED BY <1>1, <1>2, <1>10

LEMMA LayerCallsEarlyStep ==
    ASSUME DispatchInv, LayerCallsEarly
    PROVE  DispatchInv'
<1> USE DEF DispatchInv
<1>1. TablesInv'
  BY TablesKept DEF LayerCallsEarly
<1>2. given' = [given EXCEPT !["early"] = Below(env)]
  BY DEF LayerCallsEarly
<1>3. GivenInv'
  BY <1>2, PointerTypes DEF GivenInv, LayerCallsEarly, Routes
<1>4. result' = [result EXCEPT !["early"] = EarlyEnd(env)]
  <2>1. icd = IcdFunctions(env) /\ slot = SlotsAt(env, "created")
    BY DEF TablesInv, LayerCallsEarly, Live
  <2> QED BY <2>1 DEF LayerCallsEarly, EarlyEnd
<1>5. CalledEarly'
  <2>1. result'["early"] = EarlyEnd(env)
    BY <1>4 DEF ResultInv, Routes
  <2> QED BY <2>1 DEF CalledEarly, LayerCallsEarly
<1>6. ASSUME NEW q \in {"gipa", "gdpa"}
      PROVE  (result[q] = NotCalled \/ Called(q))'
  <2>1. result'[q] = result[q] /\ given'[q] = given[q]
    BY <1>2, <1>4 DEF ResultInv, GivenInv, Routes
  <2> QED BY <2>1 DEF ResultInv, Called, LayerCallsEarly
<1>7. DOMAIN result' = Routes /\ result' = [q \in Routes |-> result'[q]]
  BY <1>4 DEF ResultInv
<1>8. ResultInv'
  BY <1>5, <1>6, <1>7 DEF ResultInv
<1> QED BY <1>1, <1>3, <1>8

LEMMA NextDispatch ==
    ASSUME DispatchInv, [Next]_vars
    PROVE  DispatchInv'
<1>1. CASE UNCHANGED vars
  BY <1>1 DEF vars, DispatchInv, TablesInv, GivenInv, ResultInv, Called, CalledEarly
<1> QED BY <1>1, CreateInstanceStep, CreateDeviceStep, LayerCallsEarlyStep,
        FillDeviceTablesStep, AskInstanceStep, AskDeviceStep, CallStep DEF Next

LEMMA DispatchInvariant == Spec => []DispatchInv
BY InitDispatch, NextDispatch, PTL DEF Spec

----------------------------------------------------------------------------
(* The properties *)

LEMMA DispatchTyped ==
    ASSUME DispatchInv
    PROVE  TypeOK
<1> USE DEF DispatchInv
<1>1. /\ env \in Envs /\ stage \in {"start", "no_driver", "instance", "created", "ready"}
      /\ icd \subseteq env.offers
  BY DEF TablesInv, Live, IcdFunctions
<1>2. slot \in [{"instance", "device", "terminator"} -> Pointers]
  BY PointerTypes DEF TablesInv
<1>3. NotCalled \in AnEnd
  BY EndIsTyped DEF NotCalled, Ends, Handles
<1>4. \A r \in Routes : result[r] \in AnEnd
  <2>1. ASSUME NEW r \in {"gipa", "gdpa"}, Called(r)
        PROVE  result[r] \in AnEnd
    BY <1>1, <2>1, TrampolineEndTyped DEF Called
  <2>2. CalledEarly => result["early"] \in AnEnd
    BY <1>1, EarlyEndTyped DEF CalledEarly
  <2> QED BY <1>3, <2>1, <2>2 DEF ResultInv, Routes
<1>5. result \in [Routes -> AnEnd]
  BY <1>4 DEF ResultInv
<1> QED BY <1>1, <1>2, <1>5 DEF TypeOK, GivenInv, AnEnd

LEMMA CallsReachSomething ==
    ASSUME DispatchInv
    PROVE  NoNullCall
<1> USE DEF DispatchInv
<1>1. env \in Envs
  BY DEF TablesInv
<1>2. NotCalled.to = "none"
  BY DEF NotCalled, End
<1>3. ASSUME NEW r \in {"gipa", "gdpa"}, result[r].to = "null"
      PROVE  Key(env) = "EXT_display_surface_counter" /\ env.offers \cap {"own", "base"} = {}
  <2>1. Called(r)
    BY <1>2, <1>3 DEF ResultInv
  <2>2. PICK st \in Live : MayBeCalledAt(env, st) /\ result[r] = TrampolineEnd(env, st)
    BY <2>1 DEF Called
  <2>3. Conformant(env) /\ DriverComplete(env)
    BY <2>1 DEF Called
  <2>4. CASE Physical(env)
    BY <1>1, <1>3, <2>2, <2>3, <2>4, PhysicalRoute, PhysicalNoNull
  <2>5. CASE ~Physical(env)
    BY <1>1, <1>3, <2>2, <2>3, <2>5, DeviceNoNull DEF MayBeCalledAt
  <2> QED BY <2>4, <2>5
<1>4. result["early"].to # "null"
  BY <1>1, <1>2, EarlyNoNull DEF ResultInv, CalledEarly
<1> QED BY <1>3, <1>4, DispatchTyped DEF NoNullCall, Routes

LEMMA DriverSeesItsHandles ==
    ASSUME DispatchInv
    PROVE  HandlesTranslated
<1> USE DEF DispatchInv
<1>1. env \in Envs
  BY DEF TablesInv
<1>2. NotCalled.to = "none"
  BY DEF NotCalled, End
<1>3. SUFFICES ASSUME NEW r \in Routes, result[r].to \in {"own", "alias", "base"},
                      Wrapped(env), ~Exempt(env)
               PROVE  result[r].handle = "driver"
  BY DEF HandlesTranslated, Wrapped, Exempt
<1>4. CASE r \in {"gipa", "gdpa"}
  <2>1. Called(r)
    BY <1>2, <1>3, <1>4 DEF ResultInv
  <2>2. PICK st \in Live : MayBeCalledAt(env, st) /\ result[r] = TrampolineEnd(env, st)
    BY <2>1 DEF Called
  <2>3. CASE Physical(env)
    <3>1. env.obj = "physical" \/ env.makes
      BY <1>1, <1>3, <2>3, PhysicalObject DEF Wrapped
    <3> QED BY <1>1, <1>3, <2>2, <2>3, <3>1, PhysicalRoute, PhysicalHandles
  <2>4. CASE ~Physical(env)
    <3>1. result[r] = TrampolineEnd(env, "ready")
      BY <2>2, <2>4 DEF MayBeCalledAt
    <3>2. DeviceTerminator(env) # "null"
      <4>1. EmptyTrampoline(env) \notin {"own", "alias", "base"}
        BY DEF EmptyTrampoline
      <4> QED BY <1>1, <1>3, <2>4, <3>1, <4>1, DeviceTrampolineEnd DEF End
    <3>3. result[r] = EndAt(env, DeviceTerminator(env), TrampolineHandle(env),
                            IcdFunctions(env), SlotsAt(env, "ready"))
      BY <1>1, <2>4, <3>1, <3>2, DeviceTrampolineEnd
    <3> QED BY <1>1, <1>3, <2>4, <3>2, <3>3, DeviceHandles
  <2> QED BY <2>3, <2>4
<1>5. CASE r = "early"
  <2>1. CalledEarly
    BY <1>2, <1>3, <1>5 DEF ResultInv
  <2>2. ~Physical(env) /\ DeviceTerminator(env) # "null"
    BY <2>1 DEF CalledEarly, Below
  <2>3. result[r] = EndAt(env, DeviceTerminator(env), TrampolineHandle(env),
                          IcdFunctions(env), SlotsAt(env, "created"))
    BY <1>5, <2>1, <2>2 DEF CalledEarly, EarlyEnd, Below
  <2> QED BY <1>1, <1>3, <2>2, <2>3, DeviceHandles
<1> QED BY <1>4, <1>5 DEF Routes

LEMMA BothRoutes ==
    ASSUME DispatchInv
    PROVE  RoutesAgree
<1> USE DEF DispatchInv
<1>1. NotCalled.to = "none"
  BY DEF NotCalled, End
<1>2. SUFFICES ASSUME result["gipa"].to # "none", result["gdpa"].to # "none"
               PROVE  result["gipa"] = result["gdpa"]
  BY DEF RoutesAgree
<1>3. Called("gipa") /\ Called("gdpa")
  BY <1>1, <1>2 DEF ResultInv
<1>4. ~Physical(env)
  BY <1>3 DEF Called, GivenInv
<1>5. \A r \in {"gipa", "gdpa"} : Called(r) => result[r] = TrampolineEnd(env, "ready")
  BY <1>4 DEF Called, MayBeCalledAt
<1> QED BY <1>3, <1>5

LEMMA DriverIsUsed ==
    ASSUME DispatchInv
    PROVE  ServedByDriver
<1> USE DEF DispatchInv
<1>1. env \in Envs
  BY DEF TablesInv
<1>2. NotCalled.to = "none"
  BY DEF NotCalled, End
<1>3. SUFFICES ASSUME Conformant(env), "own" \in env.offers, NEW r \in {"gipa", "gdpa"}
               PROVE  given[r] # "null" /\ result[r].to \in {"none", "own", "alias"}
  BY DEF ServedByDriver
<1>4. given[r] # "null"
  <2>1. GetInstanceProcAddr(env) # "null"
    BY <1>1, <1>3, GipaServed
  <2>2. ~Physical(env) => GetDeviceProcAddr(env, SlotsAt(env, "ready")) # "null"
    BY <1>1, <1>3, GdpaPointers
  <2> QED BY <1>3, <2>1, <2>2 DEF GivenInv
<1>5. result[r].to \in {"none", "own", "alias"}
  <2>1. CASE Called(r)
    <3>1. PICK st \in Live : MayBeCalledAt(env, st) /\ result[r] = TrampolineEnd(env, st)
      BY <2>1 DEF Called
    <3>2. CASE Physical(env)
      BY <1>1, <1>3, <3>1, <3>2, PhysicalRoute, PhysicalServed
    <3>3. CASE ~Physical(env)
      BY <1>1, <1>3, <3>1, <3>3, DeviceServed DEF MayBeCalledAt
    <3> QED BY <3>2, <3>3
  <2> QED BY <1>2, <1>3, <2>1 DEF ResultInv
<1> QED BY <1>4, <1>5

\* For every command of the generated tables, whatever the driver and the layer offer: no
\* allowed call, of the application or of a layer before vkCreateDevice is done, jumps
\* through an empty slot; the one exception is a fallback that the terminator of
\* vkGetPhysicalDeviceSurfaceCapabilities2EXT does not look at.
THEOREM NoCallThroughAnEmptySlot == Spec => []NoNullCall
BY DispatchInvariant, CallsReachSomething, PTL

\* However the pointer was obtained, the driver is called with its own handles for a
\* physical device, an instance and a surface it created (but for names of surfaces on a
\* device without VK_KHR_swapchain).
THEOREM DriversGetTheirHandles == Spec => []HandlesTranslated
BY DispatchInvariant, DriverSeesItsHandles, PTL

\* A call through the pointer of vkGetDeviceProcAddr, which skips the trampoline, ends like
\* one through the trampoline that vkGetInstanceProcAddr gives out.
THEOREM LookupsLeadToTheSameEnd == Spec => []RoutesAgree
BY DispatchInvariant, BothRoutes, PTL

\* With the tables filled, an allowed command the driver implements is known to both
\* lookups, and every call of it ends in the driver's function.
THEOREM DriverFunctionsAreUsed == Spec => []ServedByDriver
BY DispatchInvariant, DriverIsUsed, PTL

=============================================================================
