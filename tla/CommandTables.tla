---------------------------- MODULE CommandTables ----------------------------
(***************************************************************************)
(* The generated tables of the loader (generated/vk_loader_extensions.c):   *)
(* which commands have a slot in which dispatch table, which names each      *)
(* lookup knows, and which are answered only when their extension is on.    *)
(*                                                                         *)
(* A command is named by the group that introduces it, a version of Vulkan  *)
(* or an extension: the generator treats all ordinary commands of a group    *)
(* alike, so a group stands for each of them.  The commands that the code   *)
(* singles out (those that take a surface, name an object, or create or      *)
(* hand out a handle) keep names of their own.                               *)
(*                                                                         *)
(* The surfaces of OHOS and of SEC_ubm are left out: with them switched on   *)
(* the generated code stops the build (#error).                              *)
(***************************************************************************)

\* Every command of groups, with what the table says of it.
Each(how, groups) == {how} \X groups

(* The functions of a driver that loader_icd_init_entries keeps in the dispatch table of
   its loader_icd_term: those of the groups below that the driver's own
   vkGetInstanceProcAddr returns.  The queries of Vulkan 1.0 are required. *)
IcdEntries_core_1_0 ==
    {"core_1_0", "core_1_1", "core_1_1_external", "core_1_3", "KHR_surface",
     "KHR_swapchain", "KHR_display", "KHR_xlib_surface", "KHR_xcb_surface",
     "KHR_wayland_surface", "KHR_android_surface", "KHR_win32_surface", "KHR_video_queue",
     "KHR_get_physical_device_properties2", "KHR_device_group_creation",
     "KHR_external_memory_capabilities", "KHR_external_semaphore_capabilities",
     "KHR_external_fence_capabilities", "KHR_performance_query",
     "KHR_get_surface_capabilities2", "KHR_get_display_properties2",
     "KHR_fragment_shading_rate", "KHR_video_encode_queue", "KHR_cooperative_matrix"}

\* Faulty variant: a driver's function that has no slot.
IcdEntriesWithoutOpticalFlow ==
    {"KHR_calibrated_timestamps", "EXT_debug_report", "GGP_stream_descriptor_surface"}

IcdEntries_KHR_calibrated_timestamps ==
    {"KHR_calibrated_timestamps", "EXT_debug_report", "GGP_stream_descriptor_surface",
     "NV_external_memory_capabilities", "NN_vi_surface", "EXT_direct_mode_display",
     "EXT_acquire_xlib_display", "EXT_display_surface_counter", "MVK_ios_surface",
     "MVK_macos_surface", "EXT_debug_utils", "EXT_descriptor_heap", "EXT_sample_locations",
     "EXT_calibrated_timestamps", "FUCHSIA_imagepipe_surface", "EXT_metal_surface",
     "EXT_tooling_info", "NV_cooperative_matrix", "NV_coverage_reduction_mode",
     "EXT_full_screen_exclusive", "EXT_headless_surface", "EXT_acquire_drm_display",
     "NV_acquire_winrt_display", "EXT_directfb_surface", "QNX_screen_surface",
     "ARM_tensors", "NV_optical_flow", "NV_cooperative_vector", "ARM_data_graph",
     "ARM_data_graph_instruction_set_tosa", "NV_cooperative_matrix2",
     "ARM_performance_counters_by_region", "ARM_shader_instrumentation"}

IcdEntries_ARM_data_graph_optical_flow ==
    {"ARM_data_graph_optical_flow"}

IcdEntries ==
    IcdEntries_core_1_0 \cup IcdEntries_KHR_calibrated_timestamps \cup
        IcdEntries_ARM_data_graph_optical_flow

(* The slots of the device dispatch table that loader_init_device_dispatch_table fills by
   asking the device chain. *)
DeviceCoreTable_core_1_0 ==
    {"GetDeviceProcAddr", "DestroyDevice", "GetDeviceQueue", "core_1_0",
     "AllocateCommandBuffers", "core_1_1", "GetDeviceQueue2"}

DeviceCoreTable_core_1_2 ==
    {"core_1_2", "core_1_3", "core_1_4"}

DeviceCoreTable ==
    DeviceCoreTable_core_1_0 \cup DeviceCoreTable_core_1_2

(* The slots loader_init_device_extension_dispatch_table adds when vkCreateDevice is nearly
   done; it asks the instance chain for the commands of VK_EXT_debug_utils and the device
   chain for the others. *)
DeviceTable_KHR_swapchain ==
    {"CreateSwapchainKHR", "KHR_swapchain", "GetDeviceGroupSurfacePresentModesKHR",
     "CreateSharedSwapchainsKHR", "KHR_video_queue", "KHR_video_decode_queue",
     "KHR_dynamic_rendering", "KHR_device_group", "KHR_maintenance1",
     "KHR_external_memory_win32", "KHR_external_memory_fd", "KHR_external_semaphore_win32",
     "KHR_external_semaphore_fd", "KHR_push_descriptor", "KHR_descriptor_update_template",
     "KHR_create_renderpass2", "KHR_shared_presentable_image", "KHR_external_fence_win32",
     "KHR_external_fence_fd", "KHR_performance_query", "KHR_get_memory_requirements2",
     "KHR_sampler_ycbcr_conversion", "KHR_bind_memory2", "KHR_maintenance3",
     "KHR_draw_indirect_count", "KHR_timeline_semaphore", "KHR_fragment_shading_rate",
     "KHR_dynamic_rendering_local_read", "KHR_present_wait", "KHR_buffer_device_address"}

DeviceTable_KHR_deferred_host_operations ==
    {"KHR_deferred_host_operations", "KHR_pipeline_executable_properties",
     "KHR_map_memory2", "KHR_video_encode_queue", "KHR_synchronization2",
     "KHR_device_address_commands", "KHR_copy_commands2", "KHR_ray_tracing_maintenance1",
     "KHR_maintenance4", "KHR_maintenance5", "KHR_present_wait2", "KHR_pipeline_binary",
     "KHR_swapchain_maintenance1", "KHR_line_rasterization", "KHR_calibrated_timestamps",
     "KHR_maintenance6", "KHR_copy_memory_indirect", "KHR_device_fault",
     "KHR_maintenance10", "DebugMarkerSetObject", "EXT_debug_marker",
     "EXT_transform_feedback", "NVX_binary_import", "NVX_image_view_handle",
     "AMD_draw_indirect_count", "AMD_shader_info"}

DeviceTable_NV_external_memory_win32 ==
    {"NV_external_memory_win32", "EXT_conditional_rendering", "NV_clip_space_w_scaling",
     "EXT_display_control", "GOOGLE_display_timing", "EXT_discard_rectangles",
     "EXT_hdr_metadata", "SetDebugUtilsObject", "EXT_debug_utils",
     "ANDROID_external_memory_android_hardware_buffer", "AMD_gpa_interface",
     "AMDX_shader_enqueue", "EXT_descriptor_heap", "EXT_sample_locations",
     "EXT_image_drm_format_modifier", "EXT_validation_cache", "NV_shading_rate_image",
     "NV_ray_tracing", "KHR_ray_tracing_pipeline", "EXT_external_memory_host",
     "AMD_buffer_marker", "EXT_calibrated_timestamps", "NV_mesh_shader"}

DeviceTable_NV_scissor_exclusive ==
    {"NV_scissor_exclusive", "NV_device_diagnostic_checkpoints", "EXT_present_timing",
     "INTEL_performance_query", "AMD_display_native_hdr", "EXT_buffer_device_address",
     "EXT_full_screen_exclusive", "GetDeviceGroupSurfacePresentModes2EXT",
     "EXT_line_rasterization", "EXT_host_query_reset", "EXT_extended_dynamic_state",
     "EXT_host_image_copy", "EXT_swapchain_maintenance1", "NV_device_generated_commands",
     "EXT_depth_bias_control", "EXT_private_data", "QCOM_queue_perf_hint",
     "NV_cuda_kernel_launch", "QCOM_tile_shading", "EXT_metal_objects",
     "EXT_descriptor_buffer", "NV_fragment_shading_rate_enums", "EXT_device_fault",
     "EXT_vertex_input_dynamic_state"}

DeviceTable_FUCHSIA_external_memory ==
    {"FUCHSIA_external_memory", "FUCHSIA_external_semaphore", "FUCHSIA_buffer_collection",
     "HUAWEI_subpass_shading", "HUAWEI_invocation_mask", "NV_external_memory_rdma",
     "EXT_pipeline_properties", "EXT_extended_dynamic_state2", "EXT_color_write_enable",
     "EXT_multi_draw", "EXT_opacity_micromap", "HUAWEI_cluster_culling_shader",
     "EXT_pageable_device_local_memory", "ARM_scheduling_controls",
     "VALVE_descriptor_set_host_mapping", "NV_copy_memory_indirect",
     "NV_memory_decompression", "NV_device_generated_commands_compute",
     "OHOS_external_memory", "EXT_extended_dynamic_state3"}

DeviceTable_ARM_tensors ==
    {"ARM_tensors", "EXT_shader_module_identifier", "NV_optical_flow", "AMD_anti_lag",
     "EXT_shader_object", "QCOM_tile_properties", "NV_cooperative_vector",
     "NV_low_latency2", "ARM_data_graph", "EXT_attachment_feedback_loop_dynamic_state",
     "QNX_external_memory_screen_buffer", "QCOM_tile_memory_heap",
     "EXT_memory_decompression", "NV_external_compute_queue",
     "NV_cluster_acceleration_structure", "NV_partitioned_acceleration_structure",
     "EXT_device_generated_commands", "EXT_external_memory_metal",
     "ARM_shader_instrumentation", "EXT_fragment_density_map_offset", "EXT_custom_resolve",
     "NV_compute_occupancy_priority", "EXT_primitive_restart_index",
     "KHR_acceleration_structure"}

\* Faulty variant: mesh shaders are looked up, but their slots are never filled.
DeviceTableWithoutMeshShader == {"KHR_ray_tracing_pipeline"}

DeviceTable_KHR_ray_tracing_pipeline ==
    {"KHR_ray_tracing_pipeline", "EXT_mesh_shader"}

DeviceExtensionTable ==
    DeviceTable_KHR_swapchain \cup DeviceTable_KHR_deferred_host_operations \cup
        DeviceTable_NV_external_memory_win32 \cup DeviceTable_NV_scissor_exclusive \cup
        DeviceTable_FUCHSIA_external_memory \cup DeviceTable_ARM_tensors \cup
        DeviceTable_KHR_ray_tracing_pipeline

(* The slots of the instance dispatch table, filled from the instance chain. *)
InstanceCoreTable ==
    {"core_1_0", "core_1_1", "core_1_1_external", "core_1_3"}

InstanceTable_KHR_surface ==
    {"KHR_surface", "KHR_swapchain", "KHR_display", "KHR_xlib_surface", "KHR_xcb_surface",
     "KHR_wayland_surface", "KHR_android_surface", "KHR_win32_surface", "KHR_video_queue",
     "KHR_get_physical_device_properties2", "KHR_device_group_creation",
     "KHR_external_memory_capabilities", "KHR_external_semaphore_capabilities",
     "KHR_external_fence_capabilities", "KHR_performance_query",
     "KHR_get_surface_capabilities2", "KHR_get_display_properties2",
     "KHR_fragment_shading_rate", "KHR_video_encode_queue", "KHR_cooperative_matrix",
     "KHR_calibrated_timestamps", "EXT_debug_report", "GGP_stream_descriptor_surface",
     "NV_external_memory_capabilities", "NN_vi_surface", "EXT_direct_mode_display",
     "EXT_acquire_xlib_display", "EXT_display_surface_counter", "MVK_ios_surface"}

InstanceTable_MVK_macos_surface ==
    {"MVK_macos_surface", "EXT_debug_utils", "EXT_descriptor_heap", "EXT_sample_locations",
     "EXT_calibrated_timestamps", "FUCHSIA_imagepipe_surface", "EXT_metal_surface",
     "EXT_tooling_info", "NV_cooperative_matrix", "NV_coverage_reduction_mode",
     "EXT_full_screen_exclusive", "EXT_headless_surface", "EXT_acquire_drm_display",
     "NV_acquire_winrt_display", "EXT_directfb_surface", "QNX_screen_surface",
     "ARM_tensors", "NV_optical_flow", "NV_cooperative_vector", "ARM_data_graph",
     "ARM_data_graph_instruction_set_tosa", "NV_cooperative_matrix2",
     "ARM_performance_counters_by_region", "ARM_shader_instrumentation",
     "ARM_data_graph_optical_flow"}

InstanceExtensionTable ==
    InstanceTable_KHR_surface \cup InstanceTable_MVK_macos_surface

(* The names loader_lookup_device_dispatch_table knows, which vkGetDeviceProcAddr answers
   from the slot of the device dispatch table. *)
DeviceLookup_core_1_0 ==
    {"GetDeviceProcAddr", "DestroyDevice", "GetDeviceQueue", "core_1_0",
     "AllocateCommandBuffers"}

DeviceLookup_core_1_1 ==
    {"core_1_1", "GetDeviceQueue2", "core_1_2"}

DeviceLookup_core_1_3 ==
    {"core_1_3"}

DeviceLookup_core_1_4 ==
    {"core_1_4", "CreateSwapchainKHR", "KHR_swapchain",
     "GetDeviceGroupSurfacePresentModesKHR", "CreateSharedSwapchainsKHR", "KHR_video_queue",
     "KHR_video_decode_queue", "KHR_dynamic_rendering", "KHR_device_group",
     "KHR_maintenance1", "KHR_external_memory_win32", "KHR_external_memory_fd",
     "KHR_external_semaphore_win32", "KHR_external_semaphore_fd", "KHR_push_descriptor"}

DeviceLookup_KHR_descriptor_update_template ==
    {"KHR_descriptor_update_template", "KHR_create_renderpass2",
     "KHR_shared_presentable_image", "KHR_external_fence_win32", "KHR_external_fence_fd",
     "KHR_performance_query", "KHR_get_memory_requirements2",
     "KHR_sampler_ycbcr_conversion", "KHR_bind_memory2", "KHR_maintenance3",
     "KHR_draw_indirect_count", "KHR_timeline_semaphore", "KHR_fragment_shading_rate",
     "KHR_dynamic_rendering_local_read", "KHR_present_wait", "KHR_buffer_device_address",
     "KHR_deferred_host_operations", "KHR_pipeline_executable_properties",
     "KHR_map_memory2", "KHR_video_encode_queue", "KHR_synchronization2",
     "KHR_device_address_commands", "KHR_copy_commands2", "KHR_ray_tracing_maintenance1",
     "KHR_maintenance4", "KHR_maintenance5", "KHR_present_wait2"}

DeviceLookup_KHR_pipeline_binary ==
    {"KHR_pipeline_binary", "KHR_swapchain_maintenance1", "KHR_line_rasterization",
     "KHR_calibrated_timestamps", "KHR_maintenance6", "KHR_copy_memory_indirect",
     "KHR_device_fault", "KHR_maintenance10", "DebugMarkerSetObject", "EXT_debug_marker",
     "EXT_transform_feedback", "NVX_binary_import", "NVX_image_view_handle",
     "AMD_draw_indirect_count", "AMD_shader_info", "NV_external_memory_win32",
     "EXT_conditional_rendering", "NV_clip_space_w_scaling", "EXT_display_control",
     "GOOGLE_display_timing", "EXT_discard_rectangles", "EXT_hdr_metadata",
     "SetDebugUtilsObject", "EXT_debug_utils",
     "ANDROID_external_memory_android_hardware_buffer", "AMD_gpa_interface"}

DeviceLookup_AMDX_shader_enqueue ==
    {"AMDX_shader_enqueue", "EXT_descriptor_heap", "EXT_sample_locations",
     "EXT_image_drm_format_modifier", "EXT_validation_cache", "NV_shading_rate_image",
     "NV_ray_tracing", "KHR_ray_tracing_pipeline", "EXT_external_memory_host",
     "AMD_buffer_marker", "EXT_calibrated_timestamps", "NV_mesh_shader",
     "NV_scissor_exclusive", "NV_device_diagnostic_checkpoints", "EXT_present_timing",
     "INTEL_performance_query", "AMD_display_native_hdr", "EXT_buffer_device_address",
     "EXT_full_screen_exclusive", "GetDeviceGroupSurfacePresentModes2EXT",
     "EXT_line_rasterization", "EXT_host_query_reset", "EXT_extended_dynamic_state"}

DeviceLookup_EXT_host_image_copy ==
    {"EXT_host_image_copy", "EXT_swapchain_maintenance1", "NV_device_generated_commands",
     "EXT_depth_bias_control", "EXT_private_data", "QCOM_queue_perf_hint",
     "NV_cuda_kernel_launch", "QCOM_tile_shading", "EXT_metal_objects",
     "EXT_descriptor_buffer", "NV_fragment_shading_rate_enums", "EXT_device_fault",
     "EXT_vertex_input_dynamic_state", "FUCHSIA_external_memory",
     "FUCHSIA_external_semaphore", "FUCHSIA_buffer_collection", "HUAWEI_subpass_shading",
     "HUAWEI_invocation_mask", "NV_external_memory_rdma", "EXT_pipeline_properties",
     "EXT_extended_dynamic_state2", "EXT_color_write_enable", "EXT_multi_draw"}

DeviceLookup_EXT_opacity_micromap ==
    {"EXT_opacity_micromap", "HUAWEI_cluster_culling_shader",
     "EXT_pageable_device_local_memory", "ARM_scheduling_controls",
     "VALVE_descriptor_set_host_mapping", "NV_copy_memory_indirect",
     "NV_memory_decompression", "NV_device_generated_commands_compute",
     "OHOS_external_memory", "EXT_extended_dynamic_state3", "ARM_tensors",
     "EXT_shader_module_identifier", "NV_optical_flow", "AMD_anti_lag", "EXT_shader_object",
     "QCOM_tile_properties", "NV_cooperative_vector", "NV_low_latency2", "ARM_data_graph",
     "EXT_attachment_feedback_loop_dynamic_state", "QNX_external_memory_screen_buffer"}

DeviceLookup_QCOM_tile_memory_heap ==
    {"QCOM_tile_memory_heap", "EXT_memory_decompression", "NV_external_compute_queue",
     "NV_cluster_acceleration_structure", "NV_partitioned_acceleration_structure",
     "EXT_device_generated_commands", "EXT_external_memory_metal",
     "ARM_shader_instrumentation", "EXT_fragment_density_map_offset", "EXT_custom_resolve",
     "NV_compute_occupancy_priority", "EXT_primitive_restart_index",
     "KHR_acceleration_structure", "KHR_ray_tracing_pipeline", "EXT_mesh_shader"}

DeviceLookup ==
    DeviceLookup_core_1_0 \cup DeviceLookup_core_1_1 \cup DeviceLookup_core_1_3 \cup
        DeviceLookup_core_1_4 \cup DeviceLookup_KHR_descriptor_update_template \cup
        DeviceLookup_KHR_pipeline_binary \cup DeviceLookup_AMDX_shader_enqueue \cup
        DeviceLookup_EXT_host_image_copy \cup DeviceLookup_EXT_opacity_micromap \cup
        DeviceLookup_QCOM_tile_memory_heap

(* The names loader_lookup_instance_dispatch_table knows, with which the end of the instance
   chain answers a layer. *)
InstanceLookup_core_1_0 ==
    {"core_1_0", "core_1_1", "core_1_1_external", "core_1_3", "KHR_surface",
     "KHR_swapchain", "KHR_display", "KHR_xlib_surface", "KHR_xcb_surface",
     "KHR_wayland_surface", "KHR_android_surface", "KHR_win32_surface", "KHR_video_queue",
     "KHR_get_physical_device_properties2", "KHR_device_group_creation",
     "KHR_external_memory_capabilities", "KHR_external_semaphore_capabilities",
     "KHR_external_fence_capabilities", "KHR_performance_query",
     "KHR_get_surface_capabilities2", "KHR_get_display_properties2",
     "KHR_fragment_shading_rate", "KHR_video_encode_queue", "KHR_cooperative_matrix",
     "KHR_calibrated_timestamps"}

InstanceLookup_EXT_debug_report ==
    {"EXT_debug_report", "GGP_stream_descriptor_surface", "NV_external_memory_capabilities",
     "NN_vi_surface", "EXT_direct_mode_display", "EXT_acquire_xlib_display",
     "EXT_display_surface_counter", "MVK_ios_surface", "MVK_macos_surface",
     "EXT_debug_utils", "EXT_descriptor_heap", "EXT_sample_locations",
     "EXT_calibrated_timestamps", "FUCHSIA_imagepipe_surface", "EXT_metal_surface",
     "EXT_tooling_info", "NV_cooperative_matrix", "NV_coverage_reduction_mode",
     "EXT_full_screen_exclusive", "EXT_headless_surface", "EXT_acquire_drm_display",
     "NV_acquire_winrt_display", "EXT_directfb_surface", "QNX_screen_surface",
     "ARM_tensors", "NV_optical_flow", "NV_cooperative_vector", "ARM_data_graph",
     "ARM_data_graph_instruction_set_tosa", "NV_cooperative_matrix2",
     "ARM_performance_counters_by_region", "ARM_shader_instrumentation"}

InstanceLookup_ARM_data_graph_optical_flow ==
    {"ARM_data_graph_optical_flow"}

InstanceLookup ==
    InstanceLookup_core_1_0 \cup InstanceLookup_EXT_debug_report \cup
        InstanceLookup_ARM_data_graph_optical_flow

(* The terminators at the end of the instance chain. *)
InstanceDisp_core_1_0 ==
    {"core_1_0", "core_1_1", "core_1_1_external", "core_1_3", "KHR_surface",
     "KHR_swapchain", "KHR_display", "KHR_xlib_surface", "KHR_xcb_surface",
     "KHR_wayland_surface", "KHR_android_surface", "KHR_win32_surface", "KHR_video_queue",
     "KHR_get_physical_device_properties2", "KHR_device_group_creation",
     "KHR_external_memory_capabilities", "KHR_external_semaphore_capabilities",
     "KHR_external_fence_capabilities", "KHR_performance_query",
     "KHR_get_surface_capabilities2", "KHR_get_display_properties2",
     "KHR_fragment_shading_rate", "KHR_video_encode_queue", "KHR_cooperative_matrix",
     "KHR_calibrated_timestamps", "EXT_debug_report", "GGP_stream_descriptor_surface"}

InstanceDisp_NV_external_memory_capabilities ==
    {"NV_external_memory_capabilities", "NN_vi_surface", "EXT_direct_mode_display",
     "EXT_acquire_xlib_display", "EXT_display_surface_counter", "MVK_ios_surface",
     "MVK_macos_surface", "EXT_debug_utils", "EXT_descriptor_heap", "EXT_sample_locations",
     "EXT_calibrated_timestamps", "FUCHSIA_imagepipe_surface", "EXT_metal_surface",
     "EXT_tooling_info", "NV_cooperative_matrix", "NV_coverage_reduction_mode",
     "EXT_full_screen_exclusive", "EXT_headless_surface", "EXT_acquire_drm_display",
     "NV_acquire_winrt_display", "EXT_directfb_surface", "QNX_screen_surface",
     "ARM_tensors", "NV_optical_flow", "NV_cooperative_vector", "ARM_data_graph",
     "ARM_data_graph_instruction_set_tosa", "NV_cooperative_matrix2",
     "ARM_performance_counters_by_region", "ARM_shader_instrumentation",
     "ARM_data_graph_optical_flow"}

InstanceDisp ==
    InstanceDisp_core_1_0 \cup InstanceDisp_NV_external_memory_capabilities

(* The instance extensions whose enabling fill_out_enabled_instance_extensions records, for
   the instance and for each driver. *)
EnabledExtensions ==
    {"KHR_surface", "KHR_display", "KHR_xlib_surface", "KHR_xcb_surface",
     "KHR_wayland_surface", "KHR_android_surface", "KHR_win32_surface",
     "KHR_get_physical_device_properties2", "KHR_device_group_creation",
     "KHR_external_memory_capabilities", "KHR_external_semaphore_capabilities",
     "KHR_external_fence_capabilities", "KHR_get_surface_capabilities2",
     "KHR_get_display_properties2", "KHR_surface_protected_capabilities",
     "KHR_portability_enumeration", "KHR_surface_maintenance1", "EXT_debug_report",
     "GGP_stream_descriptor_surface", "NV_external_memory_capabilities",
     "EXT_validation_flags", "NN_vi_surface", "EXT_direct_mode_display",
     "EXT_acquire_xlib_display", "EXT_display_surface_counter", "EXT_swapchain_colorspace",
     "MVK_ios_surface", "MVK_macos_surface", "EXT_debug_utils", "FUCHSIA_imagepipe_surface",
     "EXT_metal_surface", "EXT_validation_features", "EXT_headless_surface",
     "EXT_surface_maintenance1", "EXT_acquire_drm_display", "EXT_directfb_surface",
     "QNX_screen_surface", "GOOGLE_surfaceless_query", "LUNARG_direct_driver_loading",
     "EXT_layer_settings", "NV_display_stereo"}

(* The instance extensions of drivers that the loader lets through to the application. *)
LoaderInstanceExtensions ==
    {"KHR_surface", "KHR_display", "KHR_xlib_surface", "KHR_xcb_surface",
     "KHR_wayland_surface", "KHR_android_surface", "KHR_win32_surface",
     "KHR_get_physical_device_properties2", "KHR_device_group_creation",
     "KHR_external_memory_capabilities", "KHR_external_semaphore_capabilities",
     "KHR_external_fence_capabilities", "KHR_get_surface_capabilities2",
     "KHR_get_display_properties2", "KHR_surface_protected_capabilities",
     "KHR_portability_enumeration", "KHR_surface_maintenance1", "EXT_debug_report",
     "GGP_stream_descriptor_surface", "NV_external_memory_capabilities",
     "EXT_validation_flags", "NN_vi_surface", "EXT_direct_mode_display",
     "EXT_acquire_xlib_display", "EXT_display_surface_counter", "EXT_swapchain_colorspace",
     "MVK_ios_surface", "MVK_macos_surface", "EXT_debug_utils", "FUCHSIA_imagepipe_surface",
     "EXT_metal_surface", "EXT_validation_features", "EXT_headless_surface",
     "EXT_surface_maintenance1", "EXT_acquire_drm_display", "EXT_directfb_surface",
     "QNX_screen_surface", "GOOGLE_surfaceless_query", "LUNARG_direct_driver_loading",
     "EXT_layer_settings", "NV_display_stereo"}

(* What extension_instance_gpa answers to vkGetInstanceProcAddr: a trampoline always, or
   only when the command's own instance extension is enabled. *)
Gpa_KHR_video_queue ==
    Each("always", {"KHR_video_queue", "KHR_video_decode_queue", "KHR_dynamic_rendering",
                    "KHR_device_group", "KHR_maintenance1"})
    \cup Each("own", {"KHR_get_physical_device_properties2", "KHR_device_group_creation",
                      "KHR_external_memory_capabilities"})

Gpa_KHR_external_memory_win32 ==
    Each("always", {"KHR_external_memory_win32", "KHR_external_memory_fd",
                    "KHR_external_semaphore_win32", "KHR_external_semaphore_fd",
                    "KHR_push_descriptor", "KHR_descriptor_update_template",
                    "KHR_create_renderpass2", "KHR_shared_presentable_image",
                    "KHR_external_fence_win32", "KHR_external_fence_fd"})
    \cup Each("own", {"KHR_external_semaphore_capabilities",
                      "KHR_external_fence_capabilities"})

Gpa_KHR_performance_query ==
    Each("always", {"KHR_performance_query", "KHR_get_memory_requirements2",
                    "KHR_sampler_ycbcr_conversion", "KHR_bind_memory2", "KHR_maintenance3",
                    "KHR_draw_indirect_count", "KHR_timeline_semaphore",
                    "KHR_fragment_shading_rate", "KHR_dynamic_rendering_local_read",
                    "KHR_present_wait", "KHR_buffer_device_address",
                    "KHR_deferred_host_operations"})

Gpa_KHR_pipeline_executable_properties ==
    Each("always", {"KHR_pipeline_executable_properties", "KHR_map_memory2",
                    "KHR_video_encode_queue", "KHR_synchronization2"})

Gpa_KHR_device_address_commands ==
    Each("always", {"KHR_device_address_commands", "KHR_copy_commands2",
                    "KHR_ray_tracing_maintenance1", "KHR_maintenance4"})

Gpa_KHR_maintenance5 ==
    Each("always", {"KHR_maintenance5", "KHR_present_wait2", "KHR_pipeline_binary",
                    "KHR_swapchain_maintenance1", "KHR_cooperative_matrix",
                    "KHR_line_rasterization", "KHR_calibrated_timestamps",
                    "KHR_maintenance6", "KHR_copy_memory_indirect", "KHR_device_fault",
                    "KHR_maintenance10", "DebugMarkerSetObject", "EXT_debug_marker"})

Gpa_EXT_transform_feedback ==
    Each("always", {"EXT_transform_feedback", "NVX_binary_import", "NVX_image_view_handle",
                    "AMD_draw_indirect_count", "AMD_shader_info",
                    "NV_external_memory_win32", "EXT_conditional_rendering",
                    "NV_clip_space_w_scaling"})
    \cup Each("own", {"NV_external_memory_capabilities", "EXT_direct_mode_display",
                      "EXT_acquire_xlib_display", "EXT_display_surface_counter"})

Gpa_EXT_display_control ==
    Each("always", {"EXT_display_control", "GOOGLE_display_timing",
                    "EXT_discard_rectangles", "EXT_hdr_metadata",
                    "ANDROID_external_memory_android_hardware_buffer"})
    \cup Each("own", {"SetDebugUtilsObject", "EXT_debug_utils"})

Gpa_AMD_gpa_interface ==
    Each("always", {"AMD_gpa_interface", "AMDX_shader_enqueue", "EXT_descriptor_heap",
                    "EXT_sample_locations"})

Gpa_EXT_image_drm_format_modifier ==
    Each("always", {"EXT_image_drm_format_modifier", "EXT_validation_cache",
                    "NV_shading_rate_image", "NV_ray_tracing", "KHR_ray_tracing_pipeline",
                    "EXT_external_memory_host", "AMD_buffer_marker",
                    "EXT_calibrated_timestamps", "NV_mesh_shader", "NV_scissor_exclusive"})

Gpa_NV_device_diagnostic_checkpoints ==
    Each("always", {"NV_device_diagnostic_checkpoints", "EXT_present_timing",
                    "INTEL_performance_query", "AMD_display_native_hdr",
                    "EXT_buffer_device_address", "EXT_tooling_info",
                    "NV_cooperative_matrix", "NV_coverage_reduction_mode",
                    "EXT_full_screen_exclusive", "GetDeviceGroupSurfacePresentModes2EXT",
                    "EXT_line_rasterization", "EXT_host_query_reset"})

Gpa_EXT_extended_dynamic_state ==
    Each("always", {"EXT_extended_dynamic_state", "EXT_host_image_copy",
                    "EXT_swapchain_maintenance1", "NV_device_generated_commands",
                    "EXT_depth_bias_control", "EXT_private_data", "QCOM_queue_perf_hint"})
    \cup Each("own", {"EXT_acquire_drm_display"})

Gpa_NV_cuda_kernel_launch ==
    Each("always", {"NV_cuda_kernel_launch", "QCOM_tile_shading", "EXT_metal_objects",
                    "EXT_descriptor_buffer", "NV_fragment_shading_rate_enums",
                    "EXT_device_fault", "NV_acquire_winrt_display",
                    "EXT_vertex_input_dynamic_state"})

Gpa_FUCHSIA_external_memory ==
    Each("always", {"FUCHSIA_external_memory", "FUCHSIA_external_semaphore",
                    "FUCHSIA_buffer_collection", "HUAWEI_subpass_shading",
                    "HUAWEI_invocation_mask", "NV_external_memory_rdma",
                    "EXT_pipeline_properties", "EXT_extended_dynamic_state2",
                    "EXT_color_write_enable", "EXT_multi_draw"})

Gpa_EXT_opacity_micromap ==
    Each("always", {"EXT_opacity_micromap", "HUAWEI_cluster_culling_shader",
                    "EXT_pageable_device_local_memory", "ARM_scheduling_controls",
                    "VALVE_descriptor_set_host_mapping", "NV_copy_memory_indirect",
                    "NV_memory_decompression", "NV_device_generated_commands_compute",
                    "OHOS_external_memory"})

Gpa_EXT_extended_dynamic_state3 ==
    Each("always", {"EXT_extended_dynamic_state3"})

Gpa_ARM_tensors ==
    Each("always", {"ARM_tensors", "EXT_shader_module_identifier", "NV_optical_flow",
                    "AMD_anti_lag", "EXT_shader_object", "QCOM_tile_properties",
                    "NV_cooperative_vector"})

Gpa_NV_low_latency2 ==
    Each("always", {"NV_low_latency2", "ARM_data_graph",
                    "ARM_data_graph_instruction_set_tosa",
                    "EXT_attachment_feedback_loop_dynamic_state",
                    "QNX_external_memory_screen_buffer", "QCOM_tile_memory_heap",
                    "EXT_memory_decompression", "NV_external_compute_queue",
                    "NV_cluster_acceleration_structure",
                    "NV_partitioned_acceleration_structure"})

Gpa_EXT_device_generated_commands ==
    Each("always", {"EXT_device_generated_commands", "NV_cooperative_matrix2",
                    "EXT_external_memory_metal", "ARM_performance_counters_by_region",
                    "ARM_shader_instrumentation", "EXT_fragment_density_map_offset",
                    "EXT_custom_resolve", "ARM_data_graph_optical_flow",
                    "NV_compute_occupancy_priority"})

Gpa_EXT_primitive_restart_index ==
    Each("always", {"EXT_primitive_restart_index", "KHR_acceleration_structure",
                    "KHR_ray_tracing_pipeline", "EXT_mesh_shader"})

ExtensionGpa ==
    Gpa_KHR_video_queue \cup Gpa_KHR_external_memory_win32 \cup
        Gpa_KHR_performance_query \cup Gpa_KHR_pipeline_executable_properties \cup
        Gpa_KHR_device_address_commands \cup Gpa_KHR_maintenance5 \cup
        Gpa_EXT_transform_feedback \cup Gpa_EXT_display_control \cup Gpa_AMD_gpa_interface
        \cup Gpa_EXT_image_drm_format_modifier \cup Gpa_NV_device_diagnostic_checkpoints
        \cup Gpa_EXT_extended_dynamic_state \cup Gpa_NV_cuda_kernel_launch \cup
        Gpa_FUCHSIA_external_memory \cup Gpa_EXT_opacity_micromap \cup
        Gpa_EXT_extended_dynamic_state3 \cup Gpa_ARM_tensors \cup Gpa_NV_low_latency2 \cup
        Gpa_EXT_device_generated_commands \cup Gpa_EXT_primitive_restart_index

==============================================================================
