------------------------- MODULE CommandTrampolines --------------------------
EXTENDS CommandTables
(***************************************************************************)
(* The generated trampolines and terminators of the extensions, in the       *)
(* order of generated/vk_loader_extensions.c.  A trampoline finds the        *)
(* dispatch table through its first argument and calls the command's slot    *)
(* without looking whether it is empty: <<class of that handle, group>>.     *)
(* One that takes a physical device hands on the next layer's handle for     *)
(* it, and has a terminator, which hands on the driver's handle, and where   *)
(* the driver lacks the function stops the program or returns an error:      *)
(* <<"else_abort", group>>, <<"else_refuse", group>>.                        *)
(***************************************************************************)

Trampolines_KHR_video_queue ==
    Each("physical", {"KHR_video_queue"})
    \cup Each("else_abort", {"KHR_video_queue"})
    \cup Each("device", {"KHR_video_queue"})
    \cup Each("command_buffer", {"KHR_video_queue"})

Trampolines_KHR_video_decode_queue ==
    Each("device", {"KHR_device_group", "KHR_maintenance1", "KHR_external_memory_win32"})
    \cup Each("command_buffer", {"KHR_video_decode_queue", "KHR_dynamic_rendering",
                                 "KHR_device_group"})

Trampolines_KHR_external_memory_fd ==
    Each("device", {"KHR_external_memory_fd", "KHR_external_semaphore_win32",
                    "KHR_external_semaphore_fd"})
    \cup Each("command_buffer", {"KHR_push_descriptor"})

Trampolines_KHR_descriptor_update_template ==
    Each("device", {"KHR_descriptor_update_template", "KHR_create_renderpass2",
                    "KHR_shared_presentable_image"})
    \cup Each("command_buffer", {"KHR_create_renderpass2"})

Trampolines_KHR_external_fence_win32 ==
    Each("device", {"KHR_external_fence_win32", "KHR_external_fence_fd"})

Trampolines_KHR_performance_query ==
    Each("physical", {"KHR_performance_query"})
    \cup Each("else_abort", {"KHR_performance_query"})
    \cup Each("device", {"KHR_performance_query", "KHR_get_memory_requirements2"})

Trampolines_KHR_sampler_ycbcr_conversion ==
    Each("device", {"KHR_sampler_ycbcr_conversion", "KHR_bind_memory2", "KHR_maintenance3"})
    \cup Each("command_buffer", {"KHR_draw_indirect_count"})

Trampolines_KHR_timeline_semaphore ==
    Each("physical", {"KHR_fragment_shading_rate"})
    \cup Each("else_abort", {"KHR_fragment_shading_rate"})
    \cup Each("device", {"KHR_timeline_semaphore", "KHR_present_wait"})
    \cup Each("command_buffer", {"KHR_fragment_shading_rate",
                                 "KHR_dynamic_rendering_local_read"})

Trampolines_KHR_buffer_device_address ==
    Each("device", {"KHR_buffer_device_address", "KHR_deferred_host_operations"})

Trampolines_KHR_pipeline_executable_properties ==
    Each("physical", {"KHR_video_encode_queue"})
    \cup Each("else_abort", {"KHR_video_encode_queue"})
    \cup Each("device", {"KHR_pipeline_executable_properties", "KHR_map_memory2",
                         "KHR_video_encode_queue"})
    \cup Each("command_buffer", {"KHR_video_encode_queue"})

Trampolines_KHR_synchronization2 ==
    Each("command_buffer", {"KHR_synchronization2"})
    \cup Each("queue", {"KHR_synchronization2"})

Trampolines_KHR_device_address_commands ==
    Each("device", {"KHR_device_address_commands"})
    \cup Each("command_buffer", {"KHR_device_address_commands"})

Trampolines_KHR_copy_commands2 ==
    Each("device", {"KHR_maintenance4"})
    \cup Each("command_buffer", {"KHR_copy_commands2", "KHR_ray_tracing_maintenance1"})

Trampolines_KHR_maintenance5 ==
    Each("device", {"KHR_maintenance5", "KHR_present_wait2"})
    \cup Each("command_buffer", {"KHR_maintenance5"})

Trampolines_KHR_pipeline_binary ==
    Each("physical", {"KHR_cooperative_matrix"})
    \cup Each("else_abort", {"KHR_cooperative_matrix"})
    \cup Each("device", {"KHR_pipeline_binary", "KHR_swapchain_maintenance1"})
    \cup Each("command_buffer", {"KHR_line_rasterization"})

Trampolines_KHR_calibrated_timestamps ==
    Each("physical", {"KHR_calibrated_timestamps"})
    \cup Each("else_abort", {"KHR_calibrated_timestamps"})
    \cup Each("device", {"KHR_calibrated_timestamps"})
    \cup Each("command_buffer", {"KHR_maintenance6"})

Trampolines_KHR_copy_memory_indirect ==
    Each("device", {"KHR_device_fault"})
    \cup Each("command_buffer", {"KHR_copy_memory_indirect", "KHR_maintenance10"})

Trampolines_EXT_debug_marker ==
    Each("command_buffer", {"EXT_debug_marker", "EXT_transform_feedback"})

Trampolines_NVX_binary_import ==
    Each("device", {"NVX_binary_import", "NVX_image_view_handle"})
    \cup Each("command_buffer", {"NVX_binary_import"})

Trampolines_AMD_draw_indirect_count ==
    Each("device", {"AMD_shader_info", "NV_external_memory_win32"})
    \cup Each("command_buffer", {"AMD_draw_indirect_count", "EXT_conditional_rendering",
                                 "NV_clip_space_w_scaling"})

Trampolines_EXT_display_control ==
    Each("device", {"EXT_display_control", "GOOGLE_display_timing"})
    \cup Each("command_buffer", {"EXT_discard_rectangles"})

Trampolines_EXT_hdr_metadata ==
    Each("device", {"EXT_hdr_metadata"})

Trampolines_ANDROID_external_memory_android_hardware_buffer ==
    Each("device", {"ANDROID_external_memory_android_hardware_buffer"})

Trampolines_AMD_gpa_interface ==
    Each("device", {"AMD_gpa_interface"})
    \cup Each("command_buffer", {"AMD_gpa_interface"})

Trampolines_AMDX_shader_enqueue ==
    Each("device", {"AMDX_shader_enqueue"})
    \cup Each("command_buffer", {"AMDX_shader_enqueue"})

Trampolines_EXT_descriptor_heap ==
    Each("physical", {"EXT_descriptor_heap"})
    \cup Each("else_abort", {"EXT_descriptor_heap"})
    \cup Each("device", {"EXT_descriptor_heap"})
    \cup Each("command_buffer", {"EXT_descriptor_heap"})

Trampolines_EXT_sample_locations ==
    Each("physical", {"EXT_sample_locations"})
    \cup Each("else_abort", {"EXT_sample_locations"})
    \cup Each("device", {"EXT_image_drm_format_modifier", "EXT_validation_cache"})
    \cup Each("command_buffer", {"EXT_sample_locations"})

Trampolines_NV_shading_rate_image ==
    Each("command_buffer", {"NV_shading_rate_image"})

Trampolines_NV_ray_tracing ==
    Each("device", {"NV_ray_tracing"})
    \cup Each("command_buffer", {"NV_ray_tracing"})

Trampolines_KHR_ray_tracing_pipeline ==
    Each("device", {"KHR_ray_tracing_pipeline", "NV_ray_tracing",
                    "EXT_external_memory_host"})
    \cup Each("command_buffer", {"NV_ray_tracing", "AMD_buffer_marker"})

Trampolines_EXT_calibrated_timestamps ==
    Each("physical", {"EXT_calibrated_timestamps"})
    \cup Each("else_abort", {"EXT_calibrated_timestamps"})
    \cup Each("device", {"EXT_calibrated_timestamps"})
    \cup Each("command_buffer", {"NV_mesh_shader", "NV_scissor_exclusive"})

Trampolines_NV_device_diagnostic_checkpoints ==
    Each("device", {"EXT_present_timing"})
    \cup Each("command_buffer", {"NV_device_diagnostic_checkpoints"})
    \cup Each("queue", {"NV_device_diagnostic_checkpoints"})

Trampolines_INTEL_performance_query ==
    Each("device", {"INTEL_performance_query", "AMD_display_native_hdr"})
    \cup Each("command_buffer", {"INTEL_performance_query"})
    \cup Each("queue", {"INTEL_performance_query"})

Trampolines_EXT_buffer_device_address ==
    Each("physical", {"NV_cooperative_matrix", "NV_coverage_reduction_mode"})
    \cup Each("else_abort", {"NV_cooperative_matrix", "NV_coverage_reduction_mode"})
    \cup Each("device", {"EXT_buffer_device_address", "EXT_full_screen_exclusive",
                         "EXT_host_query_reset"})
    \cup Each("command_buffer", {"EXT_line_rasterization"})

Trampolines_EXT_extended_dynamic_state ==
    Each("command_buffer", {"EXT_extended_dynamic_state"})

Trampolines_EXT_host_image_copy ==
    Each("device", {"EXT_host_image_copy", "EXT_swapchain_maintenance1"})

Trampolines_NV_device_generated_commands ==
    Each("device", {"NV_device_generated_commands"})
    \cup Each("command_buffer", {"NV_device_generated_commands", "EXT_depth_bias_control"})

Trampolines_EXT_acquire_drm_display ==
    Each("physical", {"EXT_acquire_drm_display"})
    \cup Each("else_refuse", {"EXT_acquire_drm_display"})
    \cup Each("device", {"EXT_private_data"})
    \cup Each("queue", {"QCOM_queue_perf_hint"})

Trampolines_NV_cuda_kernel_launch ==
    Each("device", {"NV_cuda_kernel_launch"})
    \cup Each("command_buffer", {"NV_cuda_kernel_launch", "QCOM_tile_shading"})

Trampolines_EXT_metal_objects ==
    Each("device", {"EXT_metal_objects"})

Trampolines_EXT_descriptor_buffer ==
    Each("device", {"EXT_descriptor_buffer"})
    \cup Each("command_buffer", {"EXT_descriptor_buffer"})

Trampolines_NV_fragment_shading_rate_enums ==
    Each("physical", {"NV_acquire_winrt_display"})
    \cup Each("else_abort", {"NV_acquire_winrt_display"})
    \cup Each("device", {"EXT_device_fault"})
    \cup Each("command_buffer", {"NV_fragment_shading_rate_enums",
                                 "EXT_vertex_input_dynamic_state"})

Trampolines_FUCHSIA_external_memory ==
    Each("device", {"FUCHSIA_external_memory", "FUCHSIA_external_semaphore"})

Trampolines_FUCHSIA_buffer_collection ==
    Each("device", {"FUCHSIA_buffer_collection", "HUAWEI_subpass_shading",
                    "NV_external_memory_rdma"})
    \cup Each("command_buffer", {"HUAWEI_subpass_shading", "HUAWEI_invocation_mask"})

Trampolines_EXT_pipeline_properties ==
    Each("device", {"EXT_pipeline_properties"})
    \cup Each("command_buffer", {"EXT_extended_dynamic_state2", "EXT_color_write_enable",
                                 "EXT_multi_draw"})

Trampolines_EXT_opacity_micromap ==
    Each("device", {"EXT_opacity_micromap"})
    \cup Each("command_buffer", {"EXT_opacity_micromap"})

Trampolines_HUAWEI_cluster_culling_shader ==
    Each("device", {"EXT_pageable_device_local_memory",
                    "VALVE_descriptor_set_host_mapping"})
    \cup Each("command_buffer", {"HUAWEI_cluster_culling_shader", "ARM_scheduling_controls",
                                 "NV_copy_memory_indirect"})

Trampolines_NV_memory_decompression ==
    Each("device", {"NV_device_generated_commands_compute", "OHOS_external_memory"})
    \cup Each("command_buffer", {"NV_memory_decompression",
                                 "NV_device_generated_commands_compute"})

Trampolines_EXT_extended_dynamic_state3 ==
    Each("command_buffer", {"EXT_extended_dynamic_state3"})

Trampolines_ARM_tensors ==
    Each("physical", {"ARM_tensors"})
    \cup Each("else_abort", {"ARM_tensors"})
    \cup Each("device", {"ARM_tensors"})
    \cup Each("command_buffer", {"ARM_tensors"})

Trampolines_EXT_shader_module_identifier ==
    Each("physical", {"NV_optical_flow"})
    \cup Each("else_abort", {"NV_optical_flow"})
    \cup Each("device", {"EXT_shader_module_identifier", "NV_optical_flow", "AMD_anti_lag"})
    \cup Each("command_buffer", {"NV_optical_flow"})

Trampolines_EXT_shader_object ==
    Each("device", {"EXT_shader_object", "QCOM_tile_properties"})
    \cup Each("command_buffer", {"EXT_shader_object"})

Trampolines_NV_cooperative_vector ==
    Each("physical", {"NV_cooperative_vector"})
    \cup Each("else_abort", {"NV_cooperative_vector"})
    \cup Each("device", {"NV_cooperative_vector", "NV_low_latency2"})
    \cup Each("command_buffer", {"NV_cooperative_vector"})
    \cup Each("queue", {"NV_low_latency2"})

Trampolines_ARM_data_graph ==
    Each("physical", {"ARM_data_graph"})
    \cup Each("else_abort", {"ARM_data_graph"})
    \cup Each("device", {"ARM_data_graph"})
    \cup Each("command_buffer", {"ARM_data_graph"})

Trampolines_ARM_data_graph_instruction_set_tosa ==
    Each("physical", {"ARM_data_graph_instruction_set_tosa"})
    \cup Each("else_abort", {"ARM_data_graph_instruction_set_tosa"})
    \cup Each("device", {"QNX_external_memory_screen_buffer"})
    \cup Each("command_buffer", {"EXT_attachment_feedback_loop_dynamic_state",
                                 "QCOM_tile_memory_heap", "EXT_memory_decompression"})

Trampolines_NV_external_compute_queue ==
    Each("device", {"NV_external_compute_queue", "NV_cluster_acceleration_structure",
                    "NV_partitioned_acceleration_structure"})
    \cup Each("command_buffer", {"NV_cluster_acceleration_structure",
                                 "NV_partitioned_acceleration_structure"})
    \cup Each("external_compute_queue", {"NV_external_compute_queue"})

Trampolines_EXT_device_generated_commands ==
    Each("device", {"EXT_device_generated_commands"})
    \cup Each("command_buffer", {"EXT_device_generated_commands"})

Trampolines_NV_cooperative_matrix2 ==
    Each("physical", {"NV_cooperative_matrix2", "ARM_performance_counters_by_region"})
    \cup Each("else_abort", {"NV_cooperative_matrix2",
                             "ARM_performance_counters_by_region"})
    \cup Each("device", {"EXT_external_memory_metal"})

Trampolines_ARM_shader_instrumentation ==
    Each("physical", {"ARM_shader_instrumentation"})
    \cup Each("else_abort", {"ARM_shader_instrumentation"})
    \cup Each("device", {"ARM_shader_instrumentation"})
    \cup Each("command_buffer", {"ARM_shader_instrumentation",
                                 "EXT_fragment_density_map_offset", "EXT_custom_resolve"})

Trampolines_ARM_data_graph_optical_flow ==
    Each("physical", {"ARM_data_graph_optical_flow"})
    \cup Each("else_abort", {"ARM_data_graph_optical_flow"})
    \cup Each("command_buffer", {"NV_compute_occupancy_priority"})

Trampolines_EXT_primitive_restart_index ==
    Each("command_buffer", {"EXT_primitive_restart_index"})

Trampolines_KHR_acceleration_structure ==
    Each("device", {"KHR_acceleration_structure"})
    \cup Each("command_buffer", {"KHR_acceleration_structure"})

Trampolines_KHR_ray_tracing_pipeline_2 ==
    Each("device", {"KHR_ray_tracing_pipeline"})
    \cup Each("command_buffer", {"KHR_ray_tracing_pipeline"})

Trampolines_EXT_mesh_shader ==
    Each("command_buffer", {"EXT_mesh_shader"})

ExtensionTrampolines ==
    Trampolines_KHR_video_queue \cup Trampolines_KHR_video_decode_queue \cup
        Trampolines_KHR_external_memory_fd \cup Trampolines_KHR_descriptor_update_template \cup
        Trampolines_KHR_external_fence_win32 \cup Trampolines_KHR_performance_query \cup
        Trampolines_KHR_sampler_ycbcr_conversion \cup Trampolines_KHR_timeline_semaphore \cup
        Trampolines_KHR_buffer_device_address \cup
        Trampolines_KHR_pipeline_executable_properties \cup Trampolines_KHR_synchronization2
        \cup Trampolines_KHR_device_address_commands \cup Trampolines_KHR_copy_commands2 \cup
        Trampolines_KHR_maintenance5 \cup Trampolines_KHR_pipeline_binary \cup
        Trampolines_KHR_calibrated_timestamps \cup Trampolines_KHR_copy_memory_indirect \cup
        Trampolines_EXT_debug_marker \cup Trampolines_NVX_binary_import \cup
        Trampolines_AMD_draw_indirect_count \cup Trampolines_EXT_display_control \cup
        Trampolines_EXT_hdr_metadata \cup
        Trampolines_ANDROID_external_memory_android_hardware_buffer \cup
        Trampolines_AMD_gpa_interface \cup Trampolines_AMDX_shader_enqueue \cup
        Trampolines_EXT_descriptor_heap \cup Trampolines_EXT_sample_locations \cup
        Trampolines_NV_shading_rate_image \cup Trampolines_NV_ray_tracing \cup
        Trampolines_KHR_ray_tracing_pipeline \cup Trampolines_EXT_calibrated_timestamps \cup
        Trampolines_NV_device_diagnostic_checkpoints \cup Trampolines_INTEL_performance_query
        \cup Trampolines_EXT_buffer_device_address \cup Trampolines_EXT_extended_dynamic_state
        \cup Trampolines_EXT_host_image_copy \cup Trampolines_NV_device_generated_commands \cup
        Trampolines_EXT_acquire_drm_display \cup Trampolines_NV_cuda_kernel_launch \cup
        Trampolines_EXT_metal_objects \cup Trampolines_EXT_descriptor_buffer \cup
        Trampolines_NV_fragment_shading_rate_enums \cup Trampolines_FUCHSIA_external_memory \cup
        Trampolines_FUCHSIA_buffer_collection \cup Trampolines_EXT_pipeline_properties \cup
        Trampolines_EXT_opacity_micromap \cup Trampolines_HUAWEI_cluster_culling_shader \cup
        Trampolines_NV_memory_decompression \cup Trampolines_EXT_extended_dynamic_state3 \cup
        Trampolines_ARM_tensors \cup Trampolines_EXT_shader_module_identifier \cup
        Trampolines_EXT_shader_object \cup Trampolines_NV_cooperative_vector \cup
        Trampolines_ARM_data_graph \cup Trampolines_ARM_data_graph_instruction_set_tosa \cup
        Trampolines_NV_external_compute_queue \cup Trampolines_EXT_device_generated_commands
        \cup Trampolines_NV_cooperative_matrix2 \cup Trampolines_ARM_shader_instrumentation \cup
        Trampolines_ARM_data_graph_optical_flow \cup Trampolines_EXT_primitive_restart_index
        \cup Trampolines_KHR_acceleration_structure \cup Trampolines_KHR_ray_tracing_pipeline_2
        \cup Trampolines_EXT_mesh_shader

==============================================================================
