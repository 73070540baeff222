--------------------------- MODULE LayerManifests ---------------------------
(***************************************************************************)
(* What the loader makes of a layer manifest (loader.c 2777-3306).  A      *)
(* manifest's layer object is a record: `has' is the set of the keys that  *)
(* decide whether it is accepted, the other fields are the values.  JSON   *)
(* text, descriptions and warnings are left out; reading a file that is    *)
(* not JSON is `json = FALSE'.                                             *)
(***************************************************************************)
EXTENDS Naturals, Sequences, SequencesExt

CONSTANT OverrideName   \* VK_OVERRIDE_LAYER_NAME

\* loader_layer_properties, as far as activation looks at it.  `lib' says what
\* opening the library gives: "good", "instance" (no vkGetDeviceProcAddr),
\* "mute" (no vkGetInstanceProcAddr), "bad" (does not load), and "none" when
\* lib_name is NULL.  `control' is settings_control_value.
BlankProperties ==
  [name |-> <<>>, explicit |-> FALSE, meta |-> FALSE, components |-> <<>>, blacklist |-> {},
   paths |-> FALSE, keys |-> <<>>, version |-> 0, enable |-> "always", disable |-> FALSE,
   lib |-> "none", control |-> "auto", exts |-> {}, dexts |-> {}]

\* The version of a layer is one number here: loader_check_version_meets_required
\* compares major, minor and patch in this order.
VersionMeetsRequired(required, version) == version >= required

\* loader_read_layer_json, up to the first key whose absence ends it.  The two
\* returns for a missing api_version and implementation_version leave result as the
\* parse of the name set it, which is VK_SUCCESS.
ReadRequired(m, is_implicit) ==
  LET named == [BlankProperties EXCEPT !.name = m.name]
      typed == [named EXCEPT !.explicit = ~is_implicit]
      versioned == [typed EXCEPT !.version = m.version]
  IN IF "name" \notin m.has \/ "type" \notin m.has \/ m.type # "INSTANCE" THEN [result |-> "failed"]
     ELSE IF "api_version" \notin m.has THEN [result |-> "success", props |-> typed]
     ELSE IF m.variant # 0 THEN [result |-> "failed"]
     ELSE IF "implementation_version" \notin m.has THEN [result |-> "success", props |-> versioned]
     ELSE IF "description" \notin m.has THEN [result |-> "failed"]
     ELSE [result |-> "complete", props |-> versioned]

\* library_path or component_layers, and not both: a layer or a meta-layer.
ReadLibrary(m, props) ==
  IF "library_path" \in m.has
    THEN IF "component_layers" \in m.has THEN [result |-> "failed"]
         ELSE [result |-> "complete", props |-> [props EXCEPT !.lib = m.lib]]
    ELSE IF "component_layers" \notin m.has THEN [result |-> "failed"]
         ELSE [result |-> "complete",
               props |-> [props EXCEPT !.meta = TRUE, !.components = m.components]]

\* blacklisted_layers, override_paths and disable_environment.
ReadPolicy(m, is_implicit, props) ==
  IF is_implicit /\ "disable_environment" \notin m.has THEN [result |-> "failed"]
  ELSE [result |-> "complete",
        props |-> [props EXCEPT !.blacklist = IF m.name = OverrideName THEN m.blacklist ELSE {},
                                !.paths = m.paths,
                                !.disable = is_implicit /\ m.disable]]

\* The names of functions, and instance_extensions and device_extensions.
ReadExtensions(m, props) == [props EXCEPT !.exts = m.exts, !.dexts = m.dexts]

\* enable_environment, pre_instance_functions, app_keys and library_arch.
ReadTail(m, is_implicit, props) ==
  IF m.arch # "this" THEN [result |-> "failed"]
  ELSE [result |-> "success",
        props |-> [props EXCEPT !.keys = m.keys,
                                !.enable = IF is_implicit THEN m.enable ELSE "always"]]

\* A part of loader_read_layer_json that is only reached when the parts before it are complete.
AndThen(read, Part(_)) == IF read.result = "complete" THEN Part(read.props) ELSE read

\* loader_read_layer_json: the properties appended to the list, or none.
ReadLayerJson(m, is_implicit) ==
  LET library(props) == ReadLibrary(m, props)
      policy(props) == ReadPolicy(m, is_implicit, props)
      tail(props) == ReadTail(m, is_implicit, ReadExtensions(m, props))
      read == AndThen(AndThen(AndThen(ReadRequired(m, is_implicit), library), policy), tail)
  IN IF read.result = "success" THEN <<read.props>> ELSE <<>>

\* loader_add_layer_properties: every layer object of a file, in order.  Several objects
\* with the key "layer" are ignored in files newer than 1.0.0 (`several').
AddLayerProperties(file, is_implicit) ==
  IF ~file.json \/ ~file.has_version \/ file.several THEN <<>>
  ELSE FlattenSeq([i \in DOMAIN file.layers |-> ReadLayerJson(file.layers[i], is_implicit)])

\* loader_parse_instance_layers: every file that can be read, in the order in which the
\* search found them.
ParseInstanceLayers(files, is_implicit) ==
  FlattenSeq([i \in DOMAIN files |-> AddLayerProperties(files[i], is_implicit)])
=============================================================================
