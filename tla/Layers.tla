------------------------------- MODULE Layers -------------------------------
(***************************************************************************)
(* Layers from the files and the environment to the call chain.  `input'   *)
(* is everything outside the loader that decides it, and does not change:  *)
(*   implicit, explicit   manifest files in the order of the search path   *)
(*   overridden           the explicit manifests in an override path       *)
(*   enable, disable, allow   tokens of VK_LOADER_LAYERS_*                 *)
(*   instance_layers      the names in VK_INSTANCE_LAYERS                  *)
(*   settings             the settings file's layer configurations         *)
(*   drivers, filter      the drivers' extensions, and whether those that  *)
(*                        the loader does not know are held back           *)
(*   program              whether the program exports vkGetInstanceProcAddr *)
(*                                                                         *)
(* An application asks for the extensions of implicit layers without an    *)
(* instance, creates an instance with some layers, creates devices, and    *)
(* destroys the instance.  Allocation failures on this way are part of     *)
(* module Instances.                                                       *)
(***************************************************************************)
EXTENDS Extensions

CONSTANTS Inputs,     \* the inputs under study
          Requests    \* the lists of names an application may ask for

VARIABLES
  input,
  stage,        \* "none", "instance", "device", or "crashed"
  result,       \* of the latest vkCreateInstance
  app,          \* ppEnabledLayerNames of the latest vkCreateInstance
  available,    \* inst->instance_layer_list
  override,     \* inst->override_layer_present
  activated,    \* target, expanded and overflow, as in LayerActivation
  chain,        \* names, from the driver's side to the application's
  device_chain,
  offering,     \* layers whose extensions were reported without an instance
  reported,     \* the extensions reported without an instance
  requested     \* ppEnabledExtensionNames of the latest vkCreateInstance

vars == <<input, stage, result, app, available, override, activated, chain, device_chain, offering, reported, requested>>

Init ==
  /\ input \in Inputs
  /\ stage = "none"
  /\ result = "none"
  /\ app = <<>>
  /\ available = <<>>
  /\ override = FALSE
  /\ activated = NothingAdded
  /\ chain = <<>>
  /\ device_chain = <<>>
  /\ offering = {}
  /\ reported = {}
  /\ requested = {}

Filters == ParseLayerFilters(input.enable, input.disable, input.allow)

\* The explicit manifests: the override layer's directories replace the search path.
ExplicitFiles(paths) == IF paths THEN input.overridden ELSE input.explicit

\* The implicit layers, and whether an enabled override layer has directories of its own.
ImplicitFound == RemoveNonValidOverrides(ParseInstanceLayers(input.implicit, TRUE))
HasPaths(implicit, filters) ==
  \E i \in DOMAIN implicit : /\ implicit[i].name = OverrideName /\ implicit[i].paths
                             /\ ImplicitIsEnabled(implicit[i], filters, {})

\* The explicit layers behind the implicit ones, as far as their meta-layers are valid.
VerifiedLayers(implicit, filters) ==
  VerifyAllMeta(implicit \o ParseInstanceLayers(ExplicitFiles(HasPaths(implicit, filters)), FALSE), filters)

\* What the blacklist and the filters leave, each name once.
WantedLayers(verified, filters) ==
  LET allowed == IF verified.overridden THEN RemoveBlacklisted(verified.list) ELSE verified.list
  IN RemoveDuplicates(SelectSeq(allowed, LAMBDA p : LayerIsAvailable(p, filters)))

\* The layers of the settings file and, when it leaves a place for them, the others.
JoinLayers(settings, verified, filters) ==
  IF ~settings.search THEN [list |-> settings.list, override |-> FALSE]
  ELSE [list |-> CombineSettings(settings.list, WantedLayers(verified, filters)),
        override |-> verified.overridden]

\* loader_scan_for_layers.
ScanForLayers ==
  JoinLayers(GetSettingsLayers(input.settings), VerifiedLayers(ImplicitFound, Filters), Filters)

\* In loader_scan_for_implicit_layers: the explicit layers are only looked at when an override
\* layer or another implicit meta-layer may need them, and are removed again unless one of the
\* meta-layers has them.  An override layer counts for the second only if it is valid.
EnabledOverride(implicit, filters) ==
  \E i \in DOMAIN implicit : implicit[i].name = OverrideName /\ ImplicitIsEnabled(implicit[i], filters, {})
ImplicitMeta(implicit) == \E i \in DOMAIN implicit : implicit[i].name # OverrideName /\ implicit[i].meta
ImplicitVerified(implicit, filters) ==
  IF EnabledOverride(implicit, filters) \/ ImplicitMeta(implicit) THEN VerifiedLayers(implicit, filters)
  ELSE VerifyAllMeta(implicit, filters)
ImplicitWanted(verified, meta) ==
  IF meta \/ verified.overridden THEN RemoveNotInMeta(verified.list) ELSE verified.list
ImplicitLayersFound(implicit, filters) ==
  ImplicitWanted(ImplicitVerified(implicit, filters), ImplicitMeta(implicit))

\* Faulty variant: the layers that are not enabled stay in the list.
JoinImplicitLayersAll(settings, wanted, filters) ==
  LET enabled(p) == ImplicitIsEnabled(p, filters, {})
      kept == SelectSeq(settings.list, LAMBDA p : p.control \in {"on", "auto"} /\ ~p.explicit /\ enabled(p))
  IN IF ~settings.search THEN kept
     ELSE CombineSettings(kept, RemoveDuplicates(wanted))

\* The end of loader_scan_for_implicit_layers.
JoinImplicitLayers(settings, wanted, filters) ==
  LET enabled(p) == ImplicitIsEnabled(p, filters, {})
      kept == SelectSeq(settings.list, LAMBDA p : p.control \in {"on", "auto"} /\ ~p.explicit /\ enabled(p))
  IN IF ~settings.search THEN kept
     ELSE CombineSettings(kept, RemoveDuplicates(SelectSeq(wanted, enabled)))

\* loader_scan_for_implicit_layers, which is only called without an instance.
ScanForImplicitLayers ==
  JoinImplicitLayers(GetSettingsLayers(input.settings), ImplicitLayersFound(ImplicitFound, Filters), Filters)

\* terminator_EnumerateInstanceExtensionProperties without a layer's name: the drivers'
\* extensions and the loader's, and those of the enabled implicit layers.
EnumerateInstanceExtensionProperties ==
  /\ stage = "none"
  /\ LoaderInstanceExtensions(input.drivers, input.filter).ok
  /\ offering' = ToSet(ScanForImplicitLayers)
  /\ reported' = LoaderInstanceExtensions(input.drivers, input.filter).exts
                   \cup UNION {p.exts : p \in offering'}
  /\ UNCHANGED <<input, stage, result, app, available, override, activated, chain, device_chain, requested>>

NamesOf(source, list) == [k \in DOMAIN list |-> source[list[k]].name]

\* The components of an active override layer, which are enabled with it.
Included(scan) ==
  LET o == FindLayer(OverrideName, scan.list)
  IN IF scan.override /\ o # 0 THEN ToSet(scan.list[o].components) ELSE {}

\* The checks of vkCreateInstance, in their order.  The layers to activate are collected for the
\* check of the extensions first: recursion over meta-layers without an end ends the program there.
Outcome(names, exts, list, enabled, links, loaders) ==
  IF ~ValidateLayers(list, input.settings.active, names) THEN "VK_ERROR_LAYER_NOT_PRESENT"
  ELSE IF input.drivers = <<>> THEN "VK_ERROR_INCOMPATIBLE_DRIVER"
  ELSE IF ~loaders.ok THEN "VK_ERROR_INITIALIZATION_FAILED"
  ELSE IF enabled.overflow THEN "stack_overflow"
  ELSE IF ~ValidateInstanceExtensions(exts, loaders.exts, list, enabled.expanded, input.filter)
    THEN "VK_ERROR_EXTENSION_NOT_PRESENT"
  ELSE IF ~ChainComplete(list, enabled.expanded, links, names) THEN "VK_ERROR_LAYER_NOT_PRESENT"
  ELSE "VK_SUCCESS"

\* The rest of vkCreateInstance, once the layers to activate and their chain are known.
InstanceCreated(names, exts, scan, enabled, links) ==
  /\ result' = Outcome(names, exts, scan.list, enabled, links,
                       LoaderInstanceExtensions(input.drivers, input.filter))
  /\ CASE result' = "VK_SUCCESS" ->
            /\ stage' = "instance"
            /\ available' = scan.list
            /\ override' = scan.override
            /\ activated' = enabled
            /\ chain' = NamesOf(scan.list, links)
       [] result' = "stack_overflow" ->
            /\ stage' = "crashed"
            /\ available' = scan.list
            /\ override' = scan.override
            /\ activated' = enabled
            /\ UNCHANGED chain
       [] OTHER -> UNCHANGED <<stage, available, override, activated, chain>>

LinkLayers(names, exts, scan, enabled) ==
  InstanceCreated(names, exts, scan, enabled, InstanceChain(scan.list, enabled.expanded, input.program))

EnableLayers(names, exts, scan) ==
  LinkLayers(names, exts, scan,
             EnableInstanceLayers(scan.list, Filters, Included(scan), input.settings.active,
                                  input.instance_layers, names))

\* vkCreateInstance, from parse_layer_environment_var_filters to the end of the chain.
CreateInstance(names, exts) ==
  /\ stage = "none"
  /\ app' = names
  /\ requested' = exts
  /\ EnableLayers(names, exts, ScanForLayers)
  /\ UNCHANGED <<input, device_chain, offering, reported>>

\* vkCreateDevice: the device's chain.
CreateDevice ==
  /\ stage = "instance"
  /\ stage' = "device"
  /\ device_chain' = NamesOf(available, DeviceChain(available, activated.expanded, input.program))
  /\ UNCHANGED <<input, result, app, available, override, activated, chain, offering, reported, requested>>

\* vkDestroyInstance, after vkDestroyDevice.
DestroyInstance ==
  /\ stage \in {"instance", "device"}
  /\ stage' = "none"
  /\ result' = "none"
  /\ app' = <<>>
  /\ requested' = {}
  /\ available' = <<>>
  /\ override' = FALSE
  /\ activated' = NothingAdded
  /\ chain' = <<>>
  /\ device_chain' = <<>>
  /\ UNCHANGED <<input, offering, reported>>

Next ==
  \/ EnumerateInstanceExtensionProperties
  \/ \E names \in Requests : CreateInstance(names, reported)
  \/ CreateDevice
  \/ DestroyInstance
  \/ stage = "crashed" /\ UNCHANGED vars

Spec == Init /\ [][Next]_vars

-----------------------------------------------------------------------------
(***************************************************************************)
(* Properties.                                                             *)
(***************************************************************************)

\* There is an instance.
Created == stage \in {"instance", "device"}

\* Every index in a list of activated layers is a layer of the instance, and only a
\* successful vkCreateInstance leaves one behind.
TypeOK ==
  /\ stage \in {"none", "instance", "device", "crashed"}
  /\ result \in {"none", "VK_SUCCESS", "VK_ERROR_LAYER_NOT_PRESENT", "VK_ERROR_EXTENSION_NOT_PRESENT",
                 "VK_ERROR_INITIALIZATION_FAILED", "VK_ERROR_INCOMPATIBLE_DRIVER", "stack_overflow"}
  /\ Created => result = "VK_SUCCESS" /\ ~activated.overflow
  /\ ToSet(activated.target) \cup ToSet(activated.expanded) \subseteq DOMAIN available
  /\ ToSet(chain) \subseteq {available[i].name : i \in DOMAIN available}

Props(name) == available[FindLayer(name, available)]

\* The group of a layer: enabled implicit layers that VK_INSTANCE_LAYERS does not name, then the
\* environment's, then those the application alone asks for.
Group(name) ==
  IF Contains(input.instance_layers, name) THEN 2
  ELSE IF ~Props(name).explicit /\ ImplicitIsEnabled(Props(name), Filters, {}) THEN 1
  ELSE IF Props(name).explicit /\ NameMatchesFilter(name, Filters.enable_filter) THEN 2
  ELSE 3

\* A device's calls pass no layer that the instance's calls do not pass, and in the same order.
DeviceChainWithin ==
  stage = "device" => \E keep \in SUBSET (DOMAIN chain) :
    device_chain = [k \in 1 .. Cardinality(keep) |-> chain[CHOOSE i \in keep :
                       Cardinality({j \in keep : j <= i}) = k]]

\* loader_enable_instance_layers: without a settings file and without meta-layers, the calls
\* of the application pass implicit layers first, then those of the environment, then its own;
\* and the calls of a device pass those of the same layers that it has, in the same order.
ChainsOrdered ==
  /\ TypeOK
  /\ DeviceChainWithin
  /\ (/\ Created /\ ~input.settings.active
      /\ \A i \in DOMAIN available : ~available[i].meta
      /\ \A n \in ToSet(chain) : ~Props(n).explicit =>
           \A k \in DOMAIN input.instance_layers :
             IsSubstring(n, input.instance_layers[k]) => n = input.instance_layers[k])
     => \A i, j \in DOMAIN chain : i < j => Group(chain[i]) >= Group(chain[j])

\* loader_scan_for_layers and everything behind it: without a settings file, a layer that the
\* disable filter names, and no other filter, is in no chain, be it a component of a meta-layer,
\* of the override layer, or named by VK_INSTANCE_LAYERS.
DisabledStaysOut ==
  (Created /\ ~input.settings.active) =>
    \A n \in ToSet(chain) :
      \/ ~NameMatchesFilter(n, Filters.disable_filter.additional_filters)
      \/ NameMatchesFilter(n, Filters.allow_filter)
      \/ NameMatchesFilter(n, Filters.enable_filter)

\* A layer that the active override layer blacklists is in no chain (without a settings file,
\* which has priority).
BlacklistedStaysOut ==
  (Created /\ override /\ ~input.settings.active /\ FindLayer(OverrideName, available) # 0) =>
    ToSet(chain) \cap Props(OverrideName).blacklist = {}

\* A layer that the settings file turns off is in no chain, unless it is a component of a
\* meta-layer.
OffStaysOut ==
  (Created /\ input.settings.active) =>
    \A k \in DOMAIN input.settings.layers :
      LET config == input.settings.layers[k]
      IN (/\ config.control = "off"
          /\ \A j \in DOMAIN input.settings.layers \ {k} : input.settings.layers[j].name # config.name
          /\ \A i \in DOMAIN available : ~Contains(available[i].components, config.name))
           => ~Contains(chain, config.name)

\* Every way to keep a layer out, the disable filter, the override layer's blacklist and the
\* settings file, keeps it out of the chain, by whichever of the ways into it the layer would come.
ExcludedStaysOut == DisabledStaysOut /\ BlacklistedStaysOut /\ OffStaysOut

\* An implicit layer, or a component of an implicit meta-layer, that offers its extensions.
OfferedBy(p) == ~p.explicit \/ \E q \in offering : ~q.explicit /\ q.meta /\ Contains(q.components, p.name)

\* A meta-layer has an implicit layer that is not enabled as a component.
NotEnabledIn(p) ==
  \E q \in ToSet(ImplicitFound) : Contains(p.components, q.name) /\ ~ImplicitIsEnabled(q, Filters, {})

\* vkCreateInstance accepts what vkEnumerateInstanceExtensionProperties reported, as long as the
\* loader knows the extensions and they come from implicit layers or their components: unless the
\* override layer's blacklist, which that call does not look at, has one of them, a filter takes a
\* component of a meta-layer away, a component is an implicit layer that is not enabled, whose
\* extensions are reported as the meta-layer's, a settings file changes the rules, or the name of a
\* layer occurs within VK_INSTANCE_LAYERS.
ReportedIsAccepted ==
  (/\ result = "VK_ERROR_EXTENSION_NOT_PRESENT" /\ ~input.settings.active
   /\ input.filter => requested \subseteq KnownExtensions)
    => \E p \in offering : \/ ~OfferedBy(p)
                           \/ p.name = OverrideName /\ p.blacklist # {}
                           \/ input.disable # <<>> /\ p.meta
                           \/ NotEnabledIn(p)
                           \/ \E k \in DOMAIN input.instance_layers : IsSubstring(p.name, input.instance_layers[k])

\* vkEnumerateDeviceExtensionProperties: the count that one loop makes in a list of its own is what
\* the other loop, in the application's array, needs and uses, whatever the array held before (say
\* the answer to an earlier call).  A shorter array is filled and called incomplete, a longer one is
\* not filled up; and vkCreateDevice accepts every extension that is written.
DeviceExtensionsFit ==
  Created => \A n \in DOMAIN input.drivers :
    LET d == input.drivers[n]
        count == CountDeviceExtensions(d, available, activated.expanded)
        Blank(room) == [k \in 1 .. room |-> "none"]
        Fill(array) == FillDeviceExtensions(d, available, activated.expanded, array)
        answer == Fill(Blank(count)).array
        Used(room) == [k \in 1 .. room |-> IF k <= count THEN answer[count + 1 - k] ELSE "none"]
    IN /\ ValidateDeviceExtensions(ToSet(answer), d, available, activated.expanded)
       /\ \A room \in 0 .. (count + 1) : \A array \in {Blank(room), Used(room)} :
            LET fill == Fill(array)
            IN /\ fill.result = IF room < count THEN "VK_INCOMPLETE" ELSE "VK_SUCCESS"
               /\ fill.count = Min({room, count})
               /\ SubSeq(fill.array, 1, fill.count) = SubSeq(answer, 1, fill.count)

\* The documented meaning of the filters: a layer matches the parsed filters exactly when one of
\* the tokens selects it (for tokens that fit into the list; one of two letters does not end
\* with a star).
FiltersSelect ==
  \A i \in DOMAIN available, f \in {input.enable, input.allow} :
    (/\ Len(f) <= MAX_ADDITIONAL_FILTERS
     /\ \A k \in DOMAIN f : Distinguished(f[k]))
      => (NameMatchesFilter(available[i].name, ParseGenericFilter(f))
            <=> \E k \in DOMAIN f : Selects(f[k], available[i].name))

\* A meta-layer was found, and behind it another layer of its name.
MetaFoundTwice ==
  LET found == ImplicitFound \o ParseInstanceLayers(ExplicitFiles(HasPaths(ImplicitFound, Filters)), FALSE)
  IN \E i, j \in DOMAIN found : i < j /\ found[i].name = found[j].name /\ found[i].meta


\* The components of layer i that are activated with it: of the implicit ones, those that are enabled.
ActiveComponents(i) ==
  LET c == {FindLayer(name, available) : name \in ToSet(available[i].components)} \ {0}
  IN {k \in c : /\ LayerIsAvailable(available[k], Filters)
                /\ \/ available[k].explicit
                   \/ ImplicitIsEnabled(available[k], Filters, Included([list |-> available, override |-> override]))}

\* The layers that a layer stands for: itself and, with each meta-layer, its components.
StandsFor(i) ==
  LET closed == {S \in SUBSET (DOMAIN available) : i \in S /\ \A k \in S : ActiveComponents(k) \subseteq S}
  IN {k \in DOMAIN available : ~available[k].meta /\ \A S \in closed : k \in S}

\* Without a settings file: a layer that the application asked for is in the chain of the instance
\* that it gets, and if it is a meta-layer all the layers are that it stands for, through whatever
\* meta-layers.  Only a component that the application did not name itself may be missing, when it
\* does not open.  If the application gets no instance for a layer's sake, one that it named is
\* not available or does not open.
AskedForIsActive ==
  ~input.settings.active =>
    /\ Created => \A k \in DOMAIN app : \A i \in StandsFor(FindLayer(app[k], available)) :
         \/ Contains(chain, available[i].name)
         \/ ~Opens(available[i], input.program) /\ ~Contains(app, available[i].name)
    /\ result = "VK_ERROR_LAYER_NOT_PRESENT" => \E k \in DOMAIN app :
         LET list == ScanForLayers.list
             i == FindLayer(app[k], list)
         IN i = 0 \/ (i # 0 /\ ~list[i].meta /\ ~Opens(list[i], input.program))

=============================================================================
