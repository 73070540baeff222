-------------------------- MODULE LayerActivation ---------------------------
(***************************************************************************)
(* Which of the available layers are activated and in which order: layers  *)
(* of the settings file, implicit layers, layers of the environment and of *)
(* the application, and the chain that is built from them.                 *)
(*                                                                         *)
(* A loader_pointer_layer_list is a sequence of indices into the list of   *)
(* available layers.  `acc' is what the functions that add layers change:  *)
(* the list for vkEnumerateInstanceLayerProperties-like uses (target), the *)
(* list without meta-layers (expanded), and whether the recursion over     *)
(* meta-layers went deeper than there are layers.                          *)
(***************************************************************************)
EXTENDS LayerLists

(***************************************************************************)
(* The settings file's layers.                                             *)
(***************************************************************************)

\* The entry of a layer that is off has a name only, the place for the unordered
\* layers not even that.
NamedOnly(config) ==
  [BlankProperties EXCEPT !.name = IF config.control = "off" THEN config.name ELSE <<>>,
                          !.control = config.control]

\* The layers that a configuration's manifest adds behind `list': those with the
\* configuration's name, unless the list has one with that name and library.
ConfiguredLayers(list, config) ==
  LET add(l, p) ==
        LET same == \E k \in DOMAIN l : /\ l[k].name = p.name
                                        /\ ~p.meta /\ p.lib # "none" /\ l[k].lib = p.lib
        IN IF p.name # config.name \/ same THEN l ELSE Append(l, [p EXCEPT !.control = config.control])
  IN FoldLeft(add, list, AddLayerProperties(config.file, config.implicit))

\* get_settings_layers.
GetSettingsLayers(settings) ==
  LET add(list, config) == IF config.control \in {"off", "unordered"} THEN Append(list, NamedOnly(config))
                           ELSE ConfiguredLayers(list, config)
  IN IF ~settings.active THEN [list |-> <<>>, search |-> TRUE]
     ELSE [list |-> FoldLeft(add, <<>>, settings.layers),
           search |-> \E i \in DOMAIN settings.layers : settings.layers[i].control = "unordered"]

\* check_if_layer_is_in_list: the first entry of that name that decides.
CheckIfInList(list, prop, consider_lib) ==
  LET same == {i \in DOMAIN list : list[i].name = prop.name}
      decides(i) == \/ list[i].control = "off" \/ prop.meta \/ ~consider_lib
                    \/ list[i].lib # "none" /\ prop.lib # "none"
      first == {i \in same : decides(i) /\ \A j \in same : j < i => ~decides(j)}
  IN \E i \in first : list[i].control = "off" \/ prop.meta \/ ~consider_lib \/ list[i].lib = prop.lib

\* combine_settings_layers_with_regular_layers.
CombineSettings(settings, regular) ==
  LET at == {i \in DOMAIN settings : settings[i].control = "unordered"}
      place == Min(at)
      ordered(out, p) == IF CheckIfInList(out, p, TRUE) THEN out ELSE Append(out, p)
      unordered(out, p) == IF CheckIfInList(out, p, FALSE) \/ CheckIfInList(settings, p, FALSE)
                             THEN out ELSE Append(out, p)
      before == FoldLeft(ordered, <<>>, SubSeq(settings, 1, place - 1))
  IN IF settings = <<>> THEN regular
     ELSE IF regular = <<>> \/ at = {} THEN settings
     ELSE FoldLeft(ordered, FoldLeft(unordered, before, regular),
                   SubSeq(settings, place + 1, Len(settings)))

(***************************************************************************)
(* Adding layers.                                                          *)
(***************************************************************************)

NothingAdded == [target |-> <<>>, expanded |-> <<>>, overflow |-> FALSE]

\* loader_find_layer_name_in_list.
NameInList(name, source, list) == \E k \in DOMAIN list : source[list[k]].name = name

\* loader_add_layer_properties_to_list, to both lists.
AddToBoth(acc, i) ==
  [acc EXCEPT !.target = Append(@, i), !.expanded = Append(@, i)]

RECURSIVE AddMetaDeep(_, _, _, _, _, _)

\* loader_add_implicit_layer.
AddImplicitDeep(acc, i, source, filters, included, depth) ==
  IF ~ImplicitIsEnabled(source[i], filters, included) THEN acc
  ELSE IF source[i].meta THEN AddMetaDeep(acc, i, source, filters, included, depth)
  ELSE IF NameInList(source[i].name, source, acc.target) THEN acc
  ELSE AddToBoth(acc, i)

\* loader_add_meta_layer.  A component that is not in the list keeps the meta-layer out
\* of the target list; one missing further down does not, because the flag of a nested
\* call is only ever written when everything was found.
AddMetaDeep(acc, i, source, filters, included, depth) ==
  LET component(a, name) ==
        LET c == FindLayer(name, source)
        IN IF c = 0 \/ (c # 0 /\ ~LayerIsAvailable(source[c], filters)) THEN a
           ELSE IF ~source[c].explicit THEN AddImplicitDeep(a, c, source, filters, included, depth - 1)
           ELSE IF source[c].meta THEN AddMetaDeep(a, c, source, filters, included, depth - 1)
           ELSE IF NameInList(name, source, a.target) THEN a
           ELSE AddToBoth(a, c)
      found == \A k \in DOMAIN source[i].components : FindLayer(source[i].components[k], source) # 0
      after == FoldLeft(component, acc, source[i].components)
  IN IF depth = 0 THEN [acc EXCEPT !.overflow = TRUE]
     ELSE IF found THEN [after EXCEPT !.target = Append(@, i)] ELSE after

AddImplicit(acc, i, source, filters, included) ==
  AddImplicitDeep(acc, i, source, filters, included, Len(source) + 1)

AddMeta(acc, i, source, filters, included) ==
  AddMetaDeep(acc, i, source, filters, included, Len(source) + 1)

\* The two ways in which a layer that was asked for is added.
AddLayer(acc, i, source, filters, included) ==
  IF source[i].meta THEN AddMeta(acc, i, source, filters, included) ELSE AddToBoth(acc, i)

\* loader_add_implicit_layers.  A layer whose name occurs anywhere in VK_INSTANCE_LAYERS,
\* be it as a part of another name, is left to loader_add_environment_layers.
AddImplicitLayers(acc, source, filters, included, env_names) ==
  LET left(i) == \E k \in DOMAIN env_names : IsSubstring(source[i].name, env_names[k])
      add(a, i) == IF source[i].explicit \/ left(i) THEN a
                   ELSE AddImplicit(a, i, source, filters, included)
  IN FoldLeft(add, acc, [i \in DOMAIN source |-> i])

\* loader_add_environment_layers: the names of VK_INSTANCE_LAYERS, whatever the filters say,
\* then the explicit layers that VK_LOADER_LAYERS_ENABLE selects.
AddEnvironmentLayers(acc, source, filters, included, env_names) ==
  LET named(a, name) ==
        LET i == FindLayer(name, source)
        IN IF i = 0 \/ (i # 0 /\ NameInList(name, source, a.target)) THEN a
           ELSE AddLayer(a, i, source, filters, included)
      selected(a, i) == IF /\ source[i].explicit
                           /\ NameMatchesFilter(source[i].name, filters.enable_filter)
                           /\ ~NameInList(source[i].name, source, a.target)
                          THEN AddLayer(a, i, source, filters, included) ELSE a
  IN FoldLeft(selected, FoldLeft(named, acc, env_names), [i \in DOMAIN source |-> i])

\* loader_add_layer_names_to_list, for the names the application gives.  (All of them
\* are in the list: loader_validate_layers has run.)
AddLayerNames(acc, source, filters, included, names) ==
  LET add(a, name) ==
        LET i == FindLayer(name, source)
        IN IF \/ i = 0
              \/ i # 0 /\ NameInList(name, source, a.target)
              \/ i # 0 /\ ~LayerIsAvailable(source[i], filters)
             THEN a ELSE AddLayer(a, i, source, filters, included)
  IN FoldLeft(add, acc, names)

\* enable_correct_layers_from_settings: every layer once, in the list's order.
EnableFromSettings(source, filters, included, env_names, names) ==
  LET disabled(p) == DisabledByFilter(p.name, filters.disable_filter.disable_all_implicit, filters)
      enabled(p) == \/ p.control = "on"
                    \/ /\ p.control = "auto"
                       /\ ~disabled(p)
                       /\ \/ NameMatchesFilter(p.name, filters.enable_filter)
                          \/ Contains(env_names, p.name)
                          \/ Contains(names, p.name)
                          \/ ~p.explicit /\ ImplicitIsEnabled(p, filters, included)
      add(a, i) == IF enabled(source[i]) THEN AddLayer(a, i, source, filters, included) ELSE a
  IN FoldLeft(add, NothingAdded, [i \in DOMAIN source |-> i])

\* loader_enable_instance_layers.
EnableInstanceLayers(source, filters, included, settings_active, env_names, names) ==
  LET implicit == AddImplicitLayers(NothingAdded, source, filters, included, env_names)
      environment == AddEnvironmentLayers(implicit, source, filters, included, env_names)
  IN IF settings_active THEN EnableFromSettings(source, filters, included, env_names, names)
     ELSE AddLayerNames(environment, source, filters, included, names)

(***************************************************************************)
(* Validation, and the chains.                                             *)
(***************************************************************************)

\* loader_validate_layers.
ValidateLayers(source, settings_active, names) ==
  \A k \in DOMAIN names :
    LET i == FindLayer(names[k], source)
    IN i # 0 /\ (settings_active => source[i].control \in {"on", "auto"})

\* loader_open_layer_file opens a layer's library and finds its vkGetInstanceProcAddr; `empty' says
\* whether the program itself, which is what dlopen returns for a layer without a lib_name, has one.
Opens(prop, empty) == prop.lib \in {"good", "instance"} \/ (prop.lib = "none" /\ empty)

\* One layer on the way from the drivers to the application: linked once by its name, and
\* passed over if it does not open.
Link(source, chain, i, empty) ==
  IF NameInList(source[i].name, source, chain) \/ ~Opens(source[i], empty) THEN chain ELSE Append(chain, i)

\* Faulty variant: the list is walked from its beginning.
InstanceChainForward(source, expanded, empty) ==
  FoldLeft(LAMBDA chain, i : Link(source, chain, i, empty), <<>>, expanded)

\* Faulty variant: the loop ends at a layer that does not open.
InstanceChainStops(source, expanded, empty) ==
  LET back == Reverse(expanded)
      closed == {k \in DOMAIN back : ~Opens(source[back[k]], empty)}
  IN FoldLeft(LAMBDA chain, i : Link(source, chain, i, empty), <<>>,
              SubSeq(back, 1, Min(closed \cup {Len(back) + 1}) - 1))

\* The part of loader_create_instance_chain that links the layers, from the one next to
\* the drivers to the one next to the application; the result is in this order.
InstanceChain(source, expanded, empty) ==
  FoldLeft(LAMBDA chain, i : Link(source, chain, i, empty), <<>>, Reverse(expanded))

\* The test after it: a layer the application asked for has to be in the chain.
ChainComplete(source, expanded, chain, names) ==
  \A k \in DOMAIN expanded : \/ NameInList(source[expanded[k]].name, source, chain)
                             \/ ~Contains(names, source[expanded[k]].name)

\* The same part of loader_create_device_chain: libraries stay open, and a layer without a
\* vkGetDeviceProcAddr is skipped.
DeviceChain(source, expanded, empty) ==
  SelectSeq(InstanceChain(source, expanded, empty), LAMBDA i : source[i].lib # "instance")
=============================================================================
