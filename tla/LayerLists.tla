----------------------------- MODULE LayerLists -----------------------------
(***************************************************************************)
(* Lists of layers: how the scan cleans the list of available layers, and  *)
(* how the layers to activate are picked from it (loader.c 756-950,        *)
(* 1226-1528, 2540-2775, 4288-4307, 4699-4790; settings.c 930-1269;        *)
(* loader_environment.c).  Everything here is a function of its    *)
(* arguments; module Layers is the sequence of calls.                      *)
(***************************************************************************)
EXTENDS Integers, EnvFilters, LayerManifests, FiniteSetsExt

\* loader_find_layer_property: the first entry with this name, or 0.
FindLayer(name, list) ==
  LET found == {i \in DOMAIN list : list[i].name = name}
  IN IF found = {} THEN 0 ELSE Min(found)

\* loader_remove_layer_in_list: nothing happens for an index that is not in the list.
RemoveLayer(list, i) == IF i \in DOMAIN list THEN RemoveAt(list, i) ELSE list

(***************************************************************************)
(* Which layers the environment lets through.                              *)
(***************************************************************************)

\* Faulty variant: the names of VK_LOADER_LAYERS_DISABLE are not looked at.
DisabledByFilterNoNames(name, by_type, filters) ==
  /\ filters.disable_filter.disable_all \/ by_type
  /\ ~NameMatchesFilter(name, filters.allow_filter)

\* The test that loader_layer_is_available, loader_implicit_layer_is_enabled and
\* enable_correct_layers_from_settings share.
DisabledByFilter(name, by_type, filters) ==
  /\ \/ filters.disable_filter.disable_all
     \/ by_type
     \/ NameMatchesFilter(name, filters.disable_filter.additional_filters)
  /\ ~NameMatchesFilter(name, filters.allow_filter)

\* loader_layer_is_available.
LayerIsAvailable(prop, filters) ==
  \/ ~DisabledByFilter(prop.name,
                       IF prop.explicit THEN filters.disable_filter.disable_all_explicit
                       ELSE filters.disable_filter.disable_all_implicit, filters)
  \/ NameMatchesFilter(prop.name, filters.enable_filter)

\* loader_implicit_layer_is_enabled.  `enable' says whether the layer has an enable
\* variable and whether it is set, `disable' that its disable variable is set;
\* `included' are the components of the override layer, once there is one.
ImplicitIsEnabled(prop, filters, included) ==
  LET disabled == DisabledByFilter(prop.name, filters.disable_filter.disable_all_implicit, filters)
      forced == NameMatchesFilter(prop.name, filters.enable_filter)
      enable == prop.enable \in {"always", "set"}
  IN IF ~forced /\ enable /\ disabled THEN FALSE
     ELSE ((enable \/ forced) /\ ~prop.disable) \/ prop.name \in included

(***************************************************************************)
(* Override layers.  The loop over the keys of one entry goes on with the  *)
(* entry that takes the place of a removed one, and steps back once for    *)
(* every removal.                                                          *)
(***************************************************************************)

RECURSIVE AppKeys(_, _, _, _, _), OverrideLoop(_, _, _, _)

AppKeys(list, i, at, j, found) ==
  IF at \notin DOMAIN list \/ j > Len(list[at].keys) THEN [list |-> list, i |-> i, found |-> found]
  ELSE IF list[at].keys[j] # "this" THEN AppKeys(list, i, at, j + 1, found)
  ELSE IF ~found THEN AppKeys(list, i, at, j + 1, TRUE)
  ELSE AppKeys(RemoveLayer(list, i), i - 1, at, j + 1, found)

OverrideLoop(list, i, found, global) ==
  IF i \notin DOMAIN list
    THEN IF found /\ global > 0 THEN RemoveLayer(list, global) ELSE list
  ELSE IF list[i].name # OverrideName THEN OverrideLoop(list, i + 1, found, global)
  ELSE IF list[i].keys # <<>>
    THEN LET after == AppKeys(list, i, i, 1, found)
         IN IF after.found THEN OverrideLoop(after.list, after.i + 1, TRUE, global)
            ELSE OverrideLoop(RemoveLayer(after.list, i), i, FALSE, global)
  ELSE IF global = 0 THEN OverrideLoop(list, i + 1, found, i)
  ELSE OverrideLoop(RemoveLayer(list, i), i, found, global)

\* remove_all_non_valid_override_layers.
RemoveNonValidOverrides(list) == OverrideLoop(list, 1, FALSE, 0)

\* loader_remove_layers_in_blacklist, by the first override layer in the list.
RemoveBlacklisted(list) ==
  LET o == FindLayer(OverrideName, list)
  IN IF o = 0 THEN list
     ELSE SelectSeq(list, LAMBDA p : p.name = OverrideName \/ p.name \notin list[o].blacklist)

\* loader_remove_layers_not_in_implicit_meta_layers.
RemoveNotInMeta(list) ==
  LET kept(i) == \/ ~list[i].explicit
                 \/ \E j \in DOMAIN list \ {i} : list[j].meta /\ Contains(list[j].components, list[i].name)
      indices == SelectSeq([i \in DOMAIN list |-> i], kept)
  IN [k \in DOMAIN indices |-> list[indices[k]]]

RECURSIVE DuplicateLoop(_, _)
DuplicateLoop(list, i) ==
  LET later == {j \in DOMAIN list : j > i /\ list[j].name = list[i].name}
  IN IF i \notin DOMAIN list THEN list
     ELSE DuplicateLoop(IF later = {} THEN list ELSE RemoveAt(list, Min(later)), i + 1)

\* loader_remove_duplicate_layers: one duplicate of each entry is removed.
RemoveDuplicates(list) == DuplicateLoop(list, 1)

(***************************************************************************)
(* Meta-layers.                                                            *)
(***************************************************************************)

\* Faulty variant: a meta-layer that was visited before is taken to be valid.
RECURSIVE VerifyMetaCyclic(_, _, _)
VerifyMetaCyclic(list, i, checked) ==
  LET component(state, name) ==
        LET c == FindLayer(name, list)
            deep == Max({k \in DOMAIN list : list[k].name = name} \cup {0})
        IN IF ~state.ok THEN state
           ELSE IF \/ c = 0
                   \/ c # 0 /\ ~VersionMeetsRequired(list[i].version, list[c].version)
                   \/ name = list[i].name
             THEN [state EXCEPT !.ok = FALSE]
           ELSE IF ~list[c].meta THEN state
           ELSE IF deep \in state.checked THEN state
           ELSE VerifyMetaCyclic(list, deep, state.checked)
  IN FoldLeft(component, [ok |-> TRUE, checked |-> checked \cup {i}], list[i].components)

\* verify_meta_layer_component_layers.  The array of layers that were checked is
\* shared by the whole recursion and nothing is ever taken out of it.
RECURSIVE VerifyMeta(_, _, _)
VerifyMeta(list, i, checked) ==
  LET component(state, name) ==
        LET c == FindLayer(name, list)
            deep == Max({k \in DOMAIN list : list[k].name = name} \cup {0})
        IN IF ~state.ok THEN state
           ELSE IF \/ c = 0
                   \/ c # 0 /\ ~VersionMeetsRequired(list[i].version, list[c].version)
                   \/ name = list[i].name
             THEN [state EXCEPT !.ok = FALSE]
           ELSE IF ~list[c].meta THEN state
           ELSE IF deep \in state.checked THEN [state EXCEPT !.ok = FALSE]
           ELSE VerifyMeta(list, deep, state.checked)
  IN FoldLeft(component, [ok |-> TRUE, checked |-> checked \cup {i}], list[i].components)

\* update_meta_layer_extensions_from_component_layers.
UpdateMetaExtensions(list, i) ==
  LET components == {list[FindLayer(name, list)] : name \in ToSet(list[i].components)}
  IN [list EXCEPT ![i].exts = @ \cup UNION {c.exts : c \in components},
                  ![i].dexts = @ \cup UNION {c.dexts : c \in components}]

RECURSIVE VerifyLoop(_, _, _, _)
VerifyLoop(list, i, filters, overridden) ==
  IF i \notin DOMAIN list THEN [list |-> list, overridden |-> overridden]
  ELSE IF ~list[i].meta THEN VerifyLoop(list, i + 1, filters, overridden)
  ELSE IF VerifyMeta(list, i, {}).ok
    THEN VerifyLoop(UpdateMetaExtensions(list, i), i + 1, filters,
                    overridden \/ (list[i].name = OverrideName /\ ImplicitIsEnabled(list[i], filters, {})))
  ELSE VerifyLoop(RemoveAt(list, i), i, filters, overridden)

\* verify_all_meta_layers: the list without the invalid ones, and whether a valid
\* override layer is among the others.
VerifyAllMeta(list, filters) == VerifyLoop(list, 1, filters, FALSE)
=============================================================================
