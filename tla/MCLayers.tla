------------------------------ MODULE MCLayers ------------------------------
(***************************************************************************)
(* Inputs for module Layers, in families that each vary one mechanism.     *)
(***************************************************************************)
EXTENDS Layers

A == <<"a", "x", "y">>
AB == <<"b", "a", "x", "y">>   \* a name that contains A
B == <<"b", "c", "d">>
M == <<"m", "m", "m">>
O == <<"o", "o", "o">>
MCKnown == {"surface", "debug", "a", "m"}
MCLoader == <<"debug">>
MCRequests == {<<>>, <<A>>, <<B, A>>, <<M>>, <<AB>>}

Keys == {"name", "type", "api_version", "implementation_version", "description",
         "library_path", "disable_environment"}

\* A manifest's layer object.
Layer(name) ==
  [has |-> Keys, name |-> name, type |-> "INSTANCE", variant |-> 0, version |-> 1, lib |-> "good",
   components |-> <<>>, blacklist |-> {}, paths |-> FALSE, keys |-> <<>>, arch |-> "this",
   disable |-> FALSE, enable |-> "always", exts |-> {Head(name)}, dexts |-> {Head(name)}]
Meta(name, components) ==
  [Layer(name) EXCEPT !.has = (Keys \ {"library_path"}) \cup {"component_layers"},
                      !.components = components, !.exts = {}, !.dexts = {}]
File(layer) == [json |-> TRUE, has_version |-> TRUE, several |-> FALSE, layers |-> <<layer>>]
Files(layers) == [i \in DOMAIN layers |-> File(layers[i])]

NoSettings == [active |-> FALSE, layers |-> <<>>]
Plain(implicit, explicit) ==
  [implicit |-> Files(implicit), explicit |-> Files(explicit), overridden |-> <<>>, enable |-> <<>>,
   disable |-> <<>>, allow |-> <<>>, instance_layers |-> <<>>, settings |-> NoSettings, program |-> TRUE,
   drivers |-> <<[exts |-> <<"surface", "display">>, dexts |-> <<"swapchain">>, ok |-> TRUE]>>, filter |-> FALSE]

Tokens == {AllLayers, ImplicitLayers, A, <<"*">>, <<"*", "y">>, <<"*", "x", "y">>,
           <<"b", "a", "*">>, <<"*", "a", "x", "*">>}
Lists == {<<>>} \cup {<<t>> : t \in Tokens}

\* Filters over an implicit and two explicit layers.
FilterInputs ==
  {[Plain(<<Layer(A)>>, <<Layer(AB), Layer(B)>>) EXCEPT !.enable = e, !.disable = d, !.allow = a,
                                                        !.instance_layers = n] :
     e \in Lists \cup {<<B, A>>}, d \in Lists \cup {<<ExplicitLayers, B, A, AB>>}, a \in Lists, n \in {<<>>, <<AB, A>>}}

\* Environment variables of implicit layers.
ImplicitInputs ==
  {[Plain(<<[Layer(A) EXCEPT !.enable = e, !.disable = d], Layer(M)>>, <<Layer(B)>>)
      EXCEPT !.enable = f, !.instance_layers = n] :
     e \in {"always", "set", "unset"}, d \in BOOLEAN, f \in {<<>>, <<A>>, <<B>>},
     n \in {<<>>, <<B>>, <<B, A>>, <<AB>>}}

\* Override layers: application keys, a blacklist, directories of their own.
Override(keys, blacklist, paths) ==
  [Meta(O, <<A, B>>) EXCEPT !.keys = keys, !.blacklist = blacklist, !.paths = paths]
KeyLists == {<<>>, <<"this">>, <<"other">>, <<"other", "this">>}
OverrideInputs ==
  {[Plain(<<Override(k1, bl, p), Override(k2, {}, FALSE), Layer(A)>>, <<Layer(B), Layer(M)>>)
      EXCEPT !.overridden = Files(<<Layer(B)>>), !.disable = d] :
     k1 \in KeyLists, k2 \in KeyLists, bl \in {{}, {M}, {A}}, p \in BOOLEAN, d \in {<<>>, <<B>>, <<O>>}}

\* Meta-layers: every graph of three, over two plain layers that may not open, or not be enabled.
Components == {<<>>, <<A>>, <<B, A>>, <<M>>, <<AB>>, <<O, B>>, <<B, AB>>}
Pairs == {<<Layer(A), Layer(B)>>, <<[Layer(A) EXCEPT !.enable = "unset"], Layer(B)>>,
          <<[Layer(A) EXCEPT !.lib = "bad"], Layer(B)>>, <<Layer(A), [Layer(B) EXCEPT !.lib = "bad"]>>}
MetaInputs ==
  {[Plain(<<Meta(M, c1), p[1]>>, <<Meta(AB, c2), [Meta(<<"z", "z", "z">>, c3) EXCEPT !.version = v], p[2]>>)
      EXCEPT !.disable = d] :
     c1 \in Components, c2 \in Components, c3 \in {<<AB>>, <<M, AB>>, <<A>>}, v \in {0, 2}, d \in {<<>>, <<A>>},
     p \in Pairs}

\* Two layers of one name, one a meta-layer at least.
TwiceInputs ==
  {Plain(<<Meta(M, c1), Layer(A)>>, <<first, second, Layer(B)>>) :
     c1 \in {<<A>>, <<AB>>}, first \in {Layer(AB), Meta(AB, <<M>>), Meta(AB, <<A>>), Meta(M, <<AB>>)},
     second \in {Layer(AB), Layer(M), Meta(AB, <<>>), Meta(AB, <<M>>), Meta(M, <<B>>)}}

\* Libraries that do not load, duplicates, manifests that are not accepted.
LibraryInputs ==
  {Plain(<<[Layer(A) EXCEPT !.lib = l1]>>,
         <<[Layer(B) EXCEPT !.lib = l2], [Layer(n) EXCEPT !.lib = "good", !.arch = r], Layer(M)>>) :
     l1 \in {"good", "instance", "mute", "bad"}, l2 \in {"good", "instance", "mute", "bad"},
     n \in {A, B}, r \in {"this", "other"}}
ManifestInputs ==
  {Plain(<<>>, <<[Layer(A) EXCEPT !.has = h, !.variant = v, !.type = t], Layer(B)>>) :
     h \in {Keys, Keys \cup {"component_layers"}} \cup {Keys \ {k} : k \in Keys},
     v \in {0, 1}, t \in {"INSTANCE", "DEVICE"}}

\* Drivers that fail, that have a layer's extensions too, or extensions that are not known; two
\* implicit layers, which may have a device extension in common.
Drivers == {<<>>} \cup {<<[exts |-> e, dexts |-> d, ok |-> k]>> :
                          e \in {<<"surface">>, <<"new", "surface">>}, d \in {<<>>, <<"a", "swapchain">>}, k \in BOOLEAN}
DriverInputs ==
  {[Plain(<<Layer(A), [Layer(M) EXCEPT !.dexts = x]>>, <<Layer(B)>>) EXCEPT !.drivers = d1 \o d2, !.filter = f] :
     d1 \in Drivers, d2 \in Drivers, x \in {{}, {"a", "m"}}, f \in BOOLEAN}

\* A settings file, over the implicit layer A and the explicit layer B.
Config(name, control, layer) ==
  [name |-> name, control |-> control, file |-> File(layer), implicit |-> name = A]
Configs == {Config(A, c, Layer(A)) : c \in {"auto", "on", "off"}}
             \cup {Config(B, c, Layer(B)) : c \in {"auto", "on", "off"}}
             \cup {Config(A, "on", Layer(B)), Config(B, "auto", Meta(B, <<A, B>>)),
                   Config(<<>>, "unordered", Layer(A))}
SettingsInputs ==
  {[Plain(<<Layer(A), Layer(M)>>, <<Layer(B)>>) EXCEPT
      !.settings = [active |-> TRUE, layers |-> <<c1, c2, c3>>], !.disable = d, !.instance_layers = n] :
     c1 \in Configs, c2 \in Configs,
     c3 \in {Config(A, "auto", Layer(A)), Config(B, "off", Layer(B)), Config(B, "auto", Meta(B, <<A, B>>)),
             Config(<<>>, "unordered", Layer(A))}, d \in {<<>>, <<B>>}, n \in {<<>>, <<B>>}}

MCInputs == FilterInputs \cup ImplicitInputs \cup OverrideInputs \cup MetaInputs \cup TwiceInputs
              \cup LibraryInputs \cup ManifestInputs \cup DriverInputs \cup SettingsInputs
=============================================================================
