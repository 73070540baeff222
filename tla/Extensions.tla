----------------------------- MODULE Extensions -----------------------------
(***************************************************************************)
(* Instance and device extensions: what drivers, the loader and layers     *)
(* report, and what vkCreateInstance and vkCreateDevice accept (loader.c   *)
(* 952-1225, 1530-1646, 5631-5819, 7440-7582).  A driver is a record: the  *)
(* instance extensions it lists, the device extensions it lists, and       *)
(* whether its functions succeed.  Versions of extensions are left out.    *)
(***************************************************************************)
EXTENDS LayerActivation

CONSTANTS KnownExtensions,        \* LOADER_INSTANCE_EXTENSIONS
          UnsupportedExtensions,  \* surface extensions of other platforms
          LoaderExtensions        \* what the loader implements itself

\* loader_add_to_ext_list: what is already in the list is not added again.
AddToExtList(list, exts) ==
  FoldLeft(LAMBDA l, e : IF Contains(l, e) THEN l ELSE Append(l, e), list, exts)

\* loader_add_instance_extensions, without the extensions of other platforms'
\* surfaces (wsi_unsupported_instance_extension).
AddInstanceExtensions(driver) ==
  AddToExtList(<<>>, SelectSeq(driver.exts, LAMBDA e : e \notin UnsupportedExtensions))

\* loader_get_icd_loader_instance_extensions: the drivers', as far as the loader knows them
\* or the filter is off, and the loader's own.  A driver that fails ends the call.
LoaderInstanceExtensions(drivers, filter) ==
  LET known(d) == SelectSeq(AddInstanceExtensions(d), LAMBDA e : filter => e \in KnownExtensions)
      all == FoldLeft(LAMBDA l, d : AddToExtList(l, known(d)), <<>>, drivers)
  IN [ok |-> \A i \in DOMAIN drivers : drivers[i].ok,
      exts |-> ToSet(AddToExtList(all, LoaderExtensions))]

\* loader_validate_instance_extensions: an extension has to be known, and to come from a
\* driver, from the loader, or from a layer that is going to be activated.
ValidateInstanceExtensions(exts, icd_exts, source, expanded, filter) ==
  \A e \in exts :
    /\ filter => e \in KnownExtensions
    /\ e \in icd_exts \/ \E k \in DOMAIN expanded : e \in source[expanded[k]].exts

\* loader_validate_device_extensions.
ValidateDeviceExtensions(exts, driver, source, expanded) ==
  \A e \in exts : \/ Contains(driver.dexts, e)
                  \/ \E k \in DOMAIN expanded : e \in source[expanded[k]].dexts

(***************************************************************************)
(* terminator_EnumerateDeviceExtensionProperties.                          *)
(***************************************************************************)

\* The device extensions of the implicit layers in the chain, layer by layer.
ImplicitDeviceExtensions(source, expanded) ==
  FlattenSeq([k \in DOMAIN expanded |->
    IF source[expanded[k]].explicit THEN <<>> ELSE SetToSeq(source[expanded[k]].dexts)])

\* Without an array: the driver's extensions are put into a list and the layers' are added
\* to it; the answer is its length.
CountDeviceExtensions(driver, source, expanded) ==
  Len(AddToExtList(driver.dexts, ImplicitDeviceExtensions(source, expanded)))

\* The driver's own vkEnumerateDeviceExtensionProperties with the application's array: it writes
\* as many as there is room for, over what the array held.
DriverFills(driver, array) ==
  [result |-> IF Len(driver.dexts) > Len(array) THEN "VK_INCOMPLETE" ELSE "VK_SUCCESS",
   written |-> Min({Len(driver.dexts), Len(array)}),
   array |-> [k \in DOMAIN array |-> IF k <= Len(driver.dexts) THEN driver.dexts[k] ELSE array[k]]]

\* Faulty variant: the search goes through the whole array.
WriteDeviceExtensionAnywhere(state, e) ==
  IF state.result # "VK_SUCCESS" THEN state
  ELSE IF Contains(state.array, e) THEN state
  ELSE IF Len(state.array) <= state.written THEN [state EXCEPT !.result = "VK_INCOMPLETE"]
  ELSE [state EXCEPT !.array[state.written + 1] = e, !.written = @ + 1]

\* One extension of a layer: nothing is written once the call has returned, or if
\* has_vk_extension_property_array finds it among those written so far.
WriteDeviceExtension(state, e) ==
  IF state.result # "VK_SUCCESS" THEN state
  ELSE IF \E k \in 1 .. state.written : state.array[k] = e THEN state
  ELSE IF Len(state.array) <= state.written THEN [state EXCEPT !.result = "VK_INCOMPLETE"]
  ELSE [state EXCEPT !.array[state.written + 1] = e, !.written = @ + 1]

\* With an array, of which *pPropertyCount says the length: the driver writes to it and the
\* layers' extensions are written behind.  When VK_INCOMPLETE is returned, *pPropertyCount
\* still says the length of the array.
FillDeviceExtensions(driver, source, expanded, array) ==
  LET after == FoldLeft(WriteDeviceExtension, DriverFills(driver, array), ImplicitDeviceExtensions(source, expanded))
  IN [result |-> after.result, array |-> after.array,
      count |-> IF after.result = "VK_SUCCESS" THEN after.written ELSE Len(array)]
=============================================================================
