-------------------------- MODULE MCDebugMessengers --------------------------
(***************************************************************************)
(* Small instances of DebugMessengers.  The loader's handles are           *)
(* interchangeable, and so are a driver's: nothing compares or orders them.*)
(***************************************************************************)
EXTENDS DebugMessengers

Clean == {"slot_init", "list_init", "node", "uncleared"}
SomeEnvironments == {{}, Clean, Mishaps}
SlotsOnly == {{"slot_grow"}}

HandleSymmetry == Permutations(Handles) \cup Permutations(DriverHandles)
=============================================================================
