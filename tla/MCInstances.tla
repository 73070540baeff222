----------------------------- MODULE MCInstances -----------------------------
(***************************************************************************)
(* Small instances of Instances.  Liveness is checked, so no symmetry is   *)
(* declared.                                                               *)
(***************************************************************************)
EXTENDS Instances

SomeEnvironments == {{"layers", "entries"}, {"oom", "layers", "extensions"}}
MissingEntries == {{"entries"}}
=============================================================================
