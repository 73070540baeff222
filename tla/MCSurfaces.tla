----------------------------- MODULE MCSurfaces -----------------------------
(***************************************************************************)
(* Small instances of Surfaces.  The loader's handles are interchangeable, *)
(* and so are a driver's: nothing compares or orders them.                 *)
(***************************************************************************)
EXTENDS Surfaces, TLC

CONSTANTS t1, t2

Env(threads, oom, app) == [threads |-> threads, oom |-> oom, app_allocator |-> app]

SomeEnvironments == {Env({t1}, FALSE, FALSE), Env({t1}, TRUE, FALSE),
                     Env({t1}, TRUE, TRUE), Env({t1, t2}, TRUE, FALSE)}
Racing == {Env({t1, t2}, FALSE, FALSE)}

HandleSymmetry == Permutations(Handles) \cup Permutations(DriverHandles)
=============================================================================
