----------------------------- MODULE MCDispatch -----------------------------
(* Every command of the loader's tables, in every setting that matters to it. *)
EXTENDS Dispatch
=============================================================================
