----------------------------- MODULE MCDevices ------------------------------
(***************************************************************************)
(* Small instances of Devices: the drivers have the names f and h, the     *)
(* layers g; there is one slot less than names.                            *)
(***************************************************************************)
EXTENDS Devices, TLC

CONSTANTS t1, t2, f, g, h

SomeOffers == [d \in Drivers |-> IF d = 1 THEN {f} ELSE {h}]

Env(devices, queries, fails) == [devices |-> devices, queries |-> queries, fails |-> fails]

SomeEnvironments == {Env({t1}, {t1}, TRUE), Env({t1}, {t1}, FALSE), Env({t1}, {t2}, TRUE),
                     Env({t1, t2}, {t2}, FALSE)}
Failing == {Env({t1}, {}, TRUE)}
TwoQueries == {Env({}, {t1, t2}, FALSE)}

AddrSymmetry == Permutations(DevAddr)
=============================================================================
